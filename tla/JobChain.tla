------------------------------ MODULE JobChain ------------------------------
(***************************************************************************)
(* A SPURS job chain on the host: the thread that scans the command stream *)
(* (libs/spurs/spurs_jobchain_exec.inc), the two workers that run its      *)
(* ordinary jobs (job_parallel_pool.h), and the guest threads that run,    *)
(* shut down and join the chain and work its guard.  A command is read     *)
(* from memory when the scanner reaches it: the snapshots of commands that *)
(* are published under the scanner are not modelled.                       *)
(***************************************************************************)
EXTENDS Integers, Sequences, FiniteSets

CONSTANTS
    Callers,      \* guest threads
    Programs,     \* the command streams the guest may give the chain
    Original,     \* the count the guard is initialised with
    MaxCalls      \* depth of the call stack

Workers == 1..2

Abort   == 0 - 1      \* CELL_SPURS_JOB_ERROR_ABORT
Unknown == 0 - 2      \* ..._UNKNOWN_CMD
Fault   == 0 - 3      \* ..._FAULT

VARIABLES
    mem,          \* the command stream in guest memory
    run,          \* running, complete, shutdown, error, valid (thread), joined
    cur, calls,   \* current_ea, the call stack
    scan,         \* the scanner: where it is, its command, jobs left of it, its rc
    asleep,       \* the scanner sleeps on the pool's condition variable
    pool,         \* on, stop, error, sequence of the error, next sequence
    wk,           \* per worker: where it is, busy, the sequence of its job
    done, failed, \* history: sequences of the jobs of this run that ended, that failed
    guard,        \* its count in guest memory, which its host mirror follows; auto_reset
    jpc           \* per guest thread: inside cellSpursJoinJobChain or not

poolVars  == <<pool, wk, done, failed, asleep>>
guestVars == <<mem, guard, jpc>>
jobVars   == <<mem, run, cur, calls, scan, asleep, pool, wk, done, failed, guard, jpc>>

NoCmd   == [op |-> "nop"]
OffScan == [at |-> "off", cmd |-> NoCmd, left |-> 0, rc |-> 0]
NoPool  == [on |-> FALSE, serial |-> TRUE, stop |-> FALSE, error |-> 0, errSeq |-> 0, next |-> 0]
NoWork  == [at |-> "none", busy |-> FALSE, seq |-> 0]

Init ==
    /\ mem \in Programs
    /\ run = [running |-> FALSE, complete |-> FALSE, shutdown |-> FALSE, error |-> 0,
              valid |-> FALSE, joined |-> FALSE]
    /\ cur = 1 /\ calls = <<>>
    /\ scan = OffScan /\ asleep = FALSE
    /\ pool = NoPool /\ wk = [w \in Workers |-> NoWork]
    /\ done = {} /\ failed = {}
    /\ guard \in [live : {Original}, auto : BOOLEAN]
    /\ jpc = [c \in Callers |-> "idle"]

-----------------------------------------------------------------------------
(* the guest *)

\* A thread of an earlier run has ended: it does nothing after Finish.
RunChain(c, created) ==
    /\ jpc[c] = "idle" /\ ~run.running
    /\ run' = [running |-> created, complete |-> FALSE, shutdown |-> FALSE, error |-> 0,
               valid |-> created, joined |-> FALSE]
    /\ cur' = 1 /\ calls' = <<>>
    /\ scan' = [OffScan EXCEPT !.at = IF created THEN "create" ELSE "off"]
    /\ pool' = NoPool /\ done' = {} /\ failed' = {}
    /\ UNCHANGED <<asleep, wk, guestVars>>

\* The broadcast on the chain and its guards: joiners look again; the scanner's
\* own waits there are timed and look again anyway.
JoinersAwake == [c \in Callers |-> IF jpc[c] = "asleep" THEN "join" ELSE jpc[c]]

Shutdown(c) ==
    /\ jpc[c] = "idle"
    /\ run' = [run EXCEPT !.shutdown = TRUE]
    /\ jpc' = JoinersAwake
    /\ UNCHANGED <<mem, cur, calls, scan, poolVars, guard>>

JoinCall(c) ==
    /\ jpc[c] = "idle"
    /\ jpc' = [jpc EXCEPT ![c] = "join"]
    /\ UNCHANGED <<mem, run, cur, calls, scan, poolVars, guard>>

JoinWaits(c) ==
    /\ jpc[c] = "join" /\ ~run.complete
    /\ jpc' = [jpc EXCEPT ![c] = "asleep"]
    /\ UNCHANGED <<mem, run, cur, calls, scan, poolVars, guard>>

JoinEnds(c) ==
    /\ jpc[c] = "join" /\ run.complete
    /\ jpc' = [jpc EXCEPT ![c] = "idle"]
    /\ run' = [run EXCEPT !.joined = @ \/ run.valid, !.valid = FALSE]
    /\ UNCHANGED <<mem, cur, calls, scan, poolVars, guard>>

\* cellSpursJobGuardNotify
Notify(c) ==
    /\ jpc[c] = "idle" /\ guard.live > 0
    /\ guard' = [guard EXCEPT !.live = @ - 1]
    /\ UNCHANGED <<mem, run, cur, calls, scan, poolVars, jpc>>

\* The same decrement by an SPU program, which wakes nobody.
SpuNotifies ==
    /\ guard.live > 0
    /\ guard' = [guard EXCEPT !.live = @ - 1]
    /\ UNCHANGED <<mem, run, cur, calls, scan, poolVars, jpc>>

GuardReset(c) ==
    /\ jpc[c] = "idle"
    /\ guard' = [guard EXCEPT !.live = Original]
    /\ UNCHANGED <<mem, run, cur, calls, scan, poolVars, jpc>>

IsSelf(i) == mem[i].op = "next" /\ mem[i].to = i

\* The producer replaces the link of an unused slot to itself by a job.
Publish(i) ==
    /\ IsSelf(i)
    /\ mem' = [mem EXCEPT ![i] = [op |-> "job"]]
    /\ UNCHANGED <<run, cur, calls, scan, poolVars, guard, jpc>>

-----------------------------------------------------------------------------
(* job_pool_create, and the workers *)

ScanTo(where) == scan' = [scan EXCEPT !.at = where]

CreateSerial ==
    /\ scan.at = "create"
    /\ ScanTo("fetch")
    /\ UNCHANGED <<run, cur, calls, poolVars, guestVars>>

\* n workers can be created; one that cannot sends the chain back to serial jobs.
CreatePool(n) ==
    /\ scan.at = "create"
    /\ pool' = [NoPool EXCEPT !.on = TRUE, !.serial = n < 2]
    /\ wk' = [w \in Workers |-> [NoWork EXCEPT !.at = IF w <= n THEN "look" ELSE "none"]]
    /\ ScanTo(IF n < 2 THEN "drainEnd" ELSE "fetch")
    /\ UNCHANGED <<run, cur, calls, asleep, done, failed, guestVars>>

\* mutant: a worker that has ended wakes nobody
WakesNobody(ws) == ws

\* cv_wake_all on the pool: of the workers here, of the scanner by asleep' = FALSE.
Woken(ws) == [w \in Workers |-> IF ws[w].at = "asleep" THEN [ws[w] EXCEPT !.at = "look"] ELSE ws[w]]

WorkerLooks(w) ==
    /\ wk[w].at = "look"
    /\ wk' = [wk EXCEPT ![w].at = IF pool.stop THEN "over"
                                  ELSE IF wk[w].busy THEN "run" ELSE "asleep"]
    /\ UNCHANGED <<run, cur, calls, scan, asleep, pool, done, failed, guestVars>>

Keeps(seq) == pool.error = 0 \/ seq < pool.errSeq

\* The job of sequence n fails with the error n.
WorkerEnds(w, fails) ==
    LET n == wk[w].seq IN
    /\ wk[w].at = "run"
    /\ pool' = IF fails /\ Keeps(n) THEN [pool EXCEPT !.error = n, !.errSeq = n] ELSE pool
    /\ wk' = Woken([wk EXCEPT ![w] = [at |-> "look", busy |-> FALSE, seq |-> n]])
    /\ asleep' = FALSE
    /\ done' = done \cup {n}
    /\ failed' = IF fails THEN failed \cup {n} ELSE failed
    /\ UNCHANGED <<run, cur, calls, scan, guestVars>>

-----------------------------------------------------------------------------
(* execute_chain *)

Returns(rc) == scan' = [scan EXCEPT !.at = IF pool.on THEN "drainEnd" ELSE "finish", !.rc = rc]

\* mutant: control commands do not wait for the jobs before them
NothingFirst(cmd) == "exec"

\* What comes before a command: a free worker for jobs, none that is busy for others.
First(cmd) == IF pool.on THEN "drain" ELSE "exec"

Fetch ==
    /\ scan.at = "fetch"
    /\ IF run.shutdown THEN Returns(0)
       ELSE IF cur \notin DOMAIN mem THEN Returns(Fault)
       ELSE scan' = [scan EXCEPT !.cmd = mem[cur],
                                 !.left = IF mem[cur].op = "job" THEN 1 ELSE 0,
                                 !.at = IF mem[cur].op = "job" THEN "submit" ELSE First(mem[cur])]
    /\ UNCHANGED <<run, cur, calls, poolVars, guestVars>>

JobsBusy == \E w \in Workers : wk[w].busy

Drain ==
    /\ scan.at = "drain" /\ ~asleep
    /\ IF JobsBusy THEN asleep' = TRUE /\ UNCHANGED scan
       ELSE /\ IF pool.error # 0 THEN Returns(pool.error) ELSE ScanTo("exec")
            /\ UNCHANGED asleep
    /\ UNCHANGED <<run, cur, calls, pool, wk, done, failed, guestVars>>

\* The jump commands, as they set current_ea and the call stack.
Jump(to, stack) ==
    /\ cur' = to /\ calls' = stack /\ ScanTo("fetch")

Exec ==
    /\ scan.at = "exec"
    /\ LET c == scan.cmd IN
       \/ c.op = "nop" /\ Jump(cur + 1, calls)
       \/ c.op = "next" /\ c.to # cur /\ Jump(c.to, calls)
       \/ c.op = "next" /\ c.to = cur /\ ScanTo("park") /\ UNCHANGED <<cur, calls>>
       \/ c.op = "resetpc" /\ Jump(c.to, <<>>)
       \/ c.op = "call" /\ Len(calls) < MaxCalls /\ Jump(c.to, Append(calls, cur + 1))
       \/ c.op = "call" /\ Len(calls) >= MaxCalls /\ Returns(Unknown) /\ UNCHANGED <<cur, calls>>
       \/ c.op = "ret" /\ calls # <<>> /\ Jump(calls[Len(calls)], SubSeq(calls, 1, Len(calls) - 1))
       \/ c.op = "ret" /\ calls = <<>> /\ Returns(Unknown) /\ UNCHANGED <<cur, calls>>
       \/ c.op = "guard" /\ ScanTo("guard") /\ UNCHANGED <<cur, calls>>
       \/ c.op = "list" /\ scan' = [scan EXCEPT !.at = "submit", !.left = c.count]
                        /\ UNCHANGED <<cur, calls>>
       \/ c.op = "end" /\ Returns(0) /\ UNCHANGED <<cur, calls>>
       \/ c.op = "abort" /\ Returns(Abort) /\ UNCHANGED <<cur, calls>>
    /\ UNCHANGED <<run, poolVars, guestVars>>

\* A job was taken over, or refused because of a shutdown: the next one, or the
\* next command.
JobTaken ==
    IF scan.left > 1 THEN scan' = [scan EXCEPT !.left = @ - 1] /\ UNCHANGED cur
    ELSE scan' = [scan EXCEPT !.left = 0, !.at = "fetch"] /\ cur' = cur + 1

SubmitRefused ==
    /\ scan.at = "submit" /\ pool.on /\ ~asleep
    /\ pool.error # 0 \/ run.shutdown
    /\ IF pool.error # 0 THEN Returns(pool.error) /\ UNCHANGED cur ELSE JobTaken
    /\ UNCHANGED <<run, calls, poolVars, guestVars>>

FreeWorker(w) == ~wk[w].busy /\ \A v \in Workers : v < w => wk[v].busy

Submit(w) ==
    /\ scan.at = "submit" /\ pool.on /\ ~asleep
    /\ pool.error = 0 /\ ~run.shutdown /\ FreeWorker(w)
    /\ pool' = [pool EXCEPT !.next = @ + 1]
    /\ wk' = Woken([wk EXCEPT ![w] = [@ EXCEPT !.busy = TRUE, !.seq = pool.next + 1]])
    /\ JobTaken
    /\ UNCHANGED <<run, calls, asleep, done, failed, guestVars>>

SubmitWaits ==
    /\ scan.at = "submit" /\ pool.on /\ ~asleep
    /\ pool.error = 0 /\ ~run.shutdown /\ \A w \in Workers : wk[w].busy
    /\ asleep' = TRUE
    /\ UNCHANGED <<run, cur, calls, scan, pool, wk, done, failed, guestVars>>

\* Without a pool the scanner runs the job itself (pool.next counts them here too).
RunSerial(fails) ==
    LET n == pool.next + 1 IN
    /\ scan.at = "submit" /\ ~pool.on
    /\ pool' = [pool EXCEPT !.next = n]
    /\ done' = done \cup {n}
    /\ failed' = IF fails THEN failed \cup {n} ELSE failed
    /\ IF fails THEN Returns(n) /\ UNCHANGED cur ELSE JobTaken
    /\ UNCHANGED <<run, calls, asleep, wk, guestVars>>

-----------------------------------------------------------------------------
(* wait_guard and wait_job_slot: both look again after a bounded sleep *)

\* The wait ends with the word at zero or on a shutdown, when the mirror may still
\* be behind the word and the guard is not reset.
GuardPassed ==
    /\ scan.at = "guard"
    /\ \/ guard.live = 0 /\ guard' = IF guard.auto THEN [guard EXCEPT !.live = Original] ELSE guard
       \/ run.shutdown /\ UNCHANGED guard
    /\ Jump(cur + 1, calls)
    /\ UNCHANGED <<mem, run, poolVars, jpc>>

ParkEnds ==
    /\ scan.at = "park"
    /\ ~IsSelf(cur) \/ run.shutdown
    /\ ScanTo("fetch")
    /\ UNCHANGED <<run, cur, calls, poolVars, guestVars>>

-----------------------------------------------------------------------------
(* job_pool_destroy, and the end of jobchain_run *)

DrainEnd ==
    /\ scan.at = "drainEnd" /\ ~asleep
    /\ asleep' = JobsBusy
    /\ IF JobsBusy THEN UNCHANGED scan ELSE ScanTo("stop")
    /\ UNCHANGED <<run, cur, calls, pool, wk, done, failed, guestVars>>

StopPool ==
    /\ scan.at = "stop"
    /\ pool' = [pool EXCEPT !.stop = TRUE]
    /\ wk' = Woken(wk)
    /\ ScanTo("join")
    /\ UNCHANGED <<run, cur, calls, asleep, done, failed, guestVars>>

WorkersJoined == \A w \in Workers : wk[w].at \in {"none", "over"}

FreePool ==
    /\ scan.at = "join" /\ WorkersJoined
    /\ pool' = [NoPool EXCEPT !.next = pool.next]
    /\ scan' = IF pool.serial THEN [scan EXCEPT !.at = "fetch"]
               ELSE [scan EXCEPT !.at = "finish", !.rc = IF @ = 0 THEN pool.error ELSE @]
    /\ UNCHANGED <<run, cur, calls, asleep, wk, done, failed, guestVars>>

Finish ==
    /\ scan.at = "finish"
    /\ run' = [run EXCEPT !.error = scan.rc, !.running = FALSE, !.complete = TRUE]
    /\ scan' = OffScan
    /\ jpc' = JoinersAwake
    /\ UNCHANGED <<mem, cur, calls, poolVars, guard>>

-----------------------------------------------------------------------------

Scanner ==
    \/ CreateSerial \/ \E n \in 0..2 : CreatePool(n)
    \/ Fetch \/ Drain \/ Exec \/ SubmitRefused \/ (\E w \in Workers : Submit(w)) \/ SubmitWaits
    \/ \E b \in BOOLEAN : RunSerial(b)
    \/ GuardPassed \/ ParkEnds \/ DrainEnd \/ StopPool \/ FreePool \/ Finish

Worker(w) == WorkerLooks(w) \/ \E b \in BOOLEAN : WorkerEnds(w, b)

Joiner(c) == JoinWaits(c) \/ JoinEnds(c)

Guest ==
    \/ \E c \in Callers :
          \/ \E b \in BOOLEAN : RunChain(c, b)
          \/ Shutdown(c) \/ JoinCall(c) \/ Notify(c) \/ GuardReset(c)
    \/ SpuNotifies
    \/ \E i \in DOMAIN mem : Publish(i)

Next == Scanner \/ (\E w \in Workers : Worker(w)) \/ (\E c \in Callers : Joiner(c)) \/ Guest

Spec == Init /\ [][Next]_jobVars

\* Host threads are scheduled and a job that was started ends.
FairSpec ==
    /\ Spec /\ WF_jobVars(Scanner)
    /\ \A w \in Workers : WF_jobVars(Worker(w))
    /\ \A c \in Callers : WF_jobVars(Joiner(c))

-----------------------------------------------------------------------------

TypeOK ==
    /\ scan.at \in {"off", "create", "fetch", "drain", "exec", "submit", "guard", "park",
                    "drainEnd", "stop", "join", "finish"}
    /\ scan.left \in Nat /\ scan.rc \in Int
    /\ asleep => scan.at \in {"drain", "submit", "drainEnd"}
    /\ cur \in Nat /\ calls \in Seq(Nat)
    /\ pool.error \in Nat /\ pool.next \in Nat
    /\ \A w \in Workers :
          wk[w].at \in {"none", "look", "asleep", "run", "over"} /\ wk[w].busy \in BOOLEAN
    /\ guard.live \in 0..Original
    /\ jpc \in [Callers -> {"idle", "join", "asleep"}]
    /\ run.running = (scan.at # "off")

\* The jobs that were handed out are with one worker each or have ended, once.
EachJobOnce ==
    LET held == {w \in Workers : wk[w].busy} IN
    /\ \A v, w \in held : v # w => wk[v].seq # wk[w].seq
    /\ {wk[w].seq : w \in held} \cap done = {}
    /\ {wk[w].seq : w \in held} \cup done = 1 .. pool.next

\* "All control flow, labels, guards, publication parks ... drain the batch before
\* their original processing continues" (execute_chain): what follows a job in the
\* stream finds it ended, and ended well.
BatchesFenced ==
    scan.at \in {"exec", "guard", "park"} => done = 1 .. pool.next /\ failed = {}

\* While the pool is there, its error is that of the first command that failed.
FirstErrorKept ==
    pool.on => IF failed = {} THEN pool.error = 0
               ELSE pool.error \in failed /\ \A n \in failed : pool.error <= n

\* No worker is left with a pool that is freed.
PoolOutlivesWorkers == ~pool.on => \A w \in Workers : wk[w].at \in {"none", "over"}

(* Two workers that end in either order and a chain that is shut down at any
   time: no job is lost or run twice, a control command never runs beside a job
   of the batch before it, and the error that is reported is the earliest.   *)
JobsOrderly == EachJobOnce /\ BatchesFenced /\ FirstErrorKept /\ PoolOutlivesWorkers

\* A chain that is shut down completes: neither scanner nor workers sleep on.
ShutdownCompletes == (run.running /\ run.shutdown) ~> ~run.running

=============================================================================
