----------------------------- MODULE PpuThreads -----------------------------
(***************************************************************************)
(* Guest PPU threads (yakuza/threads.cpp, which shims.cpp registers over   *)
(* the thread calls of the runtime): a table of records, one host thread   *)
(* per guest thread, and create, exit, join, detach and once.  The records *)
(* change under one lock, but create writes the handle, and join waits for *)
(* the thread, without it.                                                 *)
(***************************************************************************)
EXTENDS Integers, FiniteSets

CONSTANTS
    NumRecs,      \* MAX_GUEST_THREADS
    MaxTid,       \* bound: thread ids; 1 is the main thread
    EarlyIds      \* the guest joins an id before its create returned, or the main thread

Recs == 1..NumRecs
Tids == 1..MaxTid

VARIABLES
    recs,         \* s_threads: in_use, tid, handle, exit_code, detached, joiner
    nextTid,      \* s_next_tid
    life,         \* of each id: no host thread yet, running, exiting, ended
    thrcall,      \* per thread: where it is in a call, on which record, whose handle
    known,        \* ids that a create has returned
    once          \* the once control: its word, who runs the initialiser, how often it ran

threadVars == <<recs, nextTid, life, thrcall, known, once>>

NoRec  == [inUse |-> FALSE, tid |-> 0, handle |-> 0, code |-> 0, detached |-> FALSE, joiner |-> 0]
NoCall == [pc |-> "idle", rec |-> 1, tid |-> 0, handle |-> 0]

\* yz_threads_init: the main thread, which has no handle.
Init ==
    /\ recs = [r \in Recs |-> IF r = 1 THEN [NoRec EXCEPT !.inUse = TRUE, !.tid = 1] ELSE NoRec]
    /\ nextTid = 2
    /\ life = [a \in Tids |-> IF a = 1 THEN "runs" ELSE "none"]
    /\ thrcall = [a \in Tids |-> NoCall]
    /\ known = {}
    /\ once = [word |-> 0, by |-> 0, ran |-> 0]

At(a, where) == life[a] = "runs" /\ thrcall[a].pc = where
Go(a, where) == thrcall' = [thrcall EXCEPT ![a].pc = where]

\* thr_find
Found(tid) == {r \in Recs : recs[r].inUse /\ recs[r].tid = tid}
First(set) == CHOOSE r \in set : \A q \in set : r <= q
FreeRecs   == {r \in Recs : ~recs[r].inUse}

-----------------------------------------------------------------------------
(* create *)

CreateCall(a) ==
    /\ At(a, "idle") /\ FreeRecs # {} /\ nextTid <= MaxTid
    /\ LET r == First(FreeRecs) IN
       /\ recs' = [recs EXCEPT ![r] = [NoRec EXCEPT !.inUse = TRUE, !.tid = nextTid]]
       /\ thrcall' = [thrcall EXCEPT ![a] = [NoCall EXCEPT !.pc = "start", !.rec = r]]
    /\ nextTid' = nextTid + 1
    /\ UNCHANGED <<life, known, once>>

\* No room for its TLS, or the host has no thread for it.
CreateFails(a) ==
    /\ At(a, "start")
    /\ recs' = [recs EXCEPT ![thrcall[a].rec].inUse = FALSE]
    /\ Go(a, "idle")
    /\ UNCHANGED <<nextTid, life, known, once>>

CreateStarts(a) ==
    LET tid == recs[thrcall[a].rec].tid IN
    /\ At(a, "start")
    /\ life' = [life EXCEPT ![tid] = "runs"]
    /\ thrcall' = [thrcall EXCEPT ![a].pc = "handle", ![a].handle = tid]
    /\ UNCHANGED <<recs, nextTid, known, once>>

\* An interrupt thread gets a record and never runs.
CreateInterrupt(a) ==
    /\ At(a, "start") /\ Go(a, "return")
    /\ UNCHANGED <<recs, nextTid, life, known, once>>

CreateHandle(a) ==
    /\ At(a, "handle")
    /\ recs' = [recs EXCEPT ![thrcall[a].rec].handle = thrcall[a].handle]
    /\ Go(a, "return")
    /\ UNCHANGED <<nextTid, life, known, once>>

CreateReturns(a) ==
    /\ At(a, "return")
    /\ known' = known \cup {recs[thrcall[a].rec].tid}
    /\ Go(a, "idle")
    /\ UNCHANGED <<recs, nextTid, life, once>>

-----------------------------------------------------------------------------
(* exit, by the call or by returning from the entry function: its code is its id *)

ExitCall(a) ==
    /\ At(a, "idle")
    /\ recs' = [r \in Recs |-> IF r \in Found(a) THEN [recs[r] EXCEPT !.code = a] ELSE recs[r]]
    /\ life' = [life EXCEPT ![a] = "exits"]
    /\ UNCHANGED <<nextTid, thrcall, known, once>>

ExitEnds(a) ==
    /\ life[a] = "exits"
    /\ life' = [life EXCEPT ![a] = "ended"]
    /\ UNCHANGED <<recs, nextTid, thrcall, known, once>>

-----------------------------------------------------------------------------
(* join and detach *)

\* mutant: two threads may join one
JoinableAgain(r) == ~recs[r].detached

Joinable(r) == ~recs[r].detached /\ recs[r].joiner = 0

MayName(tid) == tid \in known \/ EarlyIds

JoinCall(a, tid) ==
    /\ At(a, "idle") /\ tid # a /\ MayName(tid) /\ Found(tid) # {}
    /\ LET r == First(Found(tid)) IN
       /\ Joinable(r)
       /\ recs' = [recs EXCEPT ![r].joiner = a]
       /\ thrcall' = [thrcall EXCEPT ![a] = [pc |-> "join", rec |-> r, tid |-> tid,
                                             handle |-> recs[r].handle]]
    /\ UNCHANGED <<nextTid, life, known, once>>

\* Without a handle there is nothing to wait for.
JoinWaited(a) ==
    /\ At(a, "join")
    /\ thrcall[a].handle # 0 => life[thrcall[a].handle] = "ended"
    /\ Go(a, "reap")
    /\ UNCHANGED <<recs, nextTid, life, known, once>>

JoinReaps(a) ==
    /\ At(a, "reap")
    /\ recs' = [recs EXCEPT ![thrcall[a].rec].inUse = FALSE, ![thrcall[a].rec].joiner = 0]
    /\ Go(a, "idle")
    /\ UNCHANGED <<nextTid, life, known, once>>

Detach(a, tid) ==
    /\ At(a, "idle") /\ MayName(tid) /\ Found(tid) # {}
    /\ LET r == First(Found(tid)) IN
       /\ ~recs[r].detached
       /\ recs' = [recs EXCEPT ![r].detached = TRUE]
    /\ UNCHANGED <<nextTid, life, thrcall, known, once>>

-----------------------------------------------------------------------------
(* sys_ppu_thread_once: the initialiser runs inside the critical section *)

OnceEnter(a) ==
    /\ At(a, "idle") /\ once.by = 0 /\ once.word = 0
    /\ once' = [once EXCEPT !.by = a, !.ran = @ + 1]
    /\ Go(a, "once")
    /\ UNCHANGED <<recs, nextTid, life, known>>

OnceDone(a) ==
    /\ At(a, "once")
    /\ once' = [once EXCEPT !.by = 0, !.word = 1]
    /\ Go(a, "idle")
    /\ UNCHANGED <<recs, nextTid, life, known>>

-----------------------------------------------------------------------------

Next ==
    \E a \in Tids :
       \/ CreateCall(a) \/ CreateFails(a) \/ CreateStarts(a) \/ CreateInterrupt(a)
       \/ CreateHandle(a) \/ CreateReturns(a)
       \/ ExitCall(a) \/ ExitEnds(a)
       \/ JoinWaited(a) \/ JoinReaps(a)
       \/ OnceEnter(a) \/ OnceDone(a)
       \/ \E tid \in Tids : JoinCall(a, tid) \/ Detach(a, tid)

Spec == Init /\ [][Next]_threadVars

-----------------------------------------------------------------------------

TypeOK ==
    /\ \A r \in Recs :
          /\ recs[r].inUse \in BOOLEAN /\ recs[r].detached \in BOOLEAN
          /\ {recs[r].tid, recs[r].handle, recs[r].code, recs[r].joiner} \subseteq 0..MaxTid
    /\ nextTid \in 2 .. MaxTid + 1
    /\ life \in [Tids -> {"none", "runs", "exits", "ended"}]
    /\ \A a \in Tids : thrcall[a].pc \in {"idle", "start", "handle", "return", "join", "reap", "once"}
    /\ known \subseteq Tids
    /\ once.word \in {0, 1} /\ once.ran \in {0, 1}

\* A thread that exists has one record, and its record is its own.
OneRecordEach ==
    /\ \A a \in Tids : Cardinality(Found(a)) <= 1
    /\ \A a \in Tids : life[a] = "runs" => Found(a) # {}
    /\ \A r \in Recs : recs[r].inUse => recs[r].handle \in {0, recs[r].tid}

\* From its first look to its last, a join has the record it found, and nobody else
\* joins it: what it gives back and the code it returns are those of its thread.
JoinHoldsRecord ==
    \A a \in Tids : thrcall[a].pc \in {"join", "reap"} =>
        LET r == recs[thrcall[a].rec] IN
        r.inUse /\ r.tid = thrcall[a].tid /\ r.joiner = a

\* A join of a thread that was started returns after the thread has ended.
JoinAfterEnd ==
    \A a \in Tids : thrcall[a].pc = "reap" =>
        LET tid == thrcall[a].tid IN
        life[tid] # "none" => life[tid] = "ended" /\ recs[thrcall[a].rec].code = tid

(* Join, the end of the thread, a second join, a detach and the reuse of the
   record come in any order: a join returns once, after the end, with the code
   of the thread it named, and no record is given back under somebody.       *)
JoinsExact == OneRecordEach /\ JoinHoldsRecord /\ JoinAfterEnd

=============================================================================
