----------------------------- MODULE MfcRegistry -----------------------------
(***************************************************************************)
(* The registry of DMA engines (runtime/spu/spu_channels.c): a global list *)
(* for those who look at all engines, hash buckets with locks of their own *)
(* for those who look one up, references that keep an engine alive while   *)
(* it is used, and a teardown that waits for them.                         *)
(***************************************************************************)
EXTENDS Integers, FiniteSets

CONSTANTS
    Users,        \* host threads that use the channels of the context
    Writers,      \* host threads that write guest memory and notify reservations
    MaxEngines    \* bound: engines allocated for the context

Engines == 1..MaxEngines
Contexts == Users \cup Writers \cup {"owner"}

VARIABLES
    sharded,      \* the lookup mode, which may change at any time
    allocated,    \* how many engines were allocated so far
    freed,        \* those that were freed
    listed,       \* the engines of the context in the global list
    bucketed,     \* and in its bucket
    refs,         \* per engine
    bucketLock, registryLock,   \* who holds them, "" if nobody
    retiring,     \* mfc_retiring of the context
    aborted,      \* the process ended itself
    mpc, eng      \* per thread: where it is, and the engine it has

regVars == <<sharded, allocated, freed, listed, bucketed, refs, bucketLock, registryLock,
             retiring, aborted, mpc, eng>>

Init ==
    /\ sharded = FALSE
    /\ allocated = 0 /\ freed = {} /\ listed = {} /\ bucketed = {}
    /\ refs = [e \in Engines |-> 0]
    /\ bucketLock = "" /\ registryLock = ""
    /\ retiring = FALSE /\ aborted = FALSE
    /\ mpc = [t \in Contexts |-> "idle"]
    /\ eng = [t \in Contexts |-> 0]

Go(t, from, to) == mpc[t] = from /\ ~aborted /\ mpc' = [mpc EXCEPT ![t] = to]

Tables == <<allocated, freed, listed, bucketed>>
Locks  == <<bucketLock, registryLock>>

-----------------------------------------------------------------------------
(* mfc_for *)

\* spu_mfc_set_sharded_lookup
SetMode ==
    /\ sharded' = ~sharded
    /\ UNCHANGED <<Tables, refs, Locks, retiring, aborted, mpc, eng>>

\* The mode is read once and decides which lock the lookup takes.
Lookup(u) ==
    /\ \/ sharded /\ bucketLock = "" /\ bucketLock' = u /\ UNCHANGED registryLock
          /\ Go(u, "idle", "inBucket")
       \/ ~sharded /\ registryLock = "" /\ registryLock' = u /\ UNCHANGED bucketLock
          /\ Go(u, "idle", "inList")
    /\ UNCHANGED <<sharded, Tables, refs, retiring, aborted, eng>>

\* A channel access after the retirement ends the process.
FindsRetired(u, pc) ==
    /\ mpc[u] = pc /\ retiring /\ ~aborted
    /\ aborted' = TRUE
    /\ UNCHANGED <<sharded, Tables, refs, Locks, retiring, mpc, eng>>

Refer(u, e) ==
    /\ refs' = [refs EXCEPT ![e] = @ + 1]
    /\ eng' = [eng EXCEPT ![u] = e]

\* Found: the reference is taken before the lock is given back.
FoundInBucket(u) ==
    /\ Go(u, "inBucket", "uses") /\ ~retiring
    /\ \E e \in bucketed : Refer(u, e)
    /\ bucketLock' = ""
    /\ UNCHANGED <<sharded, Tables, registryLock, retiring, aborted>>

FoundInList(u) ==
    /\ Go(u, "inList", "uses") /\ ~retiring
    /\ \E e \in listed : Refer(u, e)
    /\ registryLock' = ""
    /\ UNCHANGED <<sharded, Tables, bucketLock, retiring, aborted>>

\* Missed: both locks, the bucket first.
MissInBucket(u) ==
    /\ Go(u, "inBucket", "haveBucket") /\ ~retiring /\ bucketed = {}
    /\ UNCHANGED <<sharded, Tables, refs, Locks, retiring, aborted, eng>>

MissInList(u) ==
    /\ Go(u, "inList", "wantBucket") /\ ~retiring /\ listed = {}
    /\ registryLock' = ""
    /\ UNCHANGED <<sharded, Tables, refs, bucketLock, retiring, aborted, eng>>

TakeBucket(u) ==
    /\ Go(u, "wantBucket", "haveBucket") /\ bucketLock = ""
    /\ bucketLock' = u
    /\ UNCHANGED <<sharded, Tables, refs, registryLock, retiring, aborted, eng>>

TakeRegistry(u) ==
    /\ Go(u, "haveBucket", "haveBoth") /\ registryLock = ""
    /\ registryLock' = u
    /\ UNCHANGED <<sharded, Tables, refs, bucketLock, retiring, aborted, eng>>

\* mutant: a miss allocates without looking again
LookOnce == {}

\* Another thread may have created it meanwhile.
Recheck == bucketed

FoundAgain(u) ==
    /\ Go(u, "haveBoth", "uses") /\ ~retiring
    /\ \E e \in Recheck : Refer(u, e)
    /\ bucketLock' = "" /\ registryLock' = ""
    /\ UNCHANGED <<sharded, Tables, retiring, aborted>>

Allocate(u) ==
    /\ Go(u, "haveBoth", "uses") /\ ~retiring /\ Recheck = {} /\ allocated < MaxEngines
    /\ LET e == allocated + 1 IN
       /\ allocated' = e
       /\ listed' = listed \cup {e} /\ bucketed' = bucketed \cup {e}
       /\ Refer(u, e)
    /\ bucketLock' = "" /\ registryLock' = ""
    /\ UNCHANGED <<sharded, freed, retiring, aborted>>

\* mfc_release
Release(u) ==
    /\ Go(u, "uses", "idle")
    /\ refs' = [refs EXCEPT ![eng[u]] = @ - 1]
    /\ eng' = [eng EXCEPT ![u] = 0]
    /\ UNCHANGED <<sharded, Tables, Locks, retiring, aborted>>

-----------------------------------------------------------------------------
(* spu_coh_notify_write and spu_mfc_context_switch: the list under its lock *)

Scan(w) ==
    /\ Go(w, "idle", "scans") /\ registryLock = ""
    /\ registryLock' = w
    /\ UNCHANGED <<sharded, Tables, refs, bucketLock, retiring, aborted, eng>>

Scanned(w) ==
    /\ Go(w, "scans", "idle")
    /\ registryLock' = ""
    /\ UNCHANGED <<sharded, Tables, refs, bucketLock, retiring, aborted, eng>>

-----------------------------------------------------------------------------
(* spu_mfc_unregister *)

\* The owner tears the context down whatever its users do.
Retire ==
    /\ Go("owner", "idle", "retires")
    /\ retiring' = TRUE
    /\ UNCHANGED <<sharded, Tables, refs, Locks, aborted, eng>>

RetireLocks ==
    /\ \/ Go("owner", "retires", "hasBucket") /\ bucketLock = ""
          /\ bucketLock' = "owner" /\ UNCHANGED registryLock
       \/ Go("owner", "hasBucket", "hasBoth") /\ registryLock = ""
          /\ registryLock' = "owner" /\ UNCHANGED bucketLock
    /\ UNCHANGED <<sharded, Tables, refs, retiring, aborted, eng>>

\* mutant: a removal leaves the bucket as it is
StaysInBucket(e) == bucketed

LeavesBucket(e) == bucketed \ {e}

Unlink ==
    /\ \E e \in listed :
         /\ Go("owner", "hasBoth", "waits")
         /\ listed' = listed \ {e} /\ bucketed' = LeavesBucket(e)
         /\ eng' = [eng EXCEPT !["owner"] = e]
    /\ bucketLock' = "" /\ registryLock' = ""
    /\ UNCHANGED <<sharded, allocated, freed, refs, retiring, aborted>>

NothingToUnlink ==
    /\ listed = {} /\ Go("owner", "hasBoth", "gone")
    /\ bucketLock' = "" /\ registryLock' = ""
    /\ UNCHANGED <<sharded, Tables, refs, retiring, aborted, eng>>

\* mutant: the engine is freed under its users
Regardless(e) == TRUE

Unreferenced(e) == refs[e] = 0

Free ==
    /\ Go("owner", "waits", "gone")
    /\ Unreferenced(eng["owner"])
    /\ freed' = freed \cup {eng["owner"]}
    /\ eng' = [eng EXCEPT !["owner"] = 0]
    /\ UNCHANGED <<sharded, allocated, listed, bucketed, refs, Locks, retiring, aborted>>

\* The storage of the context becomes that of another one.
Recycle ==
    /\ Go("owner", "gone", "idle") /\ \A u \in Users : mpc[u] = "idle"
    /\ retiring' = FALSE
    /\ UNCHANGED <<sharded, Tables, refs, Locks, aborted, eng>>

Next ==
    \/ SetMode
    \/ \E u \in Users :
         \/ Lookup(u)
         \/ FindsRetired(u, "inBucket") \/ FindsRetired(u, "inList") \/ FindsRetired(u, "haveBoth")
         \/ FoundInBucket(u) \/ FoundInList(u) \/ MissInBucket(u) \/ MissInList(u)
         \/ TakeBucket(u) \/ TakeRegistry(u) \/ FoundAgain(u) \/ Allocate(u) \/ Release(u)
    \/ \E w \in Writers : Scan(w) \/ Scanned(w)
    \/ Retire \/ RetireLocks \/ Unlink \/ NothingToUnlink \/ Free \/ Recycle

Spec == Init /\ [][Next]_regVars

-----------------------------------------------------------------------------

TypeOK ==
    /\ allocated \in 0..MaxEngines /\ freed \subseteq Engines
    /\ listed \subseteq Engines /\ bucketed \subseteq Engines
    /\ \A e \in Engines : refs[e] \in 0 .. Cardinality(Users)
    /\ bucketLock \in Contexts \cup {""} /\ registryLock \in Contexts \cup {""}
    /\ eng \in [Contexts -> {0} \cup Engines]

\* A context has one engine; who uses it holds a reference and finds it allocated; and
\* a context that is torn down leaves none behind.
RegistrySound ==
    /\ Cardinality(listed) <= 1 /\ bucketed = listed
    /\ (listed \cup {eng[u] : u \in Users}) \cap freed = {}
    /\ \A e \in Engines : refs[e] = Cardinality({u \in Users : eng[u] = e})
    /\ mpc["owner"] = "gone" => listed = {}

=============================================================================
