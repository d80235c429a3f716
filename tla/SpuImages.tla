------------------------------ MODULE SpuImages ------------------------------
(***************************************************************************)
(* Indirect branches of an SPU (runtime/spu/spu_channels.c): the registry  *)
(* of lifted functions, whose images overlap in local store; the sorted    *)
(* index that threads build and publish without a lock for its readers;    *)
(* and the rules by which a context may run the function of another image. *)
(***************************************************************************)
EXTENDS Integers, Sequences, FiniteSets

CONSTANTS
    Threads,      \* SPU host threads
    Addrs,        \* local store addresses
    SpanFrom,     \* 0x4880: where the job binaries are loaded
    Kernel,       \* image 16
    JobModule,    \* image 13
    JobBinaries,  \* the images of lifted jobs
    Tasks,        \* other images
    MaxFns,       \* bound: functions registered
    Late          \* functions are registered after a thread has started

\* Image 0 matches any image.
Images   == {0, Kernel, JobModule} \cup JobBinaries \cup Tasks
JobWorld == {JobModule} \cup JobBinaries

VARIABLES
    registry,     \* s_registry: address and image, in the order of registration
    index,        \* how many functions the published index holds, 0 if there is none
    count,        \* s_index_count
    building,     \* the thread that holds s_index_build_lock, or none
    bpc,          \* per thread: where it is
    branch        \* per thread: its image and target, the index and count it read, what it runs

imgVars == <<registry, index, count, building, bpc, branch>>

NoBranch == [image |-> 0, addr |-> 0, idx |-> 0, n |-> 0, runs |-> 0]

Init ==
    /\ registry = <<>>
    /\ index = 0 /\ count = 0
    /\ building = {}
    /\ bpc = [t \in Threads |-> "lifted"]
    /\ branch = [t \in Threads |-> NoBranch]

Go(t, from, to) == bpc[t] = from /\ bpc' = [bpc EXCEPT ![t] = to]

-----------------------------------------------------------------------------
(* what a lookup finds among the first n functions *)

Fns(n)  == 1..n
Image(f) == registry[f].image
Lowest(set) == CHOOSE x \in set : \A y \in set : x <= y
FirstOf(set) == IF set = {} THEN 0 ELSE Lowest(set)

Named(n, addr) == {f \in Fns(n) : registry[f].addr = addr}
Exact(n, addr, image) == FirstOf({f \in Named(n, addr) : Image(f) = image})

\* Kernel entries serve every context, image 0 serves all, and image 0 takes any.
Wildcard(n, addr, image) ==
    FirstOf({f \in Named(n, addr) : Image(f) \in {0, Kernel} \/ image = 0})

\* mutant: the kernel is served like any other image
GuardJobsOnly(addr, image) == image \in JobWorld /\ addr >= SpanFrom

\* spu_lookup_apply_job_guard
Guarded(addr, image) == (image \in JobWorld /\ addr >= SpanFrom) \/ image = Kernel

Lookup(n, addr, image) ==
    IF Exact(n, addr, image) # 0 THEN Exact(n, addr, image)
    ELSE IF Guarded(addr, image) THEN 0 ELSE Wildcard(n, addr, image)

\* mutant: job binaries are owners like all others
EveryOwner(addr, image) == {f \in Named(Len(registry), addr) : Image(f) # image}

\* The functions of other images at an address; job binaries count for job contexts only.
Foreign(addr, image) ==
    {f \in Named(Len(registry), addr) :
        Image(f) # image /\ (image \in JobWorld \/ Image(f) \notin JobBinaries)}

\* A context that found nothing adopts the only foreign owner, unless it is the kernel.
Adopted(addr, image) ==
    IF Cardinality(Foreign(addr, image)) = 1 /\ image # Kernel
    THEN Lowest(Foreign(addr, image)) ELSE 0

-----------------------------------------------------------------------------
(* registration, before any SPU thread is started *)

Register(addr, image) ==
    /\ Len(registry) < MaxFns
    /\ (\A t \in Threads : bpc[t] = "lifted") \/ Late
    /\ registry' = Append(registry, [addr |-> addr, image |-> image])
    /\ UNCHANGED <<index, count, building, bpc, branch>>

-----------------------------------------------------------------------------
(* spu_indirect_branch and spu_lookup *)

\* A context, of any image, branches; the pointer to the index is read first.
Branch(t, addr, image) ==
    /\ bpc[t] \in {"lifted", "over"} /\ Len(registry) > 0
    /\ bpc' = [bpc EXCEPT ![t] = "count"]
    /\ branch' = [branch EXCEPT ![t] =
                     [NoBranch EXCEPT !.image = image, !.addr = addr, !.idx = index]]
    /\ UNCHANGED <<registry, index, count, building>>

ReadCount(t) ==
    /\ bpc[t] \in {"count", "countAgain"}
    /\ branch' = [branch EXCEPT ![t].n = count]
    /\ bpc' = [bpc EXCEPT ![t] =
                  IF branch[t].idx # 0 /\ count = Len(registry) THEN "search"
                  ELSE IF @ = "count" THEN "build" ELSE "scan"]
    /\ UNCHANGED <<registry, index, count, building>>

\* spu_lookup_rebuild_index: nothing is done when another thread has done it.
BuildLock(t) ==
    /\ building = {}
    /\ building' = {t}
    /\ Go(t, "build", IF count # Len(registry) THEN "sort" ELSE "unlock")
    /\ UNCHANGED <<registry, index, count, branch>>

\* The count is stored before the pointer; without memory nothing is published.
PublishCount(t) ==
    /\ Go(t, "sort", "publish")
    /\ count' = Len(registry)
    /\ UNCHANGED <<registry, index, building, branch>>

OutOfMemory(t) ==
    /\ Go(t, "sort", "unlock")
    /\ UNCHANGED <<registry, index, count, building, branch>>

PublishIndex(t) ==
    /\ Go(t, "publish", "unlock")
    /\ index' = count
    /\ UNCHANGED <<registry, count, building, branch>>

BuildUnlock(t) ==
    /\ Go(t, "unlock", "again")
    /\ building' = {}
    /\ UNCHANGED <<registry, index, count, branch>>

ReadAgain(t) ==
    /\ Go(t, "again", "countAgain")
    /\ branch' = [branch EXCEPT ![t].idx = index]
    /\ UNCHANGED <<registry, index, count, building>>

\* The search in the index and the scan of the registry decide alike; what is found, or
\* else adopted, runs under its own image; with nothing found the SPU halts.
Dispatch(t) ==
    LET b == branch[t]
        found == Lookup(IF bpc[t] = "search" THEN b.n ELSE Len(registry), b.addr, b.image)
        runs  == IF found # 0 THEN found ELSE Adopted(b.addr, b.image) IN
    /\ bpc[t] \in {"search", "scan"}
    /\ bpc' = [bpc EXCEPT ![t] = IF runs # 0 THEN "runs" ELSE "halted"]
    /\ branch' = [branch EXCEPT ![t] = IF runs = 0 THEN NoBranch
                                         ELSE [b EXCEPT !.runs = runs, !.idx = 0, !.n = 0]]
    /\ UNCHANGED <<registry, index, count, building>>

\* The bracket around the call restores the image of the caller.
Restore(t) ==
    /\ Go(t, "runs", "over")
    /\ branch' = [branch EXCEPT ![t] = NoBranch]
    /\ UNCHANGED <<registry, index, count, building>>

Next ==
    \/ \E addr \in Addrs, image \in Images : Register(addr, image)
    \/ \E t \in Threads :
         \/ \E addr \in Addrs, image \in Images : Branch(t, addr, image)
         \/ ReadCount(t) \/ BuildLock(t) \/ PublishCount(t) \/ OutOfMemory(t) \/ PublishIndex(t)
         \/ BuildUnlock(t) \/ ReadAgain(t) \/ Dispatch(t) \/ Restore(t)

Spec == Init /\ [][Next]_imgVars

-----------------------------------------------------------------------------

TypeOK ==
    /\ \A f \in 1..Len(registry) : registry[f].addr \in Addrs /\ registry[f].image \in Images
    /\ index \in 0..MaxFns /\ count \in 0..MaxFns /\ Cardinality(building) <= 1
    /\ \A t \in Threads : branch[t].runs \in 0..Len(registry)

Ran(t) == branch[t].runs

\* No thread searches past the end of the index it has.
SearchInBounds == \A t \in Threads : bpc[t] = "search" => branch[t].n <= branch[t].idx

\* The kernel runs its own functions only, no context but image 0 enters a job binary
\* from outside, and every context runs its own function where it has one.
ImagesApart ==
    \A t \in Threads : bpc[t] = "runs" =>
        LET own == Exact(Len(registry), branch[t].addr, branch[t].image) IN
        /\ branch[t].image = Kernel => Image(Ran(t)) = Kernel
        /\ branch[t].image \notin JobWorld \cup {0} => Image(Ran(t)) \notin JobBinaries
        /\ own # 0 => Ran(t) = own

\* What the comment at the job guard says: a job context that misses its exact image in
\* the span of the jobs halts; the code of another image is not run there.
JobSpanRefused ==
    \A t \in Threads :
        (bpc[t] = "runs" /\ branch[t].image \in JobWorld /\ branch[t].addr >= SpanFrom) =>
            Image(Ran(t)) = branch[t].image

DispatchSound == SearchInBounds /\ ImagesApart

=============================================================================
