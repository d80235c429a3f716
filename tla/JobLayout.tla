----------------------------- MODULE JobLayout -----------------------------
(***************************************************************************)
(* Where run_job_with_state (libs/spurs/spurs_jobchain_api.inc) places the *)
(* parts of a job in local storage: the binary in one of two slots, then   *)
(* buffers, caches and the stack, below the descriptor.  One worker runs   *)
(* jobs one after the other and alternates the slots.  Sizes are in bytes. *)
(***************************************************************************)
EXTENDS Integers, Sequences, SequencesExt

CONSTANTS
    BinSizes, IoSizes, CacheLists, StackSizes    \* what descriptors may ask for

Slots == {19456, 58368}     \* 0x4c00, 0xe400
DescriptorLs == 258048      \* 0x3f000
ContextEnd == 18800         \* 0x4940 + 48: the job context
ABlock == 1024
Failed == 0                 \* job_alloc answers 0

VARIABLES
    slot,      \* alternate_slot of the worker
    tag,       \* next_dma_tag & 1
    job,       \* the descriptor of the last job: sizes of its parts
    placed     \* what was placed for it, or why it was refused

layoutVars == <<slot, tag, job, placed>>

RoundUp(n) == ((n + ABlock - 1) \div ABlock) * ABlock

\* job_alloc: the address and the new cursor.
Alloc(cursor, size) ==
    LET at == RoundUp(cursor) IN
    IF size = 0 \/ at > DescriptorLs \/ size > DescriptorLs - at
    THEN [at |-> Failed, cursor |-> cursor]
    ELSE [at |-> at, cursor |-> at + size]

\* What is laid out behind the binary, in this order: io, out, caches, stack.
Parts(j) == <<j.io, j.out>> \o j.caches \o <<j.stack>>

\* The addresses that job_alloc answers for the parts, from a cursor on.
Layout(from, parts) ==
    LET step(acc, size) ==
            LET a == Alloc(acc.cursor, size) IN
            [cursor |-> a.cursor, ats |-> Append(acc.ats, a.at)]
    IN  FoldLeft(step, [cursor |-> from, ats |-> <<>>], parts).ats

\* mutant: the output buffer is forgotten
WithoutOut(j) == <<j.io>> \o j.caches \o <<j.stack>>

\* What job_layout_fits looks at.
Checked(j) == Parts(j)

Fits(j, s) ==
    /\ j.stack >= 48
    /\ j.bin <= DescriptorLs - s
    /\ LET ats == Layout(RoundUp(s + j.bin), Checked(j)) IN
       \A i \in DOMAIN ats : ats[i] = Failed => Checked(j)[i] = 0

Other(s) == CHOOSE o \in Slots : o # s

Jobs == [bin : BinSizes, io : IoSizes, out : IoSizes, caches : CacheLists, stack : StackSizes]
Nothing == [at |-> "none"]

Init ==
    /\ slot = 19456 /\ tag = 0
    /\ job \in {CHOOSE j \in Jobs : TRUE}
    /\ placed = Nothing

Refuse(why) == placed' = [at |-> why] /\ UNCHANGED <<slot, tag>>

\* The allocations that follow the choice of the slot; a cache element that is no
\* multiple of 16 is refused on the way, when the slot has already been switched.
Place(j, s) ==
    LET ats == Layout(RoundUp(s + j.bin), Parts(j)) IN
    /\ slot' = Other(s)
    /\ IF \E c \in DOMAIN j.caches : j.caches[c] % 16 # 0
       THEN placed' = [at |-> "invalid"] /\ UNCHANGED tag
       ELSE IF \E i \in DOMAIN ats : Parts(j)[i] # 0 /\ ats[i] = Failed
       THEN placed' = [at |-> "nomem late"] /\ UNCHANGED tag
       ELSE placed' = [at |-> "run", slot |-> s, ats |-> ats] /\ tag' = 1 - tag

RunJob(j) ==
    /\ job' = j
    /\ IF Fits(j, slot) THEN Place(j, slot)
       ELSE IF Fits(j, Other(slot)) THEN Place(j, Other(slot))
       ELSE Refuse("nomem")

Next == \E j \in Jobs : RunJob(j)

Spec == Init /\ [][Next]_layoutVars

-----------------------------------------------------------------------------

\* The areas of the last job that was started: first byte and size.
Areas ==
    {<<placed.slot, job.bin>>, <<DescriptorLs, 1024>>, <<ContextEnd - 48, 48>>}
        \cup {<<placed.ats[i], Parts(job)[i]>> : i \in {k \in DOMAIN placed.ats : Parts(job)[k] > 0}}

Apart(a, b) == a[1] + a[2] <= b[1] \/ b[1] + b[2] <= a[1]

(* What job_layout_fits accepts can be placed, and nothing that is placed
   overlaps anything else: the two walks over the descriptor, the one that
   chooses the slot and the one that places, agree for every descriptor.     *)
LayoutSound ==
    /\ placed.at # "nomem late"
    /\ slot \in Slots /\ tag \in {0, 1}
    /\ placed.at = "run" =>
          \A a, b \in Areas : a # b => Apart(a, b)

=============================================================================
