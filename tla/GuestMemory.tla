---------------------------- MODULE GuestMemory ----------------------------
(***************************************************************************)
(* Memory that the guest asks lv2 for: sys_memory and sys_mmapper, which   *)
(* share one bump pointer (runtime/syscalls/sys_memory.c), sys_vm (sys_vm.c)*)
(* and stacks (runtime/memory/vm.h).  The bump pointer has a lock; nothing *)
(* else has one: freeing, the query that charges the ELF, and sys_vm read  *)
(* what they change.                                                       *)
(* Addresses and sizes count pages of 64 KB.                               *)
(***************************************************************************)
EXTENDS Integers, FiniteSets, FiniteSetsExt

CONSTANTS
    Callers,            \* guest threads
    AddressSpace,       \* pages of the address space: a u32 address wraps at it
    Base, WindowEnd,    \* SYS_MEM_ALLOC_BASE, SYS_MEM_ALLOC_END
    MB,                 \* pages of 1 MB
    Sizes,              \* what the guest allocates, a size that wraps among them
    Budget,             \* SYS_MEM_USER_TOTAL
    Footprint,          \* SYS_MEM_ELF_FOOTPRINT
    Slots,              \* SYS_MEMORY_ALLOC_MAX
    VmBase, VmEnd,      \* SYS_VM_REGION_BASE, SYS_VM_REGION_END
    VmSlots,            \* SYS_VM_MAX
    VSize, PSizes,      \* SYS_VM_VSIZE_ALIGN, and the physical sizes the guest maps with
    StackBase, StackEnd \* VM_STACK_BASE and the end of its region

VARIABLES
    bump,      \* g_sys_mem_bump_ptr
    allocs,    \* g_sys_mem_allocs
    total,     \* s_total_allocated
    external,  \* s_external_consumed
    charged,   \* s_elf_charged
    vms,       \* g_sys_vm_maps
    vmBump,    \* s_vm_bump_ptr
    stacks,    \* next_addr of the stack allocator
    mpc,       \* the callers between their reads and writes
    given,     \* history: the regions handed out and not freed
    billed,    \* history: the physical sizes of the mappings made
    raced      \* history: unlocked code wrote what other code had changed since; then it ends

memVars == <<bump, allocs, total, external, charged, vms, vmBump, stacks, mpc, given, billed,
             raced>>

NoRegion == [lo |-> 0, n |-> 0, p |-> 0]
Region(lo, n, p) == [lo |-> lo, n |-> n, p |-> p]
Idle == [at |-> "idle", reg |-> NoRegion, slot |-> 0, read |-> 0]

Up(n, align) == ((n + align - 1) \div align) * align
Wrap(a) == a % AddressSpace
Unused(table) == {s \in DOMAIN table : table[s] = NoRegion}
Held(table) == DOMAIN table \ Unused(table)

Init ==
    /\ bump = 0
    /\ allocs = [s \in 1 .. Slots |-> NoRegion]
    /\ total = 0
    /\ external = 0
    /\ charged = FALSE
    /\ vms = [s \in 1 .. VmSlots |-> NoRegion]
    /\ vmBump = VmBase
    /\ stacks = StackBase
    /\ mpc = [c \in Callers |-> Idle]
    /\ given = {}
    /\ billed = 0
    /\ raced = FALSE

-----------------------------------------------------------------------------
(* sys_memory and sys_mmapper *)

\* Where the next region begins, if it ends in the window.  The sum is a u32.
From(align) == Up(IF bump = 0 THEN Base ELSE bump, align)
InWindow(lo, n) == Wrap(lo + n) <= WindowEnd

\* The budget is what keeps a size that wraps from getting through.
WindowOnly(n) == TRUE
InBudget(n) == total + external + n <= Budget

\* sys_memory_allocate, under the lock; the window was committed at the start.
Allocate(c, size, align) ==
    LET n == Wrap(Up(size, align)) lo == From(align) IN
    /\ mpc[c] = Idle /\ n # 0
    /\ IF InWindow(lo, n) /\ InBudget(n) /\ Unused(allocs) # {}
       THEN /\ bump' = Wrap(lo + n)
            /\ total' = total + n
            /\ allocs' = [allocs EXCEPT ![Min(Unused(allocs))] = Region(lo, n, align)]
            /\ given' = given \cup {Region(lo, n, align)}
       ELSE /\ bump' = lo
            /\ UNCHANGED <<total, allocs, given>>
    /\ UNCHANGED <<external, charged, vms, vmBump, stacks, mpc, billed, raced>>

\* sys_mmapper_allocate_address: neither a slot nor the budget.
AllocateAddress(c, size, align) ==
    LET n == Wrap(Up(size, align)) lo == From(align) IN
    /\ mpc[c] = Idle /\ size < Base
    /\ IF InWindow(lo, n)
       THEN bump' = lo + n /\ given' = given \cup {Region(lo, n, 0)}
       ELSE bump' = lo /\ UNCHANGED given
    /\ UNCHANGED <<allocs, total, external, charged, vms, vmBump, stacks, mpc, billed, raced>>

\* sys_memory_free: it finds the slot, and takes its size from the total it has read.
Free(c) ==
    /\ mpc[c] = Idle
    /\ \E s \in Held(allocs) :
        mpc' = [mpc EXCEPT ![c] = [at |-> "free", reg |-> allocs[s], slot |-> s,
                                   read |-> total]]
    /\ UNCHANGED <<bump, allocs, total, external, charged, vms, vmBump, stacks, given, billed,
                   raced>>

FreeEnds(c) ==
    /\ mpc[c].at = "free"
    /\ total' = mpc[c].read - mpc[c].reg.n
    /\ allocs' = [allocs EXCEPT ![mpc[c].slot] = NoRegion]
    /\ raced' = (raced \/ total # mpc[c].read \/ allocs[mpc[c].slot] # mpc[c].reg)
    /\ mpc' = [mpc EXCEPT ![c] = Idle]
    /\ UNCHANGED <<bump, external, charged, vms, vmBump, stacks, given, billed>>

\* sys_memory_get_page_attribute: the page size of the first slot that holds the address.
PageSize(a) ==
    LET holds == {s \in Held(allocs) : a >= allocs[s].lo /\ a < allocs[s].lo + allocs[s].n} IN
    IF holds = {} THEN 1 ELSE allocs[Min(holds)].p

-----------------------------------------------------------------------------
(* What is charged *)

\* The first sys_memory_get_user_memory_size charges the ELF.
Query(c) ==
    /\ mpc[c] = Idle /\ ~charged
    /\ mpc' = [mpc EXCEPT ![c] = [Idle EXCEPT !.at = "query"]]
    /\ UNCHANGED <<bump, allocs, total, external, charged, vms, vmBump, stacks, given, billed,
                   raced>>

Uncharged == charged
Charged == TRUE
QueryEnds(c) ==
    /\ mpc[c].at = "query"
    /\ raced' = (raced \/ charged)
    /\ charged' = Charged
    /\ external' = external + Footprint
    /\ mpc' = [mpc EXCEPT ![c] = Idle]
    /\ UNCHANGED <<bump, allocs, total, vms, vmBump, stacks, given, billed>>

-----------------------------------------------------------------------------
(* sys_vm and stacks *)

\* sys_vm_memory_map: it has read the bump pointer and found a slot ...
MapLook(c, p) ==
    /\ mpc[c] = Idle
    /\ vmBump + VSize <= VmEnd
    /\ Unused(vms) # {}
    /\ mpc' = [mpc EXCEPT ![c] = [at |-> "map", reg |-> Region(vmBump, VSize, p),
                                  slot |-> Min(Unused(vms)), read |-> 0]]
    /\ UNCHANGED <<bump, allocs, total, external, charged, vms, vmBump, stacks, given, billed,
                   raced>>

\* ... and takes them when the range is committed.
ByPhysical(r) == r.p
Advance(r) == r.n
Map(c) ==
    /\ mpc[c].at = "map"
    /\ raced' = (raced \/ vmBump # mpc[c].reg.lo \/ vms[mpc[c].slot] # NoRegion)
    /\ vms' = [vms EXCEPT ![mpc[c].slot] = mpc[c].reg]
    /\ vmBump' = vmBump + Advance(mpc[c].reg)
    /\ given' = given \cup {[mpc[c].reg EXCEPT !.p = 0]}
    /\ external' = external + mpc[c].reg.p
    /\ billed' = billed + mpc[c].reg.p
    /\ mpc' = [mpc EXCEPT ![c] = Idle]
    /\ UNCHANGED <<bump, allocs, total, charged, stacks>>

\* sys_vm_unmap keeps the range and its charge.
Unmap(c) ==
    /\ mpc[c] = Idle
    /\ \E s \in Held(vms) : vms' = [vms EXCEPT ![s] = NoRegion]
    /\ UNCHANGED <<bump, allocs, total, external, charged, vmBump, stacks, mpc, given, billed,
                   raced>>

\* sys_vm_append_memory and sys_vm_return_memory are not charged.
Resize(c) ==
    /\ mpc[c] = Idle
    /\ \E s \in Held(vms), p \in PSizes :
        \/ /\ vms[s].p + p <= VSize
           /\ vms' = [vms EXCEPT ![s].p = @ + p]
        \/ /\ p <= vms[s].p
           /\ vms' = [vms EXCEPT ![s].p = @ - p]
    /\ UNCHANGED <<bump, allocs, total, external, charged, vmBump, stacks, mpc, given, billed,
                   raced>>

\* vm_stack_allocate: a page without access lies below the stack.
NoGuard == 0
Guard == 1
AllocateStack(c, n) ==
    /\ mpc[c] = Idle
    /\ stacks + n + Guard <= StackEnd
    /\ stacks' = stacks + n + Guard
    /\ given' = given \cup {Region(stacks + Guard, n, 0)}
    /\ UNCHANGED <<bump, allocs, total, external, charged, vms, vmBump, mpc, billed, raced>>

-----------------------------------------------------------------------------

Next ==
    /\ ~raced
    /\ \E c \in Callers :
        \/ \E size \in Sizes, align \in {1, MB} : Allocate(c, size, align)
        \/ \E size \in Sizes, align \in {1, MB} : AllocateAddress(c, size, align)
        \/ Free(c) \/ FreeEnds(c) \/ Query(c) \/ QueryEnds(c)
        \/ \E p \in PSizes : MapLook(c, p)
        \/ Map(c) \/ Unmap(c) \/ Resize(c)
        \/ \E n \in Sizes : n < MB /\ AllocateStack(c, n)

\* A region, and the variables of a caller, have their types.
TypeOK ==
    /\ bump \in 0 .. AddressSpace - 1
    /\ \A s \in 1 .. Slots : DOMAIN allocs[s] = {"lo", "n", "p"}
    /\ external \in Nat
    /\ charged \in BOOLEAN /\ raced \in BOOLEAN
    /\ DOMAIN vms = 1 .. VmSlots
    /\ vmBump \in VmBase .. 2 * VmEnd
    /\ stacks \in StackBase .. StackEnd
    /\ \A c \in Callers : mpc[c].at \in {"idle", "free", "query", "map"}

Pages(r) == r.lo .. r.lo + r.n - 1
Window == Base .. WindowEnd - 1

\* Unless unlocked code raced, no page is handed out twice: "the window is bump-allocated, so the range is never handed out
\* again" (sys_vm.c:127-129) lets freed regions stay readable, and what
\* wraps is refused.  The page size that is reported for an address is that of its own region,
\* and the page below a stack belongs to nobody.
RegionsApart ==
    /\ \A r, q \in given : r # q => Pages(r) \cap Pages(q) = {}
    /\ \A r \in given :
        \/ Pages(r) \subseteq Window
        \/ Pages(r) \subseteq VmBase .. VmEnd - 1
        \/ Pages(r) \subseteq StackBase .. StackEnd - 1
    /\ \A s \in Held(allocs) : \A a \in Pages(allocs[s]) : PageSize(a) = allocs[s].p
    /\ \A r \in given : r.lo >= StackBase => \A q \in given : r.lo - 1 \notin Pages(q)

\* The pages of what the slots hold.
PagesHeld == UNION {Pages(allocs[s]) : s \in Held(allocs)}

\* What the guest is told is left agrees with what it holds.
Accounted ==
    /\ total = Cardinality(PagesHeld)
    /\ total <= Budget
    /\ external = billed + (IF charged THEN Footprint ELSE 0)

MemorySound == raced \/ (RegionsApart /\ Accounted)

=============================================================================
