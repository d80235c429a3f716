---------------------------- MODULE WriteRouter ----------------------------
(***************************************************************************)
(* The table that routes guest writes to the SPURS objects that wait for   *)
(* them (guest_write_route of cellSpurs.c).  It is a hash table without     *)
(* locks to which entries are only added; an entry of an object's earlier  *)
(* life is told by its generation.  When the table is full entries go to a *)
(* list.  Several threads may watch at once.                               *)
(***************************************************************************)
EXTENDS Integers, Sequences, FiniteSets

CONSTANTS
    Threads,      \* that register objects
    Targets,      \* objects: kind and index of a side table
    Cells,        \* eight-byte cells of guest memory
    Spans,        \* what an object watches: sets of cells
    Capacity,     \* GUEST_WRITE_ROUTE_CAPACITY
    Home,         \* guest_write_route_hash, per cell
    GenMod,       \* 2^16
    MaxLives,     \* bound: lives of an object
    Spurious      \* a weak compare-and-swap may fail although nobody interfered

VARIABLES
    table,      \* g_guest_write_route: per slot an entry, or Empty
    more,       \* g_guest_write_route_overflow_head: its nodes, the newest first
    full,       \* g_guest_write_route_overflow: lookups go on in the list
    pages,      \* g_native_spurs_watch_page_bits, a page per cell
    gens,       \* g_guest_write_generation
    reg,        \* per thread: its registration
    watched     \* history: entries whose registration has returned

routerVars == <<table, more, full, pages, gens, reg, watched>>

Empty == [cell |-> CHOOSE c \in Cells : TRUE, target |-> CHOOSE t \in Targets : TRUE, gen |-> 0]
NoReg == [at |-> "idle", entry |-> Empty, todo |-> {}, slot |-> 0, probes |-> 0, seen |-> 0]

Init ==
    /\ table = [s \in 0..Capacity - 1 |-> Empty]
    /\ more = <<>>
    /\ full = FALSE
    /\ pages = {}
    /\ gens = [t \in Targets |-> 0]
    /\ reg = [w \in Threads |-> NoReg]
    /\ watched = {}

At(w, at) == reg[w].at = at

-----------------------------------------------------------------------------

\* guest_write_route_begin_target: a new life of an object, whose entries are inert now.
Begin(w, t) ==
    /\ At(w, "idle") /\ gens[t] < MaxLives
    /\ \A v \in Threads \ {w} : reg[v].at = "idle" \/ reg[v].entry.target # t
    /\ gens' = [gens EXCEPT ![t] = @ + (IF (@ + 1) % GenMod = 0 THEN 2 ELSE 1)]
    /\ UNCHANGED <<table, more, full, pages, reg, watched>>

\* The next cell to do, from its home slot; none is left when todo is empty.
NextCell(r) ==
    IF r.todo = {} THEN NoReg
    ELSE LET c == CHOOSE d \in r.todo : \A e \in r.todo : d <= e IN
         [at |-> "probe", entry |-> [r.entry EXCEPT !.cell = c], todo |-> r.todo \ {c},
          slot |-> Home[c], probes |-> 0, seen |-> 0]

\* guest_write_route_watch, of an object that has begun a life.
Watch(w, t, span) ==
    /\ At(w, "idle") /\ gens[t] % GenMod # 0
    /\ reg' = [reg EXCEPT ![w] = NextCell([NoReg EXCEPT
           !.entry = [Empty EXCEPT !.target = t, !.gen = gens[t] % GenMod], !.todo = span])]
    /\ UNCHANGED <<table, more, full, pages, gens, watched>>

\* The entry is there: the page of its cell comes next.
Found(w) == reg' = [reg EXCEPT ![w].at = "mark"]

NextSlot(w) ==
    reg' = [reg EXCEPT ![w].slot = (@ + 1) % Capacity, ![w].probes = @ + 1,
                       ![w].at = IF reg[w].probes + 1 = Capacity THEN "more" ELSE "probe"]

\* guest_write_route_watch_cell looks at a slot ...
Probe(w) ==
    /\ At(w, "probe")
    /\ LET existing == table[reg[w].slot] IN
       IF existing = reg[w].entry THEN Found(w)
       ELSE IF existing = Empty THEN reg' = [reg EXCEPT ![w].at = "swap"]
       ELSE NextSlot(w)
    /\ UNCHANGED <<table, more, full, pages, gens, watched>>

\* mutant: a thread that loses the slot takes it for its own
LosesSlot(w) == Found(w)

Lost(w) == IF table[reg[w].slot] = reg[w].entry THEN Found(w) ELSE NextSlot(w)

\* ... and takes it if it is still empty.
Swap(w) ==
    /\ At(w, "swap")
    /\ \/ /\ table[reg[w].slot] = Empty
          /\ table' = [table EXCEPT ![reg[w].slot] = reg[w].entry]
          /\ Found(w)
       \/ /\ table[reg[w].slot] # Empty \/ Spurious
          /\ Lost(w) /\ UNCHANGED table
    /\ UNCHANGED <<more, full, pages, gens, watched>>

InList(e) == \E i \in DOMAIN more : more[i] = e

\* guest_write_route_overflow_add: the list as it was read, then a compare-and-swap of its
\* head, and the list again when another node came first.
ReadList(w) ==
    /\ At(w, "more")
    /\ IF InList(reg[w].entry) THEN Found(w)
       ELSE reg' = [reg EXCEPT ![w].at = "push", ![w].seen = Len(more)]
    /\ UNCHANGED <<table, more, full, pages, gens, watched>>

PushList(w) ==
    /\ At(w, "push")
    /\ IF Len(more) = reg[w].seen
       THEN more' = <<reg[w].entry>> \o more /\ reg' = [reg EXCEPT ![w].at = "flag"]
       ELSE reg' = [reg EXCEPT ![w].at = "more"] /\ UNCHANGED more
    /\ UNCHANGED <<table, full, pages, gens, watched>>

\* The node is there; lookups are told that there is a list afterwards.
SetFull(w) ==
    /\ At(w, "flag")
    /\ full' = TRUE
    /\ Found(w)
    /\ UNCHANGED <<table, more, pages, gens, watched>>

MarkPage(w) ==
    /\ At(w, "mark")
    /\ pages' = pages \cup {reg[w].entry.cell}
    /\ watched' = watched \cup {reg[w].entry}
    /\ reg' = [reg EXCEPT ![w] = NextCell(@)]
    /\ UNCHANGED <<table, more, full, gens>>

-----------------------------------------------------------------------------

\* The slots a lookup of a cell visits: from its home to the first empty one.
Distance(c, s) == (s - Home[c]) % Capacity
Visited(c) == {s \in DOMAIN table : \A r \in DOMAIN table :
                   Distance(c, r) <= Distance(c, s) => table[r] # Empty}

\* guest_write_route_lookup: who is told of a write of the cell.
Lookup(c) ==
    LET found == {table[s] : s \in Visited(c)} \cup {more[i] : i \in {j \in DOMAIN more : full}}
    IN  IF c \notin pages THEN {}
        ELSE {e.target : e \in {f \in found :
                  f.cell = c /\ f.gen # 0 /\ f.gen = gens[f.target] % GenMod}}

Next ==
    \E w \in Threads :
        \/ \E t \in Targets : Begin(w, t) \/ \E span \in Spans : Watch(w, t, span)
        \/ Probe(w) \/ Swap(w) \/ ReadList(w) \/ PushList(w) \/ SetFull(w) \/ MarkPage(w)

Spec == Init /\ [][Next]_routerVars

-----------------------------------------------------------------------------

Entries == [cell : Cells, target : Targets, gen : 0..GenMod - 1]

TypeOK ==
    /\ table \in [0..Capacity - 1 -> Entries]
    /\ \A i \in DOMAIN more : more[i] \in Entries
    /\ pages \subseteq Cells
    /\ gens \in [Targets -> 0..MaxLives + 1]

Current(e) == e.gen = gens[e.target] % GenMod

\* A write of a watched cell reaches the object whose watch has returned, whoever else
\* registered at the same time and also when the table is full.  (A second watch of the
\* same cell may return between the node of the first and its flag.)
WatchedIsRouted ==
    \A e \in watched : Current(e) =>
        \/ e.target \in Lookup(e.cell)
        \/ InList(e) /\ \E w \in Threads : At(w, "flag") /\ reg[w].entry = e

\* Nobody is told of a write that its present life does not watch.
NobodyStale ==
    \A c \in Cells : \A t \in Lookup(c) :
        \/ \E e \in watched : e.cell = c /\ e.target = t /\ Current(e)
        \/ \E w \in Threads : reg[w].entry.target = t /\ reg[w].entry.cell = c

\* Watching again does not make the table or the list grow.
NoDuplicates ==
    /\ \A r, s \in DOMAIN table : table[r] # Empty /\ table[r] = table[s] => r = s
    /\ \A i, j \in DOMAIN more : more[i] = more[j] => i = j

RouterSound == WatchedIsRouted /\ NobodyStale /\ NoDuplicates

=============================================================================
