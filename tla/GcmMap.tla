------------------------------- MODULE GcmMap -------------------------------
(***************************************************************************)
(* The two io maps: the mappings and offset tables of libs/video/          *)
(* cellGcmSys.c, and the page table the RSX consumer resolves addresses    *)
(* with (yakuza/import_overrides.cpp, yz_gcm_hle.inc, yz_sys_rsx.inc).     *)
(* Addresses count pages of 1 MB, except where a resource that begins      *)
(* within a page is resolved: there a page has Units units.                *)
(***************************************************************************)
EXTENDS Integers, FiniteSets

CONSTANTS
    EaPages, IoPages,  \* numbers of pages: of main memory (from 1), of the io space (from 0)
    RingPages,         \* the command buffer: main memory from page 1, io space from 0
    Slots,             \* places of the registry of mappings
    Units              \* units of a page

Eas == 1 .. EaPages
Ios == 0 .. IoPages - 1
None == -1

VARIABLES
    maps,      \* s_io_mappings
    ioTable,   \* the guest's table of io pages by ea page
    eaTable,   \* the guest's table of ea pages by io page
    reserved,  \* s_io_map_reserved, in pages
    newest,    \* history: the mapping that was made last for an ea page
    rsxMap     \* g_rsx_iomap_ea

mapVars == <<maps, ioTable, eaTable, reserved, newest, rsxMap>>
tableVars == <<maps, ioTable, eaTable, newest>>

Free == [ea |-> 0, io |-> 0, n |-> 0]
Active == {s \in 1 .. Slots : maps[s] # Free}
Least(S) == CHOOSE x \in S : \A y \in S : x <= y
IosOf(m) == m.io .. m.io + m.n - 1
EasOf(m) == m.ea .. m.ea + m.n - 1

-----------------------------------------------------------------------------
(* cellGcmSys.c *)

\* gcm_tables_map: the last writer of an ea page wins
MapTables(m, s) ==
    /\ ioTable' = [e \in Eas |-> IF e \in EasOf(m) THEN m.io + e - m.ea ELSE ioTable[e]]
    /\ eaTable' = [p \in Ios |-> IF p \in IosOf(m) THEN m.ea + p - m.io ELSE eaTable[p]]
    /\ newest' = [e \in Eas |-> IF e \in EasOf(m) THEN s ELSE newest[e]]

\* gcm_tables_unmap: an ea page that a later mapping took stays.
\* A bug: it is cleared whoever has it.
ClearsAll(m, e)  == e \in EasOf(m)
Clears(m, e)     == e \in EasOf(m) /\ ioTable[e] = m.io + e - m.ea

UnmapTables(m, s) ==
    /\ ioTable' = [e \in Eas |-> IF Clears(m, e) THEN None ELSE ioTable[e]]
    /\ eaTable' = [p \in Ios |-> IF p \in IosOf(m) THEN None ELSE eaTable[p]]
    /\ newest' = [e \in Eas |-> IF newest[e] = s THEN 0 ELSE newest[e]]

\* gcm_io_range_free.  A bug: only the first page is looked at.
FirstFree(p, n) == p + n <= IoPages - reserved /\ eaTable[p] = None
RangeFree(p, n) == p + n <= IoPages - reserved /\ \A q \in p .. p + n - 1 : eaTable[q] = None

Register(ea, io, n) ==
    LET s == Least(1 .. Slots \ Active)
        m == [ea |-> ea, io |-> io, n |-> n]
    IN  /\ Active # 1 .. Slots /\ ea + n - 1 <= EaPages
        /\ maps' = [maps EXCEPT ![s] = m]
        /\ MapTables(m, s)
        /\ UNCHANGED <<reserved, rsxMap>>

\* cellGcmMapMainMemory: first fit
MapMainMemory(ea, n) ==
    LET fits == {p \in Ios : RangeFree(p, n)}
    IN  fits # {} /\ Register(ea, Least(fits), n)

\* cellGcmMapEaIoAddress
MapEaIoAddress(ea, io, n) == RangeFree(io, n) /\ Register(ea, io, n)

Unmap(s) ==
    /\ maps' = [maps EXCEPT ![s] = Free]
    /\ UnmapTables(maps[s], s)
    /\ UNCHANGED <<reserved, rsxMap>>

\* cellGcmUnmapEaIoAddress, cellGcmUnmapIoAddress: the first mapping that begins there
UnmapEaIoAddress(ea) ==
    LET found == {s \in Active : maps[s].ea = ea} IN found # {} /\ Unmap(Least(found))

UnmapIoAddress(io) ==
    LET found == {s \in Active : maps[s].io = io} IN found # {} /\ Unmap(Least(found))

\* cellGcmSortRemapEaIoAddress: the mappings are packed from io page 0, in their order, and
\* entered again in that order.
Packed(s) == Cardinality({p \in Ios : \E t \in Active : maps[t].io < maps[s].io /\ p \in IosOf(maps[t])})

SortRemap ==
    LET new == [s \in 1 .. Slots |-> IF s \in Active THEN [maps[s] EXCEPT !.io = Packed(s)] ELSE Free]
        Of(e) == {s \in Active : e \in EasOf(new[s])}
        Last(e) == CHOOSE s \in Of(e) : \A t \in Of(e) : new[t].io <= new[s].io
    IN  /\ maps' = new
        /\ ioTable' = [e \in Eas |-> IF Of(e) = {} THEN None
                                     ELSE new[Last(e)].io + e - new[Last(e)].ea]
        /\ newest' = [e \in Eas |-> IF Of(e) = {} THEN 0 ELSE Last(e)]
        /\ eaTable' = [p \in Ios |->
              LET at == {s \in Active : p \in IosOf(new[s])}
              IN  IF at = {} THEN None ELSE LET m == new[Least(at)] IN m.ea + p - m.io]
        /\ UNCHANGED <<reserved, rsxMap>>

\* cellGcmReserveIoMapSize, cellGcmUnreserveIoMapSize
Reserve(n) ==
    /\ reserved + n \in 0 .. IoPages
    /\ reserved' = reserved + n
    /\ UNCHANGED <<tableVars, rsxMap>>

-----------------------------------------------------------------------------
(* the consumer *)

\* yz_sys_rsx_context_iomap, yz_ovr_cellGcmMapEaIoAddress: the guest does not map over its
\* command buffer.
ContextIomap(ea, io, n) ==
    /\ io >= RingPages /\ ea + n - 1 <= EaPages /\ ea > RingPages
    /\ rsxMap' = [p \in Ios |-> IF p \in io .. io + n - 1 THEN ea + p - io ELSE rsxMap[p]]
    /\ UNCHANGED <<tableVars, reserved>>

ContextIounmap(io, n) ==
    /\ io >= RingPages
    /\ rsxMap' = [p \in Ios |-> IF p \in io .. io + n - 1 THEN None ELSE rsxMap[p]]
    /\ UNCHANGED <<tableVars, reserved>>

\* yz_rsx_io_to_ea, for a unit of the io space
IoToEa(u) ==
    LET p == u \div Units
    IN  IF p \notin Ios \/ rsxMap[p] = None THEN None ELSE (rsxMap[p] * Units) + (u % Units)

\* yz_rsx_live_guest_ptr: the ends of the resource and every boundary of a page in it.
\* A bug: the ends alone.
EndsAlone(u, n)  == {}
Boundaries(u, n) == {b \in u + 1 .. u + n - 1 : b % Units = 0}
GuestPtr(u, n)  ==
    /\ IoToEa(u) # None /\ IoToEa(u + n - 1) = IoToEa(u) + n - 1
    /\ \A b \in Boundaries(u, n) : IoToEa(b) = IoToEa(u) + b - u

\* yz_ovr_cellGcmAddressToOffset: the ring, then the first page that maps the address
AddressToOffset(e) ==
    IF e <= RingPages THEN e - 1
    ELSE LET at == {p \in Ios : rsxMap[p] = e} IN IF at = {} THEN None ELSE Least(at)

-----------------------------------------------------------------------------

\* cellGcmInit, yz_ovr__cellGcmInitBody
Init ==
    LET m == [ea |-> 1, io |-> 0, n |-> RingPages]
    IN  /\ maps = [s \in 1 .. Slots |-> IF s = 1 THEN m ELSE Free]
        /\ ioTable = [e \in Eas |-> IF e \in EasOf(m) THEN e - 1 ELSE None]
        /\ eaTable = [p \in Ios |-> IF p \in IosOf(m) THEN p + 1 ELSE None]
        /\ reserved = 0
        /\ newest = [e \in Eas |-> IF e \in EasOf(m) THEN 1 ELSE 0]
        /\ rsxMap = [p \in Ios |-> IF p < RingPages THEN p + 1 ELSE None]

Sizes == 1 .. 2

LibsStep ==
    \/ \E ea \in Eas, n \in Sizes : MapMainMemory(ea, n)
    \/ \E ea \in Eas, io \in Ios, n \in Sizes : MapEaIoAddress(ea, io, n)
    \/ \E ea \in Eas : UnmapEaIoAddress(ea)
    \/ \E io \in Ios : UnmapIoAddress(io)
    \/ SortRemap
    \/ \E n \in {-1, 1} : Reserve(n)

RsxStep ==
    \/ \E ea \in Eas, io \in Ios, n \in Sizes : ContextIomap(ea, io, n)
    \/ \E io \in Ios, n \in Sizes : ContextIounmap(io, n)

-----------------------------------------------------------------------------

TypeOK ==
    /\ ioTable \in [Eas -> {None} \cup Ios] /\ eaTable \in [Ios -> {None} \cup Eas]
    /\ reserved \in 0 .. IoPages /\ rsxMap \in [Ios -> {None} \cup Eas]

\* The table of ea pages is what the mappings say: they do not overlap in the io space.
MappingsKept ==
    /\ \A s, t \in Active : s # t => IosOf(maps[s]) \cap IosOf(maps[t]) = {}
    /\ \A p \in Ios : eaTable[p] =
          LET at == {s \in Active : p \in IosOf(maps[s])}
          IN  IF at = {} THEN None ELSE LET m == maps[Least(at)] IN m.ea + p - m.io

\* An offset that an address has leads back to it, and the mapping that was made last for an
\* address gives it its offset until it is removed.
OffsetsLeadBack ==
    \A e \in Eas :
        /\ ioTable[e] # None => eaTable[ioTable[e]] = e
        /\ newest[e] # 0 => ioTable[e] = maps[newest[e]].io + e - maps[newest[e]].ea

\* A pointer is given for a resource only if every unit of it follows the one before, and
\* for every such resource.
PointersCover ==
    \A u \in 0 .. IoPages * Units - 1, n \in 1 .. 2 * Units + 1 :
        GuestPtr(u, n) <=> \A k \in 0 .. n - 1 : IoToEa(u) # None /\ IoToEa(u + k) = IoToEa(u) + k

\* What the guest puts into PUT is where the consumer reads.
ConsumerAgrees == \A e \in Eas : AddressToOffset(e) # None => rsxMap[AddressToOffset(e)] = e

MapSound == MappingsKept /\ OffsetsLeadBack
RsxMapSound == PointersCover /\ ConsumerAgrees

=============================================================================
