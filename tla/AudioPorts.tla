----------------------------- MODULE AudioPorts -----------------------------
(***************************************************************************)
(* cellAudio (libs/audio/cellAudio.c): ports whose rings lie in a window   *)
(* of guest memory, a mixing thread that plays one block of every running  *)
(* port per period and then notifies event queues, and the stream of the   *)
(* movie player, which the same thread plays.                              *)
(***************************************************************************)
EXTENDS Integers, FiniteSets, Sequences

CONSTANTS
    Callers,      \* guest threads
    NumPorts,     \* CELL_AUDIO_PORT_MAX
    BlockCounts,  \* nBlock of the ports that are opened; a ring takes one unit per block
    Window,       \* units of AUDIO_VM_SIZE; a read index takes one unit
    FreeMax,      \* AUDIO_VM_FREE_MAX
    Keys,         \* of the event queues
    NumNotify,    \* CELL_AUDIO_MAX_NOTIFY_EVENT_QUEUES
    BlockFrames,  \* frames of a block
    Streams,      \* lengths of the movie streams, in frames
    MaxFed,       \* bound: blocks the guest writes to a port
    MaxInits,     \* bound: how often audio is started
    Overlap       \* start and stop of a port overlap its close

Ports   == 1..NumPorts
Notifys == 1..NumNotify
Least(set) == CHOOSE x \in set : \A y \in set : x <= y

VARIABLES
    audio,        \* s_audio_initialized, s_mix_thread_running, how often it was started
    ports,        \* in_use, running, nBlock, read_index, addresses of the ring and of the index
    bump, free,   \* the allocator of the window: s_audio_vm_bump, s_audio_vm_free
    notify,       \* keys of s_notify_queues; "" is no key
    mixer,        \* where the mixing thread is, and in which notify slot
    stream,       \* s_host_audio: present, finished, muting, cursor, frame_count
    ring,         \* of each port: the blocks that hold sound, blocks written, blocks played
    acall         \* per caller: start or stop under way, of which port

audioVars == <<audio, ports, bump, free, notify, mixer, stream, ring, acall>>

NoPort   == [inUse |-> FALSE, running |-> FALSE, blocks |-> 1, read |-> 0, buf |-> 0, idx |-> 0]
NoStream == [present |-> FALSE, finished |-> FALSE, mute |-> FALSE, cursor |-> 0, frames |-> 0]
NoRing   == [full |-> {}, fed |-> 0, played |-> 0]
NoCall   == [pc |-> "idle", port |-> 1]
NoFree   == [addr |-> 0, size |-> 0]

Init ==
    /\ audio = [init |-> FALSE, mixing |-> FALSE, inits |-> 0]
    /\ ports = [p \in Ports |-> NoPort]
    /\ bump = 1
    /\ free = [i \in 1..FreeMax |-> NoFree]
    /\ notify = [i \in Notifys |-> ""]
    /\ mixer = [pc |-> "off", slot |-> 1]
    /\ stream = NoStream
    /\ ring = [p \in Ports |-> NoRing]
    /\ acall = [c \in Callers |-> NoCall]

Idle(c) == audio.init /\ acall[c].pc = "idle"

-----------------------------------------------------------------------------
(* the allocator *)

Fitting(table, size) == {i \in 1..FreeMax : table[i].size = size}

\* mutant: a freed block that is given out stays in the table
AllocKept(at, table, size) ==
    IF Fitting(table, size) # {}
    THEN [addr |-> table[Least(Fitting(table, size))].addr, bump |-> at, free |-> table]
    ELSE IF at + size - 1 > Window THEN [addr |-> 0, bump |-> at, free |-> table]
    ELSE [addr |-> at, bump |-> at + size, free |-> table]

\* A freed block of just this size, or the next part of the window; address 0 is none.
Alloc(at, table, size) ==
    IF Fitting(table, size) # {} THEN
        LET i == Least(Fitting(table, size)) IN
        [addr |-> table[i].addr, bump |-> at, free |-> [table EXCEPT ![i] = NoFree]]
    ELSE IF at + size - 1 > Window THEN [addr |-> 0, bump |-> at, free |-> table]
    ELSE [addr |-> at, bump |-> at + size, free |-> table]

\* With a full table the block is lost.
Freed(table, addr, size) ==
    LET empty == Fitting(table, 0) IN
    IF addr = 0 \/ empty = {} THEN table
    ELSE [table EXCEPT ![Least(empty)] = [addr |-> addr, size |-> size]]

-----------------------------------------------------------------------------
(* cellAudioInit and cellAudioQuit; the guest does not quit during other calls *)

InitAudio ==
    /\ ~audio.init /\ audio.inits < MaxInits
    /\ audio' = [init |-> TRUE, mixing |-> TRUE, inits |-> audio.inits + 1]
    /\ ports' = [p \in Ports |-> NoPort]
    /\ ring' = [p \in Ports |-> NoRing]
    /\ notify' = [i \in Notifys |-> ""]
    /\ mixer' = [pc |-> "mix", slot |-> 1]
    /\ UNCHANGED <<bump, free, stream, acall>>

QuitStops ==
    /\ \A c \in Callers : Idle(c)
    /\ audio.mixing /\ audio' = [audio EXCEPT !.mixing = FALSE]
    /\ UNCHANGED <<ports, bump, free, notify, mixer, stream, ring, acall>>

\* The rings of ports that are still open stay allocated.
QuitFrees ==
    /\ audio.init /\ ~audio.mixing /\ mixer.pc = "off"
    /\ stream' = NoStream
    /\ ports' = [p \in Ports |-> [ports[p] EXCEPT !.inUse = FALSE, !.running = FALSE]]
    /\ audio' = [audio EXCEPT !.init = FALSE]
    /\ UNCHANGED <<bump, free, notify, mixer, ring, acall>>

-----------------------------------------------------------------------------
(* ports *)

PortOpen(c, n) ==
    LET unused == {p \in Ports : ~ports[p].inUse}
        p == Least(unused)
        buf == Alloc(bump, free, n)
        idx == Alloc(buf.bump, buf.free, 1)
    IN
    /\ Idle(c) /\ audio.mixing /\ unused # {}
    /\ bump' = idx.bump /\ free' = idx.free
    /\ IF buf.addr = 0 \/ idx.addr = 0
       THEN /\ ports' = [ports EXCEPT ![p].running = FALSE, ![p].blocks = n, ![p].read = 0]
            /\ UNCHANGED ring
       ELSE /\ ports' = [ports EXCEPT ![p] = [inUse |-> TRUE, running |-> FALSE, blocks |-> n,
                                              read |-> 0, buf |-> buf.addr, idx |-> idx.addr]]
            /\ ring' = [ring EXCEPT ![p] = NoRing]
    /\ UNCHANGED <<audio, notify, mixer, stream, acall>>

PortClose(c, p) ==
    /\ Idle(c) /\ audio.mixing /\ ports[p].inUse
    /\ Overlap \/ \A d \in Callers : acall[d].pc = "idle" \/ acall[d].port # p
    /\ free' = Freed(Freed(free, ports[p].buf, ports[p].blocks), ports[p].idx, 1)
    /\ ports' = [ports EXCEPT ![p].inUse = FALSE, ![p].running = FALSE, ![p].buf = 0, ![p].idx = 0]
    /\ UNCHANGED <<audio, bump, notify, mixer, stream, ring, acall>>

\* Start and stop ask without the lock and set with it.
Asks(c, p, running) ==
    /\ Idle(c) /\ audio.mixing /\ ports[p].inUse /\ ports[p].running # running
    /\ acall' = [acall EXCEPT ![c] = [pc |-> IF running THEN "start" ELSE "stop", port |-> p]]
    /\ UNCHANGED <<audio, ports, bump, free, notify, mixer, stream, ring>>

Sets(c) ==
    /\ acall[c].pc \in {"start", "stop"}
    /\ ports' = [ports EXCEPT ![acall[c].port].running = acall[c].pc = "start"]
    /\ acall' = [acall EXCEPT ![c] = NoCall]
    /\ UNCHANGED <<audio, bump, free, notify, mixer, stream, ring>>

\* The guest writes a block that is silent, ahead of the read index it sees.
Feed(c, p, b) ==
    /\ Idle(c) /\ ports[p].inUse /\ ring[p].fed < MaxFed
    /\ b \in 0 .. ports[p].blocks - 1 /\ b \notin ring[p].full
    /\ ring' = [ring EXCEPT ![p].full = @ \cup {b}, ![p].fed = @ + 1]
    /\ UNCHANGED <<audio, ports, bump, free, notify, mixer, stream, acall>>

-----------------------------------------------------------------------------
(* notify queues and the movie stream *)

SetNotify(c, k) ==
    LET empty == {i \in Notifys : notify[i] = ""} IN
    /\ Idle(c) /\ \A i \in Notifys : notify[i] # k
    /\ empty # {} /\ notify' = [notify EXCEPT ![Least(empty)] = k]
    /\ UNCHANGED <<audio, ports, bump, free, mixer, stream, ring, acall>>

RemoveNotify(c, k) ==
    LET same == {i \in Notifys : notify[i] = k} IN
    /\ Idle(c) /\ same # {} /\ notify' = [notify EXCEPT ![Least(same)] = ""]
    /\ UNCHANGED <<audio, ports, bump, free, mixer, stream, ring, acall>>

StreamStart(n, mute) ==
    /\ audio.init /\ audio.mixing /\ ~stream.present
    /\ stream' = [present |-> TRUE, finished |-> FALSE, mute |-> mute, cursor |-> 0, frames |-> n]
    /\ UNCHANGED <<audio, ports, bump, free, notify, mixer, ring, acall>>

StreamStop ==
    /\ audio.init /\ audio.mixing /\ stream.present
    /\ stream' = NoStream
    /\ UNCHANGED <<audio, ports, bump, free, notify, mixer, ring, acall>>

-----------------------------------------------------------------------------
(* the mixing thread *)

Plays(p) == ports[p].inUse /\ ports[p].running
Block(p) == ports[p].read % ports[p].blocks

\* mutant: the block that was read is not cleared
RingKept(p) ==
    [ring[p] EXCEPT !.played = IF Block(p) \in ring[p].full THEN @ + 1 ELSE @]

RingPlayed(p) ==
    [ring[p] EXCEPT !.full = @ \ {Block(p)},
                    !.played = IF Block(p) \in ring[p].full THEN @ + 1 ELSE @]

\* The last block of a stream may be short; it is finished when a frame is missing.
StreamPlayed ==
    LET next == stream.cursor + BlockFrames IN
    IF ~stream.present THEN stream
    ELSE [stream EXCEPT !.cursor = IF next > stream.frames THEN stream.frames ELSE next,
                        !.finished = @ \/ next > stream.frames]

\* audio_mix_one_block, all of it under the lock.
MixBlock ==
    /\ mixer.pc = "mix" /\ audio.mixing
    /\ ring' = [p \in Ports |-> IF Plays(p) THEN RingPlayed(p) ELSE ring[p]]
    /\ ports' = [p \in Ports |->
                   IF Plays(p) THEN [ports[p] EXCEPT !.read = (@ + 1) % ports[p].blocks]
                   ELSE ports[p]]
    /\ stream' = StreamPlayed
    /\ mixer' = [pc |-> "notify", slot |-> 1]
    /\ UNCHANGED <<audio, bump, free, notify, acall>>

\* One event for each slot with a key, read without the lock.
NotifySlot ==
    /\ mixer.pc = "notify"
    /\ mixer' = IF mixer.slot < NumNotify THEN [mixer EXCEPT !.slot = @ + 1]
                ELSE [pc |-> "mix", slot |-> 1]
    /\ UNCHANGED <<audio, ports, bump, free, notify, stream, ring, acall>>

MixerEnds ==
    /\ mixer.pc = "mix" /\ ~audio.mixing
    /\ mixer' = [mixer EXCEPT !.pc = "off"]
    /\ UNCHANGED <<audio, ports, bump, free, notify, stream, ring, acall>>

-----------------------------------------------------------------------------

Next ==
    \/ InitAudio \/ QuitStops \/ QuitFrees \/ StreamStop
    \/ \E n \in Streams, mute \in BOOLEAN : StreamStart(n, mute)
    \/ \E c \in Callers :
         \/ \E n \in BlockCounts : PortOpen(c, n)
         \/ \E p \in Ports :
              \/ PortClose(c, p) \/ \E running \in BOOLEAN : Asks(c, p, running)
              \/ \E b \in 0..3 : Feed(c, p, b)
         \/ Sets(c)
         \/ \E k \in Keys : SetNotify(c, k) \/ RemoveNotify(c, k)
    \/ MixBlock \/ NotifySlot \/ MixerEnds

Spec == Init /\ [][Next]_audioVars

-----------------------------------------------------------------------------

TypeOK ==
    /\ \A p \in Ports : ports[p].read \in 0 .. ports[p].blocks - 1 /\ ports[p].buf \in 0..Window
    /\ bump \in 1 .. Window + 1
    /\ \A i \in 1..FreeMax : free[i].addr \in 0..Window
    /\ \A i \in Notifys : notify[i] \in Keys \cup {""}
    /\ mixer.pc \in {"off", "mix", "notify"} /\ mixer.slot \in Notifys
    /\ stream.cursor \in 0..stream.frames

Units(addr, size) == addr .. addr + size - 1

\* What is in the window: the rings and indexes of open ports, and what was freed.
Parts ==
    {Units(ports[p].buf, ports[p].blocks) : p \in {q \in Ports : ports[q].inUse}}
    \cup {Units(ports[p].idx, 1) : p \in {q \in Ports : ports[q].inUse}}
    \cup {Units(free[i].addr, free[i].size) : i \in {j \in 1..FreeMax : free[j].size > 0}}

(* Rings come and go in sizes that the allocator reuses exactly: no unit of the
   window has two owners, whatever the order of opens, closes, failures of the
   second allocation and restarts; with two entries for one unit the mixer would
   publish its index into another port's sound.                              *)
PortsApart ==
    /\ \A a, b \in Parts : a # b => a \cap b = {}
    /\ Cardinality(Parts) = 2 * Cardinality({p \in Ports : ports[p].inUse})
                            + Cardinality({i \in 1..FreeMax : free[i].size > 0})
    /\ \A a \in Parts : a \subseteq 1 .. bump - 1

\* What the guest wrote is played once: a producer that stalls goes silent.
PlayedOnce ==
    \A p \in Ports : ports[p].inUse => ring[p].fed = ring[p].played + Cardinality(ring[p].full)

\* The consumed frames are the clock of the movie: it is over when all were played.
MovieClock == stream.finished => stream.present /\ stream.cursor = stream.frames

\* No queue gets two events per period.
KeysOnce == \A i, j \in Notifys : notify[i] = notify[j] /\ notify[i] # "" => i = j

AudioSound == PortsApart /\ PlayedOnce /\ MovieClock /\ KeysOnce

=============================================================================
