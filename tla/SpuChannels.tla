----------------------------- MODULE SpuChannels -----------------------------
(***************************************************************************)
(* The channels of an SPU that others reach (runtime/spu/spu_channels.c,   *)
(* runtime/syscalls/lv2_register.c): a signal register that PPU threads    *)
(* write and the SPU waits for, and the events that it sends or throws to  *)
(* the queue of a group port, with the latch for throws that find it full. *)
(***************************************************************************)
EXTENDS Integers, Sequences, FiniteSets

CONSTANTS
    Writers,      \* PPU threads that write the signal register
    Bits,         \* of a signal
    SPUs,         \* numbers of the SPUs that send or throw events to one port
    Capacity,     \* of the queue
    LatchMax,     \* YZ_THROW_LAT_MAX
    MaxEvents     \* bound: events of an SPU

NoEvent == [spu |-> 0, nr |-> 0]

VARIABLES
    orMode,       \* spu_cfg
    sig,          \* ch_sig_notify: value and count
    lineLock,     \* who holds the lock-line lock
    wrt,          \* per writer: where it is in write_snr, and its value
    reader,       \* where the SPU is in rdch, its status and what it read
    owed,         \* history: the bits written and not yet read
    port,         \* whether a queue is connected to the group port
    events,       \* the queue
    latch,        \* g_throw_lat: per slot an event or NoEvent
    latchLock,    \* the slot that a flush is at, 0 if none runs
    thrower,      \* per SPU: where it is, out- and in-mailbox, its next event, whether it is acked
    sent,         \* history: the events that were sent or thrown
    over          \* history: the events received, or dropped

chanVars == <<orMode, sig, lineLock, wrt, reader, owed, port, events, latch, latchLock,
              thrower, sent, over>>

sigVars   == <<orMode, sig, lineLock, wrt, reader, owed>>
throwVars == <<port, events, latch, latchLock, thrower, sent, over>>

Free == "free"

Init ==
    /\ orMode \in BOOLEAN
    /\ sig = [value |-> {}, count |-> 0]
    /\ lineLock = Free
    /\ wrt = [w \in Writers |-> [pc |-> "idle", val |-> {}]]
    /\ reader = [pc |-> "runs", status |-> "running", val |-> {}]
    /\ owed = {}
    /\ port = FALSE
    /\ events = <<>>
    /\ latch = [i \in 1..LatchMax |-> NoEvent]
    /\ latchLock = 0
    /\ thrower = [s \in SPUs |-> [pc |-> "idle", out |-> 0, inbox |-> "none", acks |-> FALSE]]
    /\ sent = {}
    /\ over = {}

-----------------------------------------------------------------------------
(* signal notification *)

\* mutant: the lock is not waited for
LockIgnored == TRUE

LockFree == lineLock = Free

WriteSnr(w, val) ==
    /\ wrt[w].pc = "idle" /\ LockFree
    /\ lineLock' = w
    /\ wrt' = [wrt EXCEPT ![w] = [pc |-> IF orMode /\ sig.count = 1 THEN "or" ELSE "write",
                                  val |-> val]]
    /\ UNCHANGED <<orMode, sig, reader, owed, throwVars>>

\* Value and count are two stores; the wake follows the unlock.
Snr(w, from, to, value, count) ==
    /\ wrt[w].pc = from
    /\ sig' = [value |-> value, count |-> count]
    /\ wrt' = [wrt EXCEPT ![w].pc = to]
    /\ UNCHANGED <<orMode, reader, throwVars>>

SnrOr(w)     == /\ Snr(w, "or", "unlock", sig.value \cup wrt[w].val, sig.count)
                /\ owed' = owed \cup wrt[w].val /\ UNCHANGED lineLock
SnrValue(w)  == /\ Snr(w, "write", "count", wrt[w].val, sig.count)
                /\ owed' = (IF orMode THEN owed ELSE {}) \cup wrt[w].val /\ UNCHANGED lineLock
SnrCount(w)  == Snr(w, "count", "unlock", sig.value, 1) /\ UNCHANGED <<owed, lineLock>>
SnrUnlock(w) == Snr(w, "unlock", "idle", sig.value, sig.count) /\ lineLock' = Free /\ UNCHANGED owed

Ready == sig.count # 0

\* mutant: the wait is over without a signal
AnyTime == TRUE

Continues == Ready

\* rdch: an empty channel stalls the SPU; it looks again when woken, or every 10 ms.
Rdch ==
    /\ reader.pc = "runs"
    /\ reader' = IF Continues THEN [reader EXCEPT !.pc = "lock"]
                 ELSE [reader EXCEPT !.pc = "waits", !.status = "waiting"]
    /\ UNCHANGED <<orMode, sig, lineLock, wrt, owed, throwVars>>

RdchWoken ==
    /\ reader.pc = "waits" /\ Continues
    /\ reader' = [reader EXCEPT !.pc = "lock", !.status = "running"]
    /\ UNCHANGED <<orMode, sig, lineLock, wrt, owed, throwVars>>

RdchLock ==
    /\ reader.pc = "lock" /\ LockFree
    /\ lineLock' = "spu" /\ reader' = [reader EXCEPT !.pc = "value"]
    /\ UNCHANGED <<orMode, sig, wrt, owed, throwVars>>

RdchValue ==
    /\ reader.pc = "value"
    /\ reader' = [reader EXCEPT !.pc = "clear", !.val = sig.value]
    /\ owed' = owed \ sig.value
    /\ UNCHANGED <<orMode, sig, lineLock, wrt, throwVars>>

RdchClear ==
    /\ reader.pc = "clear"
    /\ sig' = [sig EXCEPT !.count = 0]
    /\ reader' = [reader EXCEPT !.pc = "unlock"]
    /\ UNCHANGED <<orMode, lineLock, wrt, owed, throwVars>>

RdchUnlock ==
    /\ reader.pc = "unlock"
    /\ lineLock' = Free
    /\ reader' = [reader EXCEPT !.pc = "runs", !.val = {}]
    /\ UNCHANGED <<orMode, sig, wrt, owed, throwVars>>

SetSpuCfg ==
    /\ sig.count = 0 /\ lineLock = Free /\ reader.pc = "runs" /\ owed = {}
    /\ orMode' = ~orMode
    /\ UNCHANGED <<sig, lineLock, wrt, reader, owed, throwVars>>

-----------------------------------------------------------------------------
(* events *)

\* connect_event_all_threads and its inverse
ConnectPort ==
    /\ port' = ~port
    /\ UNCHANGED <<sigVars, events, latch, latchLock, thrower, sent, over>>

Numbered(s) == Cardinality({e \in sent : e.spu = s}) + 1

\* The data goes to the out-mailbox; an older word is overwritten.
WrOutMbox(s) ==
    /\ thrower[s].pc = "idle" /\ Numbered(s) <= MaxEvents
    /\ thrower' = [thrower EXCEPT ![s].out = Numbered(s)]
    /\ UNCHANGED <<sigVars, port, events, latch, latchLock, sent, over>>

\* With no queue at the port the word stays, and the code goes to the interrupt mailbox.
WrOutIntrMbox(s, acks) ==
    LET e == [spu |-> s, nr |-> thrower[s].out] IN
    /\ thrower[s].pc = "idle" /\ thrower[s].out # 0 /\ port
    /\ sent' = sent \cup {e}
    /\ IF Len(events) < Capacity
       THEN /\ events' = Append(events, e) /\ UNCHANGED over
            /\ thrower' = [thrower EXCEPT ![s].out = 0,
                                          ![s].inbox = IF acks THEN "ok" ELSE @]
       ELSE /\ UNCHANGED events
            /\ over' = IF acks THEN over \cup {e} ELSE over
            /\ thrower' = [thrower EXCEPT ![s].out = IF acks THEN 0 ELSE @,
                                          ![s].pc = IF acks THEN "idle" ELSE "latch",
                                          ![s].inbox = IF acks THEN "busy" ELSE @]
    /\ UNCHANGED <<sigVars, port, latch, latchLock>>

ReadAck(s) ==
    /\ thrower[s].inbox # "none"
    /\ thrower' = [thrower EXCEPT ![s].inbox = "none"]
    /\ UNCHANGED <<sigVars, port, events, latch, latchLock, sent, over>>

\* mutant: the first slot is taken whether it is in use or not
FirstSlot == {1}

Unused == {i \in 1..LatchMax : latch[i] = NoEvent}

\* yz_throw_latch_add; with no slot left the event is dropped.
LatchAdd(s) ==
    LET e == [spu |-> s, nr |-> thrower[s].out] IN
    /\ thrower[s].pc = "latch" /\ latchLock = 0
    /\ IF Unused = {} THEN over' = over \cup {e} /\ UNCHANGED latch
       ELSE /\ latch' = [latch EXCEPT ![CHOOSE i \in Unused : \A j \in Unused : i <= j] = e]
            /\ UNCHANGED over
    /\ thrower' = [thrower EXCEPT ![s] = [@ EXCEPT !.out = 0, !.pc = "idle"]]
    /\ UNCHANGED <<sigVars, port, events, latchLock, sent>>

\* yz_throw_retry_flush, from the vertical blank, slot by slot under the lock.
Flush ==
    /\ latchLock = 0 /\ Unused # 1..LatchMax
    /\ latchLock' = 1
    /\ UNCHANGED <<sigVars, port, events, latch, thrower, sent, over>>

\* mutant: a slot keeps what was delivered
Kept(i) == latch[i]

Cleared(i) == NoEvent

FlushSlot ==
    /\ latchLock # 0
    /\ IF latch[latchLock] # NoEvent /\ Len(events) < Capacity
       THEN /\ events' = Append(events, latch[latchLock])
            /\ latch' = [latch EXCEPT ![latchLock] = Cleared(latchLock)]
       ELSE UNCHANGED <<events, latch>>
    /\ latchLock' = IF latchLock = LatchMax THEN 0 ELSE latchLock + 1
    /\ UNCHANGED <<sigVars, port, thrower, sent, over>>

Receive ==
    /\ Len(events) > 0
    /\ events' = Tail(events) /\ over' = over \cup {Head(events)}
    /\ UNCHANGED <<sigVars, port, latch, latchLock, thrower, sent>>

-----------------------------------------------------------------------------

Signals ==
    \/ \E w \in Writers :
         \/ \E b \in Bits : WriteSnr(w, {b})
         \/ SnrOr(w) \/ SnrValue(w) \/ SnrCount(w) \/ SnrUnlock(w)
    \/ Rdch \/ RdchWoken \/ RdchLock \/ RdchValue \/ RdchClear \/ RdchUnlock \/ SetSpuCfg

Throws ==
    \/ \E s \in SPUs :
         \/ WrOutMbox(s) \/ ReadAck(s) \/ LatchAdd(s)
         \/ \E acks \in BOOLEAN : WrOutIntrMbox(s, acks)
    \/ ConnectPort \/ Flush \/ FlushSlot \/ Receive

Next == Signals \/ Throws

Spec == Init /\ [][Next]_chanVars

-----------------------------------------------------------------------------

TypeOK ==
    /\ orMode \in BOOLEAN /\ sig.count \in 0..1 /\ sig.value \subseteq Bits /\ owed \subseteq Bits
    /\ lineLock \in Writers \cup {Free, "spu"}
    /\ reader.status = "waiting" <=> reader.pc = "waits"
    /\ port \in BOOLEAN /\ Len(events) <= Capacity

\* In either mode a signal that is written is there for the next read, and it reads
\* nothing that was read before.
SignalsKept ==
    /\ lineLock = Free => IF sig.count = 1 THEN sig.value = owed ELSE owed = {}
    /\ reader.pc = "clear" => reader.val # {}

\* An event is on its way in one place or has come to its end: none is lost, or kept as
\* a second copy.
ThrowsKept ==
    \A e \in sent :
        Cardinality({i \in 1..Len(events) : events[i] = e})
        + Cardinality({i \in 1..LatchMax : latch[i] = e})
        + (IF thrower[e.spu].pc = "latch" /\ thrower[e.spu].out = e.nr THEN 1 ELSE 0)
        + (IF e \in over THEN 1 ELSE 0) = 1

ChannelsSound == SignalsKept /\ ThrowsKept

=============================================================================
