----------------------------- MODULE RsxDisplay -----------------------------
(***************************************************************************)
(* Flips, the RSX interrupt and semaphores (yakuza/yz_sys_rsx.inc,         *)
(* yz_rsx_methods.inc, yz_gcm_hle.inc).  The guest appends the commands of *)
(* a frame to the ring; the consumer queues its buffer and arms the flip;  *)
(* the vblank thread presents it, sets the done bit, clears the flip label *)
(* and raises the interrupt.  Causes that find the event queue full are    *)
(* latched and sent again by either thread.  No lock is shared by the      *)
(* guest, the consumer and the vblank thread.                              *)
(***************************************************************************)
EXTENDS Integers, Sequences

CONSTANTS
    MaxFrames,   \* bound: frames the guest submits; the buffer of a frame is named by it
    EvMax,       \* places of the event queue
    Handlers,    \* causes the guest has handlers for
    CMod,        \* the completion counter wraps at
    Recent,      \* how far it may be ahead of a stale acquire
    MaxSkips,    \* bound: completions of which the counter shows only the last
    Ahead        \* the guest submits a frame before it resets the status of the last

VARIABLES
    head,      \* driver_info.head[1]: flags, lastQueuedBufferId, flipBufferId
    armed,     \* g_rsx_flip_pending[1]
    label,     \* the labels: of the flip (marked or not), of the guest, the counter at 0xFE0
    stream,    \* the consumer: the frame and command it is at, and its place in it
    vblank,    \* the vblank thread
    guest,     \* the render thread of the guest
    latched,   \* g_rsx_ev_pending
    evq,       \* the event queue of libgcm's interrupt thread
    raised,    \* history: how often a cause was raised, and the last raise handled
    shown,     \* history: frames presented
    passed     \* history: completions raised, and the last acquire that was passed

dispVars == <<head, armed, label, stream, vblank, guest, latched, evq, raised, shown, passed>>

Causes == {"vblank", "flip", "queue"}
Frames == 1 .. MaxFrames

\* The bits of an event.  A bit that is set stands for the raises of its cause up to a number.
NoBits == [c \in Causes |-> -1]
Bit(c) == [NoBits EXCEPT ![c] = raised.up[c]]
Merged(a, b) == [c \in Causes |-> IF a[c] > b[c] THEN a[c] ELSE b[c]]
Raise(S) == [raised EXCEPT !.up = [c \in Causes |-> IF c \in S THEN @[c] + 1 ELSE @[c]]]

Init ==
    /\ head = [flags |-> {}, queued |-> 0, flip |-> 0]
    /\ armed = FALSE
    /\ label = [flip |-> FALSE, guest |-> 0, count |-> 0]
    /\ stream = [frame |-> 1, op |-> 1, pc |-> "fetch", tmp |-> {}, bits |-> NoBits]
    /\ vblank = [pc |-> "idle", tmp |-> {}, bits |-> NoBits, flipped |-> FALSE]
    /\ guest = [frame |-> 0, pc |-> "submit", tmp |-> {}, seen |-> 0]
    /\ latched = NoBits /\ evq = <<>>
    /\ raised = [up |-> [c \in Causes |-> 0], got |-> [c \in Causes |-> -1]]
    /\ shown = <<>> /\ passed = [done |-> 0, acquired |-> 0, skips |-> 0]

-----------------------------------------------------------------------------
(* yz_rsx_ev_send, yz_ucmd_retry_pending *)

\* What could not be sent is or-ed into the latch.
\* A bug: the last one alone.
LatchedLast(bits) == bits
Latched(bits) == Merged(latched, bits)

Send(bits) ==
    IF Len(evq) < EvMax THEN evq' = Append(evq, bits) /\ UNCHANGED latched
    ELSE latched' = Latched(bits) /\ UNCHANGED evq

\* The interrupt thread of libgcm.
Receive ==
    /\ evq # <<>>
    /\ evq' = Tail(evq)
    /\ raised' = [raised EXCEPT !.got = Merged(@, Head(evq))]
    /\ UNCHANGED <<head, armed, label, stream, vblank, guest, latched, shown, passed>>

-----------------------------------------------------------------------------
(* the guest: yz_gcm_append_flip_commands, then the status of the flip *)

\* The commands of a frame: wait for the guest's label and for the counter, queue the
\* buffer, mark the flip label, flip, wait until the label is cleared.
Ops == <<"wait", "count", "queue", "mark", "flip", "clear">>

Submit ==
    /\ guest.pc = "submit" /\ guest.frame < MaxFrames
    /\ guest' = [guest EXCEPT !.frame = @ + 1, !.pc = "label"]
    /\ UNCHANGED <<head, armed, label, stream, vblank, latched, evq, raised, shown, passed>>

WriteLabel ==
    /\ guest.pc = "label"
    /\ label' = [label EXCEPT !.guest = guest.frame]
    /\ guest' = [guest EXCEPT !.pc = "await"]
    /\ UNCHANGED <<head, armed, stream, vblank, latched, evq, raised, shown, passed>>

SeesDone ==
    /\ guest.pc = "await" /\ "done" \in head.flags
    /\ guest' = [guest EXCEPT !.pc = IF Ahead /\ guest.frame < MaxFrames THEN "ahead" ELSE "reset",
                              !.seen = @ + 1]
    /\ UNCHANGED <<head, armed, label, stream, vblank, latched, evq, raised, shown, passed>>

SubmitAhead ==
    /\ guest.pc = "ahead"
    /\ guest' = [guest EXCEPT !.frame = @ + 1, !.pc = "reset"]
    /\ label' = [label EXCEPT !.guest = guest.frame + 1]
    /\ UNCHANGED <<head, armed, stream, vblank, latched, evq, raised, shown, passed>>

\* yz_sys_rsx_context_attribute, 0x10A: read and write
ResetReads ==
    /\ guest.pc = "reset"
    /\ guest' = [guest EXCEPT !.pc = "write", !.tmp = head.flags \ {"done"}]
    /\ UNCHANGED <<head, armed, label, stream, vblank, latched, evq, raised, shown, passed>>

ResetWrites ==
    /\ guest.pc = "write"
    /\ head' = [head EXCEPT !.flags = guest.tmp]
    /\ guest' = [guest EXCEPT !.pc = IF guest.seen < guest.frame THEN "await" ELSE "submit",
                              !.tmp = {}]
    /\ UNCHANGED <<armed, label, stream, vblank, latched, evq, raised, shown, passed>>

\* The handler of user commands completes some; the counter shows the last.
Complete(n) ==
    /\ passed.done < MaxFrames /\ passed.done + n <= MaxFrames /\ passed.skips + n - 1 <= MaxSkips
    /\ passed' = [passed EXCEPT !.done = @ + n, !.skips = @ + n - 1]
    /\ label' = [label EXCEPT !.count = (passed.done + n) % CMod]
    /\ UNCHANGED <<head, armed, stream, vblank, guest, latched, evq, raised, shown>>

-----------------------------------------------------------------------------
(* the consumer: yz_rsx_method *)

Op == Ops[stream.op]
Following == IF stream.op = Len(Ops)
             THEN [stream EXCEPT !.frame = @ + 1, !.op = 1, !.pc = "fetch"]
             ELSE [stream EXCEPT !.op = @ + 1, !.pc = "fetch"]

\* Every method sends what is latched first.
Fetch ==
    /\ stream.pc = "fetch" /\ stream.frame <= guest.frame
    /\ IF latched # NoBits
       THEN stream' = [stream EXCEPT !.pc = "retry", !.bits = latched] /\ latched' = NoBits
       ELSE stream' = [stream EXCEPT !.pc = "run"] /\ UNCHANGED latched
    /\ UNCHANGED <<head, armed, label, vblank, guest, evq, raised, shown, passed>>

StreamRetry ==
    /\ stream.pc = "retry"
    /\ Send(stream.bits)
    /\ stream' = [stream EXCEPT !.pc = "run", !.bits = NoBits]
    /\ UNCHANGED <<head, armed, label, vblank, guest, raised, shown, passed>>

Runs(op) == stream.pc = "run" /\ Op = op

\* A semaphore holds the value, or the method is fetched again.
Acquire(ok) ==
    /\ stream' = IF ok THEN Following ELSE [stream EXCEPT !.pc = "fetch"]
    /\ UNCHANGED <<head, armed, label, vblank, guest, latched, evq, raised, shown>>

AcquireLabel ==
    /\ Runs("wait") /\ Acquire(label.guest = stream.frame) /\ UNCHANGED passed

\* In a recovery a wait for an older value of the counter is satisfied.
\* A bug: the difference is taken the other way round.
CountBehind(have, want) == (want - have + CMod) % CMod < Recent
CountReached(have, want) == (have - want + CMod) % CMod < Recent

AcquireCount ==
    /\ Runs("count")
    /\ LET ok == CountReached(label.count, stream.frame % CMod)
       IN  /\ Acquire(ok)
           /\ passed' = IF ok THEN [passed EXCEPT !.acquired = stream.frame] ELSE passed

\* 0x103: the buffer, then the flags by read and write, then the event
Queue ==
    /\ Runs("queue")
    /\ head' = [head EXCEPT !.queued = stream.frame]
    /\ stream' = [stream EXCEPT !.pc = "flags", !.tmp = head.flags \cup {"queued"}]
    /\ UNCHANGED <<armed, label, vblank, guest, latched, evq, raised, shown, passed>>

QueueFlags ==
    /\ stream.pc = "flags"
    /\ head' = [head EXCEPT !.flags = stream.tmp]
    /\ IF "queue" \in Handlers
       THEN /\ raised' = Raise({"queue"})
            /\ stream' = [stream EXCEPT !.pc = "send", !.tmp = {},
                                        !.bits = [NoBits EXCEPT !["queue"] = raised.up["queue"] + 1]]
       ELSE stream' = [Following EXCEPT !.tmp = {}] /\ UNCHANGED raised
    /\ UNCHANGED <<armed, label, vblank, guest, latched, evq, shown, passed>>

QueueEvent ==
    /\ stream.pc = "send"
    /\ Send(stream.bits)
    /\ stream' = [Following EXCEPT !.bits = NoBits]
    /\ UNCHANGED <<head, armed, label, vblank, guest, raised, shown, passed>>

\* yz_rsx_406e_release of the flip label
Mark ==
    /\ Runs("mark")
    /\ label' = [label EXCEPT !.flip = TRUE]
    /\ stream' = Following
    /\ UNCHANGED <<head, armed, vblank, guest, latched, evq, raised, shown, passed>>

\* 0x102: only arms; the vblank thread presents.
Flip ==
    /\ Runs("flip")
    /\ armed' = TRUE
    /\ stream' = Following
    /\ UNCHANGED <<head, label, vblank, guest, latched, evq, raised, shown, passed>>

AcquireFlip == Runs("clear") /\ Acquire(~label.flip) /\ UNCHANGED passed

-----------------------------------------------------------------------------
(* yz_rsx_vblank_tick *)

Tick ==
    /\ vblank.pc = "idle" /\ guest.frame > 0
    /\ IF latched # NoBits
       THEN vblank' = [vblank EXCEPT !.pc = "retry", !.bits = latched] /\ latched' = NoBits
       ELSE vblank' = [vblank EXCEPT !.pc = "retire"] /\ UNCHANGED latched
    /\ UNCHANGED <<head, armed, label, stream, guest, evq, raised, shown, passed>>

TickRetry ==
    /\ vblank.pc = "retry"
    /\ Send(vblank.bits)
    /\ vblank' = [vblank EXCEPT !.pc = "retire", !.bits = NoBits]
    /\ UNCHANGED <<head, armed, label, stream, guest, raised, shown, passed>>

\* InterlockedExchange takes the flip.
TakeFlip ==
    /\ vblank.pc = "retire"
    /\ armed' = FALSE
    /\ vblank' = [vblank EXCEPT !.pc = IF armed THEN "present" ELSE "send", !.flipped = armed]
    /\ UNCHANGED <<head, label, stream, guest, latched, evq, raised, shown, passed>>

Present ==
    /\ vblank.pc = "present"
    /\ shown' = Append(shown, head.queued)
    /\ head' = [head EXCEPT !.flip = head.queued]
    /\ vblank' = [vblank EXCEPT !.pc = "flags", !.tmp = head.flags \cup {"done"}]
    /\ UNCHANGED <<armed, label, stream, guest, latched, evq, raised, passed>>

DoneFlag ==
    /\ vblank.pc = "flags"
    /\ head' = [head EXCEPT !.flags = vblank.tmp]
    /\ vblank' = [vblank EXCEPT !.pc = "label", !.tmp = {}]
    /\ UNCHANGED <<armed, label, stream, guest, latched, evq, raised, shown, passed>>

ClearLabel ==
    /\ vblank.pc = "label"
    /\ label' = [label EXCEPT !.flip = FALSE]
    /\ raised' = Raise({"flip"})
    /\ vblank' = [vblank EXCEPT !.pc = "send"]
    /\ UNCHANGED <<head, armed, stream, guest, latched, evq, shown, passed>>

\* A flip sends every cause that has a handler, a plain vblank its own.
\* A bug: a flip that follows a reset of its flag is not told.
PlainBits == [NoBits EXCEPT !["vblank"] = raised.up["vblank"]]
TickBits == [c \in Causes |-> IF c \in Handlers /\ (vblank.flipped \/ c = "vblank")
                              THEN raised.up[c] ELSE -1]

TickSend ==
    /\ vblank.pc = "send"
    /\ IF TickBits = NoBits THEN UNCHANGED <<latched, evq>> ELSE Send(TickBits)
    /\ vblank' = [vblank EXCEPT !.pc = "idle", !.flipped = FALSE]
    /\ UNCHANGED <<head, armed, label, stream, guest, raised, shown, passed>>

-----------------------------------------------------------------------------

Next ==
    \/ Receive \/ Submit \/ WriteLabel \/ SeesDone \/ SubmitAhead \/ ResetReads \/ ResetWrites
    \/ \E n \in 1 .. 2 : Complete(n)
    \/ Fetch \/ StreamRetry \/ AcquireLabel \/ AcquireCount \/ Queue \/ QueueFlags \/ QueueEvent
    \/ Mark \/ Flip \/ AcquireFlip
    \/ Tick \/ TickRetry \/ TakeFlip \/ Present \/ DoneFlag \/ ClearLabel \/ TickSend

-----------------------------------------------------------------------------

Bits == [Causes -> -1 .. MaxFrames]

TypeOK ==
    /\ head.flags \subseteq {"done", "queued"} /\ head.queued \in 0 .. MaxFrames
    /\ stream.frame \in 1 .. MaxFrames + 1 /\ stream.bits \in Bits
    /\ latched \in Bits /\ vblank.bits \in Bits /\ Len(evq) <= EvMax
    /\ shown \in Seq(Frames)

\* No raise of a cause is lost: it was handled, or is latched, in the queue or in the hands
\* of one of the threads that send it.
CausesKept ==
    \A c \in Handlers \ {"vblank"} :
        LET up == raised.up[c]
        IN  \/ up = 0 \/ raised.got[c] >= up \/ latched[c] >= up
            \/ \E i \in DOMAIN evq : evq[i][c] >= up
            \/ stream.bits[c] >= up \/ vblank.bits[c] >= up
            \/ vblank.pc = "send" /\ vblank.flipped

\* The frames are presented in order, each once; the consumer is past a frame only when it
\* was presented.
ShownInOrder ==
    /\ \A i \in DOMAIN shown : shown[i] = i
    /\ stream.frame <= Len(shown) + 1

\* The guest sees a flip done only when it was presented, and does see it: the done bit is
\* not lost when the flags are read and written by three threads.
DoneIsFresh == guest.seen <= Len(shown)
DoneIsSeen ==
    vblank.pc \notin {"flags", "present"} /\ guest.pc = "await" /\ guest.seen < Len(shown)
        => "done" \in head.flags

\* An acquire of the counter is passed only when the completion was raised.
CountHolds == passed.acquired <= passed.done

DisplaySound == CausesKept /\ ShownInOrder /\ DoneIsFresh /\ DoneIsSeen /\ CountHolds

=============================================================================
