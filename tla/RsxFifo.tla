------------------------------- MODULE RsxFifo -------------------------------
(***************************************************************************)
(* The command ring of the RSX (yakuza/yz_rsx_fifo.inc, the callback of    *)
(* yz_gcm_hle.inc, the stopper repair of yz_rsx_stopper_repair.inc).  The  *)
(* guest writes packets in segments of the ring and publishes them with    *)
(* PUT; a consumer thread executes them and moves GET.  A self-jump stops  *)
(* the consumer at each commit until it is released: by the guest, by its  *)
(* journal, or, when a release went missing, by the consumer itself.       *)
(* A packet takes two words here, a header and an argument.                *)
(***************************************************************************)
EXTENDS Integers, FiniteSets

CONSTANTS
    Segs, SegWords,   \* the segments and their words
    MaxSent,          \* bound: packets the guest writes
    MaxCommits,       \* bound: commits of the guest
    Releasing,        \* how the guest releases a stopper: "patch", "journal", "lost"
    KeepsApplied      \* the journal still holds the releases it has applied

Ring == Segs * SegWords

\* A display list outside the ring: a packet and a return.
List == Ring
NoReturn == -1

VARIABLES
    word,      \* the words of the ring and of the display list
    get, put,  \* RSX_DMACTL_GET and RSX_DMACTL_PUT, in words
    ret,       \* g_fifo_ret
    gctx,      \* the guest's context: begin, end, current; and its place in the code
    pending,   \* S[0x20]: the stopper of the last commit
    due,       \* stoppers whose release the guest owes, and how it will do it
    journal,   \* addresses in entries of tag 0x7F, applied ones apart
    startup,   \* g_yz_startup_segment_head_released: the commit whose guard it was, or -1
    look,      \* a repair between its snapshot and its recheck
    sent, done \* packets written, packets executed

fifoVars == <<word, get, put, ret, gctx, pending, due, journal, startup, look, sent, done>>
guestVars == <<gctx, pending, due, journal, sent>>

Jump(t) == [op |-> "jump", n |-> t]
Packet(n) == [op |-> "packet", n |-> n]
Arg(n) == [op |-> "arg", n |-> n]
Call == [op |-> "call", n |-> List]
Hole == [op |-> "hole", n |-> 0]
ListPacket == [op |-> "packet", n |-> 0]
Return == [op |-> "return", n |-> 0]

\* The first word of segment 0 jumps into it.
Begin(s) == s * SegWords + (IF s = 0 THEN 1 ELSE 0)
End(s)   == (s + 1) * SegWords - 1
SegOf(p) == p \div SegWords
Next1(p) == (p + 1) % Ring
Ahead(p) == (put - p + Ring) % Ring

NoLook == [at |-> -1, put |-> 0, pending |-> 0, entries |-> {}]

Init ==
    /\ word = [p \in 0 .. List + 2 |->
                 IF p = 0 THEN Jump(1) ELSE IF p \in {List, List + 1} THEN ListPacket
                 ELSE IF p = List + 2 THEN Return ELSE Hole]
    /\ get = 0 /\ put = 0 /\ ret = NoReturn
    /\ gctx = [begin |-> Begin(0), end |-> End(0), cur |-> Begin(0), pc |-> "game", left |-> MaxCommits]
    /\ pending = -1 /\ due = [p \in {} |-> ""] /\ journal = [live |-> {}, applied |-> {}]
    /\ startup = -1 /\ look = NoLook /\ sent = 0 /\ done = 0

-----------------------------------------------------------------------------
(* the guest *)

GuestWrites(c) ==
    /\ gctx.pc = "game" /\ gctx.cur < gctx.end
    /\ word' = [word EXCEPT ![gctx.cur] = c]
    /\ UNCHANGED <<get, ret, startup, look, done>>

\* A header needs room for its argument; PUT may move between the two.
WriteHeader ==
    /\ sent < MaxSent /\ gctx.cur + 2 <= gctx.end
    /\ GuestWrites(Packet(sent + 1))
    /\ gctx' = [gctx EXCEPT !.cur = @ + 1, !.pc = "arg"]
    /\ sent' = sent + 1 /\ UNCHANGED <<put, pending, due, journal>>

WriteArg ==
    /\ gctx.pc = "arg"
    /\ word' = [word EXCEPT ![gctx.cur] = Arg(sent)]
    /\ gctx' = [gctx EXCEPT !.cur = @ + 1, !.pc = "game"]
    /\ UNCHANGED <<get, ret, startup, look, done, put, pending, due, journal, sent>>

WriteCall ==
    /\ sent < MaxSent /\ word[gctx.cur] # Call
    /\ GuestWrites(Call)
    /\ gctx' = [gctx EXCEPT !.cur = @ + 1]
    /\ UNCHANGED <<put, pending, due, journal, sent>>

Flush ==
    /\ put # gctx.cur /\ gctx.pc \in {"game", "arg"}
    /\ put' = gctx.cur
    /\ UNCHANGED <<word, get, ret, startup, look, done, gctx, pending, due, journal, sent>>

\* A commit: a stopper at PUT; the one before is to be released, at once, by the journal,
\* or by a patch that gets lost.
Commit(how) ==
    /\ gctx.left > 0
    /\ GuestWrites(Jump(gctx.cur))
    /\ put' = gctx.cur
    /\ gctx' = [gctx EXCEPT !.cur = @ + 1, !.left = @ - 1,
                            !.pc = IF pending # -1 /\ how = "patch" THEN "patch" ELSE "game"]
    /\ pending' = gctx.cur
    /\ due' = IF pending = -1 THEN due
              ELSE [p \in DOMAIN due \cup {pending} |-> IF p = pending THEN how ELSE due[p]]
    /\ journal' = IF pending # -1 /\ how = "journal"
                  THEN [journal EXCEPT !.live = @ \cup {pending}] ELSE journal
    /\ UNCHANGED sent

Forget(p) == due' = [q \in DOMAIN due \ {p} |-> due[q]]

Patch(p) ==
    /\ gctx.pc = "patch" /\ p \in DOMAIN due /\ due[p] = "patch"
    /\ word' = [word EXCEPT ![p] = Jump(Next1(p))] /\ Forget(p)
    /\ gctx' = [gctx EXCEPT !.pc = "game"]
    /\ UNCHANGED <<get, put, ret, pending, journal, startup, look, sent, done>>

\* The journal is drained beside the guest's threads.
Drain(p) ==
    /\ p \in journal.live
    /\ word' = [word EXCEPT ![p] = Jump(Next1(p))] /\ Forget(p)
    /\ journal' = [live |-> journal.live \ {p},
                   applied |-> IF KeepsApplied THEN journal.applied \cup {p} ELSE {}]
    /\ UNCHANGED <<get, put, ret, gctx, pending, startup, look, sent, done>>

-----------------------------------------------------------------------------
(* yz_gcm_fifo_callback: on to the next segment *)

NextSeg == (SegOf(gctx.cur) + 1) % Segs

\* The guest has done with its stoppers of a segment before it enters it again.
Settled ==
    /\ pending = -1 \/ SegOf(pending) # NextSeg
    /\ \A p \in DOMAIN due : due[p] = "lost" \/ SegOf(p) # NextSeg

Callback ==
    /\ gctx.pc = "game" /\ gctx.cur + 2 > gctx.end /\ Settled
    /\ word' = [word EXCEPT ![gctx.cur] = Jump(Begin(NextSeg))]
    /\ put' = gctx.cur
    /\ gctx' = [gctx EXCEPT !.begin = Begin(NextSeg), !.end = End(NextSeg),
                            !.cur = Begin(NextSeg), !.pc = "recycle"]
    /\ UNCHANGED <<get, ret, pending, due, journal, startup, look, sent, done>>

InNext(p) == p >= gctx.begin /\ p <= gctx.end

\* A bug: a consumer in a display list called from the segment returns to it.
RecyclableByGet == ~InNext(get) /\ get # 0
Recyclable == ~InNext(get) /\ (ret = NoReturn \/ ~InNext(ret)) /\ get # 0

Recycle ==
    /\ gctx.pc = "recycle" /\ Recyclable
    /\ gctx' = [gctx EXCEPT !.pc = "game"]
    /\ UNCHANGED <<word, get, put, ret, pending, due, journal, startup, look, sent, done>>

-----------------------------------------------------------------------------
(* yz_rsx_fifo_step_impl: one command, under g_rsx_fifo_lock *)

AtCommand == get # put /\ look.at = -1
Cmd == word[get]
StopsHere == AtCommand /\ Cmd = Jump(get)

FollowJump ==
    /\ AtCommand /\ Cmd.op = "jump" /\ Cmd.n # get
    /\ get' = Cmd.n
    /\ UNCHANGED <<word, put, ret, guestVars, startup, look, done>>

FollowCall ==
    /\ AtCommand /\ Cmd.op = "call"
    /\ ret' = get + 1 /\ get' = Cmd.n
    /\ UNCHANGED <<word, put, guestVars, startup, look, done>>

FollowReturn ==
    /\ AtCommand /\ Cmd.op = "return" /\ ret # NoReturn
    /\ get' = ret /\ ret' = NoReturn
    /\ UNCHANGED <<word, put, guestVars, startup, look, done>>

\* PUT must cover the packet.
\* A bug: the header alone.
CommittedHeader == get # put
Committed == ~(get < put /\ get + 2 > put)

Execute ==
    /\ AtCommand /\ Cmd.op = "packet" /\ Committed
    /\ get' = get + 2
    /\ done' = IF Cmd.n = 0 THEN done ELSE Cmd.n
    /\ UNCHANGED <<word, put, ret, guestVars, startup, look>>

\* A self-jump that is released: the word jumps on, and GET with it.
Releases(p, resume) ==
    /\ word' = [word EXCEPT ![p] = Jump(resume)] /\ get' = resume
    /\ UNCHANGED <<put, ret, gctx, pending, due, journal, sent, done>>

\* yz_rsx_try_release_published_segment_head: the guard at the head, once
NotReleased == startup = -1
HeadResume == get = Begin(0) /\ Ahead(get) > 1 /\ Ahead(get) < Ring \div 2

StartupRelease ==
    /\ StopsHere /\ NotReleased /\ HeadResume
    /\ startup' = gctx.left
    /\ Releases(get, Next1(get)) /\ UNCHANGED look

\* yz_gcm_stopper_release_entry
HasEntry(p) == p \in journal.live \cup journal.applied

\* Parked for three seconds on a stopper whose release is in the journal.
ParkRelease ==
    /\ StopsHere /\ Ahead(get) # 0 /\ Ahead(get) < Ring \div 2 /\ HasEntry(get)
    /\ Releases(get, Next1(get)) /\ UNCHANGED <<startup, look>>

\* yz_a010_missing_release_try: what the journal says, then again after the chain was walked
Superseded ==
    IF Ahead(get) >= Ring \div 2
    THEN journal.live = {} /\ pending # get /\ pending = put
    ELSE pending = put /\ pending # get

LookMissing ==
    /\ StopsHere /\ Ahead(get) # 0 /\ Superseded /\ ~HasEntry(get)
    /\ look' = [at |-> get, put |-> put, pending |-> pending, entries |-> journal.live]
    /\ UNCHANGED <<word, get, put, ret, guestVars, startup, done>>

SameSnapshot == put = look.put /\ pending = look.pending /\ journal.live = look.entries
                /\ word[look.at] = Jump(look.at)

MissingRelease ==
    /\ look.at # -1 /\ look' = NoLook
    /\ IF SameSnapshot THEN Releases(look.at, Next1(look.at))
       ELSE UNCHANGED <<word, get, put, ret, guestVars, done>>
    /\ UNCHANGED startup

-----------------------------------------------------------------------------

GuestStep ==
    \/ WriteHeader \/ WriteArg \/ WriteCall \/ Flush \/ Callback \/ Recycle
    \/ \E how \in Releasing : Commit(how)
    \/ \E p \in 0 .. Ring - 1 : Patch(p) \/ Drain(p)

ConsumerStep ==
    \/ FollowJump \/ FollowCall \/ FollowReturn \/ Execute
    \/ StartupRelease \/ ParkRelease \/ LookMissing \/ MissingRelease

Next == GuestStep \/ ConsumerStep

-----------------------------------------------------------------------------

TypeOK ==
    /\ get \in 0 .. List + 2 /\ put \in 0 .. Ring - 1 /\ ret \in -1 .. Ring - 1
    /\ gctx.pc \in {"game", "arg", "patch", "recycle"} /\ gctx.cur \in 0 .. Ring - 1
    /\ DOMAIN due \subseteq 0 .. Ring - 1
    /\ journal.live \subseteq DOMAIN due /\ done <= sent

\* The packet at GET is the next one, whole: nothing that was not retired is overwritten,
\* skipped or executed twice, though segments are recycled and the consumer may be away
\* in a display list.
NextInLine ==
    AtCommand /\ Cmd.op = "packet" /\ Cmd.n # 0 /\ Committed =>
        Cmd.n = done + 1 /\ word[get + 1] = Arg(Cmd.n)

\* GET stays on what the guest has written: never on a word it has not finalised.
OnCommands == AtCommand => Cmd.op \notin {"hole", "arg"}

\* Only the guard at the head may be passed while it is the last stopper.
StopperHolds ==
    pending # -1 /\ word[pending] # Jump(pending) => pending = Begin(0) /\ startup = gctx.left

\* A guest that waits for a segment gets it.
Recycles == gctx.pc = "recycle" ~> gctx.pc = "game"

FifoSound == NextInLine /\ OnCommands /\ StopperHolds

=============================================================================
