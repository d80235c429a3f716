------------------------------ MODULE MfcQueue ------------------------------
(***************************************************************************)
(* The DMA commands of one SPU (runtime/spu/spu_dma.h): transfers are done *)
(* when they are issued, except that a list stops behind an element with   *)
(* stall-and-notify until the program acknowledges, and that a fenced      *)
(* command, and what follows it on its tag, waits for such a list.         *)
(***************************************************************************)
EXTENDS Integers, Sequences, FiniteSets, SequencesExt

CONSTANTS
    Tags,
    Depth,        \* MFC_QUEUE_DEPTH
    Lists,        \* what is transferred: per element, whether it stalls
    Masks,        \* the tag masks of a request
    MaxCmds,      \* bound: commands issued
    OneListPerTag \* the program issues no second list on a tag whose list is stalled

NoStall == [cmd |-> 0, next |-> 0]

VARIABLES
    cmds,         \* the commands issued: tag, fence, elements
    outstanding,  \* tag_outstanding
    queued,       \* queue_count
    completed,    \* tag_completed
    stall,        \* per tag: the list that is stalled and its next element
    deferred,     \* the commands that wait behind a stalled list, oldest first
    update,       \* the request of a tag status: type, mask, what RdTagStat returns once ready
    moved         \* history: per tag the elements transferred, as <<command, element>>

mfcVars == <<cmds, outstanding, queued, completed, stall, deferred, update, moved>>

NoUpdate == [type |-> "none", mask |-> {}, status |-> {}, upto |-> 0]

Init ==
    /\ cmds = <<>>
    /\ outstanding = [t \in Tags |-> 0]
    /\ queued = 0
    /\ completed = Tags
    /\ stall = [t \in Tags |-> NoStall]
    /\ deferred = <<>>
    /\ update = NoUpdate
    /\ moved = [t \in Tags |-> <<>>]

-----------------------------------------------------------------------------
(* One handler runs to its end before the SPU does anything else, so what it
   does to the engine is a function of the engine.                           *)

Engine == [outstanding |-> outstanding, queued |-> queued, completed |-> completed,
           stall |-> stall, deferred |-> deferred, moved |-> moved]

Stalled(e) == {t \in Tags : e.stall[t] # NoStall}

\* mfc_tag_accept
Accepted(e, t) ==
    [e EXCEPT !.outstanding[t] = @ + 1, !.queued = @ + 1, !.completed = @ \ {t}]

\* mutant: a tag is completed with its first command
TagFinishEager(e, t) ==
    [e EXCEPT !.outstanding[t] = @ - 1, !.queued = @ - 1, !.completed = @ \cup {t}]

\* mfc_tag_finish
TagFinish(e, t) ==
    [e EXCEPT !.outstanding[t] = @ - 1, !.queued = @ - 1,
              !.completed = IF e.outstanding[t] = 1 THEN @ \cup {t} ELSE @ \ {t}]

\* The elements from one on, up to the first that stalls; the bit is ignored on the last.
LastMoved(elements, from) ==
    LET stops == {i \in from..Len(elements) : elements[i] /\ i < Len(elements)} IN
    IF stops = {} THEN Len(elements) ELSE CHOOSE i \in stops : \A j \in stops : i <= j

\* mutant: the resumed list does the element again that it stalled behind
NextAgain(last) == last

NextElement(last) == last + 1

\* mfc_do_list_transfer_from
Transfer(e, c, from) ==
    LET elements == cmds'[c].elements
        last     == LastMoved(elements, from)
        tag      == cmds'[c].tag
        after    == [e EXCEPT !.moved[tag] = @ \o [i \in 1 .. last - from + 1 |-> <<c, from + i - 1>>]] IN
    IF last < Len(elements)
    THEN [after EXCEPT !.stall[tag] = [cmd |-> c, next |-> NextElement(last)]]
    ELSE TagFinish(after, tag)

\* mfc_drain_deferred_tag: the oldest of the tag while its list is not stalled again.
Waiting(e, t) == {i \in 1..Len(e.deferred) : cmds[e.deferred[i]].tag = t}

DrainOne(e, t) ==
    IF t \in Stalled(e) \/ Waiting(e, t) = {} THEN e
    ELSE LET i == CHOOSE i \in Waiting(e, t) : \A j \in Waiting(e, t) : i <= j IN
         Transfer([e EXCEPT !.deferred = RemoveAt(@, i)], e.deferred[i], 1)

Drain(e, t) ==
    LET drained[n \in 0..Depth] == IF n = 0 THEN e ELSE DrainOne(drained[n - 1], t)
    IN drained[Depth]

Becomes(e) ==
    /\ outstanding' = e.outstanding /\ queued' = e.queued /\ completed' = e.completed
    /\ stall' = e.stall /\ deferred' = e.deferred /\ moved' = e.moved

\* mfc_tag_update_satisfied
Satisfied(type, mask, done) ==
    CASE type = "now" -> TRUE
      [] type = "any" -> done \cap mask # {}
      [] type = "all" -> mask \subseteq done

\* mfc_refresh_tag_status, which every finished command calls: the result is there when
\* the condition holds after one of them, and does not change any more.
Refreshed(u, done) ==
    update' = IF u.type \in {"now", "any", "all"} /\ Satisfied(u.type, u.mask, done)
              THEN [u EXCEPT !.type = "ready", !.status = done \cap u.mask]
              ELSE u

-----------------------------------------------------------------------------
(* MFC_Cmd *)

\* mutant: a fence goes to the list at once
NeverWaits(t, fence) == FALSE

MustWait(t, fence) ==
    \/ fence /\ stall[t] # NoStall
    \/ \E i \in 1..Len(deferred) : cmds[deferred[i]].tag = t

\* spu_ch_wait: the write stalls while the queue is full.
Issue(t, fence, elements) ==
    /\ queued < Depth /\ Len(cmds) < MaxCmds
    /\ OneListPerTag => (stall[t] = NoStall \/ Len(elements) = 1 \/ MustWait(t, fence))
    /\ cmds' = Append(cmds, [tag |-> t, fence |-> fence, elements |-> elements])
    /\ LET c == Len(cmds) + 1
           e == Accepted(Engine, t) IN
       IF MustWait(t, fence)
       THEN /\ Becomes([e EXCEPT !.deferred = Append(@, c)])
            /\ UNCHANGED update
       ELSE LET f == Transfer(e, c, 1) IN
            /\ Becomes(f)
            /\ Refreshed(update, f.completed)

\* MFC_WrListStallAck: the rest of the list, and then what waited for it.
AckStall(t) ==
    /\ stall[t] # NoStall
    /\ UNCHANGED cmds
    /\ LET rest  == Transfer([Engine EXCEPT !.stall[t] = NoStall], stall[t].cmd, stall[t].next)
           e     == IF t \in Stalled(rest) THEN rest ELSE Drain(rest, t) IN
       /\ Becomes(e)
       /\ Refreshed(update, e.completed)

\* MFC_WrTagUpdate; a request replaces one that is pending.
RequestStatus(type, mask) ==
    /\ Refreshed([type |-> type, mask |-> mask, status |-> {}, upto |-> Len(cmds)], completed)
    /\ UNCHANGED <<cmds, outstanding, queued, completed, stall, deferred, moved>>

\* MFC_RdTagStat stalls until the result is there.
ReadStatus ==
    /\ update.type = "ready"
    /\ update' = NoUpdate
    /\ UNCHANGED <<cmds, outstanding, queued, completed, stall, deferred, moved>>

Next ==
    \/ \E t \in Tags, fence \in BOOLEAN, elements \in Lists : Issue(t, fence, elements)
    \/ \E t \in Tags : AckStall(t)
    \/ \E type \in {"now", "any", "all"}, mask \in Masks : RequestStatus(type, mask)
    \/ ReadStatus

Spec == Init /\ [][Next]_mfcVars

-----------------------------------------------------------------------------

TypeOK ==
    /\ outstanding \in [Tags -> 0..Depth] /\ queued \in 0..Depth
    /\ completed \subseteq Tags
    /\ \A t \in Tags : stall[t].cmd \in 0..Len(cmds)
    /\ update.type \in {"none", "now", "any", "all", "ready"}

\* The command whose element was transferred i-th on a tag, and the elements of one.
Mover(t, i) == moved[t][i][1]
Moved(c)    == {i \in 1..Len(moved[cmds[c].tag]) : Mover(cmds[c].tag, i) = c}
Finished(c) == Cardinality(Moved(c)) = Len(cmds[c].elements)

\* Every element of a command is transferred once and in order.
InOrder ==
    \A t \in Tags : \A i, j \in 1..Len(moved[t]) :
        (i < j /\ Mover(t, i) = Mover(t, j)) => moved[t][i][2] < moved[t][j][2]

\* A fenced command moves nothing before the older commands of its tag are finished, and
\* what was issued behind a waiting fence stays behind it.
FencesHold ==
    \A t \in Tags : \A i, j \in 1..Len(moved[t]) :
        LET c == Mover(t, i)
            d == Mover(t, j) IN
        (i < j /\ d < c) =>
            ~cmds[c].fence /\ (cmds[d].fence => \E k \in 1 .. i - 1 : Mover(t, k) = d)

\* A status that is ready tells the truth about what was issued before it was asked for.
StatusTrue ==
    update.type = "ready" =>
        \A c \in 1 .. update.upto : cmds[c].tag \in update.status => Finished(c)

\* The queue has room for exactly the commands that are not finished, and whatever is
\* unfinished hangs on a list that the program can acknowledge.
QueueAccounts ==
    LET open == {c \in 1..Len(cmds) : ~Finished(c)} IN
    /\ queued = Cardinality(open)
    /\ \A c \in open : stall[cmds[c].tag] # NoStall
    /\ completed = {t \in Tags : \A c \in open : cmds[c].tag # t}

MfcSound == InOrder /\ FencesHold /\ StatusTrue /\ QueueAccounts

=============================================================================
