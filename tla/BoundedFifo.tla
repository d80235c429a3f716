----------------------------- MODULE BoundedFifo -----------------------------
(***************************************************************************)
(* What an event queue promises its users: each queue is a bounded FIFO.   *)
(* A user offers an event, which is appended or refused; a take removes    *)
(* the oldest ones, in order; events are lost only when the queue is       *)
(* emptied as a whole.                                                     *)
(***************************************************************************)
EXTENDS Naturals, Sequences

CONSTANTS Ids, Users, Items, Nothing, Bound

VARIABLES
    contents,     \* the events of each queue, oldest first
    offer,        \* the event each user has offered
    taken         \* what the last take brought

Init ==
    /\ contents = [q \in Ids |-> <<>>]
    /\ offer = [u \in Users |-> Nothing]
    /\ taken = <<>>

Offer(u, e) ==
    /\ offer[u] = Nothing
    /\ offer' = [offer EXCEPT ![u] = e]
    /\ UNCHANGED <<contents, taken>>

Put(u, q) ==
    /\ offer[u] # Nothing
    /\ Len(contents[q]) < Bound
    /\ contents' = [contents EXCEPT ![q] = Append(@, offer[u])]
    /\ offer' = [offer EXCEPT ![u] = Nothing]
    /\ UNCHANGED taken

\* A queue whose own capacity is used up refuses; an empty one never does.
Refuse(u, q) ==
    /\ contents[q] # <<>>
    /\ offer' = [offer EXCEPT ![u] = Nothing]
    /\ UNCHANGED <<contents, taken>>

Take(q, n) ==
    /\ taken' = SubSeq(contents[q], 1, n)
    /\ contents' = [contents EXCEPT ![q] = SubSeq(@, n + 1, Len(@))]
    /\ UNCHANGED offer

\* A drain and a create empty the queue.
Clear(q) == contents' = [contents EXCEPT ![q] = <<>>] /\ UNCHANGED <<offer, taken>>

Next ==
    \/ \E u \in Users : \/ \E e \in Items : Offer(u, e)
                        \/ \E q \in Ids : Put(u, q) \/ Refuse(u, q)
    \/ \E q \in Ids : Clear(q) \/ \E n \in 0 .. Len(contents[q]) : Take(q, n)

Spec == Init /\ [][Next]_<<contents, offer, taken>>
=============================================================================
