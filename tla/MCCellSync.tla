----------------------------- MODULE MCCellSync -----------------------------
(* The cellSync objects for TLC.  The guest uses one object at a time, chosen
   at the start; the variables of the others keep their initial values.      *)
EXTENDS CellSync

VARIABLE object

rwmOnly     == <<readers, writer, buffer, dst>>
queueOnly   == <<depth, head, tail, count, slots, spinlock, item, out>>
barrierOnly == <<arrived, phase, sampled, polls, notified, passed, opened>>
allVars     == <<rwmOnly, queueOnly, barrierOnly, pc, try, object>>

Init ==
    /\ pc = [t \in Threads |-> "idle"]
    /\ try = [t \in Threads |-> FALSE]
    /\ object \in {"barrier", "rwm", "queue"}
    /\ BarrierInit /\ RwmInit /\ QueueInit
    /\ object # "queue" => depth = 1
    /\ object # "barrier" => polls = [t \in Threads |-> FALSE]
    /\ object # "rwm" => buffer = CHOOSE b \in Values \X Values : b[1] = b[2]

UsesBarrier == object = "barrier" /\ BarrierNext /\ UNCHANGED <<rwmOnly, queueOnly, object>>
UsesRwm     == object = "rwm" /\ RwmNext /\ UNCHANGED <<barrierOnly, queueOnly, object>>
UsesQueue   == object = "queue" /\ QueueNext /\ UNCHANGED <<barrierOnly, rwmOnly, object>>

Next == UsesBarrier \/ UsesRwm \/ UsesQueue

Spec == Init /\ [][Next]_allVars

\* A reader-writer memory call that has begun is scheduled.
RwmScheduled(t) ==
    object = "rwm" /\ RwmStep(t) /\ UNCHANGED <<barrierOnly, queueOnly, object>>

FairSpec == Spec /\ \A t \in Threads : WF_allVars(RwmScheduled(t))

\* Participants of a barrier keep to the protocol and are scheduled.
FairBarrierSpec ==
    /\ object = "barrier" /\ Spec
    /\ \A t \in Threads : /\ WF_allVars(UsesBarrier /\ BarrierGuest(t))
                          /\ WF_allVars(UsesBarrier /\ BarrierStep(t))

TypeOK ==
    /\ object = "barrier" => BarrierTypeOK
    /\ object = "rwm" => RwmTypeOK
    /\ object = "queue" => QueueTypeOK

=============================================================================
