---------------------------- MODULE ObjectsProofs ----------------------------
(***************************************************************************)
(* Theorems about the specification of the run Objects: what is hosted in  *)
(* it, kind by kind, and the semaphores of Lv2Semaphore for every set of   *)
(* threads, every number of slots and every range of arguments.  Each of   *)
(* the other kinds carries the inductive invariant of its own proof        *)
(* module; a step moves the kind in use and no other.                      *)
(***************************************************************************)
EXTENDS MCObjects, FiniteSetTheorems, TLAPS

(* Hosted kinds *)

\* The sizes MCObjects gives its objects meet the assumptions of their theorems.
LEMMA PairSizes ==
  /\ {1, 1, 2, 2} \subseteq Nat \ {0}
  /\ Cond!IsFiniteSet(Pair) /\ None \notin Pair
  /\ FALSE \in BOOLEAN
  BY PairAssumption DEF Cond!IsFiniteSet, IsFiniteSet

LEMMA HostSizes ==
    Host!PpuSizes /\ Host!RuntimeSizes /\ Host!TimerSizes /\ Host!GroupSizes
<1>1. Host!PpuSizes
  BY DEF Host!PpuSizes
<1>2. Host!RuntimeSizes
  BY DEF Host!RuntimeSizes
<1>3. Host!TimerSizes
  BY DEF Host!TimerSizes
<1>4. Host!GroupSizes
  BY DEF Host!GroupSizes
<1> QED BY <1>1, <1>2, <1>3, <1>4

LEMMA LockSizes == Host!Rw!RwSizes /\ Host!LwSizes
  BY LockAssumption

HostInv ==
    /\ kindUsed = "cond" => Cond!SInv
    /\ kindUsed = "queue" => Host!EInv
    /\ kindUsed = "flag" => Host!FInv
    /\ kindUsed = "rwlock" => Host!RwInv
    /\ kindUsed = "light" => Host!LwInv
    /\ kindUsed = "ppu" => Host!PpuInv
    /\ kindUsed = "runtime" => Host!RuntimeInv
    /\ kindUsed = "timer" => Host!TimerInv
    /\ kindUsed = "groups" => Host!GroupInv

HostStep ==
    /\ ObjectsNext
    /\ kindUsed # "semaphore" => UNCHANGED vars
    /\ UNCHANGED kindUsed

\* A step of the host is a step of the kind in use, or nothing moves.
LEMMA KindMoves ==
  ASSUME [HostStep]_<<every, vars>>
  PROVE  /\ kindUsed' = kindUsed
         /\ kindUsed = "cond" => [Cond!Next]_(Cond!vars)
         /\ kindUsed = "queue" => [Host!Queue!Next]_(Host!Queue!vars)
         /\ kindUsed = "flag" => [Host!Flag!Next]_(Host!Flag!vars)
         /\ kindUsed = "rwlock" => [Host!Rw!Next]_(Host!Rw!rwVars)
         /\ kindUsed = "light" => [Host!Light!Next]_(Host!Light!lwVars)
         /\ kindUsed = "ppu" => [Host!Ppu!Next]_(Host!Ppu!threadVars)
         /\ kindUsed = "runtime" => [Host!Lv2!Next]_(Host!Lv2!lv2Threads)
         /\ kindUsed = "timer" => [Host!Timer!Next]_(Host!Timer!timerVars)
         /\ kindUsed = "groups" => [Host!Spu!Next]_(Host!Spu!spuVars)
<1>1. CASE HostStep
  BY <1>1 DEF HostStep, ObjectsNext
<1>2. CASE UNCHANGED <<every, vars>>
  <2>1. UNCHANGED <<kindUsed, v1, v2, v3, v4, v5, v6, v7, v8, v9,
                    v10, v11, v12, v13, v14, v15, v16, v17, v18>>
    BY <1>2 DEF every, From1, From2, From3, From4, From5, From6, From7, From8, From9,
       From10, From11, From12, From13, From14, From15, From16, From17, From18
  <2> QED BY <2>1 DEF Cond!vars, Host!Queue!vars, Host!Flag!vars, Host!Rw!rwVars, Host!Light!lwVars,
              Host!Ppu!threadVars, Host!Lv2!lv2Threads, Host!Timer!timerVars, Host!Spu!spuVars
<1> QED BY <1>1, <1>2

LEMMA HostInit == ObjectsInit => HostInv
<1> SUFFICES ASSUME ObjectsInit PROVE HostInv
  OBVIOUS
<1>1. kindUsed = "cond" => Cond!SInv
  <2>1. kindUsed = "cond" => Cond!Init
    BY DEF ObjectsInit
  <2> QED BY <2>1, Cond!InitSInv, PairSizes
<1>2. kindUsed = "queue" => Host!EInv
  BY Host!InitEInv, QueueAssumption DEF ObjectsInit
<1>3. kindUsed = "flag" => Host!FInv
  BY Host!InitFInv, FlagAssumption DEF ObjectsInit
<1>4. kindUsed = "rwlock" => Host!RwInv
  BY Host!RwInitInv, LockSizes DEF ObjectsInit
<1>5. kindUsed = "light" => Host!LwInv
  BY Host!LwInitInv, LockSizes DEF ObjectsInit
<1>6. kindUsed = "ppu" => Host!PpuInv
  BY Host!PpuInit, HostSizes DEF ObjectsInit
<1>7. kindUsed = "runtime" => Host!RuntimeInv
  BY Host!RuntimeInit, HostSizes DEF ObjectsInit
<1>8. kindUsed = "timer" => Host!TimerInv
  BY Host!TimerInit, HostSizes DEF ObjectsInit
<1>9. kindUsed = "groups" => Host!GroupInv
  BY Host!GroupInit, HostSizes DEF ObjectsInit
<1> QED BY <1>1, <1>2, <1>3, <1>4, <1>5, <1>6, <1>7, <1>8, <1>9 DEF HostInv

LEMMA HostNext == HostInv /\ [HostStep]_<<every, vars>> => HostInv'
<1> SUFFICES ASSUME HostInv, [HostStep]_<<every, vars>> PROVE HostInv'
  OBVIOUS
<1>1. kindUsed = "cond" => Cond!SInv'
  BY KindMoves, Cond!NextSInv, PairSizes DEF HostInv
<1>2. kindUsed = "queue" => Host!EInv'
  BY KindMoves, Host!NextEInv, QueueAssumption DEF HostInv
<1>3. kindUsed = "flag" => Host!FInv'
  BY KindMoves, Host!NextFInv, FlagAssumption DEF HostInv
<1>4. kindUsed = "rwlock" => Host!RwInv'
  BY KindMoves, Host!RwNextInv, LockSizes DEF HostInv
<1>5. kindUsed = "light" => Host!LwInv'
  BY KindMoves, Host!LwNextInv, LockSizes DEF HostInv
<1>6. kindUsed = "ppu" => Host!PpuInv'
  BY KindMoves, Host!PpuNext, HostSizes DEF HostInv
<1>7. kindUsed = "runtime" => Host!RuntimeInv'
  BY KindMoves, Host!RuntimeNext, HostSizes DEF HostInv
<1>8. kindUsed = "timer" => Host!TimerInv'
  BY KindMoves, Host!TimerNext, HostSizes DEF HostInv
<1>9. kindUsed = "groups" => Host!GroupInv'
  BY KindMoves, Host!GroupNext, HostSizes DEF HostInv
<1> QED BY <1>1, <1>2, <1>3, <1>4, <1>5, <1>6, <1>7, <1>8, <1>9, KindMoves DEF HostInv

THEOREM HostInvariance == ObjectsSpec => []HostInv
  BY HostInit, HostNext, PTL DEF ObjectsSpec, HostStep

-----------------------------------------------------------------------------
(* The properties of the hosted kinds *)

(* A recursive mutex with its cond: the levels pair up, no signal is lost and the
   teardown is orderly, also when the waiter held the mutex twice.           *)
THEOREM NestedWaitsHold == ObjectsSpec => []NestedWaits
<1>1. HostInv => NestedWaits
  BY Cond!SInvFollows, PairSizes DEF HostInv, NestedWaits
<1> QED BY <1>1, HostInvariance, PTL

(* Rings, waiters and wakes of an event queue agree and a destroy is clean; no
   sleeper of an event flag is missed and a cancel is exact.                 *)
THEOREM EventsAreSound == ObjectsSpec => []EventsSound
<1>1. HostInv => EventsSound
  BY Host!EInvFollows, Host!FlagInvFollows, QueueAssumption DEF HostInv, EventsSound
<1> QED BY <1>1, HostInvariance, PTL

(* Whoever the owner words of a reader-writer lock name holds it; whoever was given
   a lightweight mutex is alone in it.                                       *)
THEOREM LocksAreOwned == ObjectsSpec => []LocksOwned
<1>1. HostInv => LocksOwned
  BY Host!RwInvFollows, Host!LwInvFollows, LockSizes DEF HostInv, LocksOwned
<1> QED BY <1>1, HostInvariance, PTL

(* A join of a PPU thread, of the guest's table or the runtime's, returns after the end
   of the thread with its code, a join of an SPU group with the worst status of its
   threads, and a timer that was stopped has no host thread left.            *)
THEOREM EndsAreExact == ObjectsSpec => []EndsExact
<1>1. HostInv => EndsExact
  BY Host!PpuFollows, Host!RuntimeFollows, Host!TimerFollows, Host!GroupFollows, HostSizes
     DEF HostInv, EndsExact
<1> QED BY <1>1, HostInvariance, PTL

(* The variables of the kind in use keep their types. *)
THEOREM GuestTyping == ObjectsSpec => []GuestTypes
<1>1. HostInv => GuestTypes
  <2> SUFFICES ASSUME HostInv PROVE GuestTypes
    OBVIOUS
  <2>1. kindUsed = "cond" => Cond!TypeOK
    BY DEF HostInv, Cond!SInv, Cond!IInv
  <2>2. kindUsed = "queue" => Host!Queue!TypeOK
    BY DEF HostInv, Host!EInv
  <2>3. kindUsed = "flag" => Host!Flag!TypeOK
    BY DEF HostInv, Host!FInv
  <2>4. kindUsed = "rwlock" => Host!Rw!TypeOK
    BY DEF HostInv, Host!RwInv
  <2>5. kindUsed = "light" => Host!Light!TypeOK
    BY Host!LwTyping, LockSizes DEF HostInv
  <2>6. /\ kindUsed = "ppu" => Host!Ppu!TypeOK
        /\ kindUsed = "runtime" => Host!Lv2!TypeOK
        /\ kindUsed = "timer" => Host!Timer!TypeOK
        /\ kindUsed = "groups" => Host!Spu!TypeOK
    BY Host!PpuFollows, Host!RuntimeFollows, Host!TimerFollows, Host!GroupFollows, HostSizes
       DEF HostInv
  <2> QED BY <2>1, <2>2, <2>3, <2>4, <2>5, <2>6 DEF GuestTypes
<1> QED BY <1>1, HostInvariance, PTL

(* A destroy without FORCE leaves no receiver asleep in the queue. *)
THEOREM SleepersAreSpared == ObjectsSpec => PlainDestroySpares
<1>1. HostInv /\ [HostStep]_<<every, vars>> => [kindUsed = "queue" => Host!Queue!SparesSleepers]_every
  <2> SUFFICES ASSUME HostInv, [HostStep]_<<every, vars>>, kindUsed = "queue", every' # every
               PROVE  Host!Queue!SparesSleepers
    OBVIOUS
  <2>1. Host!EInv /\ [Host!Queue!Next]_(Host!Queue!vars)
    BY KindMoves DEF HostInv
  <2>2. [Host!Queue!SparesSleepers]_(Host!Queue!vars)
    BY <2>1, Host!NextSpares, QueueAssumption
  <2>3. CASE UNCHANGED Host!Queue!vars
    BY <2>3 DEF Host!Queue!vars, Host!Queue!SparesSleepers
  <2> QED BY <2>2, <2>3
<1> QED BY <1>1, HostInvariance, PTL DEF ObjectsSpec, HostStep, PlainDestroySpares

\* What the queue shows to the abstract FIFO, here and in the module of queues.
FifoState == <<IF kindUsed = "queue" THEN [q \in Host!Queue!Queues |-> Host!Queue!Content(v3[q])]
               ELSE [q \in Host!Queue!Queues |-> <<>>],
               IF kindUsed = "queue" THEN v10 ELSE [t \in Threads |-> Host!Queue!Blank],
               IF kindUsed = "queue" THEN v12 ELSE <<>> >>

(* A queue that is used implements the bounded FIFO. *)
THEOREM QueuesAreFifos == ObjectsSpec => ImplementsFifo
<1>1. ObjectsInit => Fifo!Init
  <2>1. kindUsed = "queue" /\ ObjectsInit => Host!Queue!Init
    BY DEF ObjectsInit
  <2>2. kindUsed = "queue" /\ ObjectsInit => Host!Queue!Fifo!Init
    BY <2>1, Host!InitSimulated, QueueAssumption
  <2>3. kindUsed = "queue" /\ Host!Queue!Fifo!Init => Fifo!Init
    BY DEF Host!Queue!Fifo!Init, Fifo!Init
  <2>4. kindUsed # "queue" => Fifo!Init
    BY DEF Fifo!Init
  <2> QED BY <2>2, <2>3, <2>4
<1>2. HostInv /\ [HostStep]_<<every, vars>> => [Fifo!Next]_FifoState
  <2> SUFFICES ASSUME HostInv, [HostStep]_<<every, vars>> PROVE [Fifo!Next]_FifoState
    OBVIOUS
  <2>1. CASE kindUsed # "queue"
    BY <2>1, KindMoves DEF FifoState
  <2>2. CASE kindUsed = "queue"
    <3>1. Host!Queue!Fifo!Next \/ UNCHANGED Host!Abstract
      BY <2>2, KindMoves, Host!NextSimulated, QueueAssumption DEF HostInv
    <3>2. CASE UNCHANGED Host!Abstract
      BY <2>2, <3>2, KindMoves DEF Host!Abstract, Host!Contents, FifoState
    <3>3. CASE Host!Queue!Fifo!Next
      BY <2>2, <3>3, KindMoves DEF Fifo!Next, Host!Queue!Fifo!Next, Fifo!Put, Host!Queue!Fifo!Put,
         Fifo!Offer, Host!Queue!Fifo!Offer, Fifo!Refuse, Host!Queue!Fifo!Refuse, Fifo!Take, Host!Queue!Fifo!Take,
         Fifo!Clear, Host!Queue!Fifo!Clear
    <3> QED BY <3>1, <3>2, <3>3
  <2> QED BY <2>1, <2>2
<1> QED BY <1>1, <1>2, HostInvariance, PTL DEF ObjectsSpec, HostStep, ImplementsFifo, Fifo!Spec, FifoState

-----------------------------------------------------------------------------
(* Semaphores *)

(* The inductive invariant: the two counters of a slot count threads exactly,
   and a slot with a thread inside is live. *)
IInv == TypeOK /\ RefsExact /\ WaitersExact /\ RefPins

LEMMA InitIInv == Init => IInv
<1> SUFFICES ASSUME Init PROVE IInv
  OBVIOUS
<1>1. TypeOK
  BY NumSlotsAssumption DEF Init, TypeOK, PcValues, Slots
<1>2. \A s \in Slots : At(Busy, s) = {} /\ At(Waiting, s) = {}
  BY DEF Init, At, Busy, Waiting
<1>3. RefsExact
  BY <1>2, FS_EmptySet DEF Init, RefsExact, InCall
<1>5. WaitersExact
  BY <1>2, FS_EmptySet DEF Init, WaitersExact
<1>6. RefPins
  BY DEF Init, RefPins
<1> QED BY <1>1, <1>3, <1>5, <1>6 DEF IInv

\* Threads somewhere in a slot's code are a finite set.
LEMMA AtFinite == ASSUME NEW W, NEW s PROVE IsFiniteSet(At(W, s)) /\ Cardinality(At(W, s)) \in Nat
  BY ThreadsAssumption, FS_Subset, FS_CardinalityType DEF At

\* A thread that moves between two places, both counted or both not, keeps the set.
LEMMA AtStays ==
  ASSUME TypeOK, NEW t \in Threads, NEW n \in PcValues, NEW W, NEW s \in Slots,
         pc' = [pc EXCEPT ![t] = n], cur' = cur, pc[t] \in W <=> n \in W
  PROVE  At(W, s)' = At(W, s)
  BY DEF At, TypeOK

\* One thread more or less in a set counts for one.
LEMMA CountUp ==
  ASSUME NEW W, NEW s, NEW t, t \notin At(W, s)
  PROVE  Cardinality(At(W, s) \cup {t}) = Cardinality(At(W, s)) + 1
  BY AtFinite, FS_AddElement

LEMMA CountDown ==
  ASSUME NEW W, NEW s, NEW t, t \in At(W, s)
  PROVE  /\ Cardinality(At(W, s) \ {t}) = Cardinality(At(W, s)) - 1
         /\ Cardinality(At(W, s)) > 0
<1>1. IsFiniteSet(At(W, s)) /\ Cardinality(At(W, s)) \in Nat
  BY AtFinite
<1>2. Cardinality(At(W, s)) # 0
  BY <1>1, FS_EmptySet
<1> QED BY <1>1, <1>2, FS_RemoveElement

-----------------------------------------------------------------------------
(* The steps, by what they do to the counters. *)

\* A step that moves a thread inside its call and leaves active, references
\* and waiters alone, neither joining nor leaving the sleepers.
LEMMA InnerStep ==
  ASSUME IInv, NEW t \in Threads, NEW n \in Busy, TypeOK',
         pc[t] # "idle", pc[t] \in Waiting <=> n \in Waiting,
         pc' = [pc EXCEPT ![t] = n], cur' = cur,
         active' = active, references' = references, waiters' = waiters
  PROVE  IInv'
<1> USE DEF IInv
<1>1. pc[t] \in Busy /\ n \in PcValues
  BY DEF TypeOK, Busy
<1>2. ASSUME NEW s \in Slots PROVE At(Busy, s)' = At(Busy, s) /\ At(Waiting, s)' = At(Waiting, s)
  BY <1>1, AtStays
<1>3. RefsExact'
  BY <1>2 DEF RefsExact, InCall
<1>4. WaitersExact'
  BY <1>2 DEF WaitersExact
<1>5. RefPins'
  BY DEF RefPins, TypeOK
<1> QED BY <1>3, <1>4, <1>5

\* waiters++ on the way to sleep.
LEMMA ParkStep ==
  ASSUME IInv, TypeOK', NEW t \in Threads, WaitPark(t)
  PROVE  IInv'
<1> USE DEF IInv
<1> PICK c \in Slots : c = cur[t]
  BY DEF TypeOK
<1>1. /\ pc[t] = "check" /\ pc' = [pc EXCEPT ![t] = "parked"] /\ cur' = cur
      /\ active' = active /\ references' = references
      /\ waiters' = [waiters EXCEPT ![c] = @ + 1]
  BY DEF WaitPark, Goto
<1>2. c \in Slots /\ "parked" \in PcValues /\ pc[t] \in Busy /\ "parked" \in Busy
  BY <1>1 DEF TypeOK, PcValues, Busy
<1>3. /\ At(Waiting, c)' = At(Waiting, c) \cup {t} /\ t \notin At(Waiting, c)
      /\ \A r \in Slots \ {c} : At(Waiting, r)' = At(Waiting, r)
  <2>1. cur' = [cur EXCEPT ![t] = c] /\ pc[t] \notin Waiting /\ "parked" \in Waiting
    BY <1>1, <1>2 DEF TypeOK, Waiting
  <2> QED BY <1>1, <1>2, <2>1 DEF At, TypeOK
<1>4. WaitersExact'
  BY <1>1, <1>2, <1>3, CountUp DEF WaitersExact, TypeOK
<1>5. \A s \in Slots : At(Busy, s)' = At(Busy, s)
  BY <1>1, <1>2, AtStays
<1>6. RefsExact' /\ RefPins'
  BY <1>1, <1>5 DEF RefsExact, InCall, RefPins, TypeOK
<1> QED BY <1>4, <1>6

\* waiters-- after a sleep: the clamp at zero never acts.
LEMMA UnparkStep ==
  ASSUME IInv, TypeOK', NEW t \in Threads, WaitUnpark(t)
  PROVE  IInv'
<1> USE DEF IInv
<1> PICK c \in Slots : c = cur[t]
  BY DEF TypeOK
<1>1. /\ pc[t] = "woken" /\ pc' = [pc EXCEPT ![t] = "check"] /\ cur' = cur
      /\ active' = active /\ references' = references
      /\ waiters' = [waiters EXCEPT ![c] = IF @ > 0 THEN @ - 1 ELSE @]
  BY DEF WaitUnpark, Goto
<1>2. c \in Slots /\ "check" \in PcValues /\ pc[t] \in Busy /\ "check" \in Busy
  BY <1>1 DEF TypeOK, PcValues, Busy
<1>3. /\ At(Waiting, c)' = At(Waiting, c) \ {t} /\ t \in At(Waiting, c)
      /\ \A r \in Slots \ {c} : At(Waiting, r)' = At(Waiting, r)
  <2>1. pc[t] \in Waiting /\ "check" \notin Waiting
    BY <1>1 DEF Waiting
  <2> QED BY <1>1, <1>2, <2>1 DEF At, TypeOK
<1>4. WaitersExact'
  BY <1>1, <1>2, <1>3, CountDown DEF WaitersExact, TypeOK
<1>5. \A s \in Slots : At(Busy, s)' = At(Busy, s)
  BY <1>1, <1>2, AtStays
<1>6. RefsExact' /\ RefPins'
  BY <1>1, <1>5 DEF RefsExact, InCall, RefPins, TypeOK
<1> QED BY <1>4, <1>6

\* A call begins: references++ on a live slot.
LEMMA AcquireStep ==
  ASSUME IInv, TypeOK', NEW t \in Threads, NEW s \in Slots, NEW n \in Busy \ Waiting,
         RefAcquire(t, s, n)
  PROVE  IInv'
<1> USE DEF IInv
<1>1. /\ pc[t] = "idle" /\ active[s] /\ active' = active /\ waiters' = waiters
      /\ references' = [references EXCEPT ![s] = @ + 1]
      /\ pc' = [pc EXCEPT ![t] = n] /\ cur' = [cur EXCEPT ![t] = s]
  BY DEF RefAcquire
<1>2. /\ At(Busy, s)' = At(Busy, s) \cup {t} /\ t \notin At(Busy, s)
      /\ \A r \in Slots \ {s} : At(Busy, r)' = At(Busy, r)
  <2>1. pc[t] \notin Busy /\ n \in Busy /\ n \in PcValues
    BY <1>1 DEF Busy
  <2> QED BY <1>1, <2>1 DEF At, TypeOK
<1>3. RefsExact'
  BY <1>1, <1>2, CountUp DEF RefsExact, InCall, TypeOK
<1>4. \A r \in Slots : At(Waiting, r)' = At(Waiting, r)
  BY <1>1 DEF At, TypeOK, Waiting
<1>5. WaitersExact' /\ RefPins'
  BY <1>1, <1>4 DEF WaitersExact, RefPins, TypeOK
<1> QED BY <1>3, <1>5

\* A call ends: references--, and the clamp at zero never acts.
LEMMA ReleaseStep ==
  ASSUME IInv, TypeOK', NEW t \in Threads, RefRelease(t)
  PROVE  IInv'
<1> USE DEF IInv
<1> PICK c \in Slots : c = cur[t]
  BY DEF TypeOK
<1>1. /\ pc[t] = "release" /\ pc' = [pc EXCEPT ![t] = "idle"] /\ cur' = cur
      /\ active' = active /\ waiters' = waiters
      /\ references' = [references EXCEPT ![c] = IF @ > 0 THEN @ - 1 ELSE @]
  BY DEF RefRelease
<1>2. c \in Slots /\ "idle" \in PcValues /\ pc[t] \in Busy /\ "idle" \notin Busy
  BY <1>1 DEF TypeOK, PcValues, Busy
<1>3. /\ At(Busy, c)' = At(Busy, c) \ {t} /\ t \in At(Busy, c)
      /\ \A r \in Slots \ {c} : At(Busy, r)' = At(Busy, r)
  BY <1>1, <1>2 DEF At, TypeOK
<1>4. RefsExact'
  BY <1>1, <1>2, <1>3, CountDown DEF RefsExact, InCall, TypeOK
<1>5. \A r \in Slots : At(Waiting, r)' = At(Waiting, r)
  BY <1>1 DEF At, TypeOK, Waiting
<1>6. WaitersExact' /\ RefPins'
  BY <1>1, <1>5 DEF WaitersExact, RefPins, TypeOK
<1> QED BY <1>4, <1>6

\* A free slot has no thread inside, so memset may zero its counters.
LEMMA CreateStep ==
  ASSUME IInv, TypeOK', NEW t \in Threads, NEW s \in Slots, NEW initial, NEW max,
         NEW opened, Create(t, s, initial, max, opened)
  PROVE  IInv' /\ InCall(s) = {}
<1> USE DEF IInv
<1>1. /\ ~active[s] /\ active' = [active EXCEPT ![s] = opened]
      /\ references' = [references EXCEPT ![s] = 0]
      /\ waiters' = [waiters EXCEPT ![s] = 0]
      /\ pc' = pc /\ cur' = cur
  BY DEF Create, FirstFree, threadVars
<1>2. At(Busy, s) = {} /\ At(Waiting, s) = {}
  BY <1>1 DEF RefPins, At, Busy, Waiting
<1>3. \A r, W : At(W, r)' = At(W, r)
  BY <1>1 DEF At
<1>4. RefsExact'
  BY <1>1, <1>2, <1>3, FS_EmptySet DEF RefsExact, InCall, TypeOK
<1>5. WaitersExact'
  BY <1>1, <1>2, <1>3, FS_EmptySet DEF WaitersExact, TypeOK
<1>6. RefPins'
  BY <1>1 DEF RefPins, TypeOK
<1> QED BY <1>2, <1>4, <1>5, <1>6 DEF InCall

\* references = 0 says that no thread is inside.
LEMMA DestroyStep ==
  ASSUME IInv, TypeOK', NEW t \in Threads, NEW s \in Slots, Destroy(t, s)
  PROVE  IInv' /\ InCall(s) = {}
<1> USE DEF IInv
<1>1. /\ references[s] = 0 /\ active' = [active EXCEPT ![s] = FALSE]
      /\ references' = references /\ waiters' = waiters /\ pc' = pc /\ cur' = cur
  BY DEF Destroy, Unused, threadVars
<1>2. InCall(s) = {}
  BY <1>1, AtFinite, FS_EmptySet DEF RefsExact, InCall
<1>3. \A r, W : At(W, r)' = At(W, r)
  BY <1>1 DEF At
<1>4. RefsExact' /\ WaitersExact'
  BY <1>1, <1>3 DEF RefsExact, WaitersExact, InCall
<1>5. RefPins'
  BY <1>1, <1>2 DEF RefPins, InCall, At, Busy, TypeOK
<1> QED BY <1>2, <1>4, <1>5

-----------------------------------------------------------------------------
(* The next-state relation *)

LEMMA TypeStep == TypeOK /\ [Next]_vars => TypeOK'
<1> SUFFICES ASSUME TypeOK, [Next]_vars PROVE TypeOK'
  OBVIOUS
<1>1. ASSUME NEW t \in Threads, Call(t) PROVE TypeOK'
  <2> PICK s \in Slots :
          \/ \E max \in MaxArgs, initial \in 0..IntMax, opened \in BOOLEAN :
                Create(t, s, initial, max, opened)
          \/ Destroy(t, s)
          \/ \E b \in BOOLEAN : WaitCall(t, s, b)
          \/ TryCall(t, s)
          \/ \E n \in PostArgs : PostCall(t, s, n)
          \/ GetCall(t, s)
    BY <1>1 DEF Call
  <2>1. ASSUME NEW max \in MaxArgs, NEW initial \in 0..IntMax, NEW opened \in BOOLEAN,
               Create(t, s, initial, max, opened)
        PROVE TypeOK'
    <3>1. max \in Nat /\ initial \in Int
      BY ArgsAssumption, IntMaxAssumption
    <3>2. /\ active' = [active EXCEPT ![s] = opened]
          /\ value' = [value EXCEPT ![s] = initial]
          /\ maxValue' = [maxValue EXCEPT ![s] = max]
          /\ references' = [references EXCEPT ![s] = 0]
          /\ waiters' = [waiters EXCEPT ![s] = 0]
          /\ tokens' = [tokens EXCEPT ![s] = 0]
          /\ UNCHANGED <<pc, cur, timed, arg>>
      BY <2>1 DEF Create, threadVars
    <3>3. active' \in [Slots -> BOOLEAN]
      BY <3>2, Zenon DEF TypeOK
    <3> QED BY <3>1, <3>2, <3>3 DEF TypeOK
  <2>2. CASE Destroy(t, s)
    BY <2>2 DEF TypeOK, Destroy, threadVars
  <2>3. ASSUME NEW b \in BOOLEAN, WaitCall(t, s, b) PROVE TypeOK'
    BY <2>3 DEF TypeOK, WaitCall, RefAcquire, PcValues
  <2>4. CASE TryCall(t, s)
    BY <2>4 DEF TypeOK, TryCall, RefAcquire, PcValues
  <2>5. ASSUME NEW n \in PostArgs, PostCall(t, s, n) PROVE TypeOK'
    BY <2>5, ArgsAssumption, IntMaxAssumption DEF TypeOK, PostCall, RefAcquire, PcValues
  <2>6. CASE GetCall(t, s)
    BY <2>6 DEF TypeOK, GetCall, RefAcquire, PcValues
  <2> QED BY <2>1, <2>2, <2>3, <2>4, <2>5, <2>6
<1>2. ASSUME NEW t \in Threads, Step(t) PROVE TypeOK'
  <2> USE DEF Goto, slotVars, PcValues
  <2>1. CASE WaitTake(t) \/ WaitTimeout(t) \/ WaitPark(t)
    BY <2>1 DEF TypeOK, WaitTake, WaitTimeout, WaitPark
  <2>2. CASE WaitToken(t) \/ WaitSlice(t) \/ WaitUnpark(t)
    BY <2>2 DEF TypeOK, WaitToken, WaitSlice, WaitUnpark
  <2>3. CASE PostRefuse(t) \/ GetValue(t)
    BY <2>3 DEF TypeOK, PostRefuse, GetValue
  <2>6. CASE TryWait(t)
    BY <2>6 DEF TypeOK, TryWait
  <2>7. CASE RefRelease(t)
    BY <2>7 DEF TypeOK, RefRelease
  <2>4. CASE PostAdmit(t)
    BY <2>4, IntMaxAssumption DEF TypeOK, PostAdmit, Wakes, Lesser, Wrap
  <2>5. CASE PostWake(t)
    BY <2>5, TokenMaxAssumption DEF TypeOK, PostWake
  <2> QED BY <1>2, <2>1, <2>2, <2>3, <2>4, <2>5, <2>6, <2>7 DEF Step
<1>3. CASE UNCHANGED vars
  BY <1>3 DEF vars, TypeOK
<1> QED BY <1>1, <1>2, <1>3 DEF Next

LEMMA NextIInv == IInv /\ [Next]_vars => IInv'
<1> SUFFICES ASSUME IInv, [Next]_vars PROVE IInv'
  OBVIOUS
<1>0. TypeOK'
  BY TypeStep DEF IInv
<1>1. ASSUME NEW t \in Threads, Call(t) PROVE IInv'
  <2> PICK s \in Slots :
          \/ \E max \in MaxArgs, initial \in 0..IntMax, opened \in BOOLEAN :
                Create(t, s, initial, max, opened)
          \/ Destroy(t, s)
          \/ \E b \in BOOLEAN : WaitCall(t, s, b)
          \/ TryCall(t, s)
          \/ \E n \in PostArgs : PostCall(t, s, n)
          \/ GetCall(t, s)
    BY <1>1 DEF Call
  <2> {"check", "try", "post", "get"} \subseteq Busy \ Waiting
    BY DEF Busy, Waiting, PcValues
  <2>1. ASSUME NEW max \in MaxArgs, NEW initial \in 0..IntMax, NEW opened \in BOOLEAN,
               Create(t, s, initial, max, opened)
        PROVE IInv'
    BY <1>0, <2>1, CreateStep
  <2>2. CASE Destroy(t, s)
    BY <1>0, <2>2, DestroyStep
  <2>3. ASSUME NEW b \in BOOLEAN, WaitCall(t, s, b) PROVE IInv'
    BY <1>0, <2>3, AcquireStep DEF WaitCall
  <2>4. CASE TryCall(t, s)
    BY <1>0, <2>4, AcquireStep DEF TryCall
  <2>5. ASSUME NEW n \in PostArgs, PostCall(t, s, n) PROVE IInv'
    BY <1>0, <2>5, AcquireStep DEF PostCall
  <2>6. CASE GetCall(t, s)
    BY <1>0, <2>6, AcquireStep DEF GetCall
  <2> QED BY <2>1, <2>2, <2>3, <2>4, <2>5, <2>6
<1>2. ASSUME NEW t \in Threads, Step(t) PROVE IInv'
  <2> DEFINE Inner(n) == /\ pc[t] # "idle" /\ n \in Busy
                         /\ pc[t] \in Waiting <=> n \in Waiting
                         /\ pc' = [pc EXCEPT ![t] = n] /\ cur' = cur
                         /\ active' = active /\ references' = references
                         /\ waiters' = waiters
  <2>0. ASSUME NEW n, Inner(n) PROVE IInv'
    BY <1>0, <2>0, InnerStep
  <2> USE DEF Goto, slotVars, Busy, Waiting, PcValues
  <2>1. CASE WaitTake(t) \/ WaitTimeout(t)
    <3>1. Inner("release") BY <2>1 DEF WaitTake, WaitTimeout
    <3> QED BY <2>0, <3>1
  <2>2. CASE WaitToken(t) \/ WaitSlice(t)
    <3>1. Inner("woken") BY <2>2 DEF WaitToken, WaitSlice
    <3> QED BY <2>0, <3>1
  <2>3. CASE TryWait(t) \/ PostRefuse(t) \/ PostWake(t) \/ GetValue(t)
    <3>1. Inner("release") BY <2>3 DEF TryWait, PostRefuse, PostWake, GetValue
    <3> QED BY <2>0, <3>1
  <2>4. CASE PostAdmit(t)
    <3>1. Inner("wake") BY <2>4 DEF PostAdmit
    <3> QED BY <2>0, <3>1
  <2>5. CASE WaitPark(t)
    BY <1>0, <2>5, ParkStep
  <2>6. CASE WaitUnpark(t)
    BY <1>0, <2>6, UnparkStep
  <2>7. CASE RefRelease(t)
    BY <1>0, <2>7, ReleaseStep
  <2> QED BY <1>2, <2>1, <2>2, <2>3, <2>4, <2>5, <2>6, <2>7 DEF Step
<1>3. CASE UNCHANGED vars
  <2>1. \A W, s : At(W, s)' = At(W, s)
    BY <1>3 DEF At, vars
  <2> QED BY <1>3, <2>1 DEF vars, IInv, TypeOK, RefsExact, InCall, WaitersExact, RefPins
<1> QED BY <1>1, <1>2, <1>3 DEF Next

(* The inductive invariant holds of every behaviour. *)
THEOREM Invariance == Spec => []IInv
  BY InitIInv, NextIInv, PTL DEF Spec

(* Every variable keeps its type. *)
THEOREM Typing == Spec => []TypeOK
  BY Invariance, PTL DEF IInv

(* sem_ref_acquire pins the slot: no thread is ever inside a call on a slot
   that has been destroyed. *)
THEOREM Pinning == Spec => []RefPins
  BY Invariance, PTL DEF IInv

(* waiters, on which post's ceiling and its number of wake tokens rest, counts
   the threads between waiters++ and waiters--. *)
THEOREM WaiterCount == Spec => []WaitersExact
  BY Invariance, PTL DEF IInv

(* The counters are exact and a call keeps its slot, for any number of threads
   and slots.                                                                *)
THEOREM SlotsStayPinned == Spec => []SlotsPinned
  BY Invariance, PTL DEF IInv, SlotsPinned

\* The two steps that change `active' find nobody inside; no other step changes it.
LEMMA NextRecycle ==
  IInv /\ [Next]_vars => (\A s \in Slots : active[s] # active'[s] => InCall(s) = {})
<1> SUFFICES ASSUME IInv, [Next]_vars, NEW s \in Slots, active[s] # active'[s]
             PROVE InCall(s) = {}
  OBVIOUS
<1>0. TypeOK'
  BY TypeStep DEF IInv
<1>1. PICK t \in Threads : Call(t) \/ Step(t)
  BY DEF Next, vars
<1>2. active' # active
  OBVIOUS
<1>3. ~Step(t)
  BY <1>2 DEF Step, slotVars, WaitTake, WaitTimeout, WaitPark, WaitToken, WaitSlice, WaitUnpark,
              TryWait, PostRefuse, PostAdmit, PostWake, GetValue, RefRelease
<1>4. PICK r \in Slots :
        \/ \E max \in MaxArgs, initial \in 0..IntMax, opened \in BOOLEAN :
              Create(t, r, initial, max, opened)
        \/ Destroy(t, r)
  BY <1>1, <1>2, <1>3 DEF Call, WaitCall, TryCall, PostCall, GetCall, RefAcquire
<1>5. InCall(r) = {}
  BY <1>0, <1>4, CreateStep, DestroyStep
<1>6. r = s
  BY <1>4 DEF Create, Destroy, IInv, TypeOK
<1> QED BY <1>5, <1>6

(* A slot changes hands only while no call is inside it. *)
THEOREM Recycling == Spec => NoRecycleInCall
<1>1. IInv /\ [Next]_vars => [\A s \in Slots : active[s] # active'[s] => InCall(s) = {}]_vars
  BY NextRecycle
<1> QED BY <1>1, Invariance, PTL DEF Spec, NoRecycleInCall

-----------------------------------------------------------------------------
(* The units.  A post owes arg[t] tokens from its credit to ReleaseSemaphore:
   they are counted as the pairs of a thread and one of the tokens it owes, so
   that a sum is a cardinality. *)

Tokens(n) == 1..n
Owing(s)  == {p \in Threads \X Tokens(Cardinality(Threads)) :
                  p[1] \in At({"wake"}, s) /\ p[2] <= arg[p[1]]}
Count(W, s) == Cardinality(At(W, s))

\* Tokens in the channel or on their way to it.
Credit(s) == tokens[s] + Cardinality(Owing(s))

Counted == {"check", "parked", "woken"}
Awake   == {"check", "woken"}

(* Each sleeper has a token coming, or the units that are there are covered by
   threads that will check the count and by tokens that will wake more of them:
   NoLostWakeup is the case of no token at all. *)
Covered(s) == \/ Count({"parked"}, s) <= Credit(s)
              \/ value[s] <= Count(Awake, s) + Credit(s)

Below(s) == active[s] => value[s] <= maxValue[s] + Count(Counted, s)

\* No post releases more tokens than there are threads.
WakesBounded == \A t \in Threads : pc[t] = "wake" => arg[t] <= Cardinality(Threads)

UInv == IInv /\ WakesBounded /\ \A s \in Slots : Covered(s) /\ Below(s)

LEMMA ThreadCount == Cardinality(Threads) \in Nat
  BY ThreadsAssumption, FS_CardinalityType

LEMMA CountNat == ASSUME NEW W, NEW s
                  PROVE Count(W, s) \in Nat /\ Count(W, s)' \in Nat
  BY ThreadsAssumption, FS_Subset, FS_CardinalityType DEF At, Count

LEMMA OwingNat == ASSUME NEW s
                  PROVE IsFiniteSet(Owing(s)) /\ Cardinality(Owing(s)) \in Nat
<1>1. IsFiniteSet(Tokens(Cardinality(Threads)))
  BY ThreadCount, FS_Interval DEF Tokens
<1>2. IsFiniteSet(Threads \X Tokens(Cardinality(Threads)))
  BY <1>1, ThreadsAssumption, FS_Product
<1> QED BY <1>2, FS_Subset, FS_CardinalityType DEF Owing

\* What a step of a call on slot c may touch.
Within(t, c) ==
    /\ pc[t] = "idle" \/ cur[t] = c
    /\ \E n \in PcValues : pc' = [pc EXCEPT ![t] = n]
    /\ cur' = [cur EXCEPT ![t] = c]
    /\ \A u \in Threads \ {t} : arg'[u] = arg[u]

(* A step of one thread adds it to a set of places of its slot, takes it out,
   or keeps it; the other slots see nothing. *)
LEMMA CountStep ==
  ASSUME TypeOK, NEW t \in Threads, NEW c \in Slots, Within(t, c), NEW W, "idle" \notin W
  PROVE  /\ Count(W, c)' = Count(W, c) - (IF pc[t] \in W THEN 1 ELSE 0)
                                       + (IF pc'[t] \in W THEN 1 ELSE 0)
         /\ \A r \in Slots \ {c} : At(W, r)' = At(W, r)
<1> PICK n \in PcValues : pc' = [pc EXCEPT ![t] = n]
  BY DEF Within
<1>1. /\ pc[t] = "idle" \/ cur[t] = c
      /\ cur' = [cur EXCEPT ![t] = c]
      /\ pc'[t] = n /\ cur'[t] = c
      /\ \A u \in Threads \ {t} : pc'[u] = pc[u] /\ cur'[u] = cur[u]
  BY DEF Within, TypeOK
<1>2. \A r \in Slots \ {c} : At(W, r)' = At(W, r)
  BY <1>1 DEF At, TypeOK
<1>3. t \in At(W, c) <=> pc[t] \in W
  BY <1>1 DEF At
<1>4. CASE n \in W
  <2>1. At(W, c)' = At(W, c) \cup {t}
    BY <1>1, <1>4 DEF At
  <2>2. CASE pc[t] \in W
    <3>1. At(W, c)' = At(W, c)
      BY <2>1, <2>2, <1>3
    <3> QED BY <1>1, <1>2, <1>4, <2>2, <3>1, CountNat DEF Count
  <2>3. CASE pc[t] \notin W
    BY <1>1, <1>2, <1>3, <1>4, <2>1, <2>3, CountUp, CountNat DEF Count
  <2> QED BY <2>2, <2>3
<1>5. CASE n \notin W
  <2>1. At(W, c)' = At(W, c) \ {t}
    BY <1>1, <1>5 DEF At
  <2>2. CASE pc[t] \in W
    BY <1>1, <1>2, <1>3, <1>5, <2>1, <2>2, CountDown, CountNat DEF Count
  <2>3. CASE pc[t] \notin W
    <3>1. At(W, c)' = At(W, c)
      BY <2>1, <2>3, <1>3
    <3> QED BY <1>1, <1>2, <1>5, <2>3, <3>1, CountNat DEF Count
  <2> QED BY <2>2, <2>3
<1> QED BY <1>4, <1>5

\* Only the steps to and from ReleaseSemaphore change what is owed.
LEMMA OwingElsewhere ==
  ASSUME TypeOK, NEW t \in Threads, NEW c \in Slots, Within(t, c)
  PROVE  /\ \A r \in Slots \ {c} : Owing(r)' = Owing(r)
         /\ pc[t] # "wake" /\ pc'[t] # "wake" => Owing(c)' = Owing(c)
<1>1. /\ pc[t] = "idle" \/ cur[t] = c
      /\ cur'[t] = c
      /\ \A u \in Threads \ {t} : pc'[u] = pc[u] /\ cur'[u] = cur[u] /\ arg'[u] = arg[u]
  BY DEF Within, TypeOK
<1>2. \A r \in Slots \ {c} : At({"wake"}, r)' = At({"wake"}, r) /\ t \notin At({"wake"}, r)
  BY <1>1 DEF At, TypeOK
<1>3. \A r \in Slots \ {c} : Owing(r)' = Owing(r)
  BY <1>1, <1>2 DEF Owing
<1>4. ASSUME pc[t] # "wake", pc'[t] # "wake" PROVE Owing(c)' = Owing(c)
  <2>1. At({"wake"}, c)' = At({"wake"}, c) /\ t \notin At({"wake"}, c)
    BY <1>1, <1>4 DEF At
  <2> QED BY <1>1, <2>1 DEF Owing
<1> QED BY <1>3, <1>4

\* A block of n tokens of one thread.
LEMMA BlockCount ==
  ASSUME NEW t \in Threads, NEW n \in Nat
  PROVE  IsFiniteSet({t} \X Tokens(n)) /\ Cardinality({t} \X Tokens(n)) = n
<1>1. IsFiniteSet(Tokens(n)) /\ Cardinality(Tokens(n)) = n
  BY FS_Interval DEF Tokens
<1>2. IsFiniteSet({t}) /\ Cardinality({t}) = 1
  BY FS_Singleton
<1> QED BY <1>1, <1>2, FS_Product

\* A post that comes to owe n tokens; one that has released them.
LEMMA OwingUp ==
  ASSUME TypeOK, NEW t \in Threads, NEW c \in Slots, Within(t, c),
         pc[t] # "wake", pc'[t] = "wake", arg'[t] \in Nat, arg'[t] <= Cardinality(Threads)
  PROVE  Cardinality(Owing(c)') = Cardinality(Owing(c)) + arg'[t]
<1> DEFINE B == {t} \X Tokens(arg'[t])
<1>1. /\ cur'[t] = c
      /\ \A u \in Threads \ {t} : pc'[u] = pc[u] /\ cur'[u] = cur[u] /\ arg'[u] = arg[u]
  BY DEF Within, TypeOK
<1>2. At({"wake"}, c)' = At({"wake"}, c) \cup {t} /\ t \notin At({"wake"}, c)
  BY <1>1 DEF At
<1>3. Owing(c)' = Owing(c) \cup B /\ Owing(c) \cap B = {}
  BY <1>1, <1>2, ThreadCount DEF Owing, Tokens
<1>4. IsFiniteSet(B) /\ Cardinality(B) = arg'[t]
  BY BlockCount
<1>5. IsFiniteSet(Owing(c)) /\ Cardinality(Owing(c)) \in Nat
  BY OwingNat
<1> HIDE DEF B
<1>6. Cardinality(Owing(c) \cup B)
      = Cardinality(Owing(c)) + Cardinality(B) - Cardinality(Owing(c) \cap B)
  BY <1>4, <1>5, FS_Union
<1>7. Cardinality(Owing(c) \cap B) = 0
  BY <1>3, FS_EmptySet
<1>8. Cardinality(Owing(c)') = Cardinality(Owing(c) \cup B)
  BY <1>3
<1> QED BY <1>4, <1>5, <1>6, <1>7, <1>8

LEMMA OwingDown ==
  ASSUME TypeOK, NEW t \in Threads, NEW c \in Slots, Within(t, c), WakesBounded,
         pc[t] = "wake", pc'[t] # "wake"
  PROVE  Cardinality(Owing(c)') = Cardinality(Owing(c)) - arg[t]
<1> DEFINE B == {t} \X Tokens(arg[t])
<1>1. /\ cur[t] = c /\ arg[t] \in Nat /\ arg[t] <= Cardinality(Threads)
      /\ \A u \in Threads \ {t} : pc'[u] = pc[u] /\ cur'[u] = cur[u] /\ arg'[u] = arg[u]
  BY DEF Within, TypeOK, WakesBounded
<1>2. At({"wake"}, c)' = At({"wake"}, c) \ {t} /\ t \in At({"wake"}, c)
  BY <1>1 DEF At
<1>3. Owing(c)' = Owing(c) \ B /\ Owing(c) \cap B = B
  BY <1>1, <1>2, ThreadCount DEF Owing, Tokens
<1>4. Cardinality(B) = arg[t]
  BY <1>1, BlockCount
<1>5. Cardinality(Owing(c) \ B) = Cardinality(Owing(c)) - Cardinality(Owing(c) \cap B)
  <2> HIDE DEF B
  <2> QED BY OwingNat, FS_Difference
<1>6. Cardinality(Owing(c)') = Cardinality(Owing(c) \ B)
  BY <1>3
<1>7. Cardinality(Owing(c) \cap B) = arg[t]
  BY <1>3, <1>4
<1> QED BY <1>5, <1>6, <1>7

Same(c) == \A r \in Slots \ {c} : /\ active'[r] = active[r] /\ value'[r] = value[r]
                                  /\ maxValue'[r] = maxValue[r] /\ tokens'[r] = tokens[r]

\* A step on slot c has only slot c to answer for.
LEMMA UnitStep ==
  ASSUME UInv, IInv', NEW t \in Threads, NEW c \in Slots, Within(t, c), Same(c),
         pc'[t] = "wake" => arg'[t] <= Cardinality(Threads),
         Covered(c)', Below(c)'
  PROVE  UInv'
<1>1. "idle" \notin {"parked"} /\ "idle" \notin Awake /\ "idle" \notin Counted
  BY DEF Awake, Counted
<1>2. TypeOK
  BY DEF UInv, IInv
<1>3. ASSUME NEW r \in Slots, r # c PROVE Covered(r)' /\ Below(r)'
  <2>1. At({"parked"}, r)' = At({"parked"}, r) /\ At(Awake, r)' = At(Awake, r)
        /\ At(Counted, r)' = At(Counted, r) /\ Owing(r)' = Owing(r)
    BY <1>1, <1>2, <1>3, CountStep, OwingElsewhere
  <2>2. Covered(r) /\ Below(r)
    BY DEF UInv
  <2> QED BY <1>3, <2>1, <2>2 DEF Same, Covered, Below, Count, Credit
<1>4. WakesBounded'
  BY <1>2 DEF WakesBounded, Within, UInv, TypeOK
<1> QED BY <1>3, <1>4 DEF UInv

\* The three counts of slot c after a step.
LEMMA Counts ==
  ASSUME TypeOK, NEW t \in Threads, NEW c \in Slots, Within(t, c)
  PROVE  /\ Count({"parked"}, c)' = Count({"parked"}, c) - (IF pc[t] = "parked" THEN 1 ELSE 0)
                                                 + (IF pc'[t] = "parked" THEN 1 ELSE 0)
         /\ Count(Awake, c)' = Count(Awake, c) - (IF pc[t] \in Awake THEN 1 ELSE 0)
                                               + (IF pc'[t] \in Awake THEN 1 ELSE 0)
         /\ Count(Counted, c)' = Count(Counted, c) - (IF pc[t] \in Counted THEN 1 ELSE 0)
                                                   + (IF pc'[t] \in Counted THEN 1 ELSE 0)
         /\ Count({"parked"}, c) \in Nat /\ Count(Awake, c) \in Nat /\ Count(Counted, c) \in Nat
         /\ Count({"parked"}, c)' \in Nat /\ Count(Awake, c)' \in Nat /\ Count(Counted, c)' \in Nat
<1>1. "idle" \notin {"parked"} /\ "idle" \notin Awake /\ "idle" \notin Counted
  BY DEF Awake, Counted
<1>2. /\ Count({"parked"}, c) \in Nat /\ Count(Awake, c) \in Nat /\ Count(Counted, c) \in Nat
      /\ Count({"parked"}, c)' \in Nat /\ Count(Awake, c)' \in Nat /\ Count(Counted, c)' \in Nat
  BY CountNat
<1> QED BY <1>1, <1>2, CountStep

(* Every call that only begins or ends, or reads, keeps the units in balance:
   it may add a thread that will check the count, and takes none away. *)
LEMMA QuietStep ==
  ASSUME UInv, IInv', NEW t \in Threads, NEW c \in Slots, Within(t, c),
         pc[t] \notin Counted \cup {"wake"}, pc'[t] \notin {"parked", "woken", "wake"},
         active' = active, maxValue' = maxValue, tokens' = tokens,
         value' = value \/ (value' = [value EXCEPT ![c] = @ - 1])
  PROVE  UInv'
<1>1. TypeOK /\ TypeOK'
  BY DEF UInv, IInv
<1>2. Owing(c)' = Owing(c)
  BY <1>1, OwingElsewhere
<1>3. value'[c] <= value[c] /\ value[c] \in Int /\ value'[c] \in Int /\ Same(c)
      /\ tokens[c] \in Nat /\ maxValue[c] \in Nat
  BY <1>1 DEF TypeOK, Same
<1>4. /\ Count({"parked"}, c)' = Count({"parked"}, c)
      /\ Count(Awake, c)' >= Count(Awake, c) /\ Count(Counted, c)' >= Count(Counted, c)
      /\ Count({"parked"}, c) \in Nat /\ Count(Awake, c) \in Nat /\ Count(Counted, c) \in Nat
      /\ Count(Awake, c)' \in Nat /\ Count(Counted, c)' \in Nat
  <2>1. pc[t] \notin {"parked"} /\ pc[t] \notin Awake /\ pc'[t] \notin {"parked"}
    BY DEF Awake, Counted
  <2> QED BY <1>1, <2>1, Counts
<1>5. Covered(c) /\ Below(c)
  BY DEF UInv
<1>6. Credit(c)' = Credit(c) /\ Credit(c) \in Nat
  BY <1>2, <1>3, OwingNat DEF Credit
<1>7. Covered(c)' /\ Below(c)'
  BY <1>3, <1>4, <1>5, <1>6 DEF Covered, Below
<1> QED BY <1>3, <1>7, UnitStep

\* WaitTake: a unit and one of the threads that will check it go together.
LEMMA TakeUnits ==
  ASSUME UInv, IInv', NEW t \in Threads, WaitTake(t)
  PROVE  UInv'
<1> PICK c \in Slots : c = cur[t]
  BY DEF UInv, IInv, TypeOK
<1>1. /\ pc[t] = "check" /\ pc' = [pc EXCEPT ![t] = "release"] /\ cur' = cur /\ arg' = arg
      /\ active' = active /\ maxValue' = maxValue /\ tokens' = tokens
      /\ value' = [value EXCEPT ![c] = @ - 1]
      /\ TypeOK /\ TypeOK'
  BY DEF WaitTake, Goto, UInv, IInv
<1>2. Within(t, c) /\ pc'[t] = "release" /\ Same(c)
  BY <1>1 DEF Within, TypeOK, PcValues, Same
<1>3. Owing(c)' = Owing(c)
  BY <1>1, <1>2, OwingElsewhere
<1>4. value'[c] = value[c] - 1 /\ value[c] \in Int /\ tokens[c] \in Nat /\ maxValue[c] \in Nat
  BY <1>1 DEF TypeOK
<1>5. /\ Count({"parked"}, c)' = Count({"parked"}, c)
      /\ Count(Awake, c)' = Count(Awake, c) - 1
      /\ Count(Counted, c)' = Count(Counted, c) - 1
      /\ Count({"parked"}, c) \in Nat /\ Count(Awake, c) \in Nat /\ Count(Counted, c) \in Nat
  BY <1>1, <1>2, Counts DEF Awake, Counted
<1>6. Covered(c) /\ Below(c)
  BY DEF UInv
<1>7. Credit(c)' = Credit(c) /\ Credit(c) \in Nat
  BY <1>1, <1>3, <1>4, OwingNat DEF Credit
<1>8. Covered(c)' /\ Below(c)'
  BY <1>1, <1>4, <1>5, <1>6, <1>7 DEF Covered, Below
<1> QED BY <1>1, <1>2, <1>8, UnitStep

\* WaitTimeout and WaitPark: there is no unit to cover.
LEMMA EmptyUnits ==
  ASSUME UInv, IInv', NEW t \in Threads, WaitTimeout(t) \/ WaitPark(t)
  PROVE  UInv'
<1> PICK c \in Slots : c = cur[t]
  BY DEF UInv, IInv, TypeOK
<1> PICK n \in {"release", "parked"} : pc' = [pc EXCEPT ![t] = n]
  BY DEF WaitTimeout, WaitPark, Goto
<1>1. /\ pc[t] = "check" /\ cur' = cur /\ arg' = arg /\ value[c] <= 0
      /\ active' = active /\ maxValue' = maxValue /\ tokens' = tokens /\ value' = value
      /\ TypeOK /\ TypeOK'
  BY DEF WaitTimeout, WaitPark, Goto, UInv, IInv, slotVars
<1>2. Within(t, c) /\ pc'[t] = n /\ Same(c)
  BY <1>1 DEF Within, TypeOK, PcValues, Same
<1>3. Owing(c)' = Owing(c)
  BY <1>1, <1>2, OwingElsewhere
<1>4. value[c] \in Int /\ tokens[c] \in Nat /\ maxValue[c] \in Nat
  BY <1>1 DEF TypeOK
<1>5. Count(Awake, c)' \in Nat /\ Count(Counted, c)' \in Nat
  BY <1>1, <1>2, Counts
<1>6. Credit(c)' \in Nat
  BY <1>1, <1>3, <1>4, OwingNat DEF Credit
<1>7. Covered(c)' /\ Below(c)'
  BY <1>1, <1>4, <1>5, <1>6 DEF Covered, Below
<1> QED BY <1>1, <1>2, <1>7, UnitStep

\* WaitToken and WaitSlice: the sleeper becomes a thread that will check.
LEMMA WokenUnits ==
  ASSUME UInv, IInv', NEW t \in Threads, WaitToken(t) \/ WaitSlice(t)
  PROVE  UInv'
<1> PICK c \in Slots : c = cur[t]
  BY DEF UInv, IInv, TypeOK
<1>1. /\ pc[t] = "parked" /\ pc' = [pc EXCEPT ![t] = "woken"] /\ cur' = cur /\ arg' = arg
      /\ active' = active /\ maxValue' = maxValue /\ value' = value
      /\ tokens' = tokens \/ (tokens[c] > 0 /\ tokens' = [tokens EXCEPT ![c] = @ - 1])
      /\ TypeOK /\ TypeOK'
  BY DEF WaitToken, WaitSlice, Goto, UInv, IInv, slotVars
<1>2. Within(t, c) /\ pc'[t] = "woken" /\ Same(c)
  BY <1>1 DEF Within, TypeOK, PcValues, Same
<1>3. Owing(c)' = Owing(c)
  BY <1>1, <1>2, OwingElsewhere
<1>4. /\ value[c] \in Int /\ tokens[c] \in Nat /\ maxValue[c] \in Nat
      /\ tokens'[c] \in Nat /\ tokens'[c] >= tokens[c] - 1
  BY <1>1 DEF TypeOK
<1>5. /\ Count({"parked"}, c)' = Count({"parked"}, c) - 1
      /\ Count(Awake, c)' = Count(Awake, c) + 1
      /\ Count(Counted, c)' = Count(Counted, c)
      /\ Count({"parked"}, c) \in Nat /\ Count(Awake, c) \in Nat /\ Count(Counted, c) \in Nat
  BY <1>1, <1>2, Counts DEF Awake, Counted
<1>6. Covered(c) /\ Below(c)
  BY DEF UInv
<1>7. Credit(c)' >= Credit(c) - 1 /\ Credit(c) \in Nat /\ Credit(c)' \in Nat
  BY <1>3, <1>4, OwingNat DEF Credit
<1>8. Covered(c)' /\ Below(c)'
  BY <1>1, <1>4, <1>5, <1>6, <1>7 DEF Covered, Below
<1> QED BY <1>1, <1>2, <1>8, UnitStep

\* WaitUnpark: the thread stays among those that will check.
LEMMA UnparkUnits ==
  ASSUME UInv, IInv', NEW t \in Threads, WaitUnpark(t)
  PROVE  UInv'
<1> PICK c \in Slots : c = cur[t]
  BY DEF UInv, IInv, TypeOK
<1>1. /\ pc[t] = "woken" /\ pc' = [pc EXCEPT ![t] = "check"] /\ cur' = cur /\ arg' = arg
      /\ active' = active /\ maxValue' = maxValue /\ value' = value /\ tokens' = tokens
      /\ TypeOK
  BY DEF WaitUnpark, Goto, UInv, IInv
<1>2. Within(t, c) /\ pc'[t] = "check" /\ Same(c)
  BY <1>1 DEF Within, TypeOK, PcValues, Same
<1>3. Owing(c)' = Owing(c)
  BY <1>1, <1>2, OwingElsewhere
<1>5. /\ Count({"parked"}, c)' = Count({"parked"}, c)
      /\ Count(Awake, c)' = Count(Awake, c)
      /\ Count(Counted, c)' = Count(Counted, c)
  BY <1>1, <1>2, Counts DEF Awake, Counted
<1>6. Covered(c) /\ Below(c)
  BY DEF UInv
<1>8. Covered(c)' /\ Below(c)'
  BY <1>1, <1>3, <1>5, <1>6 DEF Covered, Below, Credit
<1> QED BY <1>1, <1>2, <1>8, UnitStep

\* PostAdmit: each unit is credited with a wake, or every sleeper gets one.
LEMMA AdmitUnits ==
  ASSUME UInv, IInv', NEW t \in Threads, PostAdmit(t)
  PROVE  UInv'
<1> PICK c \in Slots : c = cur[t]
  BY DEF UInv, IInv, TypeOK
<1>1. /\ pc[t] = "post" /\ pc' = [pc EXCEPT ![t] = "wake"] /\ cur' = cur
      /\ arg' = [arg EXCEPT ![t] = Lesser(arg[t], waiters[c])]
      /\ active' = active /\ maxValue' = maxValue /\ tokens' = tokens
      /\ value' = [value EXCEPT ![c] = Wrap(@ + arg[t])]
      /\ value[c] + arg[t] - Lesser(arg[t], waiters[c]) <= maxValue[c]
      /\ TypeOK /\ TypeOK'
  BY DEF PostAdmit, Admits, Wakes, Goto, UInv, IInv
<1>2. Within(t, c) /\ pc'[t] = "wake" /\ Same(c)
  BY <1>1 DEF Within, TypeOK, PcValues, Same
<1>3. /\ value[c] \in Int /\ tokens[c] \in Nat /\ maxValue[c] \in Nat /\ waiters[c] \in Nat
      /\ arg[t] \in Nat /\ arg'[t] = Lesser(arg[t], waiters[c])
      /\ value'[c] \in Int /\ value'[c] <= value[c] + arg[t]
  BY <1>1, IntMaxAssumption DEF TypeOK, Wrap
<1>4. /\ waiters[c] = Count(Waiting, c) /\ waiters[c] <= Cardinality(Threads)
      /\ Count({"parked"}, c) <= waiters[c] /\ waiters[c] <= Count(Counted, c)
  <2>1. /\ At({"parked"}, c) \subseteq At(Waiting, c) /\ At(Waiting, c) \subseteq At(Counted, c)
        /\ At(Waiting, c) \subseteq Threads
    BY DEF At, Waiting, Counted
  <2>2. Count({"parked"}, c) <= Count(Waiting, c) /\ Count(Waiting, c) <= Count(Counted, c)
    BY <2>1, AtFinite, FS_Subset DEF Count
  <2>3. Count(Waiting, c) <= Cardinality(Threads)
    BY <2>1, ThreadsAssumption, FS_Subset DEF Count
  <2>4. waiters[c] = Count(Waiting, c)
    BY DEF UInv, IInv, WaitersExact, Count
  <2> QED BY <2>2, <2>3, <2>4
<1>5. /\ Count({"parked"}, c)' = Count({"parked"}, c)
      /\ Count(Awake, c)' = Count(Awake, c)
      /\ Count(Counted, c)' = Count(Counted, c)
      /\ Count({"parked"}, c) \in Nat /\ Count(Awake, c) \in Nat /\ Count(Counted, c) \in Nat
  BY <1>1, <1>2, Counts DEF Awake, Counted
<1>6. arg'[t] \in Nat /\ arg'[t] <= arg[t] /\ arg'[t] <= waiters[c]
      /\ (arg'[t] = arg[t] \/ arg'[t] = waiters[c])
  BY <1>3 DEF Lesser
<1>7. arg'[t] <= Cardinality(Threads)
  BY <1>3, <1>4, <1>6, ThreadCount
<1>8. Credit(c)' = Credit(c) + arg'[t] /\ Credit(c) \in Nat
  <2>1. Cardinality(Owing(c)') = Cardinality(Owing(c)) + arg'[t]
    BY <1>1, <1>2, <1>6, <1>7, OwingUp
  <2>2. Credit(c)' = tokens[c] + Cardinality(Owing(c)')
    BY <1>1 DEF Credit
  <2> QED BY <1>3, <1>6, <2>1, <2>2, OwingNat DEF Credit
<1>9. Covered(c)'
  <2>1. Covered(c)
    BY DEF UInv
  <2>2. CASE arg'[t] = waiters[c]
    BY <1>3, <1>4, <1>5, <1>6, <1>8, <2>2 DEF Covered
  <2>3. CASE arg'[t] = arg[t]
    BY <1>3, <1>5, <1>6, <1>8, <2>1, <2>3 DEF Covered
  <2> QED BY <1>6, <2>2, <2>3
<1>10. Below(c)'
  BY <1>1, <1>3, <1>4, <1>5, <1>6 DEF Below
<1> QED BY <1>2, <1>7, <1>9, <1>10, UnitStep

\* PostWake: what is owed goes into the channel; a channel that refuses it
\* already holds a token for every thread.
LEMMA WakeUnits ==
  ASSUME UInv, IInv', NEW t \in Threads, PostWake(t)
  PROVE  UInv'
<1> PICK c \in Slots : c = cur[t]
  BY DEF UInv, IInv, TypeOK
<1>1. /\ pc[t] = "wake" /\ pc' = [pc EXCEPT ![t] = "release"] /\ cur' = cur
      /\ arg' = [arg EXCEPT ![t] = 0]
      /\ active' = active /\ maxValue' = maxValue /\ value' = value
      /\ tokens' = [tokens EXCEPT ![c] = IF @ + arg[t] <= TokenMax THEN @ + arg[t] ELSE @]
      /\ TypeOK /\ TypeOK' /\ WakesBounded
  BY DEF PostWake, Goto, UInv, IInv
<1>2. Within(t, c) /\ pc'[t] = "release" /\ Same(c)
  BY <1>1 DEF Within, TypeOK, PcValues, Same
<1>3. /\ tokens[c] \in Nat /\ value[c] \in Int /\ maxValue[c] \in Nat
      /\ arg[t] \in Nat /\ arg[t] <= Cardinality(Threads)
      /\ tokens'[c] = IF tokens[c] + arg[t] <= TokenMax THEN tokens[c] + arg[t] ELSE tokens[c]
  BY <1>1 DEF TypeOK, WakesBounded
<1>4. Cardinality(Owing(c)') = Cardinality(Owing(c)) - arg[t] /\ Cardinality(Owing(c)') \in Nat
  <2>1. Cardinality(Owing(c)') = Cardinality(Owing(c)) - arg[t]
    BY <1>1, <1>2, OwingDown
  <2>2. Owing(c)' \subseteq Owing(c)
    BY <1>1, <1>3 DEF Owing, At, TypeOK
  <2> QED BY <2>1, <2>2, OwingNat, FS_Subset, FS_CardinalityType
<1>5. /\ Count({"parked"}, c)' = Count({"parked"}, c)
      /\ Count(Awake, c)' = Count(Awake, c)
      /\ Count(Counted, c)' = Count(Counted, c)
      /\ Count({"parked"}, c) \in Nat /\ Count(Awake, c) \in Nat /\ Count(Counted, c) \in Nat
      /\ Count({"parked"}, c) <= Cardinality(Threads)
  <2>1. Count({"parked"}, c) <= Cardinality(Threads)
    BY ThreadsAssumption, FS_Subset DEF Count, At
  <2> QED BY <1>1, <1>2, <2>1, Counts DEF Awake, Counted
<1>6. Covered(c) /\ Below(c)
  BY DEF UInv
<1>7. CASE tokens[c] + arg[t] <= TokenMax
  <2>1. Credit(c)' = Credit(c)
    BY <1>3, <1>4, <1>7, OwingNat DEF Credit
  <2>2. Covered(c)' /\ Below(c)'
    BY <1>1, <1>5, <1>6, <2>1 DEF Covered, Below
  <2> QED BY <1>1, <1>2, <2>2, UnitStep
<1>8. CASE ~(tokens[c] + arg[t] <= TokenMax)
  <2>1. tokens'[c] >= Cardinality(Threads) /\ tokens'[c] \in Nat
    BY <1>3, <1>8, TokenMaxAssumption, ThreadCount
  <2>2. Credit(c)' >= Count({"parked"}, c)' /\ Credit(c)' \in Nat
    BY <1>4, <1>5, <2>1, ThreadCount DEF Credit
  <2>3. Covered(c)' /\ Below(c)'
    BY <1>1, <1>5, <1>6, <2>2 DEF Covered, Below
  <2> QED BY <1>1, <1>2, <2>3, UnitStep
<1> QED BY <1>7, <1>8

\* Create finds nobody inside and starts from a count within the ceiling;
\* Destroy touches no count.
LEMMA TableUnits ==
  ASSUME UInv, IInv', NEW t \in Threads, NEW s \in Slots,
         \/ \E max \in MaxArgs, initial \in 0..IntMax, opened \in BOOLEAN :
               Create(t, s, initial, max, opened)
         \/ Destroy(t, s)
  PROVE  UInv'
<1>1. /\ pc' = pc /\ cur' = cur /\ arg' = arg /\ TypeOK /\ TypeOK'
      /\ InCall(s) = {}
  BY CreateStep, DestroyStep DEF Create, Destroy, threadVars, UInv, IInv
<1>2. /\ \A r \in Slots : /\ At({"parked"}, r)' = At({"parked"}, r)
                          /\ At(Awake, r)' = At(Awake, r) /\ At(Counted, r)' = At(Counted, r)
                          /\ Owing(r)' = Owing(r)
      /\ At({"parked"}, s) = {}
  BY <1>1 DEF At, Owing, InCall, Busy, PcValues
<1>3. /\ Same(s)
      /\ \/ UNCHANGED <<value, tokens, maxValue>> /\ active' = [active EXCEPT ![s] = FALSE]
         \/ value'[s] <= maxValue'[s]
  BY <1>1 DEF Create, Destroy, Same, TypeOK
<1>4. WakesBounded'
  BY <1>1 DEF UInv, WakesBounded
<1>5. \A r \in Slots \ {s} : Covered(r)' /\ Below(r)'
  BY <1>2, <1>3 DEF UInv, Covered, Below, Count, Credit, Same
<1>6. Covered(s)'
  <2>1. Count({"parked"}, s)' = 0
    BY <1>2, FS_EmptySet DEF Count
  <2>2. Credit(s)' \in Nat
    BY <1>1, <1>2, OwingNat DEF Credit, TypeOK
  <2> QED BY <2>1, <2>2 DEF Covered
<1>7. Below(s)'
  <2>1. Count(Counted, s)' \in Nat /\ maxValue'[s] \in Nat /\ value'[s] \in Int
    BY <1>1, CountNat DEF TypeOK
  <2>2. CASE active' = [active EXCEPT ![s] = FALSE]
    BY <1>1, <2>2 DEF Below, TypeOK
  <2>3. CASE value'[s] <= maxValue'[s]
    BY <2>1, <2>3 DEF Below
  <2> QED BY <1>3, <2>2, <2>3
<1> QED BY <1>4, <1>5, <1>6, <1>7 DEF UInv

LEMMA NextUInv == UInv /\ [Next]_vars => UInv'
<1> SUFFICES ASSUME UInv, [Next]_vars PROVE UInv'
  OBVIOUS
<1>0. IInv' /\ IInv
  BY NextIInv DEF UInv
<1>1. ASSUME NEW t \in Threads, Call(t) PROVE UInv'
  <2> PICK s \in Slots :
          \/ \E max \in MaxArgs, initial \in 0..IntMax, opened \in BOOLEAN :
                Create(t, s, initial, max, opened)
          \/ Destroy(t, s)
          \/ \E b \in BOOLEAN : WaitCall(t, s, b)
          \/ TryCall(t, s)
          \/ \E n \in PostArgs : PostCall(t, s, n)
          \/ GetCall(t, s)
    BY <1>1 DEF Call
  <2>1. CASE \/ \E max \in MaxArgs, initial \in 0..IntMax, opened \in BOOLEAN :
                   Create(t, s, initial, max, opened)
             \/ Destroy(t, s)
    BY <1>0, <2>1, TableUnits
  <2>2. CASE \/ \E b \in BOOLEAN : WaitCall(t, s, b)
             \/ TryCall(t, s)
             \/ \E n \in PostArgs : PostCall(t, s, n)
             \/ GetCall(t, s)
    <3> PICK n \in {"check", "try", "post", "get"} : RefAcquire(t, s, n)
      BY <2>2 DEF WaitCall, TryCall, PostCall, GetCall
    <3>1. /\ pc[t] = "idle" /\ pc' = [pc EXCEPT ![t] = n] /\ cur' = [cur EXCEPT ![t] = s]
          /\ UNCHANGED <<active, value, maxValue, tokens>>
      BY DEF RefAcquire
    <3>2. \A u \in Threads \ {t} : arg'[u] = arg[u]
      BY <1>0, <2>2 DEF WaitCall, TryCall, PostCall, GetCall, IInv, TypeOK
    <3>3. n \in PcValues /\ pc'[t] = n
      BY <1>0, <3>1 DEF PcValues, IInv, TypeOK
    <3>4. Within(t, s)
      BY <3>1, <3>2, <3>3 DEF Within
    <3> QED BY <1>0, <3>1, <3>3, <3>4, QuietStep DEF Counted
  <2> QED BY <2>1, <2>2
<1>2. ASSUME NEW t \in Threads, Step(t) PROVE UInv'
  <2>1. CASE WaitTake(t)
    BY <1>0, <2>1, TakeUnits
  <2>2. CASE WaitTimeout(t) \/ WaitPark(t)
    BY <1>0, <2>2, EmptyUnits
  <2>3. CASE WaitToken(t) \/ WaitSlice(t)
    BY <1>0, <2>3, WokenUnits
  <2>4. CASE WaitUnpark(t)
    BY <1>0, <2>4, UnparkUnits
  <2>5. CASE PostAdmit(t)
    BY <1>0, <2>5, AdmitUnits
  <2>6. CASE PostWake(t)
    BY <1>0, <2>6, WakeUnits
  <2>7. CASE TryWait(t) \/ PostRefuse(t) \/ GetValue(t) \/ RefRelease(t)
    <3> PICK c \in Slots : c = cur[t]
      BY <1>0 DEF IInv, TypeOK
    <3> PICK n \in {"release", "idle"} : pc' = [pc EXCEPT ![t] = n]
      BY <2>7 DEF TryWait, PostRefuse, GetValue, RefRelease, Goto
    <3>1. /\ pc[t] \in {"try", "post", "get", "release"} /\ cur' = cur
          /\ UNCHANGED <<active, maxValue, tokens>>
          /\ value' = value \/ value' = [value EXCEPT ![c] = @ - 1]
      BY <1>0, <2>7 DEF TryWait, PostRefuse, GetValue, RefRelease, Goto, slotVars, IInv, TypeOK
    <3>2. \A u \in Threads \ {t} : arg'[u] = arg[u]
      BY <1>0, <2>7 DEF TryWait, PostRefuse, GetValue, RefRelease, IInv, TypeOK
    <3>3. n \in PcValues /\ pc'[t] = n /\ cur' = [cur EXCEPT ![t] = c]
      BY <1>0, <3>1 DEF PcValues, IInv, TypeOK
    <3>4. Within(t, c)
      BY <3>1, <3>2, <3>3 DEF Within
    <3> QED BY <1>0, <3>1, <3>3, <3>4, QuietStep DEF Counted
  <2> QED BY <1>2, <2>1, <2>2, <2>3, <2>4, <2>5, <2>6, <2>7 DEF Step
<1>3. CASE UNCHANGED vars
  <2>1. \A W, s : At(W, s)' = At(W, s)
    BY <1>3 DEF At, vars
  <2>2. \A s : Owing(s)' = Owing(s)
    BY <1>3, <2>1 DEF Owing, vars
  <2>3. \A s \in Slots : Covered(s)' /\ Below(s)'
    BY <1>3, <2>1, <2>2 DEF vars, UInv, Covered, Below, Count, Credit
  <2> QED BY <1>0, <1>3, <2>3 DEF vars, UInv, WakesBounded
<1> QED BY <1>1, <1>2, <1>3 DEF Next

LEMMA InitUInv == Init => UInv
<1> SUFFICES ASSUME Init PROVE UInv
  OBVIOUS
<1>1. IInv
  BY InitIInv
<1>2. WakesBounded
  BY DEF Init, WakesBounded
<1>3. ASSUME NEW s \in Slots PROVE Covered(s) /\ Below(s)
  <2>1. At({"parked"}, s) = {}
    BY DEF At, Init
  <2>2. Count({"parked"}, s) = 0
    BY <2>1, FS_EmptySet DEF Count
  <2>3. Credit(s) \in Nat
    BY OwingNat DEF Credit, Init
  <2> QED BY <2>2, <2>3 DEF Covered, Below, Init
<1> QED BY <1>1, <1>2, <1>3 DEF UInv

LEMMA UnitsFollow == UInv => UnitsAccounted
<1> SUFFICES ASSUME UInv, NEW s \in Slots
             PROVE  /\ active[s] => value[s] <= maxValue[s] + Cardinality(At(Waiting \cup {"check"}, s))
                    /\ \/ At({"parked"}, s) = {}
                       \/ tokens[s] > 0
                       \/ Owed(s) # {}
                       \/ value[s] <= Cardinality(At({"check", "woken"}, s))
  BY DEF UnitsAccounted, CeilingWithCredit, NoLostWakeup
<1>1. Covered(s) /\ Below(s) /\ TypeOK
  BY DEF UInv, IInv
<1>2. Waiting \cup {"check"} = Counted
  BY DEF Waiting, Counted
<1>3. ASSUME tokens[s] = 0, Owed(s) = {}, At({"parked"}, s) # {}
      PROVE  value[s] <= Cardinality(At({"check", "woken"}, s))
  <2>1. Owing(s) = {}
    BY <1>1, <1>3 DEF Owing, Owed, Tokens, At, TypeOK
  <2>2. Credit(s) = 0
    BY <1>3, <2>1, FS_EmptySet DEF Credit
  <2>3. Count({"parked"}, s) # 0 /\ Count({"parked"}, s) \in Nat
    BY <1>3, AtFinite, FS_EmptySet DEF Count
  <2>4. Count(Awake, s) \in Nat /\ value[s] \in Int
    BY <1>1, CountNat DEF TypeOK
  <2>5. value[s] <= Count(Awake, s)
    BY <1>1, <2>2, <2>3, <2>4 DEF Covered
  <2> QED BY <2>5 DEF Count, Awake
<1>4. tokens[s] \in Nat
  BY <1>1 DEF TypeOK
<1>5. active[s] => value[s] <= maxValue[s] + Cardinality(At(Waiting \cup {"check"}, s))
  BY <1>1, <1>2, Zenon DEF Below, Count
<1>6. tokens[s] > 0 \/ tokens[s] = 0
  BY <1>4
<1> QED BY <1>3, <1>5, <1>6

(* No unit is lost and no sleeper with it: value exceeds its ceiling by no more
   than the threads on their way, and units that are there while a thread
   sleeps have a token in the channel, one on its way, or an awake thread each. *)
THEOREM UnitsAddUp == Spec => []UnitsAccounted
  BY InitUInv, NextUInv, UnitsFollow, PTL DEF Spec

(* The semaphores that the host steps are those of Lv2Semaphore: they rest while
   another kind is in use, so every theorem about Spec holds of the run.     *)
THEOREM SemaphoresHosted == ObjectsSpec => Spec
<1>1. ObjectsInit => Init
  BY DEF ObjectsInit
<1>2. [HostStep]_<<every, vars>> => [Next]_vars
  <2> SUFFICES ASSUME HostStep PROVE [Next]_vars
    OBVIOUS
  <2>1. CASE kindUsed = "semaphore"
    BY <2>1 DEF HostStep, ObjectsNext
  <2>2. CASE kindUsed # "semaphore"
    BY <2>2 DEF HostStep
  <2> QED BY <2>1, <2>2
<1> QED BY <1>1, <1>2, PTL DEF ObjectsSpec, HostStep, Spec

=============================================================================
