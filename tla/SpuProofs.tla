------------------------------ MODULE SpuProofs ------------------------------
(***************************************************************************)
(* Theorems about what an SPU reaches through its channels, each for every *)
(* size: user commands, the registry of DMA engines, indirect branches,    *)
(* channels, and DMA commands.  They are instances here, each with its own *)
(* constants and variables and none with anything of another's.            *)
(***************************************************************************)
EXTENDS Integers, FiniteSets, Sequences, FiniteSetTheorems, SequenceTheorems,
        WellFoundedInduction, TLAPS

CONSTANTS
    MaxCommands,                                                     \* user commands
    Users, Notifiers, MaxEngines,                                    \* the DMA engines
    Threads, Addrs, SpanFrom, Kernel, JobModule, JobBinaries, Tasks, MaxFns, Late, \* branches
    Signallers, Bits, SPUs, Capacity, LatchMax, MaxEvents,           \* channels
    Tags, Depth, Lists, Masks, MaxCmds, OneListPerTag                \* DMA commands

VARIABLES
    rsx, cause, pending, event, intr, active, epoch, completed, record, signal, get,
    sharded, allocated, freed, listed, bucketed, refs, bucketLock, registryLock, retiring,
    aborted, mpc, eng,
    registry, index, indexCount, building, bpc, branch,
    orMode, sig, lineLock, wrt, reader, owed, groupPort, events, latch, latchLock, thrower,
    sent, over,
    cmds, outstanding, queued, tagsDone, stall, deferred, update, moved

Ucmd     == INSTANCE UcmdFence
Registry == INSTANCE MfcRegistry WITH Writers <- Notifiers
Images   == INSTANCE SpuImages WITH count <- indexCount
Channels == INSTANCE SpuChannels WITH Writers <- Signallers, port <- groupPort
Mfc      == INSTANCE MfcQueue WITH completed <- tagsDone

\* Cardinality means in the instances what it means here.
LEMMA SameCardinality ==
    ASSUME NEW S
    PROVE  /\ Registry!Cardinality(S) = Cardinality(S)
           /\ Registry!IsFiniteSet(S) = IsFiniteSet(S)
           /\ Images!Cardinality(S) = Cardinality(S)
           /\ Channels!Cardinality(S) = Cardinality(S)
           /\ Mfc!Cardinality(S) = Cardinality(S)
           /\ Mfc!IsFiniteSet(S) = IsFiniteSet(S)
  BY DEF Cardinality, IsFiniteSet, Registry!Cardinality, Registry!IsFiniteSet,
     Images!Cardinality, Channels!Cardinality, Mfc!Cardinality, Mfc!IsFiniteSet

\* A set of numbers has a least element.
LEMMA LeastExists ==
    ASSUME NEW S \in SUBSET Nat, S # {}
    PROVE  \E i \in S : \A j \in S : i <= j
<1> DEFINE Less == {ss \in Nat \X Nat : ss[1] < ss[2]}
<1>1. IsWellFoundedOn(Less, Nat)
  BY NatLessThanWellFounded DEF OpToRel
<1>2. \E i \in S : \A j \in S : ~ (<<j, i>> \in Less)
  <2> HIDE DEF Less
  <2> QED BY <1>1, WFMin
<1>3. PICK i \in S : \A j \in S : ~ (<<j, i>> \in Less)
  BY <1>2
<1>4. ASSUME NEW j \in S PROVE i <= j
  <2>1. i \in Nat /\ j \in Nat /\ ~ (<<j, i>> \in Less)
    BY <1>3
  <2>2. ~ (j < i)
    BY <2>1
  <2> HIDE DEF Less
  <2> QED BY <2>1, <2>2
<1> QED BY <1>4

\* A set and what a function makes of it, when it makes different things of different members.
LEMMA AsManyImages ==
  ASSUME NEW S, IsFiniteSet(S), NEW f, f = [x \in S |-> f[x]],
         \A x, y \in S : f[x] = f[y] => x = y
  PROVE  /\ IsFiniteSet({f[x] : x \in S})
         /\ Cardinality({f[x] : x \in S}) = Cardinality(S)
<1> DEFINE T == {f[x] : x \in S}
<1>1. f \in Bijection(S, T)
  BY DEF Bijection, Injection, Surjection, IsInjective
<1>2. ExistsBijection(S, T)
  BY <1>1 DEF ExistsBijection
<1> HIDE DEF T
<1>3. IsFiniteSet(T) /\ Cardinality(T) = Cardinality(S)
  BY <1>2, FS_Bijection
<1> QED BY <1>3 DEF T

-----------------------------------------------------------------------------
(* User commands *)

IntrPlaces == {"sleeps", "look", "cause", "begin", "enter", "signal", "first", "second", "end",
               "leave"}
GetPlaces  == {"idle", "active", "entered", "completed", "sleep", "asleep", "again", "copy1",
               "copy2", "check1", "check2", "check", "recheck", "done"}

IntrRec == [pc : IntrPlaces, cause : Nat, epoch : Nat]
GetRec  == [pc : GetPlaces, act : Nat, ent : Nat, stable : Nat, copy : Nat \X Nat, due : Nat]

UcmdSizes == MaxCommands \in Nat

UcmdTypes ==
    /\ rsx \in {"idle", "pending", "event"} /\ cause \in Nat /\ cause <= MaxCommands
    /\ pending \in BOOLEAN /\ event \in BOOLEAN
    /\ intr \in IntrRec /\ get \in GetRec
    /\ active \in Nat /\ epoch \in Nat /\ completed \in Nat
    /\ record \in Nat \X Nat /\ signal \in Nat

\* Where the callback stages the record, and where its cause is not yet in it.
Staging == {"signal", "first", "second", "end"}
Behind  == {"begin", "enter", "signal", "first", "second"}

\* An epoch is open while the record is staged; outside of it the record is whole and is that
\* of the last signal.
IntrTrue ==
    /\ active = IF intr.pc \in Staging \cup {"enter", "leave"} THEN 1 ELSE 0
    /\ intr.pc \in Staging => epoch = completed + 1 /\ intr.epoch = epoch
    /\ intr.pc \notin Staging => epoch = completed /\ record[1] = record[2] /\ record[1] = signal
    /\ intr.cause <= cause /\ signal <= intr.cause
    /\ intr.pc \in {"first", "second", "end"} => signal = intr.cause
    /\ intr.pc = "second" => record[1] = intr.cause
    /\ intr.pc \notin Behind => record[1] = intr.cause /\ record[2] = intr.cause

\* The cause of the last command was read, or will be.
PostTrue ==
    /\ intr.cause = cause \/ pending \/ rsx = "pending" \/ intr.pc = "cause"
    /\ pending /\ intr.pc = "sleeps" => event \/ rsx = "event"

CopyGood == get.copy[1] = get.copy[2] /\ get.copy[1] >= get.due

\* What a fetch has copied is what the record holds as long as no callback has begun.
FetchTrue ==
    /\ get.due <= signal
    /\ get.pc = "again" => get.ent <= completed
    /\ get.pc \in {"copy1", "copy2", "check1", "check2"} =>
          /\ get.stable <= completed
          /\ epoch = get.stable =>
               /\ get.pc # "copy1" => get.copy[1] = record[1]
               /\ get.pc \in {"check1", "check2"} => get.copy[2] = record[2]
    /\ get.pc = "check" /\ get.ent = get.stable => CopyGood
    /\ get.pc \in {"recheck", "done"} => CopyGood

UcmdInv == UcmdTypes /\ IntrTrue /\ PostTrue /\ FetchTrue

LEMMA UcmdInitInv == ASSUME UcmdSizes, Ucmd!Init PROVE UcmdInv
<1>1. Ucmd!NoGet \in GetRec /\ Ucmd!NoGet.pc = "idle" /\ Ucmd!NoGet.due = 0
  BY DEF Ucmd!NoGet, GetRec, GetPlaces
<1>2. UcmdTypes
  <2>1. intr \in IntrRec
    BY DEF Ucmd!Init, IntrRec, IntrPlaces
  <2>2. record \in Nat \X Nat
    BY DEF Ucmd!Init
  <2>3. rsx \in {"idle", "pending", "event"} /\ pending \in BOOLEAN /\ event \in BOOLEAN
    BY DEF Ucmd!Init
  <2>4. /\ cause \in Nat /\ cause <= MaxCommands /\ active \in Nat /\ epoch \in Nat
        /\ completed \in Nat /\ signal \in Nat
    BY DEF UcmdSizes, Ucmd!Init
  <2>5. get \in GetRec
    BY <1>1 DEF Ucmd!Init
  <2> QED BY <2>1, <2>2, <2>3, <2>4, <2>5 DEF UcmdTypes
<1>3. IntrTrue /\ PostTrue
  BY DEF Ucmd!Init, IntrTrue, PostTrue, Staging, Behind
<1>4. FetchTrue
  BY <1>1 DEF Ucmd!Init, FetchTrue
<1> QED BY <1>2, <1>3, <1>4 DEF UcmdInv

LEMMA PostKeeps == ASSUME UcmdSizes, UcmdInv, Ucmd!Post PROVE UcmdInv'
<1>1. UNCHANGED <<intr, active, epoch, completed, record, signal, get>>
  BY DEF Ucmd!Post, Ucmd!fenceVars
<1>2. UcmdTypes'
  <2>1. rsx' \in {"idle", "pending", "event"} /\ pending' \in BOOLEAN /\ event' \in BOOLEAN
    BY DEF UcmdInv, UcmdTypes, Ucmd!Post
  <2>2. cause' \in Nat /\ cause' <= MaxCommands
    BY DEF UcmdSizes, UcmdInv, UcmdTypes, Ucmd!Post
  <2> QED BY <1>1, <2>1, <2>2 DEF UcmdInv, UcmdTypes
<1>3. IntrTrue'
  <2>1. cause' \in Nat /\ cause <= cause'
    BY DEF Ucmd!Post, UcmdInv, UcmdTypes
  <2>2. intr.cause \in Nat /\ cause \in Nat
    BY DEF UcmdInv, UcmdTypes, IntrRec
  <2> QED BY <1>1, <2>1, <2>2 DEF UcmdInv, IntrTrue
<1>4. PostTrue'
  BY <1>1 DEF UcmdInv, PostTrue, Ucmd!Post
<1>5. FetchTrue'
  BY <1>1 DEF UcmdInv, FetchTrue, CopyGood
<1> QED BY <1>2, <1>3, <1>4, <1>5 DEF UcmdInv

\* A fetch moves nothing of the others.
LEMMA FetchKeeps ==
  ASSUME UcmdInv, UNCHANGED <<rsx, cause, pending, event, intr, active, epoch, completed, record, signal>>,
         get' \in GetRec, FetchTrue'
  PROVE  UcmdInv'
<1>1. UcmdTypes'
  BY DEF UcmdInv, UcmdTypes
<1>2. IntrTrue'
  BY DEF UcmdInv, IntrTrue
<1>3. PostTrue'
  BY DEF UcmdInv, PostTrue
<1> QED BY <1>1, <1>2, <1>3 DEF UcmdInv

LEMMA FetchReads ==
  ASSUME UcmdInv, \/ Ucmd!Read("active", "entered", "act", active) \/ Ucmd!Read("entered", "completed", "ent", epoch)
                  \/ Ucmd!Read("check1", "check2", "act", active) \/ Ucmd!Read("check2", "check", "ent", epoch)
  PROVE  UcmdInv'
<1>0. UNCHANGED <<rsx, cause, pending, event, intr, active, epoch, completed, record, signal>>
  BY DEF Ucmd!Read, Ucmd!SpuVarsKept, Ucmd!postVars, Ucmd!fenceVars
<1>1. get \in GetRec /\ active \in Nat /\ epoch \in Nat /\ completed \in Nat /\ signal \in Nat
  BY DEF UcmdInv, UcmdTypes
<1>2. CASE Ucmd!Read("active", "entered", "act", active)
  <2>1. get.pc = "active" /\ get' = [get EXCEPT !.pc = "entered", !.act = active]
    BY <1>1, <1>2 DEF Ucmd!Read, GetRec
  <2>2. get' \in GetRec
    BY <1>1, <2>1 DEF GetRec, GetPlaces
  <2>3. FetchTrue'
    BY <1>0, <1>1, <2>1 DEF UcmdInv, FetchTrue, GetRec
  <2> QED BY <1>0, <2>2, <2>3, FetchKeeps
<1>3. CASE Ucmd!Read("entered", "completed", "ent", epoch)
  <2>1. get.pc = "entered" /\ get' = [get EXCEPT !.pc = "completed", !.ent = epoch]
    BY <1>1, <1>3 DEF Ucmd!Read, GetRec
  <2>2. get' \in GetRec
    BY <1>1, <2>1 DEF GetRec, GetPlaces
  <2>3. FetchTrue'
    BY <1>0, <1>1, <2>1 DEF UcmdInv, FetchTrue, GetRec
  <2> QED BY <1>0, <2>2, <2>3, FetchKeeps
<1>4. CASE Ucmd!Read("check1", "check2", "act", active)
  <2>1. get.pc = "check1" /\ get' = [get EXCEPT !.pc = "check2", !.act = active]
    BY <1>1, <1>4 DEF Ucmd!Read, GetRec
  <2>2. get' \in GetRec
    BY <1>1, <2>1 DEF GetRec, GetPlaces
  <2>3. FetchTrue'
    BY <1>0, <1>1, <2>1 DEF UcmdInv, FetchTrue, GetRec
  <2> QED BY <1>0, <2>2, <2>3, FetchKeeps
<1>5. CASE Ucmd!Read("check2", "check", "ent", epoch)
  <2>1. get.pc = "check2" /\ get' = [get EXCEPT !.pc = "check", !.ent = epoch]
    BY <1>1, <1>5 DEF Ucmd!Read, GetRec
  <2>2. get' \in GetRec
    BY <1>1, <2>1 DEF GetRec, GetPlaces
  <2>3. /\ get'.pc = "check" /\ get'.ent = epoch /\ get'.stable = get.stable /\ get'.copy = get.copy
        /\ get'.due = get.due
    BY <1>1, <2>1 DEF GetRec
  \* No callback has begun since the record was quiet: the copy is of one record.
  <2>4. epoch = get.stable => CopyGood
    <3>1. ASSUME epoch = get.stable PROVE CopyGood
      <4>1. get.stable <= completed /\ get.copy[1] = record[1] /\ get.copy[2] = record[2]
        BY <2>1, <3>1 DEF UcmdInv, FetchTrue
      <4>2. intr.pc \notin Staging
        BY <1>1, <3>1, <4>1 DEF UcmdInv, IntrTrue
      <4>3. record[1] = record[2] /\ record[1] = signal
        BY <4>2 DEF UcmdInv, IntrTrue
      <4>4. get.due <= signal
        BY DEF UcmdInv, FetchTrue
      <4> QED BY <1>1, <4>1, <4>3, <4>4 DEF CopyGood, GetRec
    <3> QED BY <3>1
  <2>5. get'.due <= signal'
    BY <1>0, <2>3 DEF UcmdInv, FetchTrue
  <2>6. FetchTrue'
    BY <2>3, <2>4, <2>5 DEF FetchTrue, CopyGood
  <2> QED BY <1>0, <2>2, <2>6, FetchKeeps
<1> QED BY <1>2, <1>3, <1>4, <1>5

LEMMA FetchWaits ==
  ASSUME UcmdInv, Ucmd!WaitCompleted \/ Ucmd!WaitAgain \/ Ucmd!WaitOnAddress
  PROVE  UcmdInv'
<1>0. UNCHANGED <<rsx, cause, pending, event, intr, active, epoch, completed, record, signal>>
  BY DEF Ucmd!WaitCompleted, Ucmd!WaitAgain, Ucmd!WaitOnAddress, Ucmd!SpuVarsKept, Ucmd!postVars,
     Ucmd!fenceVars
<1>1. get \in GetRec /\ active \in Nat /\ epoch \in Nat /\ completed \in Nat /\ signal \in Nat
  BY DEF UcmdInv, UcmdTypes
<1>2. CASE Ucmd!WaitCompleted
  <2>1. PICK to \in {"again", "sleep"} :
          /\ get' = [get EXCEPT !.pc = to] /\ (to = "again" => completed >= get.ent)
    BY <1>2 DEF Ucmd!WaitCompleted, Ucmd!Quiet
  <2>2. get' \in GetRec
    BY <1>1, <2>1 DEF GetRec, GetPlaces
  <2>3. FetchTrue'
    BY <1>0, <1>1, <2>1 DEF UcmdInv, FetchTrue, GetRec
  <2> QED BY <1>0, <2>2, <2>3, FetchKeeps
<1>3. CASE Ucmd!WaitAgain
  <2>1. PICK to \in {"copy1", "sleep"} :
          /\ get' = [get EXCEPT !.pc = to, !.stable = get.ent] /\ get.pc = "again"
    BY <1>3 DEF Ucmd!WaitAgain
  <2>2. get' \in GetRec
    BY <1>1, <2>1 DEF GetRec, GetPlaces
  <2>3. FetchTrue'
    BY <1>0, <1>1, <2>1 DEF UcmdInv, FetchTrue, GetRec
  <2> QED BY <1>0, <2>2, <2>3, FetchKeeps
<1>4. CASE Ucmd!WaitOnAddress
  <2>1. PICK to \in {"asleep", "active"} : get' = [get EXCEPT !.pc = to]
    BY <1>4 DEF Ucmd!WaitOnAddress
  <2>2. get' \in GetRec
    BY <1>1, <2>1 DEF GetRec, GetPlaces
  <2>3. FetchTrue'
    BY <1>0, <1>1, <2>1 DEF UcmdInv, FetchTrue, GetRec
  <2> QED BY <1>0, <2>2, <2>3, FetchKeeps
<1> QED BY <1>2, <1>3, <1>4

LEMMA FetchCopies ==
  ASSUME UcmdInv, Ucmd!Copy("copy1", 1, "copy2") \/ Ucmd!Copy("copy2", 2, "check1")
  PROVE  UcmdInv'
<1>0. UNCHANGED <<rsx, cause, pending, event, intr, active, epoch, completed, record, signal>>
  BY DEF Ucmd!Copy, Ucmd!SpuVarsKept, Ucmd!postVars, Ucmd!fenceVars
<1>1. /\ get \in GetRec /\ record \in Nat \X Nat /\ get.copy \in Nat \X Nat
      /\ epoch \in Nat /\ completed \in Nat /\ signal \in Nat
  BY DEF UcmdInv, UcmdTypes, GetRec
<1>2. CASE Ucmd!Copy("copy1", 1, "copy2")
  <2> DEFINE c == [get.copy EXCEPT ![1] = record[1]]
  <2>1. get.pc = "copy1" /\ get' = [get EXCEPT !.pc = "copy2", !.copy = c]
    BY <1>2 DEF Ucmd!Copy
  <2>2. c \in Nat \X Nat /\ c[1] = record[1]
    BY <1>1
  <2> HIDE DEF c
  <2>3. get' \in GetRec
    BY <1>1, <2>1, <2>2 DEF GetRec, GetPlaces
  <2>4. get'.pc = "copy2" /\ get'.copy = c /\ get'.stable = get.stable /\ get'.due = get.due
    BY <1>1, <2>1 DEF GetRec
  <2>5. get.stable <= completed /\ get.due <= signal
    BY <2>1 DEF UcmdInv, FetchTrue
  <2>6. FetchTrue'
    BY <1>0, <2>2, <2>4, <2>5 DEF FetchTrue
  <2> QED BY <1>0, <2>3, <2>6, FetchKeeps
<1>3. CASE Ucmd!Copy("copy2", 2, "check1")
  <2> DEFINE c == [get.copy EXCEPT ![2] = record[2]]
  <2>1. get.pc = "copy2" /\ get' = [get EXCEPT !.pc = "check1", !.copy = c]
    BY <1>3 DEF Ucmd!Copy
  <2>2. c \in Nat \X Nat /\ c[2] = record[2] /\ c[1] = get.copy[1]
    BY <1>1
  <2> HIDE DEF c
  <2>3. get' \in GetRec
    BY <1>1, <2>1, <2>2 DEF GetRec, GetPlaces
  <2>4. get'.pc = "check1" /\ get'.copy = c /\ get'.stable = get.stable /\ get'.due = get.due
    BY <1>1, <2>1 DEF GetRec
  <2>5. /\ get.stable <= completed /\ get.due <= signal
        /\ epoch = get.stable => get.copy[1] = record[1]
    BY <2>1 DEF UcmdInv, FetchTrue
  <2>6. FetchTrue'
    BY <1>0, <2>2, <2>4, <2>5 DEF FetchTrue
  <2> QED BY <1>0, <2>3, <2>6, FetchKeeps
<1> QED BY <1>2, <1>3

LEMMA FetchEnds ==
  ASSUME UcmdInv, Ucmd!GetStart \/ Ucmd!CheckCompleted \/ Ucmd!CheckAgain \/ Ucmd!GetDone
  PROVE  UcmdInv'
<1>0. UNCHANGED <<rsx, cause, pending, event, intr, active, epoch, completed, record, signal>>
  BY DEF Ucmd!GetStart, Ucmd!CheckCompleted, Ucmd!CheckAgain, Ucmd!GetDone, Ucmd!SpuVarsKept,
     Ucmd!postVars, Ucmd!fenceVars
<1>1. get \in GetRec /\ signal \in Nat
  BY DEF UcmdInv, UcmdTypes
<1>2. CASE Ucmd!GetStart
  <2>1. get' = [Ucmd!NoGet EXCEPT !.pc = "active", !.due = signal]
    BY <1>2 DEF Ucmd!GetStart
  <2>2. get' \in GetRec /\ get'.pc = "active" /\ get'.due = signal
    BY <1>1, <2>1 DEF Ucmd!NoGet, GetRec, GetPlaces
  <2>3. FetchTrue'
    BY <1>0, <1>1, <2>2 DEF FetchTrue
  <2> QED BY <1>0, <2>2, <2>3, FetchKeeps
<1>3. CASE Ucmd!CheckCompleted
  <2>1. PICK to \in {"recheck", "active"} :
          get' = [get EXCEPT !.pc = to] /\ (to = "recheck" => get.ent = get.stable) /\ get.pc = "check"
    BY <1>3 DEF Ucmd!CheckCompleted, Ucmd!Stable
  <2>2. get' \in GetRec
    BY <1>1, <2>1 DEF GetRec, GetPlaces
  <2>3. FetchTrue'
    BY <1>0, <1>1, <2>1 DEF UcmdInv, FetchTrue, CopyGood, GetRec
  <2> QED BY <1>0, <2>2, <2>3, FetchKeeps
<1>4. CASE Ucmd!CheckAgain
  <2>1. PICK to \in {"done", "active"} : get' = [get EXCEPT !.pc = to] /\ get.pc = "recheck"
    BY <1>4 DEF Ucmd!CheckAgain
  <2>2. get' \in GetRec
    BY <1>1, <2>1 DEF GetRec, GetPlaces
  <2>3. FetchTrue'
    BY <1>0, <1>1, <2>1 DEF UcmdInv, FetchTrue, CopyGood, GetRec
  <2> QED BY <1>0, <2>2, <2>3, FetchKeeps
<1>5. CASE Ucmd!GetDone
  <2>1. get' = [get EXCEPT !.pc = "idle"]
    BY <1>5 DEF Ucmd!GetDone
  <2>2. get' \in GetRec
    BY <1>1, <2>1 DEF GetRec, GetPlaces
  <2>3. FetchTrue'
    BY <1>0, <1>1, <2>1 DEF UcmdInv, FetchTrue, GetRec
  <2> QED BY <1>0, <2>2, <2>3, FetchKeeps
<1> QED BY <1>2, <1>3, <1>4, <1>5

\* The interrupt thread between two callbacks.
LEMMA IntrLooks == ASSUME UcmdInv, Ucmd!IntrWakes \/ Ucmd!IntrLook \/ Ucmd!IntrCause PROVE UcmdInv'
<1>0. UNCHANGED <<rsx, cause, active, epoch, completed, record, signal, get>>
  BY DEF Ucmd!IntrWakes, Ucmd!IntrLook, Ucmd!IntrCause, Ucmd!postVars, Ucmd!fenceVars
<1>1. intr \in IntrRec /\ cause \in Nat /\ pending \in BOOLEAN /\ event \in BOOLEAN
  BY DEF UcmdInv, UcmdTypes
<1>2. PICK to \in {"look", "sleeps", "cause", "begin"} :
        \/ /\ to \in {"look", "sleeps", "cause"} /\ intr' = [intr EXCEPT !.pc = to]
        \/ /\ to = "begin" /\ intr' = [intr EXCEPT !.pc = to, !.cause = cause]
  BY DEF Ucmd!IntrWakes, Ucmd!IntrLook, Ucmd!IntrCause
<1>3. intr' \in IntrRec
  BY <1>1, <1>2 DEF IntrRec, IntrPlaces
<1>4. pending' \in BOOLEAN /\ event' \in BOOLEAN
  BY <1>1 DEF Ucmd!IntrWakes, Ucmd!IntrLook, Ucmd!IntrCause, Ucmd!postVars
<1>5. UcmdTypes'
  BY <1>0, <1>3, <1>4 DEF UcmdInv, UcmdTypes
<1>6. /\ intr.pc \in {"sleeps", "look", "cause"} /\ intr'.pc = to
      /\ intr'.cause = (IF to = "begin" THEN cause ELSE intr.cause) /\ intr.cause \in Nat
  BY <1>1, <1>2 DEF Ucmd!IntrWakes, Ucmd!IntrLook, Ucmd!IntrCause, IntrRec
<1>7. IntrTrue'
  <2>1. signal \in Nat
    BY DEF UcmdInv, UcmdTypes
  <2> QED BY <1>0, <1>1, <1>6, <2>1 DEF UcmdInv, IntrTrue, Staging, Behind
<1>8. PostTrue'
  <2>1. CASE Ucmd!IntrWakes
    <3>1. to = "look" /\ pending' = pending /\ intr.pc = "sleeps"
      BY <1>1, <1>6, <2>1 DEF Ucmd!IntrWakes, IntrRec
    <3> QED BY <1>0, <1>6, <3>1 DEF UcmdInv, PostTrue
  <2>2. CASE Ucmd!IntrLook
    <3>1. pending' = FALSE /\ intr.pc = "look" /\ to = (IF pending THEN "cause" ELSE "sleeps")
      BY <1>1, <1>6, <2>2 DEF Ucmd!IntrLook, IntrRec
    <3> QED BY <1>0, <1>6, <3>1 DEF UcmdInv, PostTrue
  <2>3. CASE Ucmd!IntrCause
    <3>1. to = "begin" /\ pending' = pending
      BY <1>1, <1>6, <2>3 DEF Ucmd!IntrCause, IntrRec, Ucmd!postVars
    <3> QED BY <1>0, <1>6, <3>1 DEF UcmdInv, PostTrue
  <2> QED BY <2>1, <2>2, <2>3
<1>9. FetchTrue'
  BY <1>0 DEF UcmdInv, FetchTrue, CopyGood
<1> QED BY <1>5, <1>7, <1>8, <1>9 DEF UcmdInv

\* Steps of a callback: it is between its begin and its end.
LEMMA CallbackKeeps ==
  ASSUME UcmdInv, UNCHANGED <<rsx, cause, pending, event>>, intr'.cause = intr.cause,
         intr.pc \in Behind \cup {"end", "leave"}, intr'.pc \in IntrPlaces \ {"sleeps", "cause"},
         intr' \in IntrRec, get' \in GetRec, record' \in Nat \X Nat,
         active' \in Nat, epoch' \in Nat, completed' \in Nat, signal' \in Nat,
         IntrTrue', FetchTrue'
  PROVE  UcmdInv'
<1>1. UcmdTypes'
  BY DEF UcmdInv, UcmdTypes
<1>2. PostTrue'
  BY DEF UcmdInv, PostTrue, Behind
<1> QED BY <1>1, <1>2 DEF UcmdInv

LEMMA CallbackBegins == ASSUME UcmdInv, Ucmd!BeginActive \/ Ucmd!BeginEpoch PROVE UcmdInv'
<1>0. UNCHANGED <<rsx, cause, pending, event, completed, record, signal, get>>
  BY DEF Ucmd!BeginActive, Ucmd!BeginEpoch, Ucmd!postVars
<1>1. /\ intr \in IntrRec /\ get \in GetRec /\ record \in Nat \X Nat /\ active \in Nat /\ epoch \in Nat
      /\ completed \in Nat /\ signal \in Nat
  BY DEF UcmdInv, UcmdTypes
<1>2. CASE Ucmd!BeginActive
  <2>1. /\ intr.pc = "begin" /\ active' = active + 1 /\ intr' = [intr EXCEPT !.pc = "enter"]
        /\ epoch' = epoch
    BY <1>2 DEF Ucmd!BeginActive
  <2>2. intr' \in IntrRec /\ intr'.pc = "enter" /\ intr'.cause = intr.cause /\ intr'.epoch = intr.epoch
    BY <1>1, <2>1 DEF IntrRec, IntrPlaces
  <2>3. IntrTrue'
    BY <1>0, <1>1, <2>1, <2>2 DEF UcmdInv, IntrTrue, Staging, Behind
  <2>4. FetchTrue'
    BY <1>0, <2>1 DEF UcmdInv, FetchTrue, CopyGood
  <2>5. active' \in Nat /\ intr'.pc \in IntrPlaces \ {"sleeps", "cause"} /\ intr.pc \in Behind
    BY <1>1, <2>1, <2>2 DEF IntrPlaces, Behind
  <2> QED BY <1>0, <1>1, <2>1, <2>2, <2>3, <2>4, <2>5, CallbackKeeps
<1>3. CASE Ucmd!BeginEpoch
  <2>1. /\ intr.pc = "enter" /\ epoch' = epoch + 1
        /\ intr' = [intr EXCEPT !.pc = "signal", !.epoch = epoch + 1] /\ active' = active
    BY <1>3 DEF Ucmd!BeginEpoch
  <2>2. intr' \in IntrRec /\ intr'.pc = "signal" /\ intr'.cause = intr.cause /\ intr'.epoch = epoch + 1
    <3>1. epoch + 1 \in Nat
      BY <1>1
    <3>2. intr' \in IntrRec
      BY <1>1, <2>1, <3>1 DEF IntrRec, IntrPlaces
    <3> QED BY <1>1, <2>1, <3>2 DEF IntrRec
  <2>3. epoch = completed
    BY <2>1 DEF UcmdInv, IntrTrue, Staging
  <2>4. IntrTrue'
    BY <1>0, <1>1, <2>1, <2>2, <2>3 DEF UcmdInv, IntrTrue, Staging, Behind
  <2>5. FetchTrue'
    <3>1. get.stable \in Nat
      BY <1>1 DEF GetRec
    <3> QED BY <1>0, <1>1, <2>1, <2>3, <3>1 DEF UcmdInv, FetchTrue, CopyGood
  <2>6. /\ epoch' \in Nat /\ active' \in Nat /\ intr'.pc \in IntrPlaces \ {"sleeps", "cause"}
        /\ intr.pc \in Behind
    BY <1>1, <2>1, <2>2 DEF IntrPlaces, Behind
  <2> QED BY <1>0, <1>1, <2>2, <2>4, <2>5, <2>6, CallbackKeeps
<1> QED BY <1>2, <1>3

LEMMA CallbackStages ==
  ASSUME UcmdInv, Ucmd!CallbackSignal \/ Ucmd!Stage("first", 1, "second") \/ Ucmd!Stage("second", 2, "end")
  PROVE  UcmdInv'
<1>0. UNCHANGED <<rsx, cause, pending, event, active, epoch, completed, get>>
  BY DEF Ucmd!CallbackSignal, Ucmd!Stage, Ucmd!postVars, Ucmd!fenceVars
<1>1. /\ intr \in IntrRec /\ get \in GetRec /\ record \in Nat \X Nat /\ active \in Nat /\ epoch \in Nat
      /\ completed \in Nat /\ signal \in Nat /\ intr.cause \in Nat /\ cause \in Nat /\ get.due \in Nat
      /\ get.stable \in Nat
  BY DEF UcmdInv, UcmdTypes, IntrRec, GetRec
<1>2. intr.pc \in Staging /\ epoch = completed + 1
  BY DEF UcmdInv, IntrTrue, Ucmd!CallbackSignal, Ucmd!Stage, Staging
<1>3. PICK to \in {"first", "second", "end"} : intr' = [intr EXCEPT !.pc = to]
  BY DEF Ucmd!CallbackSignal, Ucmd!Stage
<1>4. intr' \in IntrRec /\ intr'.pc = to /\ intr'.cause = intr.cause /\ intr'.epoch = intr.epoch
  BY <1>1, <1>3 DEF IntrRec, IntrPlaces
<1>5. /\ record' \in Nat \X Nat /\ signal' \in Nat /\ signal <= signal' /\ IntrTrue'
  <2>1. CASE Ucmd!CallbackSignal
    <3>1. intr.pc = "signal" /\ to = "first" /\ signal' = intr.cause /\ record' = record
      BY <1>1, <1>4, <2>1 DEF Ucmd!CallbackSignal, IntrRec
    <3>2. signal <= intr.cause
      BY DEF UcmdInv, IntrTrue
    <3>3. IntrTrue'
      BY <1>0, <1>1, <1>2, <1>4, <3>1 DEF UcmdInv, IntrTrue, Staging, Behind
    <3> QED BY <1>1, <3>1, <3>2, <3>3
  <2>2. CASE Ucmd!Stage("first", 1, "second")
    <3>1. /\ intr.pc = "first" /\ to = "second" /\ signal' = signal
          /\ record' = [record EXCEPT ![1] = intr.cause]
      BY <1>1, <1>4, <2>2 DEF Ucmd!Stage, IntrRec
    <3>2. record' \in Nat \X Nat /\ record'[1] = intr.cause
      BY <1>1, <3>1
    <3>3. IntrTrue'
      BY <1>0, <1>1, <1>2, <1>4, <3>1, <3>2 DEF UcmdInv, IntrTrue, Staging, Behind
    <3> QED BY <1>1, <3>1, <3>2, <3>3
  <2>3. CASE Ucmd!Stage("second", 2, "end")
    <3>1. /\ intr.pc = "second" /\ to = "end" /\ signal' = signal
          /\ record' = [record EXCEPT ![2] = intr.cause]
      BY <1>1, <1>4, <2>3 DEF Ucmd!Stage, IntrRec
    <3>2. record' \in Nat \X Nat /\ record'[2] = intr.cause /\ record'[1] = record[1]
      BY <1>1, <3>1
    <3>3. IntrTrue'
      BY <1>0, <1>1, <1>2, <1>4, <3>1, <3>2 DEF UcmdInv, IntrTrue, Staging, Behind
    <3> QED BY <1>1, <3>1, <3>2, <3>3
  <2> QED BY <2>1, <2>2, <2>3
<1>6. FetchTrue'
  BY <1>0, <1>1, <1>2, <1>5 DEF UcmdInv, FetchTrue, CopyGood
<1>7. intr'.pc \in IntrPlaces \ {"sleeps", "cause"} /\ intr.pc \in Behind \cup {"end", "leave"}
  BY <1>2, <1>4 DEF IntrPlaces, Behind, Staging
<1> QED BY <1>0, <1>1, <1>4, <1>5, <1>6, <1>7, CallbackKeeps

LEMMA CallbackEnds == ASSUME UcmdInv, Ucmd!EndCompleted \/ Ucmd!EndActive PROVE UcmdInv'
<1>0. UNCHANGED <<rsx, cause, pending, event, epoch, record, signal>>
  BY DEF Ucmd!EndCompleted, Ucmd!EndActive, Ucmd!postVars
<1>1. /\ intr \in IntrRec /\ get \in GetRec /\ record \in Nat \X Nat /\ active \in Nat /\ epoch \in Nat
      /\ completed \in Nat /\ signal \in Nat
  BY DEF UcmdInv, UcmdTypes
<1>2. CASE Ucmd!EndCompleted
  <2>1. /\ intr.pc = "end" /\ intr' = [intr EXCEPT !.pc = "leave"] /\ active' = active /\ get' = get
        /\ completed' = IF completed < intr.epoch THEN intr.epoch ELSE completed
    BY <1>2 DEF Ucmd!EndCompleted
  <2>2. intr' \in IntrRec /\ intr'.pc = "leave" /\ intr'.cause = intr.cause
    BY <1>1, <2>1 DEF IntrRec, IntrPlaces
  <2>3. epoch = completed + 1 /\ completed' = epoch
    BY <1>1, <2>1 DEF UcmdInv, IntrTrue, Staging
  <2>4. IntrTrue'
    BY <1>0, <1>1, <2>1, <2>2, <2>3 DEF UcmdInv, IntrTrue, Staging, Behind
  <2>5. FetchTrue'
    <3>1. get.stable \in Nat /\ get.ent \in Nat
      BY <1>1 DEF GetRec
    <3> QED BY <1>0, <1>1, <2>1, <2>3, <3>1 DEF UcmdInv, FetchTrue, CopyGood
  <2>6. /\ completed' \in Nat /\ intr'.pc \in IntrPlaces \ {"sleeps", "cause"}
        /\ intr.pc \in Behind \cup {"end", "leave"}
    BY <1>1, <2>1, <2>2, <2>3 DEF IntrPlaces
  <2> QED BY <1>0, <1>1, <2>1, <2>2, <2>4, <2>5, <2>6, CallbackKeeps
<1>3. CASE Ucmd!EndActive
  <2>1. /\ intr.pc = "leave" /\ intr' = [intr EXCEPT !.pc = "look"] /\ active' = active - 1
        /\ completed' = completed
        /\ get' = [get EXCEPT !.pc = IF get.pc = "asleep" THEN "active" ELSE get.pc]
    BY <1>3 DEF Ucmd!EndActive, Ucmd!Woken
  <2>2. intr' \in IntrRec /\ intr'.pc = "look" /\ intr'.cause = intr.cause
    BY <1>1, <2>1 DEF IntrRec, IntrPlaces
  <2>3. active = 1
    BY <2>1 DEF UcmdInv, IntrTrue, Staging
  <2>4. IntrTrue'
    BY <1>0, <1>1, <2>1, <2>2, <2>3 DEF UcmdInv, IntrTrue, Staging, Behind
  <2>5. /\ get' \in GetRec /\ get'.copy = get.copy /\ get'.due = get.due /\ get'.ent = get.ent
        /\ get'.stable = get.stable /\ (get'.pc = get.pc \/ get'.pc = "active")
    BY <1>1, <2>1 DEF GetRec, GetPlaces
  <2>6. FetchTrue'
    BY <1>0, <2>1, <2>5 DEF UcmdInv, FetchTrue, CopyGood
  <2>7. /\ active' \in Nat /\ intr'.pc \in IntrPlaces \ {"sleeps", "cause"}
        /\ intr.pc \in Behind \cup {"end", "leave"}
    BY <2>1, <2>2, <2>3 DEF IntrPlaces
  <2> QED BY <1>0, <1>1, <2>1, <2>2, <2>4, <2>5, <2>6, <2>7, CallbackKeeps
<1> QED BY <1>2, <1>3

LEMMA UcmdNextInv == ASSUME UcmdSizes, UcmdInv, [Ucmd!Next]_(Ucmd!ucmdVars) PROVE UcmdInv'
<1>1. ASSUME Ucmd!Post PROVE UcmdInv'
  BY <1>1, PostKeeps
<1>2. ASSUME Ucmd!Callback PROVE UcmdInv'
  BY <1>2, IntrLooks, CallbackBegins, CallbackStages, CallbackEnds DEF Ucmd!Callback
<1>3. ASSUME Ucmd!GetStart \/ Ucmd!Fetch PROVE UcmdInv'
  BY <1>3, FetchReads, FetchWaits, FetchCopies, FetchEnds DEF Ucmd!Fetch
<1>4. ASSUME UNCHANGED Ucmd!ucmdVars PROVE UcmdInv'
  <2>1. UNCHANGED <<rsx, cause, pending, event, intr, active, epoch, completed, record, signal>>
        /\ get' = get
    BY <1>4 DEF Ucmd!ucmdVars
  <2>2. get' \in GetRec /\ FetchTrue'
    BY <2>1 DEF UcmdInv, UcmdTypes, FetchTrue, CopyGood
  <2> QED BY <2>1, <2>2, FetchKeeps
<1> QED BY <1>1, <1>2, <1>3, <1>4 DEF Ucmd!Next

LEMMA UcmdFollows == ASSUME UcmdInv PROVE Ucmd!TypeOK /\ Ucmd!UcmdSound
<1>1. Ucmd!TypeOK
  <2>1. /\ cause \in Nat /\ cause <= MaxCommands /\ epoch \in Nat /\ completed \in Nat /\ signal \in Nat
        /\ pending \in BOOLEAN /\ event \in BOOLEAN /\ intr.cause \in Nat
    BY DEF UcmdInv, UcmdTypes, IntrRec
  <2>2. active \in 0..1 /\ completed <= epoch /\ epoch <= completed + 1
    BY <2>1 DEF UcmdInv, IntrTrue
  <2>3. signal <= cause
    BY <2>1 DEF UcmdInv, IntrTrue
  <2>4. cause \in 0..MaxCommands
    BY <2>1 DEF UcmdInv
  <2> QED BY <2>1, <2>2, <2>3, <2>4 DEF Ucmd!TypeOK
<1>2. Ucmd!RecordWhole
  BY DEF UcmdInv, FetchTrue, CopyGood, Ucmd!RecordWhole
<1>3. Ucmd!LatestServed
  <2> SUFFICES ASSUME intr.pc = "sleeps", ~event, rsx = "idle"
               PROVE  intr.cause = cause /\ record = <<cause, cause>>
    BY DEF Ucmd!LatestServed
  <2>1. intr.cause = cause
    BY DEF UcmdInv, PostTrue
  <2>2. record[1] = cause /\ record[2] = cause /\ record \in Nat \X Nat
    BY <2>1 DEF UcmdInv, IntrTrue, Behind, UcmdTypes
  <2> QED BY <2>1, <2>2
<1> QED BY <1>1, <1>2, <1>3 DEF Ucmd!UcmdSound

(* A fetch returns one whole record, no older than the signal that asked for
   it, however its reads of the counters and the callbacks interleave; and when
   the interrupt thread sleeps with nothing posted, the last command had its
   callback.                                                                *)
THEOREM RecordsAreWhole == ASSUME UcmdSizes PROVE Ucmd!Spec => [](Ucmd!TypeOK /\ Ucmd!UcmdSound)
<1>1. Ucmd!Init => UcmdInv
  BY UcmdInitInv
<1>2. UcmdInv /\ [Ucmd!Next]_(Ucmd!ucmdVars) => UcmdInv'
  BY UcmdNextInv
<1> QED BY <1>1, <1>2, UcmdFollows, PTL DEF Ucmd!Spec

-----------------------------------------------------------------------------
(* The registry of DMA engines *)

\* Threads are told apart by their names.
RegSizes ==
    /\ MaxEngines \in Nat /\ IsFiniteSet(Users)
    /\ Users \cap Notifiers = {} /\ "owner" \notin Users \cup Notifiers /\ "" \notin Registry!Contexts

RegPlaces == {"idle", "inBucket", "inList", "haveBucket", "wantBucket", "haveBoth", "uses", "scans",
              "retires", "hasBucket", "hasBoth", "waits", "gone"}

RegTypes ==
    /\ allocated \in 0 .. MaxEngines
    /\ freed \subseteq 1 .. allocated /\ listed \subseteq 1 .. allocated
    /\ refs \in [Registry!Engines -> Nat] /\ retiring \in BOOLEAN
    /\ bucketLock \in Registry!Contexts \cup {""} /\ registryLock \in Registry!Contexts \cup {""}
    /\ mpc \in [Registry!Contexts -> RegPlaces] /\ eng \in [Registry!Contexts -> {0} \cup Registry!Engines]

\* The engine that the owner has taken from the tables and will free.
Leaving == eng["owner"]

\* There is one engine in the tables, or none once the owner has removed it.
OneEngine ==
    /\ bucketed = listed /\ \A e, f \in listed : e = f
    /\ listed \cap freed = {}
    /\ mpc["owner"] # "idle" => retiring
    /\ mpc["owner"] \in {"waits", "gone"} => listed = {}

\* Who uses an engine has one that is in the tables or waits for its users.
Holding ==
    /\ \A u \in Users : /\ eng[u] # 0 <=> mpc[u] = "uses"
                        /\ eng[u] # 0 => eng[u] \in listed \cup {Leaving}
    /\ Leaving # 0 <=> mpc["owner"] = "waits"
    /\ Leaving # 0 => Leaving \in 1 .. allocated /\ Leaving \notin listed \cup freed

UsersOf(e) == {u \in Users : eng[u] = e}
Counted == \A e \in Registry!Engines : refs[e] = Cardinality(UsersOf(e))

RegInv == RegTypes /\ OneEngine /\ Holding /\ Counted

LEMMA RegInitInv == ASSUME RegSizes, Registry!Init PROVE RegInv
<1>0. MaxEngines \in Nat /\ "owner" \in Registry!Contexts /\ Users \subseteq Registry!Contexts
  BY DEF RegSizes, Registry!Contexts
<1>1. RegTypes
  <2>1. allocated \in 0 .. MaxEngines /\ freed \subseteq 1 .. allocated /\ listed \subseteq 1 .. allocated
    <3>1. allocated = 0 /\ freed = {} /\ listed = {}
      BY DEF Registry!Init
    <3> QED BY <1>0, <3>1
  <2>2. refs \in [Registry!Engines -> Nat] /\ bucketLock \in Registry!Contexts \cup {""} /\ registryLock \in Registry!Contexts \cup {""}
    BY DEF Registry!Init
  <2>3. mpc \in [Registry!Contexts -> RegPlaces] /\ eng \in [Registry!Contexts -> {0} \cup Registry!Engines]
    BY DEF Registry!Init, RegPlaces
  <2>4. retiring \in BOOLEAN
    BY DEF Registry!Init
  <2> QED BY <2>1, <2>2, <2>3, <2>4 DEF RegTypes
<1>2. OneEngine /\ Holding
  BY <1>0 DEF Registry!Init, OneEngine, Holding, Leaving
<1>3. Counted
  <2> SUFFICES ASSUME NEW e \in Registry!Engines PROVE refs[e] = Cardinality(UsersOf(e))
    BY DEF Counted
  <2>1. UsersOf(e) = {}
    <3>1. \A u \in Users : eng[u] = 0
      BY <1>0 DEF Registry!Init
    <3>2. e # 0
      BY DEF Registry!Engines
    <3> QED BY <3>1, <3>2 DEF UsersOf
  <2> QED BY <2>1, FS_EmptySet DEF Registry!Init
<1> QED BY <1>1, <1>2, <1>3 DEF RegInv

\* The numbers of engines.
LEMMA EngineNumbers ==
  ASSUME RegSizes, RegTypes
  PROVE  /\ allocated \in Nat /\ MaxEngines \in Nat /\ allocated <= MaxEngines
         /\ 0 \notin Registry!Engines /\ 0 \notin 1 .. allocated /\ 1 .. allocated \subseteq Registry!Engines
         /\ listed \subseteq Registry!Engines /\ freed \subseteq Registry!Engines
<1>1. MaxEngines \in Nat
  BY DEF RegSizes
<1>2. allocated \in Nat /\ allocated <= MaxEngines
  <2>1. allocated \in 0 .. MaxEngines
    BY DEF RegTypes
  <2> QED BY <1>1, <2>1
<1>3. 0 \notin Registry!Engines /\ 0 \notin 1 .. allocated /\ 1 .. allocated \subseteq Registry!Engines
  BY <1>1, <1>2 DEF Registry!Engines
<1> QED BY <1>1, <1>2, <1>3 DEF RegTypes

\* Steps that move no engine.
LEMMA RegWalks ==
  ASSUME RegSizes, RegInv, UNCHANGED <<allocated, freed, listed, bucketed, refs, retiring, eng>>,
         bucketLock' \in Registry!Contexts \cup {""}, registryLock' \in Registry!Contexts \cup {""},
         mpc' \in [Registry!Contexts -> RegPlaces], mpc'["owner"] = mpc["owner"],
         \A u \in Users : mpc'[u] = "uses" <=> mpc[u] = "uses"
  PROVE  RegInv'
<1>1. RegTypes'
  BY DEF RegInv, RegTypes
<1>2. OneEngine'
  <2>1. OneEngine
    BY DEF RegInv
  <2> QED BY <2>1 DEF OneEngine
<1>3. Holding'
  BY DEF RegInv, Holding, Leaving
<1>4. Counted'
  BY DEF RegInv, Counted, UsersOf
<1> QED BY <1>1, <1>2, <1>3, <1>4 DEF RegInv

LEMMA RegIdles == ASSUME RegSizes, RegInv, UNCHANGED Registry!regVars PROVE RegInv'
<1>1. /\ UNCHANGED <<allocated, freed, listed, bucketed, refs, retiring, eng>>
      /\ bucketLock' = bucketLock /\ registryLock' = registryLock /\ mpc' = mpc
  BY DEF Registry!regVars
<1> QED BY <1>1, RegWalks DEF RegInv, RegTypes

\* Where a thread goes.
LEMMA Goes ==
  ASSUME RegSizes, RegInv, NEW t \in Registry!Contexts, NEW from, NEW to \in RegPlaces,
         Registry!Go(t, from, to)
  PROVE  /\ mpc[t] = from /\ mpc' \in [Registry!Contexts -> RegPlaces] /\ mpc'[t] = to
         /\ \A c \in Registry!Contexts \ {t} : mpc'[c] = mpc[c]
  BY DEF RegInv, RegTypes, Registry!Go

\* The lookups that find nothing, and the scans of the list.
LEMMA LookupWalks ==
  ASSUME RegSizes, RegInv, NEW u \in Users,
         Registry!Lookup(u) \/ Registry!MissInBucket(u) \/ Registry!MissInList(u) \/ Registry!TakeBucket(u) \/ Registry!TakeRegistry(u)
  PROVE  RegInv'
<1>1. /\ UNCHANGED <<allocated, freed, listed, bucketed, refs, retiring, eng>>
      /\ bucketLock' \in {u, bucketLock} /\ registryLock' \in {u, registryLock, ""}
  BY DEF Registry!Lookup, Registry!MissInBucket, Registry!MissInList, Registry!TakeBucket,
     Registry!TakeRegistry, Registry!Tables, Registry!Locks
<1>2. u \in Registry!Contexts /\ u # "owner" /\ "owner" \in Registry!Contexts /\ Users \subseteq Registry!Contexts
  BY DEF Registry!Contexts, RegSizes
<1>3. PICK from \in {"idle", "inBucket", "inList", "wantBucket", "haveBucket"},
           to \in {"inBucket", "inList", "haveBucket", "wantBucket", "haveBoth"} : Registry!Go(u, from, to)
  BY DEF Registry!Lookup, Registry!MissInBucket, Registry!MissInList, Registry!TakeBucket,
     Registry!TakeRegistry
<1>4. /\ mpc[u] = from /\ mpc' \in [Registry!Contexts -> RegPlaces] /\ mpc'[u] = to
      /\ \A c \in Registry!Contexts \ {u} : mpc'[c] = mpc[c]
  <2>1. to \in RegPlaces
    BY DEF RegPlaces
  <2> QED BY <1>2, <1>3, <2>1, Goes
<1>5. bucketLock' \in Registry!Contexts \cup {""} /\ registryLock' \in Registry!Contexts \cup {""}
  BY <1>1, <1>2 DEF RegInv, RegTypes
<1>6. mpc'["owner"] = mpc["owner"] /\ \A c \in Users : mpc'[c] = "uses" <=> mpc[c] = "uses"
  BY <1>2, <1>4
<1> QED BY <1>1, <1>4, <1>5, <1>6, RegWalks

LEMMA ScanWalks ==
  ASSUME RegSizes, RegInv, NEW w \in Notifiers, Registry!Scan(w) \/ Registry!Scanned(w)
  PROVE  RegInv'
<1>1. /\ UNCHANGED <<allocated, freed, listed, bucketed, refs, retiring, eng>>
      /\ bucketLock' = bucketLock /\ registryLock' \in {w, ""}
  BY DEF Registry!Scan, Registry!Scanned, Registry!Tables
<1>2. w \in Registry!Contexts /\ w # "owner" /\ "owner" \in Registry!Contexts /\ Users \subseteq Registry!Contexts \ {w}
  BY DEF Registry!Contexts, RegSizes
<1>3. PICK from, to \in {"idle", "scans"} : Registry!Go(w, from, to)
  BY DEF Registry!Scan, Registry!Scanned
<1>4. mpc' \in [Registry!Contexts -> RegPlaces] /\ \A c \in Registry!Contexts \ {w} : mpc'[c] = mpc[c]
  <2>1. to \in RegPlaces
    BY DEF RegPlaces
  <2> QED BY <1>2, <1>3, <2>1, Goes
<1>5. bucketLock' \in Registry!Contexts \cup {""} /\ registryLock' \in Registry!Contexts \cup {""}
  BY <1>1, <1>2 DEF RegInv, RegTypes
<1>6. mpc'["owner"] = mpc["owner"] /\ \A c \in Users : mpc'[c] = "uses" <=> mpc[c] = "uses"
  BY <1>2, <1>4
<1> QED BY <1>1, <1>4, <1>5, <1>6, RegWalks

\* A user that has no engine gets one.
LEMMA CountRises ==
  ASSUME RegSizes, RegInv, NEW u \in Users, eng[u] = 0, NEW e \in Registry!Engines,
         Registry!Refer(u, e)
  PROVE  /\ refs' \in [Registry!Engines -> Nat] /\ eng' \in [Registry!Contexts -> {0} \cup Registry!Engines]
         /\ eng'[u] = e /\ (\A c \in Registry!Contexts \ {u} : eng'[c] = eng[c]) /\ Counted'
<1>1. /\ refs \in [Registry!Engines -> Nat] /\ eng \in [Registry!Contexts -> {0} \cup Registry!Engines] /\ u \in Registry!Contexts
      /\ Users \subseteq Registry!Contexts
  BY DEF RegInv, RegTypes, Registry!Contexts
<1>2. refs' = [refs EXCEPT ![e] = refs[e] + 1] /\ eng' = [eng EXCEPT ![u] = e]
  BY DEF Registry!Refer
<1>3. ASSUME NEW f \in Registry!Engines PROVE refs'[f] = Cardinality(UsersOf(f)')
  <2>0. IsFiniteSet(UsersOf(f))
    BY FS_Subset DEF UsersOf, RegSizes
  <2>1. refs[f] = Cardinality(UsersOf(f))
    BY DEF RegInv, Counted
  <2>2. CASE f = e
    <3>1. UsersOf(f)' = UsersOf(f) \cup {u} /\ u \notin UsersOf(f)
      BY <1>1, <1>2, <2>2 DEF UsersOf, Registry!Engines
    <3>2. Cardinality(UsersOf(f)') = Cardinality(UsersOf(f)) + 1
      BY <2>0, <3>1, FS_AddElement
    <3> QED BY <1>1, <1>2, <2>1, <2>2, <3>2
  <2>3. CASE f # e
    <3>1. UsersOf(f)' = UsersOf(f)
      BY <1>1, <1>2, <2>3 DEF UsersOf, Registry!Engines
    <3> QED BY <1>1, <1>2, <2>1, <2>3, <3>1
  <2> QED BY <2>2, <2>3
<1>4. refs' \in [Registry!Engines -> Nat] /\ eng' \in [Registry!Contexts -> {0} \cup Registry!Engines]
  BY <1>1, <1>2
<1> QED BY <1>1, <1>2, <1>3, <1>4 DEF Counted

LEMMA Finds ==
  ASSUME RegSizes, RegInv, NEW u \in Users,
         Registry!FoundInBucket(u) \/ Registry!FoundInList(u) \/ Registry!FoundAgain(u)
  PROVE  RegInv'
<1>0. u \in Registry!Contexts /\ u # "owner" /\ "owner" \in Registry!Contexts /\ Users \subseteq Registry!Contexts
  BY DEF Registry!Contexts, RegSizes
<1>1. PICK e \in listed : Registry!Refer(u, e)
  BY DEF Registry!FoundInBucket, Registry!FoundInList, Registry!FoundAgain, Registry!Recheck,
     RegInv, OneEngine
<1>2. /\ UNCHANGED <<allocated, freed, listed, bucketed, retiring>>
      /\ bucketLock' \in {bucketLock, ""} /\ registryLock' \in {registryLock, ""}
  BY DEF Registry!FoundInBucket, Registry!FoundInList, Registry!FoundAgain, Registry!Tables
<1>3. /\ mpc[u] \in {"inBucket", "inList", "haveBoth"}
      /\ mpc' \in [Registry!Contexts -> RegPlaces] /\ mpc'[u] = "uses" /\ \A c \in Registry!Contexts \ {u} : mpc'[c] = mpc[c]
  <2>1. PICK from \in {"inBucket", "inList", "haveBoth"} : Registry!Go(u, from, "uses")
    BY DEF Registry!FoundInBucket, Registry!FoundInList, Registry!FoundAgain
  <2>2. "uses" \in RegPlaces
    BY DEF RegPlaces
  <2> QED BY <1>0, <2>1, <2>2, Goes
<1>4. e \in Registry!Engines /\ e # 0 /\ e \in 1 .. allocated
  BY EngineNumbers DEF RegInv, RegTypes
<1>5. eng[u] = 0
  BY <1>3 DEF RegInv, Holding
<1>6. /\ refs' \in [Registry!Engines -> Nat] /\ eng' \in [Registry!Contexts -> {0} \cup Registry!Engines]
      /\ eng'[u] = e /\ (\A c \in Registry!Contexts \ {u} : eng'[c] = eng[c]) /\ Counted'
  BY <1>1, <1>4, <1>5, CountRises
<1>7. RegTypes'
  BY <1>2, <1>3, <1>6 DEF RegInv, RegTypes
<1>8. OneEngine'
  BY <1>0, <1>2, <1>3 DEF RegInv, OneEngine
<1>9. Holding'
  BY <1>0, <1>2, <1>3, <1>4, <1>6 DEF RegInv, Holding, Leaving
<1> QED BY <1>6, <1>7, <1>8, <1>9 DEF RegInv

LEMMA Allocates == ASSUME RegSizes, RegInv, NEW u \in Users, Registry!Allocate(u) PROVE RegInv'
<1> DEFINE e == allocated + 1
<1>0. u \in Registry!Contexts /\ u # "owner" /\ "owner" \in Registry!Contexts /\ Users \subseteq Registry!Contexts
  BY DEF Registry!Contexts, RegSizes
<1>1. /\ ~retiring /\ listed = {} /\ bucketed = {} /\ allocated < MaxEngines
      /\ allocated' = e /\ listed' = {e} /\ bucketed' = {e} /\ Registry!Refer(u, e)
      /\ bucketLock' = "" /\ registryLock' = "" /\ freed' = freed /\ retiring' = retiring
  BY DEF Registry!Allocate, Registry!Recheck, RegInv, OneEngine
<1>2. /\ mpc[u] = "haveBoth" /\ mpc' \in [Registry!Contexts -> RegPlaces] /\ mpc'[u] = "uses"
      /\ \A c \in Registry!Contexts \ {u} : mpc'[c] = mpc[c]
  <2>1. Registry!Go(u, "haveBoth", "uses") /\ "uses" \in RegPlaces
    BY DEF Registry!Allocate, RegPlaces
  <2> QED BY <1>0, <2>1, Goes
<1>3. /\ allocated \in Nat /\ MaxEngines \in Nat /\ e \in Nat \ {0} /\ e <= MaxEngines
      /\ freed \subseteq 1 .. allocated
  <2>1. allocated \in Nat /\ MaxEngines \in Nat
    BY EngineNumbers DEF RegInv
  <2>2. freed \subseteq 1 .. allocated
    BY DEF RegInv, RegTypes
  <2>3. e = allocated + 1 /\ allocated < MaxEngines
    BY <1>1
  <2>4. e \in Nat \ {0} /\ e <= MaxEngines
    BY <2>1, <2>3
  <2> QED BY <2>1, <2>2, <2>4
<1>4. e \in Registry!Engines /\ e \in 1 .. e /\ e \in 0 .. MaxEngines /\ e \notin freed /\ freed \subseteq 1 .. e
  BY <1>3 DEF Registry!Engines
<1>5. eng[u] = 0
  BY <1>2 DEF RegInv, Holding
<1> HIDE DEF e
<1>6. /\ refs' \in [Registry!Engines -> Nat] /\ eng' \in [Registry!Contexts -> {0} \cup Registry!Engines]
      /\ eng'[u] = e /\ (\A c \in Registry!Contexts \ {u} : eng'[c] = eng[c]) /\ Counted'
  BY <1>1, <1>4, <1>5, CountRises
<1>7. RegTypes'
  BY <1>1, <1>2, <1>4, <1>6 DEF RegInv, RegTypes
<1>8. mpc["owner"] = "idle" /\ mpc'["owner"] = "idle" /\ eng["owner"] = 0 /\ eng'["owner"] = 0
  BY <1>0, <1>1, <1>2, <1>6 DEF RegInv, OneEngine, Holding, Leaving
<1>9. OneEngine'
  BY <1>1, <1>4, <1>8 DEF RegInv, OneEngine
<1>10. Holding'
  <2>1. \A c \in Users \ {u} : eng'[c] = 0 /\ mpc'[c] # "uses"
    BY <1>0, <1>1, <1>2, <1>6, <1>8 DEF RegInv, Holding, Leaving
  <2> QED BY <1>0, <1>1, <1>2, <1>3, <1>6, <1>8, <2>1 DEF Holding, Leaving
<1> QED BY <1>6, <1>7, <1>9, <1>10 DEF RegInv

LEMMA Releases == ASSUME RegSizes, RegInv, NEW u \in Users, Registry!Release(u) PROVE RegInv'
<1> DEFINE e == eng[u]
<1>0. u \in Registry!Contexts /\ u # "owner" /\ "owner" \in Registry!Contexts /\ Users \subseteq Registry!Contexts
  BY DEF Registry!Contexts, RegSizes
<1>1. /\ refs' = [refs EXCEPT ![e] = refs[e] - 1] /\ eng' = [eng EXCEPT ![u] = 0]
      /\ UNCHANGED <<allocated, freed, listed, bucketed, bucketLock, registryLock, retiring>>
  BY DEF Registry!Release, Registry!Tables, Registry!Locks
<1>2. /\ mpc[u] = "uses" /\ mpc' \in [Registry!Contexts -> RegPlaces] /\ mpc'[u] = "idle"
      /\ \A c \in Registry!Contexts \ {u} : mpc'[c] = mpc[c]
  <2>1. Registry!Go(u, "uses", "idle") /\ "idle" \in RegPlaces
    BY DEF Registry!Release, RegPlaces
  <2> QED BY <1>0, <2>1, Goes
<1>3. /\ refs \in [Registry!Engines -> Nat] /\ eng \in [Registry!Contexts -> {0} \cup Registry!Engines] /\ e # 0 /\ e \in Registry!Engines
  BY <1>0, <1>2 DEF RegInv, RegTypes, Holding
<1> HIDE DEF e
<1>4. ASSUME NEW f \in Registry!Engines
      PROVE refs'[f] = Cardinality(UsersOf(f)') /\ refs'[f] \in Nat
  <2>0. IsFiniteSet(UsersOf(f)) /\ Cardinality(UsersOf(f)) \in Nat
    BY FS_Subset, FS_CardinalityType DEF UsersOf, RegSizes
  <2>1. refs[f] = Cardinality(UsersOf(f))
    BY DEF RegInv, Counted
  <2>2. CASE f = e
    <3>1. UsersOf(f)' = UsersOf(f) \ {u} /\ u \in UsersOf(f)
      BY <1>0, <1>1, <1>3, <2>2 DEF UsersOf, Registry!Engines, e
    <3>2. Cardinality(UsersOf(f)') = Cardinality(UsersOf(f)) - 1
      BY <2>0, <3>1, FS_RemoveElement
    <3>3. IsFiniteSet(UsersOf(f)')
      BY <2>0, <3>1, FS_Subset
    <3>4. Cardinality(UsersOf(f)') \in Nat
      BY <3>3, FS_CardinalityType
    <3> QED BY <1>1, <1>3, <2>1, <2>2, <3>2, <3>4
  <2>3. CASE f # e
    <3>1. UsersOf(f)' = UsersOf(f)
      BY <1>0, <1>1, <1>3, <2>3 DEF UsersOf, Registry!Engines, e
    <3> QED BY <1>1, <1>3, <2>0, <2>1, <2>3, <3>1
  <2> QED BY <2>2, <2>3
<1>5. Counted'
  BY <1>4 DEF Counted
<1>6. refs' \in [Registry!Engines -> Nat] /\ eng' \in [Registry!Contexts -> {0} \cup Registry!Engines]
  BY <1>1, <1>3, <1>4
<1>7. RegTypes'
  BY <1>1, <1>2, <1>6 DEF RegInv, RegTypes
<1>8. OneEngine'
  BY <1>0, <1>1, <1>2 DEF RegInv, OneEngine
<1>9. Holding'
  BY <1>0, <1>1, <1>2, <1>3 DEF RegInv, Holding, Leaving
<1> QED BY <1>5, <1>7, <1>8, <1>9 DEF RegInv

\* The owner on its way to the tables and from its end.
LEMMA OwnerWalks ==
  ASSUME RegSizes, RegInv,
         Registry!Retire \/ Registry!RetireLocks \/ Registry!NothingToUnlink \/ Registry!Recycle
  PROVE  RegInv'
<1>0. "owner" \in Registry!Contexts /\ Users \subseteq Registry!Contexts \ {"owner"}
  BY DEF Registry!Contexts, RegSizes
<1>1. /\ UNCHANGED <<allocated, freed, listed, bucketed, refs, eng>>
      /\ bucketLock' \in {bucketLock, "owner", ""} /\ registryLock' \in {registryLock, "owner", ""}
  BY DEF Registry!Retire, Registry!RetireLocks, Registry!NothingToUnlink, Registry!Recycle,
     Registry!Tables, Registry!Locks
<1>2. PICK from \in {"idle", "retires", "hasBucket", "hasBoth", "gone"},
           to \in {"idle", "retires", "hasBucket", "hasBoth", "gone"} :
        /\ Registry!Go("owner", from, to) /\ (to = "gone" => listed = {})
        /\ to # "idle" => retiring' = TRUE \/ (retiring' = retiring /\ from # "idle")
        /\ retiring' \in {TRUE, FALSE, retiring}
  <2>1. CASE Registry!Retire
    BY <2>1 DEF Registry!Retire
  <2>2. CASE Registry!RetireLocks
    BY <2>2 DEF Registry!RetireLocks
  <2>3. CASE Registry!NothingToUnlink
    BY <2>3 DEF Registry!NothingToUnlink
  <2>4. CASE Registry!Recycle
    BY <2>4 DEF Registry!Recycle
  <2> QED BY <2>1, <2>2, <2>3, <2>4
<1>3. /\ mpc["owner"] = from /\ mpc' \in [Registry!Contexts -> RegPlaces] /\ mpc'["owner"] = to
      /\ \A c \in Registry!Contexts \ {"owner"} : mpc'[c] = mpc[c]
  <2>1. to \in RegPlaces
    BY DEF RegPlaces
  <2> QED BY <1>0, <1>2, <2>1, Goes
<1>4. RegTypes'
  BY <1>0, <1>1, <1>2, <1>3 DEF RegInv, RegTypes
<1>5. OneEngine'
  <2>1. OneEngine /\ retiring \in BOOLEAN
    BY DEF RegInv, RegTypes
  <2>2. mpc'["owner"] # "idle" => retiring'
    BY <1>2, <1>3, <2>1 DEF OneEngine
  <2>3. mpc'["owner"] \in {"waits", "gone"} => listed' = {}
    BY <1>1, <1>2, <1>3
  <2> QED BY <1>1, <2>1, <2>2, <2>3 DEF OneEngine
<1>6. Holding'
  BY <1>0, <1>1, <1>3 DEF RegInv, Holding, Leaving
<1>7. Counted'
  BY <1>1 DEF RegInv, Counted, UsersOf
<1> QED BY <1>4, <1>5, <1>6, <1>7 DEF RegInv

LEMMA OwnerUnlinks == ASSUME RegSizes, RegInv, Registry!Unlink PROVE RegInv'
<1>0. "owner" \in Registry!Contexts /\ Users \subseteq Registry!Contexts \ {"owner"}
  BY DEF Registry!Contexts, RegSizes
<1>1. PICK e \in listed : /\ Registry!Go("owner", "hasBoth", "waits")
                          /\ listed' = listed \ {e} /\ bucketed' = Registry!LeavesBucket(e)
                          /\ eng' = [eng EXCEPT !["owner"] = e]
  BY DEF Registry!Unlink
<1>2. /\ bucketLock' = "" /\ registryLock' = "" /\ UNCHANGED <<allocated, freed, refs, retiring>>
  BY DEF Registry!Unlink
<1>3. /\ mpc["owner"] = "hasBoth" /\ mpc' \in [Registry!Contexts -> RegPlaces] /\ mpc'["owner"] = "waits"
      /\ \A c \in Registry!Contexts \ {"owner"} : mpc'[c] = mpc[c]
  <2>1. "waits" \in RegPlaces
    BY DEF RegPlaces
  <2> QED BY <1>0, <1>1, <2>1, Goes
<1>4. listed = {e} /\ listed' = {} /\ bucketed' = {}
  BY <1>1 DEF RegInv, OneEngine, Registry!LeavesBucket
<1>5. e \in Registry!Engines /\ e # 0 /\ e \in 1 .. allocated
  BY EngineNumbers DEF RegInv, RegTypes
<1>6. eng \in [Registry!Contexts -> {0} \cup Registry!Engines]
  BY DEF RegInv, RegTypes
<1>7. eng' \in [Registry!Contexts -> {0} \cup Registry!Engines] /\ eng'["owner"] = e /\ \A u \in Users : eng'[u] = eng[u]
  BY <1>0, <1>1, <1>5, <1>6
<1>8. RegTypes'
  BY <1>2, <1>3, <1>4, <1>7 DEF RegInv, RegTypes
<1>9. OneEngine'
  BY <1>2, <1>3, <1>4 DEF RegInv, OneEngine
<1>10. Holding'
  <2>1. \A u \in Users : eng[u] # 0 => eng[u] = e
    BY <1>3, <1>4 DEF RegInv, Holding, Leaving
  <2>2. e \notin freed
    BY <1>4 DEF RegInv, OneEngine
  <2> QED BY <1>0, <1>2, <1>3, <1>4, <1>5, <1>7, <2>1, <2>2 DEF RegInv, Holding, Leaving
<1>11. Counted'
  <2>1. \A f \in Registry!Engines : UsersOf(f)' = UsersOf(f)
    BY <1>7 DEF UsersOf
  <2> QED BY <1>2, <2>1 DEF RegInv, Counted
<1> QED BY <1>8, <1>9, <1>10, <1>11 DEF RegInv

LEMMA OwnerFrees == ASSUME RegSizes, RegInv, Registry!Free PROVE RegInv'
<1> DEFINE e == eng["owner"]
<1>0. "owner" \in Registry!Contexts /\ Users \subseteq Registry!Contexts \ {"owner"}
  BY DEF Registry!Contexts, RegSizes
<1>1. /\ refs[e] = 0 /\ freed' = freed \cup {e} /\ eng' = [eng EXCEPT !["owner"] = 0]
      /\ UNCHANGED <<allocated, listed, bucketed, refs, bucketLock, registryLock, retiring>>
  BY DEF Registry!Free, Registry!Unreferenced, Registry!Locks
<1>2. /\ mpc["owner"] = "waits" /\ mpc' \in [Registry!Contexts -> RegPlaces] /\ mpc'["owner"] = "gone"
      /\ \A c \in Registry!Contexts \ {"owner"} : mpc'[c] = mpc[c]
  <2>1. Registry!Go("owner", "waits", "gone") /\ "gone" \in RegPlaces
    BY DEF Registry!Free, RegPlaces
  <2> QED BY <1>0, <2>1, Goes
<1>3. e # 0 /\ e \in 1 .. allocated /\ e \notin listed /\ listed = {} /\ e \in Registry!Engines
  BY <1>0, <1>2 DEF RegInv, RegTypes, Holding, OneEngine, Leaving
\* Nobody refers to it, so nobody uses an engine at all.
<1>4. \A u \in Users : eng[u] = 0
  <2>1. Cardinality(UsersOf(e)) = 0
    BY <1>1, <1>3 DEF RegInv, Counted
  <2>2. UsersOf(e) = {}
    <3>1. IsFiniteSet(UsersOf(e))
      BY FS_Subset DEF UsersOf, RegSizes
    <3> HIDE DEF e
    <3> QED BY <2>1, <3>1, FS_EmptySet
  <2> QED BY <1>3, <2>2 DEF RegInv, Holding, Leaving, UsersOf
<1>5. eng \in [Registry!Contexts -> {0} \cup Registry!Engines]
  BY DEF RegInv, RegTypes
<1>6. eng' \in [Registry!Contexts -> {0} \cup Registry!Engines] /\ eng'["owner"] = 0 /\ \A u \in Users : eng'[u] = eng[u]
  BY <1>0, <1>1, <1>5
<1>7. RegTypes'
  BY <1>1, <1>2, <1>3, <1>6 DEF RegInv, RegTypes
<1>8. OneEngine'
  BY <1>1, <1>2, <1>3 DEF RegInv, OneEngine
<1>9. Holding'
  BY <1>0, <1>1, <1>2, <1>3, <1>4, <1>6 DEF RegInv, Holding, Leaving
<1>10. Counted'
  <2>1. \A f \in Registry!Engines : UsersOf(f)' = UsersOf(f)
    BY <1>6 DEF UsersOf
  <2> QED BY <1>1, <2>1 DEF RegInv, Counted
<1> QED BY <1>7, <1>8, <1>9, <1>10 DEF RegInv

LEMMA RegNextInv == ASSUME RegSizes, RegInv, [Registry!Next]_(Registry!regVars) PROVE RegInv'
<1>1. ASSUME Registry!SetMode PROVE RegInv'
  <2>1. /\ UNCHANGED <<allocated, freed, listed, bucketed, refs, retiring, eng>>
        /\ bucketLock' = bucketLock /\ registryLock' = registryLock /\ mpc' = mpc
    BY <1>1 DEF Registry!SetMode, Registry!Tables, Registry!Locks
  <2> QED BY <2>1, RegWalks DEF RegInv, RegTypes
<1>2. ASSUME NEW u \in Users, NEW pc, Registry!FindsRetired(u, pc) PROVE RegInv'
  <2>1. /\ UNCHANGED <<allocated, freed, listed, bucketed, refs, retiring, eng>>
        /\ bucketLock' = bucketLock /\ registryLock' = registryLock /\ mpc' = mpc
    BY <1>2 DEF Registry!FindsRetired, Registry!Tables, Registry!Locks
  <2> QED BY <2>1, RegWalks DEF RegInv, RegTypes
<1>3. ASSUME NEW u \in Users,
             Registry!Lookup(u) \/ Registry!MissInBucket(u) \/ Registry!MissInList(u) \/ Registry!TakeBucket(u) \/ Registry!TakeRegistry(u)
      PROVE  RegInv'
  BY <1>3, LookupWalks
<1>4. ASSUME NEW u \in Users,
             Registry!FoundInBucket(u) \/ Registry!FoundInList(u) \/ Registry!FoundAgain(u)
      PROVE RegInv'
  BY <1>4, Finds
<1>5. ASSUME NEW u \in Users, Registry!Allocate(u) PROVE RegInv'
  BY <1>5, Allocates
<1>6. ASSUME NEW u \in Users, Registry!Release(u) PROVE RegInv'
  BY <1>6, Releases
<1>7. ASSUME NEW w \in Notifiers, Registry!Scan(w) \/ Registry!Scanned(w) PROVE RegInv'
  BY <1>7, ScanWalks
<1>8. ASSUME Registry!Retire \/ Registry!RetireLocks \/ Registry!NothingToUnlink \/ Registry!Recycle
      PROVE RegInv'
  BY <1>8, OwnerWalks
<1>9. ASSUME Registry!Unlink PROVE RegInv'
  BY <1>9, OwnerUnlinks
<1>10. ASSUME Registry!Free PROVE RegInv'
  BY <1>10, OwnerFrees
<1>11. ASSUME UNCHANGED Registry!regVars PROVE RegInv'
  BY <1>11, RegIdles
<1> QED BY <1>1, <1>2, <1>3, <1>4, <1>5, <1>6, <1>7, <1>8, <1>9, <1>10, <1>11 DEF Registry!Next

LEMMA RegFollows == ASSUME RegSizes, RegInv PROVE Registry!TypeOK /\ Registry!RegistrySound
<1>1. \A e \in Registry!Engines : refs[e] = Cardinality({u \in Users : eng[u] = e})
  BY DEF RegInv, Counted, UsersOf
<1>2. \A e \in Registry!Engines : refs[e] \in 0 .. Cardinality(Users)
  <2> SUFFICES ASSUME NEW e \in Registry!Engines PROVE refs[e] \in 0 .. Cardinality(Users)
    OBVIOUS
  <2>1. /\ Cardinality(UsersOf(e)) \in Nat /\ Cardinality(Users) \in Nat
        /\ Cardinality(UsersOf(e)) <= Cardinality(Users)
    BY FS_Subset, FS_CardinalityType DEF UsersOf, RegSizes
  <2>2. refs[e] = Cardinality(UsersOf(e))
    BY DEF RegInv, Counted
  <2> QED BY <2>1, <2>2
<1>3. Registry!TypeOK
  <2>1. 1 .. allocated \subseteq Registry!Engines
    BY EngineNumbers DEF RegInv
  <2>2. Registry!Cardinality(Users) = Cardinality(Users)
    BY SameCardinality
  <2> QED BY <1>2, <2>1, <2>2 DEF RegInv, RegTypes, Registry!TypeOK, OneEngine
<1>4. Cardinality(listed) <= 1
  <2>1. CASE listed = {}
    BY <2>1, FS_EmptySet
  <2>2. CASE listed # {}
    <3>1. PICK e \in listed : TRUE
      BY <2>2
    <3>2. listed = {e}
      BY <3>1 DEF RegInv, OneEngine
    <3>3. Cardinality(listed) = 1
      BY <3>2, FS_Singleton
    <3> QED BY <3>3
  <2> QED BY <2>1, <2>2
<1>5. (listed \cup {eng[u] : u \in Users}) \cap freed = {}
  <2>1. listed \cap freed = {} /\ freed \subseteq Registry!Engines /\ 0 \notin freed
    BY EngineNumbers DEF RegInv, OneEngine
  <2>2. \A u \in Users : eng[u] = 0 \/ eng[u] \in listed \/ eng[u] \notin freed
    BY DEF RegInv, Holding
  <2> QED BY <2>1, <2>2
<1>6. \A e \in Registry!Engines :
          refs[e] = Registry!Cardinality({u \in Users : eng[u] = e})
  BY SameCardinality DEF RegInv, Counted, UsersOf
<1>7. Registry!Cardinality(listed) <= 1
  BY <1>4, SameCardinality
<1> QED BY <1>1, <1>3, <1>5, <1>6, <1>7 DEF RegInv, OneEngine, Registry!RegistrySound

(* A context has one engine at a time, in the list and the bucket alike; who
   uses it holds a reference, it is freed when nobody does, and a context that
   was torn down has none left.                                              *)
THEOREM EnginesOutliveTheirUsers ==
  ASSUME RegSizes
  PROVE  Registry!Spec => [](Registry!TypeOK /\ Registry!RegistrySound)
<1>1. Registry!Init => RegInv
  BY RegInitInv
<1>2. RegInv /\ [Registry!Next]_(Registry!regVars) => RegInv'
  BY RegNextInv
<1>3. RegInv => Registry!TypeOK /\ Registry!RegistrySound
  BY RegFollows
<1> QED BY <1>1, <1>2, <1>3, PTL DEF Registry!Spec

-----------------------------------------------------------------------------
(* Indirect branches *)

\* Functions are registered before a thread starts; the images are told apart by number.
ImageSizes == ~Late /\ 0 \notin JobBinaries /\ Kernel \notin JobBinaries

BranchPlaces == {"lifted", "over", "count", "build", "sort", "publish", "unlock", "again",
                 "countAgain", "search", "scan", "runs", "halted"}
BranchRec == [image : Images!Images, addr : Addrs \cup {0}, idx : Nat, n : Nat, runs : Nat]

ImageTypes ==
    /\ registry \in Seq([addr : Addrs, image : Images!Images])
    /\ index \in Nat /\ indexCount \in Nat
    /\ bpc \in [Threads -> BranchPlaces] /\ branch \in [Threads -> BranchRec]

\* Before a thread has started nothing is published; from then on an index is complete.
Latest == {0, Len(registry)}

IndexTrue ==
    /\ index \in Latest /\ indexCount \in Latest
    /\ (\A t \in Threads : bpc[t] = "lifted") => index = 0 /\ indexCount = 0
    /\ \A t \in Threads : /\ branch[t].idx \in Latest
                          /\ bpc[t] = "lifted" => branch[t].idx = 0
                          /\ bpc[t] = "publish" => indexCount = Len(registry)
                          /\ bpc[t] = "search" => branch[t].idx = branch[t].n /\ branch[t].n = Len(registry)

\* A branch that runs what it may.
RunsOwn(b) ==
    LET own == Images!Exact(Len(registry), b.addr, b.image) IN
    /\ b.image = Kernel => Images!Image(b.runs) = Kernel
    /\ b.image \notin Images!JobWorld \cup {0} => Images!Image(b.runs) \notin JobBinaries
    /\ own # 0 => b.runs = own

RunsTrue == \A t \in Threads : bpc[t] = "runs" => RunsOwn(branch[t])

ImageInv == ImageTypes /\ IndexTrue /\ RunsTrue

LEMMA LowestIsIn ==
    ASSUME NEW S \in SUBSET Nat, S # {}
    PROVE  Images!Lowest(S) \in S
  BY LeastExists DEF Images!Lowest

LEMMA FirstIsIn ==
    ASSUME NEW S \in SUBSET Nat, Images!FirstOf(S) # 0
    PROVE  Images!FirstOf(S) \in S
  BY LowestIsIn DEF Images!FirstOf

\* What the lookup finds is its own, or it has none and finds one for everybody.
LEMMA LookupFinds ==
  ASSUME NEW n \in Nat, NEW addr, NEW image, NEW f, f = Images!Lookup(n, addr, image), f # 0
  PROVE  /\ f \in Nat
         /\ \/ f = Images!Exact(n, addr, image) /\ Images!Image(f) = image
            \/ /\ Images!Exact(n, addr, image) = 0 /\ ~Images!Guarded(addr, image)
               /\ Images!Image(f) \in {0, Kernel} \/ image = 0
<1>1. Images!Named(n, addr) \subseteq Nat
  BY DEF Images!Named, Images!Fns
<1>2. CASE Images!Exact(n, addr, image) # 0
  <2> DEFINE S == {g \in Images!Named(n, addr) : Images!Image(g) = image}
  <2>1. S \in SUBSET Nat /\ Images!Exact(n, addr, image) = Images!FirstOf(S) /\ f = Images!FirstOf(S)
    BY <1>1, <1>2 DEF Images!Exact, Images!Lookup
  <2>2. f \in S
    <3> HIDE DEF S
    <3> QED BY <2>1, FirstIsIn
  <2> QED BY <1>1, <2>1, <2>2
<1>3. CASE Images!Exact(n, addr, image) = 0
  <2> DEFINE S == {g \in Images!Named(n, addr) : Images!Image(g) \in {0, Kernel} \/ image = 0}
  <2>1. ~Images!Guarded(addr, image) /\ f = Images!Wildcard(n, addr, image)
    BY <1>3 DEF Images!Lookup
  <2>2. S \in SUBSET Nat /\ f = Images!FirstOf(S)
    BY <1>1, <2>1 DEF Images!Wildcard
  <2>3. f \in S
    <3> HIDE DEF S
    <3> QED BY <2>2, FirstIsIn
  <2> QED BY <1>1, <1>3, <2>1, <2>3
<1> QED BY <1>2, <1>3

LEMMA AdoptionFinds ==
  ASSUME registry \in Seq([addr : Addrs, image : Images!Images]), NEW addr, NEW image,
         NEW f, f = Images!Adopted(addr, image), f # 0
  PROVE  f \in Nat /\ image # Kernel /\ f \in Images!Foreign(addr, image)
<1>1. /\ Cardinality(Images!Foreign(addr, image)) = 1 /\ image # Kernel
      /\ f = Images!Lowest(Images!Foreign(addr, image))
  <2>1. Images!Cardinality(Images!Foreign(addr, image))
        = Cardinality(Images!Foreign(addr, image))
    BY SameCardinality
  <2> QED BY <2>1 DEF Images!Adopted
<1>2. Images!Foreign(addr, image) \in SUBSET Nat
  BY DEF Images!Foreign, Images!Named, Images!Fns
<1>3. Images!Foreign(addr, image) # {}
  <2>1. Cardinality({}) = 0
    BY FS_EmptySet
  <2>2. Cardinality(Images!Foreign(addr, image)) # 0
    BY <1>1
  <2> QED BY <2>1, <2>2
<1> QED BY <1>1, <1>2, <1>3, LowestIsIn

\* The function that a branch runs.
Runs(b) ==
    LET found == Images!Lookup(Len(registry), b.addr, b.image) IN
    IF found # 0 THEN found ELSE Images!Adopted(b.addr, b.image)

\* The rules of the dispatch, for all of the registry.
LEMMA DispatchOwn ==
  ASSUME ImageSizes, ImageTypes, NEW b \in BranchRec, Runs(b) # 0,
         NEW c, c = [b EXCEPT !.runs = Runs(b), !.idx = 0, !.n = 0]
  PROVE  Runs(b) \in Nat /\ RunsOwn(c)
<1> DEFINE L == Len(registry)
           found == Images!Lookup(L, b.addr, b.image)
           runs == Runs(b)
<1>1. L \in Nat /\ registry \in Seq([addr : Addrs, image : Images!Images])
  BY DEF ImageTypes
<1>2. c.image = b.image /\ c.addr = b.addr /\ c.runs = runs
  BY DEF BranchRec
<1>a. runs = IF found # 0 THEN found ELSE Images!Adopted(b.addr, b.image)
  BY DEF Runs
<1>b. found = Images!Lookup(L, b.addr, b.image) /\ runs # 0
  OBVIOUS
<1>c. c = [b EXCEPT !.runs = runs, !.idx = 0, !.n = 0]
  OBVIOUS
<1>d. Len(registry) = L
  OBVIOUS
<1> HIDE DEF L, found, runs
<1> USE DEF ImageSizes
<1>3. CASE found # 0
  <2>1. runs = found /\ found = Images!Lookup(L, b.addr, b.image)
    BY <1>3, <1>a, <1>b
  <2>2. /\ found \in Nat
        /\ \/ found = Images!Exact(L, b.addr, b.image) /\ Images!Image(found) = b.image
           \/ /\ Images!Exact(L, b.addr, b.image) = 0 /\ ~Images!Guarded(b.addr, b.image)
              /\ Images!Image(found) \in {0, Kernel} \/ b.image = 0
    BY <1>1, <1>3, <2>1, LookupFinds
  <2>3. b.image = Kernel => Images!Image(found) = Kernel
    BY <2>2 DEF Images!Guarded
  <2>4. b.image \notin Images!JobWorld \cup {0} => Images!Image(found) \notin JobBinaries
    BY <2>2 DEF Images!JobWorld
  <2> QED BY <1>2, <2>1, <2>2, <2>3, <2>4, <1>d DEF RunsOwn, runs
<1>4. CASE found = 0
  <2>1. runs = Images!Adopted(b.addr, b.image)
    BY <1>4, <1>a
  <2>2. runs \in Nat /\ b.image # Kernel /\ runs \in Images!Foreign(b.addr, b.image)
    BY <1>1, <1>b, <2>1, AdoptionFinds
  <2>3. Images!Exact(L, b.addr, b.image) = 0
    BY <1>4, <1>b DEF Images!Lookup
  <2>4. b.image \notin Images!JobWorld \cup {0} => Images!Image(runs) \notin JobBinaries
    BY <2>2 DEF Images!Foreign
  <2> QED BY <1>2, <2>2, <2>3, <2>4, <1>d DEF RunsOwn, runs
<1> QED BY <1>3, <1>4

LEMMA ImageInitInv == ASSUME ImageSizes, Images!Init PROVE ImageInv
<1>1. Images!NoBranch \in BranchRec /\ Images!NoBranch.idx = 0
  BY DEF Images!NoBranch, BranchRec, Images!Images
<1>2. ImageTypes
  BY <1>1 DEF Images!Init, ImageTypes, BranchPlaces
<1>3. IndexTrue /\ RunsTrue
  BY <1>1 DEF Images!Init, IndexTrue, RunsTrue, Latest
<1> QED BY <1>2, <1>3 DEF ImageInv

LEMMA Registers ==
  ASSUME ImageSizes, ImageInv, NEW addr \in Addrs, NEW image \in Images!Images,
         Images!Register(addr, image)
  PROVE  ImageInv'
<1>1. /\ \A t \in Threads : bpc[t] = "lifted"
      /\ registry' = Append(registry, [addr |-> addr, image |-> image])
      /\ UNCHANGED <<index, indexCount, building, bpc, branch>>
  BY DEF Images!Register, ImageSizes
<1>2. registry' \in Seq([addr : Addrs, image : Images!Images])
  BY <1>1 DEF ImageInv, ImageTypes
<1>3. ImageTypes'
  BY <1>1, <1>2 DEF ImageInv, ImageTypes
<1>4. IndexTrue' /\ RunsTrue'
  BY <1>1 DEF ImageInv, IndexTrue, RunsTrue, Latest
<1> QED BY <1>3, <1>4 DEF ImageInv

\* A thread takes a step while the registry stands.
LEMMA ThreadSteps ==
  ASSUME ImageInv, NEW t \in Threads, NEW to \in BranchPlaces \ {"lifted"}, NEW b \in BranchRec,
         registry' = registry, index' \in Latest, indexCount' \in {indexCount, Len(registry)},
         bpc' = [bpc EXCEPT ![t] = to], branch' = [branch EXCEPT ![t] = b], b.idx \in Latest,
         to = "publish" => indexCount' = Len(registry),
         to = "search" => b.idx = b.n /\ b.n = Len(registry),
         to = "runs" => RunsOwn(b)
  PROVE  ImageInv'
<1>1. ImageTypes /\ Len(registry) \in Nat
  BY DEF ImageInv, ImageTypes
<1>2. /\ bpc' \in [Threads -> BranchPlaces] /\ bpc'[t] = to
      /\ \A u \in Threads \ {t} : bpc'[u] = bpc[u]
  BY <1>1 DEF ImageTypes
<1>3. /\ branch' \in [Threads -> BranchRec] /\ branch'[t] = b
      /\ \A u \in Threads \ {t} : branch'[u] = branch[u]
  BY <1>1 DEF ImageTypes
<1>4. ImageTypes'
  BY <1>1, <1>2, <1>3 DEF ImageTypes, Latest
<1>5. IndexTrue'
  <2>1. Latest' = Latest /\ indexCount' \in Latest /\ \E u \in Threads : bpc'[u] # "lifted"
    BY <1>2 DEF Latest, ImageInv, IndexTrue
  <2>2. ASSUME NEW u \in Threads
        PROVE  /\ branch'[u].idx \in Latest
               /\ bpc'[u] = "lifted" => branch'[u].idx = 0
               /\ bpc'[u] = "publish" => indexCount' = Len(registry)
               /\ bpc'[u] = "search" => branch'[u].idx = branch'[u].n /\ branch'[u].n = Len(registry)
    BY <1>2, <1>3 DEF ImageInv, IndexTrue
  <2> QED BY <2>1, <2>2 DEF IndexTrue
<1>6. RunsTrue'
  <2> SUFFICES ASSUME NEW u \in Threads, bpc'[u] = "runs" PROVE RunsOwn(branch[u])'
    BY DEF RunsTrue
  <2>1. RunsOwn(branch'[u])
    BY <1>2, <1>3 DEF ImageInv, RunsTrue
  <2> QED BY <2>1 DEF RunsOwn, Images!Exact, Images!Named, Images!Image, Images!Fns
<1> QED BY <1>4, <1>5, <1>6 DEF ImageInv

LEMMA Branches ==
  ASSUME ImageInv, NEW t \in Threads, NEW addr \in Addrs, NEW image \in Images!Images,
         Images!Branch(t, addr, image)
  PROVE  ImageInv'
<1> DEFINE b == [Images!NoBranch EXCEPT !.image = image, !.addr = addr, !.idx = index]
<1>1. b \in BranchRec /\ b.idx = index /\ index \in Latest
  BY DEF Images!NoBranch, BranchRec, ImageInv, ImageTypes, IndexTrue
<1>2. /\ bpc' = [bpc EXCEPT ![t] = "count"] /\ branch' = [branch EXCEPT ![t] = b]
      /\ UNCHANGED <<registry, index, indexCount>>
  BY DEF Images!Branch
<1> HIDE DEF b
<1>3. "count" \in BranchPlaces \ {"lifted"}
  BY DEF BranchPlaces
<1> QED BY <1>1, <1>2, <1>3, ThreadSteps

LEMMA CountReads == ASSUME ImageInv, NEW t \in Threads, Images!ReadCount(t) PROVE ImageInv'
<1> DEFINE b  == [branch[t] EXCEPT !.n = indexCount]
           to == IF branch[t].idx # 0 /\ indexCount = Len(registry) THEN "search"
                 ELSE IF bpc[t] = "count" THEN "build" ELSE "scan"
<1>1. branch[t] \in BranchRec /\ indexCount \in Nat
  BY DEF ImageInv, ImageTypes
<1>2. b \in BranchRec /\ b.idx = branch[t].idx /\ b.n = indexCount
  BY <1>1 DEF BranchRec
<1>3. /\ bpc' = [bpc EXCEPT ![t] = to] /\ branch' = [branch EXCEPT ![t] = b]
      /\ UNCHANGED <<registry, index, indexCount>>
  BY DEF Images!ReadCount, ImageInv, ImageTypes
<1>4. to \in BranchPlaces \ {"lifted"} /\ to # "publish" /\ to # "runs"
  BY DEF BranchPlaces
<1>5. branch[t].idx \in Latest /\ index \in Latest
  BY DEF ImageInv, IndexTrue
<1>6. to = "search" => b.idx = b.n /\ b.n = Len(registry)
  BY <1>2, <1>5 DEF Latest
<1> HIDE DEF b, to
<1> QED BY <1>2, <1>3, <1>4, <1>5, <1>6, ThreadSteps

\* The build of the index.
LEMMA Builds ==
  ASSUME ImageInv, NEW t \in Threads,
         \/ Images!BuildLock(t) \/ Images!PublishCount(t) \/ Images!OutOfMemory(t)
                                     \/ Images!PublishIndex(t) \/ Images!BuildUnlock(t) \/ Images!ReadAgain(t)
  PROVE  ImageInv'
<1>1. PICK to \in {"sort", "unlock", "publish", "again", "countAgain"} :
        /\ bpc' = [bpc EXCEPT ![t] = to] /\ registry' = registry
        /\ index' \in {index, IF bpc[t] = "publish" THEN indexCount ELSE index}
        /\ indexCount' \in {indexCount, Len(registry)}
        /\ branch' \in {branch, [branch EXCEPT ![t].idx = index]}
        /\ to = "publish" => indexCount' = Len(registry)
  BY DEF Images!BuildLock, Images!PublishCount, Images!OutOfMemory, Images!PublishIndex,
     Images!BuildUnlock, Images!ReadAgain, Images!Go
<1>2. branch \in [Threads -> BranchRec] /\ index \in Nat
  BY DEF ImageInv, ImageTypes
<1>3. index \in Latest /\ branch[t].idx \in Latest /\ (bpc[t] = "publish" => indexCount = Len(registry))
  BY DEF ImageInv, IndexTrue
<1>4. index' \in Latest
  BY <1>1, <1>3 DEF Latest
<1>5. PICK b \in BranchRec : branch' = [branch EXCEPT ![t] = b] /\ b.idx \in Latest
  <2>1. CASE branch' = branch
    BY <1>2, <1>3, <2>1
  <2>2. CASE branch' = [branch EXCEPT ![t].idx = index]
    <3> DEFINE b == [branch[t] EXCEPT !.idx = index]
    <3>1. b \in BranchRec /\ b.idx = index
      BY <1>2 DEF BranchRec
    <3>2. branch' = [branch EXCEPT ![t] = b]
      BY <2>2
    <3> HIDE DEF b
    <3> QED BY <1>3, <3>1, <3>2
  <2> QED BY <1>1, <2>1, <2>2
<1>6. to \in BranchPlaces \ {"lifted"}
  BY DEF BranchPlaces
<1> QED BY <1>1, <1>4, <1>5, <1>6, ThreadSteps

LEMMA Dispatches ==
  ASSUME ImageSizes, ImageInv, NEW t \in Threads, Images!Dispatch(t)
  PROVE  ImageInv'
<1> DEFINE b    == branch[t]
           next == IF Runs(b) = 0 THEN Images!NoBranch ELSE [b EXCEPT !.runs = Runs(b), !.idx = 0, !.n = 0]
           to   == IF Runs(b) # 0 THEN "runs" ELSE "halted"
<1>1. b \in BranchRec /\ ImageTypes
  BY DEF ImageInv, ImageTypes
<1>2. (IF bpc[t] = "search" THEN b.n ELSE Len(registry)) = Len(registry)
  BY DEF ImageInv, IndexTrue
<1>3. /\ bpc' = [bpc EXCEPT ![t] = to] /\ branch' = [branch EXCEPT ![t] = next]
      /\ UNCHANGED <<registry, index, indexCount>>
  BY <1>2 DEF Images!Dispatch, Runs
<1>4. next \in BranchRec /\ next.idx = 0 /\ (Runs(b) # 0 => RunsOwn(next))
  <2>1. CASE Runs(b) = 0
    <3>1. next = Images!NoBranch
      BY <2>1
    <3> HIDE DEF next
    <3> QED BY <2>1, <3>1 DEF Images!NoBranch, BranchRec, Images!Images
  <2>2. CASE Runs(b) # 0
    <3>1. next = [b EXCEPT !.runs = Runs(b), !.idx = 0, !.n = 0]
      BY <2>2
    <3> HIDE DEF next, b
    <3>2. Runs(b) \in Nat /\ RunsOwn(next)
      BY <1>1, <2>2, <3>1, DispatchOwn
    <3>3. next \in BranchRec /\ next.idx = 0
      BY <1>1, <3>1, <3>2 DEF BranchRec
    <3> QED BY <3>2, <3>3
  <2> QED BY <2>1, <2>2
<1>5. /\ to \in BranchPlaces \ {"lifted"} /\ to # "publish" /\ to # "search"
      /\ to = "runs" => Runs(b) # 0
  BY DEF BranchPlaces
<1>6. index \in Latest /\ 0 \in Latest
  BY DEF ImageInv, IndexTrue, Latest
<1> HIDE DEF next, to, b
<1> QED BY <1>3, <1>4, <1>5, <1>6, ThreadSteps

LEMMA Restores == ASSUME ImageInv, NEW t \in Threads, Images!Restore(t) PROVE ImageInv'
<1>1. /\ bpc' = [bpc EXCEPT ![t] = "over"] /\ branch' = [branch EXCEPT ![t] = Images!NoBranch]
      /\ UNCHANGED <<registry, index, indexCount>>
  BY DEF Images!Restore, Images!Go
<1>2. Images!NoBranch \in BranchRec /\ Images!NoBranch.idx = 0 /\ "over" \in BranchPlaces \ {"lifted"}
  BY DEF Images!NoBranch, BranchRec, Images!Images, BranchPlaces
<1>3. index \in Latest /\ 0 \in Latest
  BY DEF ImageInv, IndexTrue, Latest
<1> QED BY <1>1, <1>2, <1>3, ThreadSteps

LEMMA ImageNextInv == ASSUME ImageSizes, ImageInv, [Images!Next]_(Images!imgVars) PROVE ImageInv'
<1>1. ASSUME UNCHANGED Images!imgVars PROVE ImageInv'
  <2>1. UNCHANGED <<registry, index, indexCount, bpc, branch>>
    BY <1>1 DEF Images!imgVars
  <2> QED BY <2>1 DEF ImageInv, ImageTypes, IndexTrue, Latest, RunsTrue, RunsOwn, Images!Exact,
            Images!Named, Images!Image, Images!Fns
<1> QED BY <1>1, Registers, Branches, CountReads, Builds, Dispatches, Restores DEF Images!Next

LEMMA ImageFollows == ASSUME ImageInv PROVE Images!DispatchSound
<1>1. Images!SearchInBounds
  <2> SUFFICES ASSUME NEW t \in Threads, bpc[t] = "search" PROVE branch[t].n <= branch[t].idx
    BY DEF Images!SearchInBounds
  <2>1. branch[t].idx = branch[t].n /\ branch[t].n = Len(registry) /\ Len(registry) \in Nat
    BY DEF ImageInv, ImageTypes, IndexTrue
  <2> QED BY <2>1
<1>2. Images!ImagesApart
  BY DEF ImageInv, RunsTrue, RunsOwn, Images!ImagesApart, Images!Ran
<1> QED BY <1>1, <1>2 DEF Images!DispatchSound

(* A thread never searches past the end of the index it has, and what it runs is
   its own where it has one; the kernel runs its own functions only, and no
   other context enters a job binary from outside: whatever is registered before
   the threads start, and however the threads that build the index interleave. *)
THEOREM BranchesStayApart == ASSUME ImageSizes PROVE Images!Spec => []Images!DispatchSound
<1>1. Images!Init => ImageInv
  BY ImageInitInv
<1>2. ImageInv /\ [Images!Next]_(Images!imgVars) => ImageInv'
  BY ImageNextInv
<1> QED BY <1>1, <1>2, ImageFollows, PTL DEF Images!Spec

-----------------------------------------------------------------------------
(* Channels *)

ChannelSizes == Channels!Free \notin Signallers /\ "spu" \notin Signallers /\ LatchMax \in Nat /\ Capacity \in Nat

SnrPlaces  == {"idle", "or", "write", "count", "unlock"}
RdchPlaces == {"runs", "waits", "lock", "value", "clear", "unlock"}
SnrRec     == [pc : SnrPlaces, val : SUBSET Bits]
RdchRec    == [pc : RdchPlaces, status : {"running", "waiting"}, val : SUBSET Bits]

SigTypes ==
    /\ orMode \in BOOLEAN /\ sig \in [value : SUBSET Bits, count : {0, 1}]
    /\ wrt \in [Signallers -> SnrRec] /\ reader \in RdchRec /\ owed \in SUBSET Bits

\* Who holds the lock-line lock.
LineHeld ==
    /\ \A w \in Signallers : wrt[w].pc # "idle" <=> lineLock = w
    /\ lineLock = "spu" <=> reader.pc \in {"value", "clear", "unlock"}

\* Between value and count of a write, and between value and count of a read, the register
\* does not show what is owed.
SignalTrue ==
    /\ sig.count = 1 => sig.value # {}
    /\ reader.pc # "clear" /\ (\A w \in Signallers : wrt[w].pc # "count") =>
          IF sig.count = 1 THEN sig.value = owed ELSE owed = {}
    /\ reader.pc \in {"lock", "value", "clear"} => sig.count = 1
    /\ reader.pc = "clear" => reader.val # {} /\ owed = {}
    /\ \A w \in Signallers : /\ wrt[w].pc # "idle" => wrt[w].val # {}
                             /\ wrt[w].pc = "or" => sig.count = 1
                             /\ wrt[w].pc = "write" => ~(orMode /\ sig.count = 1)
                             /\ wrt[w].pc = "count" => sig.value = owed /\ owed # {}

SigInv == SigTypes /\ LineHeld /\ SignalTrue

LEMMA SnrFields ==
  ASSUME NEW pc, NEW val
  PROVE  [pc |-> pc, val |-> val].pc = pc /\ [pc |-> pc, val |-> val].val = val
  OBVIOUS

\* A writer that takes a step: the others are idle.
LEMMA WriterSteps ==
  ASSUME ChannelSizes, SigInv, NEW w \in Signallers, NEW x \in SnrRec,
         wrt' = [wrt EXCEPT ![w] = x], lineLock \in {Channels!Free, w},
         lineLock' = IF x.pc = "idle" THEN Channels!Free ELSE w,
         reader' = reader, orMode' = orMode,
         sig' \in [value : SUBSET Bits, count : {0, 1}], owed' \in SUBSET Bits,
         sig.count = 1 => sig'.count = 1,
         sig'.count = 1 => sig'.value # {},
         x.pc # "count" => IF sig'.count = 1 THEN sig'.value = owed' ELSE owed' = {},
         x.pc # "idle" => x.val # {}, x.pc = "or" => sig'.count = 1,
         x.pc = "write" => ~(orMode /\ sig'.count = 1),
         x.pc = "count" => sig'.value = owed' /\ owed' # {}
  PROVE  SigInv'
<1>0. w # Channels!Free /\ w # "spu" /\ Channels!Free # "spu"
  BY DEF ChannelSizes, Channels!Free
<1>1. wrt \in [Signallers -> SnrRec] /\ reader \in RdchRec
  BY DEF SigInv, SigTypes
<1>2. wrt' \in [Signallers -> SnrRec] /\ wrt'[w] = x /\ \A u \in Signallers \ {w} : wrt'[u] = wrt[u]
  BY <1>1
<1>3. /\ \A u \in Signallers \ {w} : wrt[u].pc = "idle" /\ u # Channels!Free
      /\ reader.pc \notin {"value", "clear", "unlock"}
  BY <1>0 DEF SigInv, LineHeld, ChannelSizes
<1>4. SigTypes'
  BY <1>2 DEF SigInv, SigTypes
<1>5. LineHeld'
  <2>1. lineLock' # "spu"
    BY <1>0
  <2>2. ASSUME NEW u \in Signallers PROVE wrt'[u].pc # "idle" <=> lineLock' = u
    <3>1. CASE u = w
      BY <1>0, <1>2, <3>1
    <3>2. CASE u # w
      BY <1>2, <1>3, <3>2
    <3> QED BY <3>1, <3>2
  <2> QED BY <1>3, <2>1, <2>2 DEF LineHeld
<1>6. SignalTrue'
  <2>1. reader.pc = "lock" => sig'.count = 1
    BY DEF SigInv, SignalTrue
  <2>2. ASSUME NEW u \in Signallers
        PROVE  /\ wrt'[u].pc # "idle" => wrt'[u].val # {}
               /\ wrt'[u].pc = "or" => sig'.count = 1
               /\ wrt'[u].pc = "write" => ~(orMode' /\ sig'.count = 1)
               /\ wrt'[u].pc = "count" => sig'.value = owed' /\ owed' # {}
    BY <1>2, <1>3
  <2> QED BY <1>2, <1>3, <2>1, <2>2 DEF SignalTrue
<1> QED BY <1>4, <1>5, <1>6 DEF SigInv

LEMMA SnrBegins ==
  ASSUME ChannelSizes, SigInv, NEW w \in Signallers, NEW b \in Bits, Channels!WriteSnr(w, {b})
  PROVE  SigInv'
<1> DEFINE x == [pc |-> IF orMode /\ sig.count = 1 THEN "or" ELSE "write", val |-> {b}]
<1>1. /\ wrt' = [wrt EXCEPT ![w] = x] /\ lineLock = Channels!Free /\ lineLock' = w
      /\ UNCHANGED <<orMode, sig, reader, owed>>
  BY DEF Channels!WriteSnr, Channels!LockFree
<1>2. x \in SnrRec /\ x.pc \in {"or", "write"} /\ x.val # {}
  BY DEF SnrRec, SnrPlaces
<1>3. /\ x.pc = "or" => sig.count = 1
      /\ x.pc = "write" => ~(orMode /\ sig.count = 1)
  OBVIOUS
<1> HIDE DEF x
<1>4. sig \in [value : SUBSET Bits, count : {0, 1}] /\ owed \in SUBSET Bits
  BY DEF SigInv, SigTypes
<1>5. /\ sig.count = 1 => sig.value # {}
      /\ IF sig.count = 1 THEN sig.value = owed ELSE owed = {}
  <2>1. Channels!Free # "spu" /\ \A u \in Signallers : u # Channels!Free
    BY DEF ChannelSizes, Channels!Free
  <2>2. reader.pc # "clear" /\ \A u \in Signallers : wrt[u].pc # "count"
    BY <1>1, <2>1 DEF SigInv, LineHeld
  <2> QED BY <2>2 DEF SigInv, SignalTrue
<1> QED BY <1>1, <1>2, <1>3, <1>4, <1>5, WriterSteps

LEMMA SnrGoesOn ==
  ASSUME ChannelSizes, SigInv, NEW w \in Signallers,
         Channels!SnrOr(w) \/ Channels!SnrValue(w) \/ Channels!SnrCount(w) \/ Channels!SnrUnlock(w)
  PROVE  SigInv'
<1>1. wrt \in [Signallers -> SnrRec] /\ sig \in [value : SUBSET Bits, count : {0, 1}]
      /\ owed \in SUBSET Bits /\ orMode \in BOOLEAN
  BY DEF SigInv, SigTypes
<1>2. PICK from \in SnrPlaces \ {"idle"}, to \in {"unlock", "count", "idle"} :
        /\ wrt[w].pc = from /\ wrt' = [wrt EXCEPT ![w].pc = to]
        /\ lineLock' = IF to = "idle" THEN Channels!Free ELSE lineLock
        /\ reader' = reader /\ orMode' = orMode
        /\ \/ /\ from = "or" /\ to = "unlock" /\ sig' = [value |-> sig.value \cup wrt[w].val, count |-> sig.count]
              /\ owed' = owed \cup wrt[w].val
           \/ /\ from = "write" /\ to = "count" /\ sig' = [value |-> wrt[w].val, count |-> sig.count]
              /\ owed' = (IF orMode THEN owed ELSE {}) \cup wrt[w].val
           \/ /\ from = "count" /\ to = "unlock" /\ sig' = [value |-> sig.value, count |-> 1] /\ owed' = owed
           \/ /\ from = "unlock" /\ to = "idle" /\ sig' = [value |-> sig.value, count |-> sig.count] /\ owed' = owed
  BY DEF Channels!SnrOr, Channels!SnrValue, Channels!SnrCount, Channels!SnrUnlock, Channels!Snr,
     SnrPlaces
<1>3. lineLock = w /\ w # "spu" /\ (\A u \in Signallers \ {w} : wrt[u].pc = "idle") /\ reader.pc # "clear"
  BY <1>2 DEF ChannelSizes, SigInv, LineHeld
<1> DEFINE x == [wrt[w] EXCEPT !.pc = to]
<1>4. x \in SnrRec /\ x.pc = to /\ x.val = wrt[w].val /\ wrt[w].val \in SUBSET Bits
  BY <1>1 DEF SnrRec, SnrPlaces
<1>5. wrt' = [wrt EXCEPT ![w] = x]
  BY <1>1, <1>2
<1> HIDE DEF x
<1>6. /\ wrt[w].val # {} /\ (sig.count = 1 => sig.value # {})
      /\ from # "count" => IF sig.count = 1 THEN sig.value = owed ELSE owed = {}
      /\ from = "or" => sig.count = 1
      /\ from = "write" => ~(orMode /\ sig.count = 1)
      /\ from = "count" => sig.value = owed /\ owed # {}
  BY <1>2, <1>3 DEF SigInv, SignalTrue
<1>7. /\ sig' \in [value : SUBSET Bits, count : {0, 1}] /\ owed' \in SUBSET Bits
      /\ sig.count = 1 => sig'.count = 1
  BY <1>1, <1>2, <1>4
<1>8. /\ sig'.count = 1 => sig'.value # {}
      /\ to # "count" => IF sig'.count = 1 THEN sig'.value = owed' ELSE owed' = {}
      /\ to = "count" => sig'.value = owed' /\ owed' # {}
  <2>1. CASE from = "or"
    BY <1>2, <1>6, <2>1
  <2>2. CASE from = "write"
    <3>1. /\ to = "count" /\ sig'.value = wrt[w].val /\ owed' = (IF orMode THEN owed ELSE {}) \cup wrt[w].val
      BY <1>2, <2>2
    <3>2. orMode => owed = {}
      BY <1>1, <1>6, <2>2
    <3> QED BY <1>6, <3>1, <3>2
  <2>3. CASE from = "count"
    BY <1>2, <1>6, <2>3
  <2>4. CASE from = "unlock"
    BY <1>2, <1>6, <2>4
  <2> QED BY <1>2, <2>1, <2>2, <2>3, <2>4
<1> QED BY <1>2, <1>3, <1>4, <1>5, <1>6, <1>7, <1>8, WriterSteps

\* The SPU takes a step: while it holds the lock, every writer is idle.
LEMMA ReaderSteps ==
  ASSUME ChannelSizes, SigInv,
         Channels!Rdch \/ Channels!RdchWoken \/ Channels!RdchLock \/ Channels!RdchValue \/ Channels!RdchClear \/ Channels!RdchUnlock
  PROVE  SigInv'
<1>0. Channels!Free # "spu" /\ (\A w \in Signallers : w # Channels!Free /\ w # "spu")
  BY DEF ChannelSizes, Channels!Free
<1>1. /\ wrt \in [Signallers -> SnrRec] /\ sig \in [value : SUBSET Bits, count : {0, 1}]
      /\ owed \in SUBSET Bits /\ orMode \in BOOLEAN /\ reader \in RdchRec
  BY DEF SigInv, SigTypes
<1>2. UNCHANGED <<orMode, wrt>>
  BY DEF Channels!Rdch, Channels!RdchWoken, Channels!RdchLock, Channels!RdchValue,
     Channels!RdchClear, Channels!RdchUnlock
<1>3. lineLock = "spu" => \A w \in Signallers : wrt[w].pc = "idle"
  BY <1>0 DEF SigInv, LineHeld
<1>4. CASE Channels!Rdch \/ Channels!RdchWoken
  <2>1. /\ reader' \in RdchRec /\ reader'.pc \in {"lock", "waits"} /\ reader.pc \in {"runs", "waits"}
        /\ reader'.pc = "lock" => sig.count = 1
        /\ UNCHANGED <<sig, lineLock, owed>>
    BY <1>1, <1>4 DEF Channels!Rdch, Channels!RdchWoken, Channels!Continues, Channels!Ready,
       RdchRec, RdchPlaces
  <2> QED BY <1>2, <2>1 DEF SigInv, SigTypes, LineHeld, SignalTrue
<1>5. CASE Channels!RdchLock
  <2>1. /\ reader.pc = "lock" /\ lineLock = Channels!Free /\ lineLock' = "spu"
        /\ reader' \in RdchRec /\ reader'.pc = "value" /\ UNCHANGED <<sig, owed>>
    BY <1>1, <1>5 DEF Channels!RdchLock, Channels!LockFree, RdchRec, RdchPlaces
  <2> QED BY <1>0, <1>2, <2>1 DEF SigInv, SigTypes, LineHeld, SignalTrue
<1>6. CASE Channels!RdchValue
  <2>1. /\ reader.pc = "value" /\ reader' \in RdchRec /\ reader'.pc = "clear" /\ reader'.val = sig.value
        /\ owed' = owed \ sig.value /\ UNCHANGED <<sig, lineLock>>
    BY <1>1, <1>6 DEF Channels!RdchValue, RdchRec, RdchPlaces
  <2>2. lineLock = "spu" /\ sig.count = 1
    BY <2>1 DEF SigInv, LineHeld, SignalTrue
  <2>3. sig.value = owed /\ sig.value # {} /\ owed' = {}
    BY <1>3, <2>1, <2>2 DEF SigInv, SignalTrue
  <2> QED BY <1>2, <1>3, <2>1, <2>2, <2>3 DEF SigInv, SigTypes, LineHeld, SignalTrue
<1>7. CASE Channels!RdchClear
  <2>1. /\ reader.pc = "clear" /\ reader' \in RdchRec /\ reader'.pc = "unlock"
        /\ sig' \in [value : SUBSET Bits, count : {0, 1}] /\ sig'.count = 0
        /\ UNCHANGED <<owed, lineLock>>
    BY <1>1, <1>7 DEF Channels!RdchClear, RdchRec, RdchPlaces
  <2>2. lineLock = "spu" /\ owed = {}
    BY <2>1 DEF SigInv, LineHeld, SignalTrue
  <2> QED BY <1>2, <1>3, <2>1, <2>2 DEF SigInv, SigTypes, LineHeld, SignalTrue
<1>8. CASE Channels!RdchUnlock
  <2>1. /\ reader.pc = "unlock" /\ reader' \in RdchRec /\ reader'.pc = "runs"
        /\ lineLock' = Channels!Free /\ UNCHANGED <<owed, sig>>
    BY <1>1, <1>8 DEF Channels!RdchUnlock, RdchRec, RdchPlaces
  <2>2. lineLock = "spu"
    BY <2>1 DEF SigInv, LineHeld
  <2> QED BY <1>0, <1>2, <1>3, <2>1, <2>2 DEF SigInv, SigTypes, LineHeld, SignalTrue
<1> QED BY <1>4, <1>5, <1>6, <1>7, <1>8

LEMMA SigIdles == ASSUME SigInv, UNCHANGED Channels!sigVars PROVE SigInv'
  BY DEF Channels!sigVars, SigInv, SigTypes, LineHeld, SignalTrue

LEMMA Configures == ASSUME ChannelSizes, SigInv, Channels!SetSpuCfg PROVE SigInv'
<1>1. /\ sig.count = 0 /\ orMode' = ~orMode /\ UNCHANGED <<sig, lineLock, wrt, reader, owed>>
  BY DEF Channels!SetSpuCfg
<1>2. orMode' \in BOOLEAN
  BY <1>1 DEF SigInv, SigTypes
<1> QED BY <1>1, <1>2 DEF SigInv, SigTypes, LineHeld, SignalTrue

LEMMA SigInitInv == ASSUME ChannelSizes, Channels!Init PROVE SigInv
<1>0. Channels!Free # "spu" /\ (\A w \in Signallers : w # Channels!Free /\ w # "spu")
  BY DEF ChannelSizes, Channels!Free
<1>1. SigTypes
  BY DEF Channels!Init, SigTypes, SnrRec, SnrPlaces, RdchRec, RdchPlaces
<1>2. LineHeld /\ SignalTrue
  BY <1>0 DEF Channels!Init, LineHeld, SignalTrue
<1> QED BY <1>1, <1>2 DEF SigInv

LEMMA SigFollows == ASSUME ChannelSizes, SigInv PROVE Channels!SignalsKept
<1>1. ASSUME lineLock = Channels!Free PROVE IF sig.count = 1 THEN sig.value = owed ELSE owed = {}
  <2>1. Channels!Free # "spu" /\ (\A w \in Signallers : w # Channels!Free /\ w # "spu")
    BY DEF ChannelSizes, Channels!Free
  <2>2. reader.pc # "clear" /\ (\A w \in Signallers : wrt[w].pc # "count")
    BY <1>1, <2>1 DEF SigInv, LineHeld
  <2> QED BY <2>2 DEF SigInv, SignalTrue
<1> QED BY <1>1 DEF SigInv, SignalTrue, Channels!SignalsKept

-----------------------------------------------------------------------------
(* Events *)

EventRec  == [spu : SPUs, nr : Nat \ {0}]
ThrowRec  == [pc : {"idle", "latch"}, out : Nat, inbox : {"none", "ok", "busy"}, acks : {FALSE}]

ThrowTypes ==
    /\ events \in Seq(EventRec) /\ latch \in [1..LatchMax -> EventRec \cup {Channels!NoEvent}]
    /\ latchLock \in 0..LatchMax /\ thrower \in [SPUs -> ThrowRec]
    /\ sent \in SUBSET EventRec /\ IsFiniteSet(sent) /\ over \in SUBSET EventRec

\* Events of an SPU are numbered; the next one has the next number.
SentBy(s) == {e \in sent : e.spu = s}

NumbersTrue ==
    \A s \in SPUs :
        /\ \A e \in SentBy(s) : e.nr <= Cardinality(SentBy(s))
        /\ thrower[s].pc = "idle" /\ thrower[s].out # 0 => thrower[s].out = Cardinality(SentBy(s)) + 1
        /\ thrower[s].pc = "latch" => [spu |-> s, nr |-> thrower[s].out] \in sent

\* Where an event can be; no place has it twice.
Queued(e)  == \E i \in 1..Len(events) : events[i] = e
Latched(e) == \E i \in 1..LatchMax : latch[i] = e
Thrown(e)  == thrower[e.spu].pc = "latch" /\ thrower[e.spu].out = e.nr

InOnePlace(e) ==
    /\ Queued(e) \/ Latched(e) \/ Thrown(e) \/ e \in over
    /\ ~(Queued(e) /\ Latched(e)) /\ ~(Queued(e) /\ Thrown(e)) /\ ~(Latched(e) /\ Thrown(e))
    /\ e \in over => ~Queued(e) /\ ~Latched(e) /\ ~Thrown(e)

PlacesTrue ==
    /\ \A i \in 1..Len(events) : events[i] \in sent
    /\ \A i \in 1..LatchMax : latch[i] \in sent \cup {Channels!NoEvent}
    /\ over \subseteq sent
    /\ \A i, j \in 1..Len(events) : events[i] = events[j] => i = j
    /\ \A i, j \in 1..LatchMax : latch[i] = latch[j] /\ latch[i] # Channels!NoEvent => i = j
    /\ \A e \in sent : InOnePlace(e)

ThrowInv == ThrowTypes /\ NumbersTrue /\ PlacesTrue

LEMMA NoEventIsNone == Channels!NoEvent \notin EventRec
  BY DEF Channels!NoEvent, EventRec

LEMMA EventFields ==
  ASSUME NEW s, NEW n
  PROVE  /\ [spu |-> s, nr |-> n].spu = s /\ [spu |-> s, nr |-> n].nr = n
         /\ s \in SPUs /\ n \in Nat \ {0} => [spu |-> s, nr |-> n] \in EventRec
  BY DEF EventRec

LEMMA EventIs ==
  ASSUME NEW e \in EventRec
  PROVE  e.spu \in SPUs /\ e.nr \in Nat \ {0} /\ e = [spu |-> e.spu, nr |-> e.nr]
  BY DEF EventRec

\* The number of a new event is one that no event has.
LEMMA NumbersGrow ==
  ASSUME ThrowInv, NEW s \in SPUs, thrower[s].pc = "idle", thrower[s].out # 0,
         NEW e, e = [spu |-> s, nr |-> thrower[s].out], sent' = sent \cup {e}
  PROVE  /\ e \in EventRec /\ e \notin sent /\ e.spu = s /\ e.nr = thrower[s].out
         /\ sent' \in SUBSET EventRec /\ IsFiniteSet(sent')
         /\ \A u \in SPUs : \A f \in SentBy(u)' : f.nr <= Cardinality(SentBy(u)')
         /\ \A u \in SPUs \ {s} : SentBy(u)' = SentBy(u)
<1>1. sent \in SUBSET EventRec /\ IsFiniteSet(sent) /\ thrower[s] \in ThrowRec
  BY DEF ThrowInv, ThrowTypes
<1>2. thrower[s].out \in Nat \ {0}
  BY <1>1 DEF ThrowRec
<1>3. e \in EventRec /\ e.spu = s /\ e.nr = thrower[s].out
  BY <1>2, EventFields
<1>4. IsFiniteSet(SentBy(s)) /\ Cardinality(SentBy(s)) \in Nat
  BY <1>1, FS_Subset, FS_CardinalityType DEF SentBy
<1>5. e.nr = Cardinality(SentBy(s)) + 1 /\ \A f \in SentBy(s) : f.nr <= Cardinality(SentBy(s))
  BY <1>3 DEF ThrowInv, NumbersTrue
<1>6. \A f \in SentBy(s) : f.nr \in Nat
  BY <1>1, EventIs DEF SentBy
<1>7. e \notin SentBy(s)
  BY <1>4, <1>5, <1>6
<1>8. e \notin sent
  BY <1>3, <1>7 DEF SentBy
<1>9. SentBy(s)' = SentBy(s) \cup {e} /\ \A u \in SPUs \ {s} : SentBy(u)' = SentBy(u)
  BY <1>3 DEF SentBy
<1>10. Cardinality(SentBy(s)') = Cardinality(SentBy(s)) + 1
  <2>1. Cardinality(SentBy(s) \cup {e}) = Cardinality(SentBy(s)) + 1
    BY <1>4, <1>7, FS_AddElement
  <2> QED BY <1>9, <2>1
<1>11. \A f \in SentBy(s)' : f.nr <= Cardinality(SentBy(s)')
  BY <1>4, <1>5, <1>6, <1>9, <1>10
<1>12. \A u \in SPUs \ {s} : \A f \in SentBy(u)' : f.nr <= Cardinality(SentBy(u)')
  BY <1>9 DEF ThrowInv, NumbersTrue
<1>13. sent' \in SUBSET EventRec /\ IsFiniteSet(sent')
  BY <1>1, <1>3, FS_AddElement
<1> QED BY <1>3, <1>8, <1>9, <1>11, <1>12, <1>13

\* A step of an SPU, seen by the numbers.
LEMMA NumbersStay ==
  ASSUME ThrowInv, sent' = sent, NEW s \in SPUs, NEW x \in ThrowRec,
         thrower' = [thrower EXCEPT ![s] = x],
         x.pc = "idle" /\ x.out # 0 => x.out = Cardinality(SentBy(s)) + 1,
         x.pc = "latch" => [spu |-> s, nr |-> x.out] \in sent
  PROVE  NumbersTrue' /\ thrower' \in [SPUs -> ThrowRec] /\ thrower'[s] = x
         /\ \A u \in SPUs \ {s} : thrower'[u] = thrower[u]
<1>1. thrower' \in [SPUs -> ThrowRec] /\ thrower'[s] = x /\ \A u \in SPUs \ {s} : thrower'[u] = thrower[u]
  BY DEF ThrowInv, ThrowTypes
<1>2. \A u \in SPUs : SentBy(u)' = SentBy(u)
  BY DEF SentBy
<1> QED BY <1>1, <1>2 DEF ThrowInv, NumbersTrue

\* Steps of an SPU that change neither what is thrown nor what has come to its end.
LEMMA MailboxSteps ==
  ASSUME ThrowInv, NEW s \in SPUs, Channels!WrOutMbox(s) \/ Channels!ReadAck(s)
  PROVE  ThrowInv'
<1>1. UNCHANGED <<events, latch, latchLock, sent, over>>
  BY DEF Channels!WrOutMbox, Channels!ReadAck
<1>2. thrower \in [SPUs -> ThrowRec] /\ thrower[s] \in ThrowRec /\ IsFiniteSet(sent)
  BY DEF ThrowInv, ThrowTypes
<1>3. Channels!Numbered(s) = Cardinality(SentBy(s)) + 1 /\ Channels!Numbered(s) \in Nat
  <2>1. IsFiniteSet(SentBy(s))
    BY <1>2, FS_Subset DEF SentBy
  <2>2. Cardinality(SentBy(s)) \in Nat
    BY <2>1, FS_CardinalityType
  <2>3. Channels!Cardinality(SentBy(s)) = Cardinality(SentBy(s))
    BY SameCardinality
  <2> QED BY <2>2, <2>3 DEF Channels!Numbered, SentBy
<1>4. PICK x \in ThrowRec : /\ thrower' = [thrower EXCEPT ![s] = x] /\ x.pc = thrower[s].pc
                            /\ x.pc = "latch" => x.out = thrower[s].out
                            /\ x.out \in {thrower[s].out, Channels!Numbered(s)}
  <2>1. CASE Channels!WrOutMbox(s)
    <3> DEFINE x == [thrower[s] EXCEPT !.out = Channels!Numbered(s)]
    <3>1. x \in ThrowRec /\ x.pc = thrower[s].pc /\ x.out = Channels!Numbered(s)
      BY <1>2, <1>3 DEF ThrowRec
    <3>2. thrower' = [thrower EXCEPT ![s] = x] /\ thrower[s].pc = "idle"
      BY <1>2, <2>1 DEF Channels!WrOutMbox
    <3> HIDE DEF x
    <3> QED BY <3>1, <3>2
  <2>2. CASE Channels!ReadAck(s)
    <3> DEFINE x == [thrower[s] EXCEPT !.inbox = "none"]
    <3>1. x \in ThrowRec /\ x.pc = thrower[s].pc /\ x.out = thrower[s].out
      BY <1>2 DEF ThrowRec
    <3>2. thrower' = [thrower EXCEPT ![s] = x]
      BY <1>2, <2>2 DEF Channels!ReadAck
    <3> HIDE DEF x
    <3> QED BY <3>1, <3>2
  <2> QED BY <2>1, <2>2
<1>5. /\ x.pc = "idle" /\ x.out # 0 => x.out = Cardinality(SentBy(s)) + 1
      /\ x.pc = "latch" => [spu |-> s, nr |-> x.out] \in sent
  BY <1>3, <1>4 DEF ThrowInv, NumbersTrue
<1>6. NumbersTrue' /\ thrower' \in [SPUs -> ThrowRec] /\ thrower'[s] = x
      /\ \A u \in SPUs \ {s} : thrower'[u] = thrower[u]
  BY <1>1, <1>4, <1>5, NumbersStay
<1>7. \A e \in sent : Thrown(e)' <=> Thrown(e)
  BY <1>4, <1>6 DEF Thrown
<1>8. PlacesTrue'
  BY <1>1, <1>7 DEF ThrowInv, PlacesTrue, InOnePlace, Queued, Latched
<1>9. ThrowTypes'
  BY <1>1, <1>6 DEF ThrowInv, ThrowTypes
<1> QED BY <1>6, <1>8, <1>9 DEF ThrowInv

\* The places of an event that moves, and of the others.
LEMMA EventMoves ==
  ASSUME PlacesTrue, NEW x, sent' = sent \cup {x},
         \A i \in 1..Len(events') : events'[i] \in sent',
         \A i \in 1..LatchMax : latch'[i] \in sent' \cup {Channels!NoEvent},
         over' \subseteq sent',
         \A i, j \in 1..Len(events') : events'[i] = events'[j] => i = j,
         \A i, j \in 1..LatchMax : latch'[i] = latch'[j] /\ latch'[i] # Channels!NoEvent => i = j,
         \A e \in sent \ {x} : /\ Queued(e)' <=> Queued(e)
                               /\ Latched(e)' <=> Latched(e)
                               /\ Thrown(e)' <=> Thrown(e)
                               /\ e \in over' <=> e \in over,
         InOnePlace(x)'
  PROVE  PlacesTrue'
<1>1. ASSUME NEW e \in sent \ {x} PROVE InOnePlace(e)'
  BY <1>1 DEF PlacesTrue, InOnePlace
<1> QED BY <1>1 DEF PlacesTrue

\* An event that is appended to the queue.
LEMMA Appends ==
  ASSUME ThrowTypes, NEW x \in EventRec, events' = Append(events, x)
  PROVE  /\ events' \in Seq(EventRec) /\ Len(events') = Len(events) + 1 /\ Len(events) \in Nat
         /\ \A i \in 1..Len(events) : events'[i] = events[i]
         /\ events'[Len(events) + 1] = x
         /\ \A e : Queued(e)' <=> Queued(e) \/ e = x
<1>1. events \in Seq(EventRec) /\ Len(events) \in Nat
  BY DEF ThrowTypes
<1>2. /\ events' \in Seq(EventRec) /\ Len(events') = Len(events) + 1
      /\ \A i \in 1..Len(events) : events'[i] = events[i]
      /\ events'[Len(events) + 1] = x
  BY <1>1
<1>3. \A e : Queued(e)' <=> Queued(e) \/ e = x
  <2> TAKE e
  <2>1. Queued(e)' <=> \E i \in 1 .. Len(events) + 1 : events'[i] = e
    BY <1>2 DEF Queued
  <2>2. \A i : i \in 1 .. Len(events) + 1 <=> i \in 1..Len(events) \/ i = Len(events) + 1
    BY <1>1
  <2> QED BY <1>2, <2>1, <2>2 DEF Queued
<1> QED BY <1>1, <1>2, <1>3

LEMMA Sends ==
  ASSUME ThrowInv, NEW s \in SPUs, NEW acks \in BOOLEAN, Channels!WrOutIntrMbox(s, acks)
  PROVE  ThrowInv'
<1>0. PICK e : e = [spu |-> s, nr |-> thrower[s].out]
  OBVIOUS
<1> DEFINE full == ~(Len(events) < Capacity)
           y == IF ~full THEN [thrower[s] EXCEPT !.out = 0, !.inbox = IF acks THEN "ok" ELSE @]
                ELSE [thrower[s] EXCEPT !.out = IF acks THEN 0 ELSE @,
                                        !.pc = IF acks THEN "idle" ELSE "latch",
                                        !.inbox = IF acks THEN "busy" ELSE @]
<1>1. /\ thrower[s].pc = "idle" /\ thrower[s].out # 0 /\ sent' = sent \cup {e}
      /\ UNCHANGED <<latch, latchLock>>
      /\ events' = IF full THEN events ELSE Append(events, e)
      /\ over' = IF full /\ acks THEN over \cup {e} ELSE over
  BY <1>0 DEF Channels!WrOutIntrMbox
<1>2. thrower \in [SPUs -> ThrowRec] /\ thrower[s] \in ThrowRec /\ ThrowTypes
  BY DEF ThrowInv, ThrowTypes
<1>3. thrower' = [thrower EXCEPT ![s] = y]
  <2>1. CASE full
    BY <1>2, <2>1 DEF Channels!WrOutIntrMbox, ThrowRec
  <2>2. CASE ~full
    BY <1>2, <2>2 DEF Channels!WrOutIntrMbox, ThrowRec
  <2> QED BY <2>1, <2>2
<1>4. /\ y \in ThrowRec
      /\ full /\ ~acks => y.pc = "latch" /\ y.out = thrower[s].out
      /\ ~full \/ acks => y.pc = "idle" /\ y.out = 0
  BY <1>1, <1>2 DEF ThrowRec
<1>5. /\ e \in EventRec /\ e \notin sent /\ e.spu = s /\ e.nr = thrower[s].out
      /\ sent' \in SUBSET EventRec /\ IsFiniteSet(sent')
      /\ \A u \in SPUs : \A f \in SentBy(u)' : f.nr <= Cardinality(SentBy(u)')
      /\ \A u \in SPUs \ {s} : SentBy(u)' = SentBy(u)
  BY <1>0, <1>1, NumbersGrow
<1>6. /\ thrower' \in [SPUs -> ThrowRec] /\ thrower'[s] = y
      /\ \A u \in SPUs \ {s} : thrower'[u] = thrower[u]
  BY <1>2, <1>3, <1>4
<1> HIDE DEF full, y
<1>8. NumbersTrue'
  <2> SUFFICES ASSUME NEW u \in SPUs
               PROVE  /\ thrower'[u].pc = "idle" /\ thrower'[u].out # 0 =>
                            thrower'[u].out = Cardinality(SentBy(u)') + 1
                      /\ thrower'[u].pc = "latch" => [spu |-> u, nr |-> thrower'[u].out] \in sent'
    BY <1>5 DEF NumbersTrue
  <2>1. CASE u = s
    BY <1>0, <1>1, <1>4, <1>6, <2>1
  <2>2. CASE u # s
    BY <1>1, <1>5, <1>6, <2>2 DEF ThrowInv, NumbersTrue
  <2> QED BY <2>1, <2>2
<1>9. /\ events' \in Seq(EventRec)
      /\ \A f : Queued(f)' <=> Queued(f) \/ (~full /\ f = e)
      /\ \A i \in 1..Len(events') : events'[i] \in sent'
      /\ \A i, j \in 1..Len(events') : events'[i] = events'[j] => i = j
  <2>0. /\ \A i \in 1..Len(events) : events[i] \in sent
        /\ \A i, j \in 1..Len(events) : events[i] = events[j] => i = j
    BY DEF ThrowInv, PlacesTrue
  <2>1. CASE full
    BY <1>1, <1>2, <2>0, <2>1 DEF ThrowTypes, Queued
  <2>2. CASE ~full
    <3>1. events' = Append(events, e)
      BY <1>1, <2>2
    <3>2. /\ events' \in Seq(EventRec) /\ Len(events') = Len(events) + 1 /\ Len(events) \in Nat
          /\ \A i \in 1..Len(events) : events'[i] = events[i]
          /\ events'[Len(events) + 1] = e
          /\ \A f : Queued(f)' <=> Queued(f) \/ f = e
      BY <1>2, <1>5, <3>1, Appends
    <3>3. \A i : i \in 1..Len(events') <=> i \in 1..Len(events) \/ i = Len(events) + 1
      BY <3>2
    <3>4. \A i \in 1..Len(events') : events'[i] \in sent'
      BY <1>1, <2>0, <3>2, <3>3
    <3>5. \A i, j \in 1..Len(events') : events'[i] = events'[j] => i = j
      BY <1>5, <2>0, <3>2, <3>3
    <3> QED BY <2>2, <3>2, <3>4, <3>5
  <2> QED BY <2>1, <2>2
<1>10. ~Queued(e) /\ ~Latched(e) /\ e \notin over
  BY <1>5, NoEventIsNone DEF ThrowInv, PlacesTrue, Queued, Latched
<1>11. \A f \in sent : Thrown(f)' <=> Thrown(f)
  <2> SUFFICES ASSUME NEW f \in sent PROVE Thrown(f)' <=> Thrown(f)
    OBVIOUS
  <2>1. f \in EventRec /\ f # e
    BY <1>2, <1>5 DEF ThrowTypes
  <2>2. CASE f.spu = s
    <3>1. ~Thrown(f)
      BY <1>1, <2>2 DEF Thrown
    <3>2. f.nr # thrower[s].out
      BY <1>0, <2>1, <2>2, EventIs
    <3> QED BY <1>4, <1>6, <2>2, <3>1, <3>2 DEF Thrown
  <2>3. CASE f.spu # s
    BY <1>6, <2>1, <2>3, EventIs DEF Thrown
  <2> QED BY <2>2, <2>3
<1>12. /\ Thrown(e)' <=> full /\ ~acks
       /\ Latched(e)' <=> Latched(e)
       /\ e \in over' <=> full /\ acks
  BY <1>1, <1>4, <1>5, <1>6, <1>10 DEF Thrown, Latched
<1>13. InOnePlace(e)'
  BY <1>9, <1>10, <1>12 DEF InOnePlace
<1>14. PlacesTrue'
  <2>1. /\ \A i \in 1..LatchMax : latch'[i] \in sent' \cup {Channels!NoEvent}
        /\ over' \subseteq sent'
        /\ \A i, j \in 1..LatchMax : latch'[i] = latch'[j] /\ latch'[i] # Channels!NoEvent => i = j
        /\ PlacesTrue
    BY <1>1 DEF ThrowInv, PlacesTrue
  <2>2. \A f \in sent \ {e} : /\ Queued(f)' <=> Queued(f)
                              /\ Latched(f)' <=> Latched(f)
                              /\ Thrown(f)' <=> Thrown(f)
                              /\ f \in over' <=> f \in over
    <3> SUFFICES ASSUME NEW f \in sent \ {e}
                 PROVE  /\ Queued(f)' <=> Queued(f)
                        /\ Latched(f)' <=> Latched(f)
                        /\ Thrown(f)' <=> Thrown(f)
                        /\ f \in over' <=> f \in over
      OBVIOUS
    <3>1. Queued(f)' <=> Queued(f)
      BY <1>9
    <3>2. Latched(f)' <=> Latched(f)
      BY <1>1 DEF Latched
    <3>3. Thrown(f)' <=> Thrown(f)
      BY <1>11
    <3>4. f \in over' <=> f \in over
      BY <1>1
    <3> QED BY <3>1, <3>2, <3>3, <3>4
  <2> QED BY <1>1, <1>9, <1>13, <2>1, <2>2, EventMoves
<1>15. ThrowTypes'
  <2>1. over' \in SUBSET EventRec
    BY <1>1, <1>2, <1>5 DEF ThrowTypes
  <2> QED BY <1>1, <1>2, <1>5, <1>6, <1>9, <2>1 DEF ThrowTypes
<1> QED BY <1>8, <1>14, <1>15 DEF ThrowInv

LEMMA LatchAdds ==
  ASSUME ChannelSizes, ThrowInv, NEW s \in SPUs, Channels!LatchAdd(s)
  PROVE  ThrowInv'
<1>0. PICK e : e = [spu |-> s, nr |-> thrower[s].out]
  OBVIOUS
<1>1. /\ thrower[s].pc = "latch" /\ UNCHANGED <<events, latchLock, sent>>
      /\ thrower' = [thrower EXCEPT ![s] = [thrower[s] EXCEPT !.out = 0, !.pc = "idle"]]
  BY DEF Channels!LatchAdd
<1>2. ThrowTypes /\ thrower[s] \in ThrowRec /\ PlacesTrue
  BY DEF ThrowInv, ThrowTypes
<1>3. e \in sent /\ e \in EventRec /\ e.spu = s /\ e.nr = thrower[s].out
  <2>1. e \in sent
    BY <1>0, <1>1 DEF ThrowInv, NumbersTrue
  <2> QED BY <1>0, <1>2, <2>1, EventFields DEF ThrowTypes
<1> DEFINE y == [thrower[s] EXCEPT !.out = 0, !.pc = "idle"]
<1>4. y \in ThrowRec /\ y.pc = "idle" /\ y.out = 0
  BY <1>2 DEF ThrowRec
<1>5. thrower' = [thrower EXCEPT ![s] = y]
  BY <1>1
<1> HIDE DEF y
<1>6. NumbersTrue' /\ thrower' \in [SPUs -> ThrowRec] /\ thrower'[s] = y
      /\ \A u \in SPUs \ {s} : thrower'[u] = thrower[u]
  BY <1>1, <1>4, <1>5, NumbersStay
<1>7. Thrown(e) /\ ~Thrown(e)' /\ \A f \in sent \ {e} : Thrown(f)' <=> Thrown(f)
  <2>1. Thrown(e) /\ ~Thrown(e)'
    BY <1>1, <1>3, <1>4, <1>6 DEF Thrown
  <2>2. ASSUME NEW f \in sent \ {e} PROVE Thrown(f)' <=> Thrown(f)
    <3>1. f \in EventRec
      BY <1>2 DEF ThrowTypes
    <3>2. CASE f.spu = s
      <4>1. f.nr # thrower[s].out
        BY <1>0, <3>1, <3>2, EventIs
      <4> QED BY <1>4, <1>6, <3>2, <4>1 DEF Thrown
    <3>3. CASE f.spu # s
      BY <1>6, <3>1, <3>3, EventIs DEF Thrown
    <3> QED BY <3>2, <3>3
  <2> QED BY <2>1, <2>2
<1>8. ~Queued(e) /\ ~Latched(e) /\ e \notin over
  BY <1>2, <1>3, <1>7 DEF PlacesTrue, InOnePlace
<1>9. \A f : Queued(f)' <=> Queued(f)
  BY <1>1 DEF Queued
<1>10. CASE Channels!Unused = {}
  <2>1. over' = over \cup {e} /\ latch' = latch
    BY <1>0, <1>10 DEF Channels!LatchAdd
  <2>2. \A f : Latched(f)' <=> Latched(f)
    BY <2>1 DEF Latched
  <2>3. InOnePlace(e)'
    BY <1>7, <1>8, <1>9, <2>1, <2>2 DEF InOnePlace
  <2>4. \A f \in sent \ {e} : InOnePlace(f)'
    BY <1>2, <1>7, <1>9, <2>1, <2>2 DEF PlacesTrue, InOnePlace
  <2>5. PlacesTrue'
    BY <1>1, <1>2, <1>3, <2>1, <2>3, <2>4 DEF PlacesTrue
  <2>6. ThrowTypes'
    BY <1>1, <1>2, <1>3, <1>6, <2>1 DEF ThrowTypes
  <2> QED BY <1>6, <2>5, <2>6 DEF ThrowInv
<1>11. CASE Channels!Unused # {}
  <2> DEFINE k == CHOOSE i \in Channels!Unused : \A j \in Channels!Unused : i <= j
  <2>1. Channels!Unused \in SUBSET Nat /\ LatchMax \in Nat
    BY DEF Channels!Unused, ChannelSizes
  <2>2. \E i \in Channels!Unused : \A j \in Channels!Unused : i <= j
    BY <1>11, <2>1, LeastExists
  <2>3. k \in Channels!Unused
    BY <2>2
  <2>4. over' = over /\ latch' = [latch EXCEPT ![k] = e]
    BY <1>0, <1>11 DEF Channels!LatchAdd
  <2>5. PICK i \in 1..LatchMax : i = k /\ latch[i] = Channels!NoEvent
    BY <2>3 DEF Channels!Unused
  <2> HIDE DEF k
  <2>6. /\ latch' \in [1..LatchMax -> EventRec \cup {Channels!NoEvent}] /\ latch'[i] = e
        /\ \A j \in 1..LatchMax \ {i} : latch'[j] = latch[j]
    BY <1>2, <1>3, <2>4, <2>5 DEF ThrowTypes
  <2>7. Latched(e)'
    BY <2>6 DEF Latched
  <2>8. \A f \in sent \ {e} : Latched(f)' <=> Latched(f)
    <3> SUFFICES ASSUME NEW f \in sent \ {e} PROVE Latched(f)' <=> Latched(f)
      OBVIOUS
    <3>1. f # Channels!NoEvent
      BY <1>2, NoEventIsNone DEF ThrowTypes
    <3> QED BY <2>5, <2>6, <3>1 DEF Latched
  <2>9. InOnePlace(e)'
    BY <1>7, <1>8, <1>9, <2>4, <2>7 DEF InOnePlace
  <2>10. \A f \in sent \ {e} : InOnePlace(f)'
    BY <1>2, <1>7, <1>9, <2>4, <2>8 DEF PlacesTrue, InOnePlace
  <2>11. \A j \in 1..LatchMax : latch[j] # e
    BY <1>8 DEF Latched
  <2>12. PlacesTrue'
    <3>1. \A j, l \in 1..LatchMax : latch'[j] = latch'[l] /\ latch'[j] # Channels!NoEvent => j = l
      BY <1>2, <2>6, <2>11 DEF PlacesTrue
    <3>2. \A j \in 1..LatchMax : latch'[j] \in sent \cup {Channels!NoEvent}
      BY <1>2, <1>3, <2>6 DEF PlacesTrue
    <3> QED BY <1>1, <1>2, <2>4, <2>9, <2>10, <3>1, <3>2 DEF PlacesTrue
  <2>13. ThrowTypes'
    BY <1>1, <1>2, <1>6, <2>4, <2>6 DEF ThrowTypes
  <2> QED BY <1>6, <2>12, <2>13 DEF ThrowInv
<1> QED BY <1>10, <1>11

LEMMA FlushBegins ==
  ASSUME ChannelSizes, ThrowInv, Channels!ConnectPort \/ Channels!Flush
  PROVE  ThrowInv'
<1>1. /\ UNCHANGED <<events, latch, thrower, sent, over>>
      /\ latchLock' = latchLock \/ (latchLock' = 1 /\ Channels!Unused # 1..LatchMax)
  BY DEF Channels!ConnectPort, Channels!Flush
<1>2. latchLock' \in 0..LatchMax
  <2>1. Channels!Unused # 1..LatchMax => LatchMax >= 1
    BY DEF Channels!Unused, ChannelSizes
  <2> QED BY <1>1, <2>1 DEF ThrowInv, ThrowTypes, ChannelSizes
<1>3. ThrowTypes'
  BY <1>1, <1>2 DEF ThrowInv, ThrowTypes
<1>4. NumbersTrue'
  BY <1>1 DEF ThrowInv, NumbersTrue, SentBy
<1>5. PlacesTrue'
  <2>1. \A e : InOnePlace(e)' <=> InOnePlace(e)
    BY <1>1 DEF InOnePlace, Queued, Latched, Thrown
  <2> QED BY <1>1, <2>1 DEF ThrowInv, PlacesTrue
<1> QED BY <1>3, <1>4, <1>5 DEF ThrowInv

LEMMA NumbersIdle ==
  ASSUME ThrowInv, UNCHANGED <<thrower, sent>>
  PROVE  NumbersTrue' /\ \A e : Thrown(e)' <=> Thrown(e)
  BY DEF ThrowInv, NumbersTrue, SentBy, Thrown

LEMMA FlushSlots == ASSUME ChannelSizes, ThrowInv, Channels!FlushSlot PROVE ThrowInv'
<1>1. ThrowTypes /\ PlacesTrue
  BY DEF ThrowInv
<1>2. /\ latchLock # 0 /\ UNCHANGED <<thrower, sent, over>>
      /\ latchLock' = IF latchLock = LatchMax THEN 0 ELSE latchLock + 1
  BY DEF Channels!FlushSlot
<1>3. PICK k \in 1..LatchMax : k = latchLock
  BY <1>1, <1>2 DEF ThrowTypes, ChannelSizes
<1>4. latchLock' \in 0..LatchMax
  BY <1>2, <1>3 DEF ChannelSizes
<1>5. NumbersTrue' /\ \A e : Thrown(e)' <=> Thrown(e)
  BY <1>2, NumbersIdle
<1>6. CASE UNCHANGED <<events, latch>>
  <2>1. ThrowTypes'
    BY <1>1, <1>2, <1>4, <1>6 DEF ThrowTypes
  <2>2. PlacesTrue'
    BY <1>1, <1>2, <1>5, <1>6 DEF PlacesTrue, InOnePlace, Queued, Latched
  <2> QED BY <1>5, <2>1, <2>2 DEF ThrowInv
<1>7. CASE ~UNCHANGED <<events, latch>>
  <2>1. PICK e : e = latch[k]
    OBVIOUS
  <2>2. e # Channels!NoEvent /\ events' = Append(events, e) /\ latch' = [latch EXCEPT ![k] = Channels!NoEvent]
    BY <1>3, <1>7, <2>1 DEF Channels!FlushSlot, Channels!Cleared
  <2>3. e \in sent /\ e \in EventRec
    BY <1>1, <2>1, <2>2 DEF PlacesTrue, ThrowTypes
  <2>4. /\ events' \in Seq(EventRec) /\ Len(events') = Len(events) + 1 /\ Len(events) \in Nat
        /\ \A i \in 1..Len(events) : events'[i] = events[i]
        /\ events'[Len(events) + 1] = e
        /\ \A f : Queued(f)' <=> Queued(f) \/ f = e
    BY <1>1, <2>2, <2>3, Appends
  <2>5. /\ latch' \in [1..LatchMax -> EventRec \cup {Channels!NoEvent}] /\ latch'[k] = Channels!NoEvent
        /\ \A j \in 1..LatchMax \ {k} : latch'[j] = latch[j]
    BY <1>1, <2>2 DEF ThrowTypes
  <2>6. Latched(e) /\ ~Queued(e) /\ ~Thrown(e) /\ e \notin over
    BY <1>1, <2>1, <2>3 DEF PlacesTrue, InOnePlace, Latched
  <2>7. ~Latched(e)'
    BY <1>1, <2>1, <2>2, <2>5 DEF PlacesTrue, Latched
  <2>8. InOnePlace(e)'
    BY <1>2, <1>5, <2>4, <2>6, <2>7 DEF InOnePlace
  <2>9. ASSUME NEW f \in sent \ {e} PROVE InOnePlace(f)'
    <3>1. f # Channels!NoEvent
      BY <1>1, NoEventIsNone DEF ThrowTypes
    <3>2. Latched(f)' <=> Latched(f)
      BY <2>1, <2>5, <3>1 DEF Latched
    <3>3. Queued(f)' <=> Queued(f)
      BY <2>4
    <3> QED BY <1>1, <1>2, <1>5, <3>2, <3>3 DEF PlacesTrue, InOnePlace
  <2>10. PlacesTrue'
    <3>1. \A j, l \in 1..LatchMax : latch'[j] = latch'[l] /\ latch'[j] # Channels!NoEvent => j = l
      BY <1>1, <2>5 DEF PlacesTrue
    <3>2. \A j \in 1..LatchMax : latch'[j] \in sent \cup {Channels!NoEvent}
      BY <1>1, <2>5 DEF PlacesTrue
    <3>3. \A i : i \in 1..Len(events') <=> i \in 1..Len(events) \/ i = Len(events) + 1
      BY <2>4
    <3>4. \A i \in 1..Len(events) : events[i] # e
      BY <2>6 DEF Queued
    <3>5. \A i \in 1..Len(events') : events'[i] \in sent
      BY <1>1, <2>3, <2>4, <3>3 DEF PlacesTrue
    <3>6. \A i, j \in 1..Len(events') : events'[i] = events'[j] => i = j
      BY <1>1, <2>4, <3>3, <3>4 DEF PlacesTrue
    <3> QED BY <1>1, <1>2, <2>8, <2>9, <3>1, <3>2, <3>5, <3>6 DEF PlacesTrue
  <2>11. ThrowTypes'
    BY <1>1, <1>2, <1>4, <2>4, <2>5 DEF ThrowTypes
  <2> QED BY <1>5, <2>10, <2>11 DEF ThrowInv
<1> QED BY <1>6, <1>7

LEMMA Receives == ASSUME ThrowInv, Channels!Receive PROVE ThrowInv'
<1>1. ThrowTypes /\ PlacesTrue /\ events \in Seq(EventRec)
  BY DEF ThrowInv, ThrowTypes
<1>2. /\ Len(events) > 0 /\ UNCHANGED <<latch, latchLock, thrower, sent>>
      /\ events' = Tail(events) /\ over' = over \cup {Head(events)}
  BY DEF Channels!Receive
<1>3. PICK e : e = events[1]
  OBVIOUS
<1>4. /\ Len(events) \in Nat \ {0} /\ events' \in Seq(EventRec) /\ Len(events') = Len(events) - 1
      /\ \A i \in 1..Len(events') : i + 1 \in 1..Len(events) /\ events'[i] = events[i + 1]
      /\ Head(events) = e
  BY <1>1, <1>2, <1>3
<1>5. e \in sent /\ e \in EventRec /\ Queued(e)
  BY <1>1, <1>3, <1>4 DEF PlacesTrue, ThrowTypes, Queued
<1>6. NumbersTrue' /\ \A f : Thrown(f)' <=> Thrown(f)
  BY <1>2, NumbersIdle
<1>7. \A f : Latched(f)' <=> Latched(f)
  BY <1>2 DEF Latched
<1>8. ~Queued(e)'
  <2> SUFFICES ASSUME NEW i \in 1..Len(events'), events'[i] = e PROVE FALSE
    BY DEF Queued
  <2>1. i + 1 \in 1..Len(events) /\ events[i + 1] = events[1] /\ 1 \in 1..Len(events) /\ i + 1 # 1
    BY <1>3, <1>4
  <2> QED BY <1>1, <2>1 DEF PlacesTrue
<1>9. ASSUME NEW f, f # e PROVE Queued(f)' <=> Queued(f)
  <2>1. ASSUME Queued(f) PROVE Queued(f)'
    <3>1. PICK i \in 1..Len(events) : events[i] = f
      BY <2>1 DEF Queued
    <3>2. i # 1
      BY <1>3, <1>9, <3>1
    <3>3. i - 1 \in 1..Len(events') /\ (i - 1) + 1 = i
      BY <1>4, <3>1, <3>2
    <3>4. events'[i - 1] = f
      BY <1>4, <3>1, <3>3
    <3> QED BY <3>3, <3>4 DEF Queued
  <2>2. ASSUME Queued(f)' PROVE Queued(f)
    BY <1>4, <2>2 DEF Queued
  <2> QED BY <2>1, <2>2
<1>10. ~Latched(e) /\ ~Thrown(e)
  BY <1>1, <1>5 DEF PlacesTrue, InOnePlace
<1>11. InOnePlace(e)'
  BY <1>2, <1>4, <1>6, <1>7, <1>8, <1>10 DEF InOnePlace
<1>12. ASSUME NEW f \in sent \ {e} PROVE InOnePlace(f)'
  BY <1>1, <1>2, <1>4, <1>6, <1>7, <1>9 DEF PlacesTrue, InOnePlace
<1>13. PlacesTrue'
  <2>1. \A i \in 1..Len(events') : events'[i] \in sent
    BY <1>1, <1>4 DEF PlacesTrue
  <2>2. ASSUME NEW i \in 1..Len(events'), NEW j \in 1..Len(events'), events'[i] = events'[j]
        PROVE i = j
    <3>1. i + 1 = j + 1
      BY <1>1, <1>4, <2>2 DEF PlacesTrue
    <3> QED BY <1>4, <3>1
  <2>3. over' \subseteq sent
    BY <1>1, <1>2, <1>4, <1>5 DEF PlacesTrue
  <2> QED BY <1>1, <1>2, <1>11, <1>12, <2>1, <2>2, <2>3 DEF PlacesTrue
<1>14. ThrowTypes'
  BY <1>1, <1>2, <1>4, <1>5 DEF ThrowTypes
<1> QED BY <1>6, <1>13, <1>14 DEF ThrowInv

LEMMA ThrowIdles ==
  ASSUME ThrowInv, UNCHANGED <<events, latch, latchLock, thrower, sent, over>>
  PROVE  ThrowInv'
<1>1. ThrowTypes' /\ PlacesTrue'
  BY DEF ThrowInv, ThrowTypes, PlacesTrue, InOnePlace, Queued, Latched, Thrown
<1> QED BY <1>1, NumbersIdle DEF ThrowInv

LEMMA ThrowInitInv == ASSUME ChannelSizes, Channels!Init PROVE ThrowInv
<1>1. ThrowTypes
  <2>1. thrower \in [SPUs -> ThrowRec]
    BY DEF Channels!Init, ThrowRec
  <2>2. latch \in [1..LatchMax -> EventRec \cup {Channels!NoEvent}] /\ latchLock \in 0..LatchMax
    BY DEF Channels!Init, ChannelSizes
  <2>3. events \in Seq(EventRec) /\ sent = {} /\ over = {}
    BY DEF Channels!Init
  <2> QED BY <2>1, <2>2, <2>3, FS_EmptySet DEF ThrowTypes
<1>2. NumbersTrue
  BY DEF Channels!Init, NumbersTrue, SentBy
<1>3. PlacesTrue
  BY DEF Channels!Init, PlacesTrue
<1> QED BY <1>1, <1>2, <1>3 DEF ThrowInv

\* An element stands at one position, or at none.
LEMMA CountOne ==
  ASSUME NEW f, NEW n, NEW e, \A i, j \in 1..n : f[i] = e /\ f[j] = e => i = j
  PROVE  Cardinality({i \in 1..n : f[i] = e}) = IF \E i \in 1..n : f[i] = e THEN 1 ELSE 0
<1>1. CASE \E i \in 1..n : f[i] = e
  <2>1. PICK k \in 1..n : f[k] = e
    BY <1>1
  <2>2. {i \in 1..n : f[i] = e} = {k}
    BY <2>1
  <2> QED BY <1>1, <2>2, FS_Singleton
<1>2. CASE ~\E i \in 1..n : f[i] = e
  <2>1. {i \in 1..n : f[i] = e} = {}
    BY <1>2
  <2> QED BY <1>2, <2>1, FS_EmptySet
<1> QED BY <1>1, <1>2

LEMMA ThrowFollows == ASSUME ThrowInv PROVE Channels!ThrowsKept
<1> SUFFICES ASSUME NEW e \in sent
             PROVE  Cardinality({i \in 1..Len(events) : events[i] = e})
                    + Cardinality({i \in 1..LatchMax : latch[i] = e})
                    + (IF thrower[e.spu].pc = "latch" /\ thrower[e.spu].out = e.nr THEN 1 ELSE 0)
                    + (IF e \in over THEN 1 ELSE 0) = 1
  BY SameCardinality DEF Channels!ThrowsKept
<1>1. InOnePlace(e)
  BY DEF ThrowInv, PlacesTrue
<1>2. e # Channels!NoEvent
  BY NoEventIsNone DEF ThrowInv, ThrowTypes
<1>3. Cardinality({i \in 1..Len(events) : events[i] = e}) = IF Queued(e) THEN 1 ELSE 0
  <2>1. \A i, j \in 1..Len(events) : events[i] = e /\ events[j] = e => i = j
    BY DEF ThrowInv, PlacesTrue
  <2> QED BY <2>1, CountOne DEF Queued
<1>4. Cardinality({i \in 1..LatchMax : latch[i] = e}) = IF Latched(e) THEN 1 ELSE 0
  <2>1. \A i, j \in 1..LatchMax : latch[i] = e /\ latch[j] = e => i = j
    BY <1>2 DEF ThrowInv, PlacesTrue
  <2> QED BY <2>1, CountOne DEF Latched
<1>5. CASE Queued(e)
  BY <1>1, <1>3, <1>4, <1>5 DEF InOnePlace, Thrown
<1>6. CASE Latched(e)
  BY <1>1, <1>3, <1>4, <1>6 DEF InOnePlace, Thrown
<1>7. CASE Thrown(e)
  BY <1>1, <1>3, <1>4, <1>7 DEF InOnePlace, Thrown
<1>8. CASE e \in over
  BY <1>1, <1>3, <1>4, <1>8 DEF InOnePlace, Thrown
<1> QED BY <1>1, <1>5, <1>6, <1>7, <1>8 DEF InOnePlace

-----------------------------------------------------------------------------

ChannelInv == SigInv /\ ThrowInv

LEMMA ChannelInitInv == ASSUME ChannelSizes, Channels!Init PROVE ChannelInv
  BY SigInitInv, ThrowInitInv DEF ChannelInv

LEMMA ChannelNextInv ==
  ASSUME ChannelSizes, ChannelInv, [Channels!Next]_(Channels!chanVars)
  PROVE  ChannelInv'
<1>0. SigInv /\ ThrowInv
  BY DEF ChannelInv
<1>1. CASE Channels!Signals
  <2>1. UNCHANGED Channels!throwVars
    BY <1>1 DEF Channels!Signals, Channels!WriteSnr, Channels!SnrOr, Channels!SnrValue,
       Channels!SnrCount, Channels!SnrUnlock, Channels!Snr, Channels!Rdch, Channels!RdchWoken,
       Channels!RdchLock, Channels!RdchValue, Channels!RdchClear, Channels!RdchUnlock, Channels!SetSpuCfg
  <2>2. UNCHANGED <<events, latch, latchLock, thrower, sent, over>>
    BY <2>1 DEF Channels!throwVars
  <2>3. SigInv'
    BY <1>0, <1>1, SnrBegins, SnrGoesOn, ReaderSteps, Configures DEF Channels!Signals
  <2> QED BY <1>0, <2>2, <2>3, ThrowIdles DEF ChannelInv
<1>2. CASE Channels!Throws
  <2>1. UNCHANGED Channels!sigVars
    BY <1>2 DEF Channels!Throws, Channels!WrOutMbox, Channels!ReadAck, Channels!LatchAdd,
       Channels!WrOutIntrMbox, Channels!ConnectPort, Channels!Flush, Channels!FlushSlot,
       Channels!Receive
  <2>2. ThrowInv'
    BY <1>0, <1>2, MailboxSteps, Sends, LatchAdds, FlushBegins, FlushSlots, Receives
       DEF Channels!Throws
  <2> QED BY <1>0, <2>1, <2>2, SigIdles DEF ChannelInv
<1>3. CASE UNCHANGED Channels!chanVars
  <2>1. UNCHANGED Channels!sigVars /\ UNCHANGED <<events, latch, latchLock, thrower, sent, over>>
    BY <1>3 DEF Channels!chanVars, Channels!sigVars
  <2> QED BY <1>0, <2>1, SigIdles, ThrowIdles DEF ChannelInv
<1> QED BY <1>1, <1>2, <1>3 DEF Channels!Next

LEMMA ChannelFollows == ASSUME ChannelSizes, ChannelInv PROVE Channels!ChannelsSound
  BY SigFollows, ThrowFollows DEF ChannelInv, Channels!ChannelsSound

(* Whatever writers and the reading SPU interleave, a signal that is written is
   there for the next read and is read once; an event that is sent or thrown is
   in one place, the queue, a slot of the latch or its own SPU, until it is
   received or dropped, and never in two.                                    *)
THEOREM ChannelsKeep == ASSUME ChannelSizes PROVE Channels!Spec => []Channels!ChannelsSound
<1>1. Channels!Init => ChannelInv
  BY ChannelInitInv
<1>2. ChannelInv /\ [Channels!Next]_(Channels!chanVars) => ChannelInv'
  BY ChannelNextInv
<1>3. ChannelInv => Channels!ChannelsSound
  BY ChannelFollows
<1> QED BY <1>1, <1>2, <1>3, PTL DEF Channels!Spec

-----------------------------------------------------------------------------
(* DMA commands *)

MfcSizes == OneListPerTag /\ Depth \in Nat /\ Masks \subseteq SUBSET Tags /\ Lists \subseteq Seq(BOOLEAN) \ {<<>>}

Command   == [tag : Tags, fence : BOOLEAN, elements : Seq(BOOLEAN) \ {<<>>}]
EngineRec == [outstanding : [Tags -> Int], queued : Int, completed : SUBSET Tags,
              stall : [Tags -> [cmd : Nat, next : Nat]], deferred : Seq(Nat),
              moved : [Tags -> Seq(Nat \X Nat)]]

Size(C, c) == Len(C[c].elements)

\* The command that was moved i-th on a tag of an engine, and the element of it.
Cmd(e, t, i) == e.moved[t][i][1]
Elt(e, t, i) == e.moved[t][i][2]

EngineTypes(e, C) ==
    /\ C \in Seq(Command) /\ e \in EngineRec
    /\ \A t \in Tags : \A i \in 1..Len(e.moved[t]) :
          /\ Cmd(e, t, i) \in 1..Len(C) /\ C[Cmd(e, t, i)].tag = t
          /\ Elt(e, t, i) \in 1..Size(C, Cmd(e, t, i))

\* The commands of an engine that wait, whose list is stalled, or that are in the hand H.
Waits(e)   == {e.deferred[i] : i \in 1..Len(e.deferred)}
Halts(e)   == {e.stall[t].cmd : t \in Mfc!Stalled(e)}
Unfinished(e, H) == Waits(e) \cup Halts(e) \cup H
OpenOn(e, C, H, t) == {c \in Unfinished(e, H) : C[c].tag = t}

\* The elements of a command that were moved are the first ones: n - 1 of the one in the hand.
Part(e, C, c) == {m \in Nat : \E i \in 1..Len(e.moved[C[c].tag]) : e.moved[C[c].tag][i] = <<c, m>>}
Progress(e, C, H, n, c) ==
    IF c \in H THEN n - 1
    ELSE IF c \in Waits(e) THEN 0
    ELSE IF c \in Halts(e) THEN e.stall[C[c].tag].next - 1
    ELSE Size(C, c)

Placed(e, C, H) ==
    /\ Waits(e) \subseteq 1..Len(C) /\ H \subseteq 1..Len(C)
    /\ \A t \in Mfc!Stalled(e) : /\ e.stall[t].cmd \in 1..Len(C) /\ C[e.stall[t].cmd].tag = t
                                 /\ e.stall[t].next \in 2..Size(C, e.stall[t].cmd)
    /\ Waits(e) \cap Halts(e) = {} /\ H \cap (Waits(e) \cup Halts(e)) = {}
    /\ \A i, j \in 1..Len(e.deferred) : i < j => e.deferred[i] < e.deferred[j]

Parted(e, C, H, n) == \A c \in 1..Len(C) : Part(e, C, c) = 1 .. Progress(e, C, H, n, c)

Ordered(e) ==
    \A t \in Tags : \A i, j \in 1..Len(e.moved[t]) :
        i < j /\ Cmd(e, t, i) = Cmd(e, t, j) => Elt(e, t, i) < Elt(e, t, j)

\* What overtakes an older command is no fence, and that command had begun.
Overtakes(e, C, t, i, d) == ~C[Cmd(e, t, i)].fence /\ \E k \in 1 .. i - 1 : Cmd(e, t, k) = d

Fenced(e, C, H) ==
    \A t \in Tags : \A i \in 1..Len(e.moved[t]) :
        /\ \A j \in 1..Len(e.moved[t]) :
              i < j /\ Cmd(e, t, j) < Cmd(e, t, i) => Overtakes(e, C, t, i, Cmd(e, t, j))
        /\ \A d \in Unfinished(e, H) :
              C[d].tag = t /\ d < Cmd(e, t, i) => Overtakes(e, C, t, i, d)

Accounted(e, C, H) ==
    /\ e.queued = Cardinality(Unfinished(e, H))
    /\ \A t \in Tags : e.outstanding[t] = Cardinality(OpenOn(e, C, H, t))
    /\ e.completed = {t \in Tags : OpenOn(e, C, H, t) = {}}

\* What waits is younger than the list it waits for; on a tag of X it may wait for nothing.
BehindLists(e, C, X) ==
    \A c \in Waits(e) :
        /\ C[c].tag \in Mfc!Stalled(e) => e.stall[C[c].tag].cmd < c
        /\ C[c].tag \in Mfc!Stalled(e) \cup X

EngineInv(e, C, H, n, X) ==
    /\ EngineTypes(e, C) /\ Placed(e, C, H) /\ Parted(e, C, H, n) /\ Ordered(e)
    /\ Fenced(e, C, H) /\ Accounted(e, C, H) /\ BehindLists(e, C, X)

-----------------------------------------------------------------------------
(* A transfer *)

LEMMA CommandOf ==
  ASSUME NEW C \in Seq(Command), NEW c \in 1..Len(C)
  PROVE  /\ C[c] \in Command /\ C[c].tag \in Tags /\ C[c].fence \in BOOLEAN
         /\ C[c].elements \in Seq(BOOLEAN) /\ Size(C, c) \in Nat \ {0} /\ c \in Nat /\ Len(C) \in Nat
<1>1. C[c] \in Command /\ c \in Nat /\ Len(C) \in Nat
  OBVIOUS
<1>2. C[c].tag \in Tags /\ C[c].fence \in BOOLEAN /\ C[c].elements \in Seq(BOOLEAN) \ {<<>>}
  BY <1>1 DEF Command
<1>3. Len(C[c].elements) \in Nat \ {0}
  BY <1>2, EmptySeq
<1> QED BY <1>1, <1>2, <1>3 DEF Size

\* What becomes of an engine when the elements n to last of a command are moved.
Transferred(a, e, C, c, n, last) ==
    LET t == C[c].tag
        L == Len(e.moved[t]) IN
    /\ a \in EngineRec /\ a.deferred = e.deferred
    /\ \A u \in Tags \ {t} : a.moved[u] = e.moved[u]
    /\ Len(a.moved[t]) = L + (last - n + 1)
    /\ \A i \in 1..L : a.moved[t][i] = e.moved[t][i]
    /\ \A i \in 1 .. last - n + 1 : a.moved[t][L + i] = <<c, n + i - 1>>
    /\ last < Size(C, c) =>
          /\ a.stall = [e.stall EXCEPT ![t] = [cmd |-> c, next |-> last + 1]]
          /\ a.queued = e.queued /\ a.outstanding = e.outstanding /\ a.completed = e.completed
    /\ last = Size(C, c) =>
          /\ a.stall = e.stall /\ a.queued = e.queued - 1
          /\ a.outstanding = [e.outstanding EXCEPT ![t] = e.outstanding[t] - 1]
          /\ a.completed = IF e.outstanding[t] = 1 THEN e.completed \cup {t} ELSE e.completed \ {t}

LEMMA LastIsIn ==
  ASSUME NEW elements \in Seq(BOOLEAN), NEW n \in 1..Len(elements)
  PROVE  Mfc!LastMoved(elements, n) \in n..Len(elements)
<1> DEFINE stops == {i \in n..Len(elements) : elements[i] /\ i < Len(elements)}
<1>0. Len(elements) \in Nat
  OBVIOUS
<1>1. CASE stops = {}
  BY <1>0, <1>1 DEF Mfc!LastMoved
<1>2. CASE stops # {}
  <2>1. stops \in SUBSET Nat
    BY <1>0
  <2>2. Mfc!LastMoved(elements, n) = CHOOSE i \in stops : \A j \in stops : i <= j
    BY <1>2 DEF Mfc!LastMoved
  <2>3. Mfc!LastMoved(elements, n) \in stops
    <3> HIDE DEF stops
    <3> QED BY <1>2, <2>1, <2>2, LeastExists
  <2> QED BY <2>3
<1> QED BY <1>1, <1>2

\* Elements that are moved one after the other.
Moves(c, n, last) == [i \in 1 .. last - n + 1 |-> <<c, n + i - 1>>]

LEMMA Extends ==
  ASSUME NEW s \in Seq(Nat \X Nat), NEW c \in Nat, NEW n \in Nat \ {0}, NEW last \in Nat, n <= last,
         NEW x, x = s \o Moves(c, n, last)
  PROVE  /\ x \in Seq(Nat \X Nat) /\ Len(x) = Len(s) + (last - n + 1)
         /\ \A i \in 1..Len(s) : x[i] = s[i]
         /\ \A i \in 1 .. last - n + 1 : x[Len(s) + i] = <<c, n + i - 1>>
<1> DEFINE k == last - n + 1
           r == [i \in 1..k |-> <<c, n + i - 1>>]
<1>1. k \in Nat /\ Len(s) \in Nat
  OBVIOUS
<1>2. \A i \in 1..k : <<c, n + i - 1>> \in Nat \X Nat
  <2> TAKE i \in 1..k
  <2>1. n + i - 1 \in Nat
    OBVIOUS
  <2> QED BY <2>1
<1>3. r \in Seq(Nat \X Nat) /\ Len(r) = k /\ \A i \in 1..k : r[i] = <<c, n + i - 1>>
  <2>1. r \in [1..k -> Nat \X Nat]
    BY <1>2
  <2>2. r \in Seq(Nat \X Nat)
    <3> HIDE DEF r, k
    <3> QED BY <1>1, <2>1
  <2>3. Len(r) = k
    <3>1. DOMAIN r = 1..k
      OBVIOUS
    <3> HIDE DEF r, k
    <3> QED BY <1>1, <2>2, <3>1, LenProperties
  <2> QED BY <2>2, <2>3
<1>4. x = s \o r
  BY DEF Moves
<1> HIDE DEF r
<1>5. x \in Seq(Nat \X Nat) /\ Len(x) = Len(s) + k
  <2>1. s \o r \in Seq(Nat \X Nat) /\ Len(s \o r) = Len(s) + Len(r)
    BY <1>3, ConcatProperties
  <2> QED BY <1>3, <1>4, <2>1
<1>6. \A i \in 1..Len(s) : x[i] = s[i]
  BY <1>1, <1>3, <1>4
<1>7. \A i \in 1..k : x[Len(s) + i] = r[i]
  <2> TAKE i \in 1..k
  <2>1. Len(s) + i \in 1 .. Len(s) + Len(r) /\ Len(s) + i > Len(s) /\ (Len(s) + i) - Len(s) = i
    BY <1>1, <1>3
  <2> HIDE DEF k
  <2> QED BY <1>3, <1>4, <2>1
<1> QED BY <1>3, <1>5, <1>6, <1>7

LEMMA TransferFields ==
  ASSUME NEW e, EngineTypes(e, cmds'), NEW c \in 1..Len(cmds'), NEW n \in 1..Size(cmds', c)
  PROVE  \E last \in n..Size(cmds', c) : Transferred(Mfc!Transfer(e, c, n), e, cmds', c, n, last)
<1> DEFINE C == cmds'
           t == C[c].tag
           elements == C[c].elements
           last == Mfc!LastMoved(elements, n)
           x == e.moved[t] \o [i \in 1 .. last - n + 1 |-> <<c, n + i - 1>>]
           after == [e EXCEPT !.moved[t] = x]
           a == Mfc!Transfer(e, c, n)
<1>1. C[c] \in Command /\ e \in EngineRec /\ c \in Nat
  BY DEF EngineTypes
<1>2. t \in Tags /\ elements \in Seq(BOOLEAN) /\ Len(elements) = Size(C, c) /\ e.moved[t] \in Seq(Nat \X Nat)
  BY <1>1 DEF Command, EngineRec, Size
<1>3. last \in n..Len(elements) /\ n \in 1..Len(elements)
  BY <1>2, LastIsIn DEF Size
<1>4. last \in Nat /\ n \in Nat \ {0} /\ n <= last
  BY <1>2, <1>3
<1>5. a = IF last < Len(elements) THEN [after EXCEPT !.stall[t] = [cmd |-> c, next |-> last + 1]]
          ELSE Mfc!TagFinish(after, t)
  BY DEF Mfc!Transfer, Mfc!NextElement
<1> HIDE DEF C, elements, last, a
<1>6. /\ x \in Seq(Nat \X Nat) /\ Len(x) = Len(e.moved[t]) + (last - n + 1)
      /\ \A i \in 1..Len(e.moved[t]) : x[i] = e.moved[t][i]
      /\ \A i \in 1 .. last - n + 1 : x[Len(e.moved[t]) + i] = <<c, n + i - 1>>
  <2>1. x = e.moved[t] \o Moves(c, n, last)
    BY DEF Moves
  <2>2. e.moved[t] \in Seq(Nat \X Nat) /\ c \in Nat
    BY <1>1, <1>2
  <2>3. PICK s : s = e.moved[t]
    OBVIOUS
  <2>4. PICK l : l = last
    OBVIOUS
  <2>5. PICK y : y = x
    OBVIOUS
  <2> HIDE DEF t, x
  <2>6. s \in Seq(Nat \X Nat) /\ c \in Nat /\ n \in Nat \ {0} /\ l \in Nat /\ n <= l /\ y = s \o Moves(c, n, l)
    BY <1>4, <2>1, <2>2, <2>3, <2>4, <2>5
  <2>7. /\ y \in Seq(Nat \X Nat) /\ Len(y) = Len(s) + (l - n + 1)
        /\ \A i \in 1..Len(s) : y[i] = s[i]
        /\ \A i \in 1 .. l - n + 1 : y[Len(s) + i] = <<c, n + i - 1>>
    <3> DEFINE Good(ss, cc, nn, ll, xx) ==
           /\ xx \in Seq(Nat \X Nat) /\ Len(xx) = Len(ss) + (ll - nn + 1)
           /\ \A i \in 1..Len(ss) : xx[i] = ss[i]
           /\ \A i \in 1 .. ll - nn + 1 : xx[Len(ss) + i] = <<cc, nn + i - 1>>
    <3>1. \A ss \in Seq(Nat \X Nat), cc \in Nat, nn \in Nat \ {0}, ll \in Nat :
             nn <= ll => \A xx : xx = ss \o Moves(cc, nn, ll) => Good(ss, cc, nn, ll, xx)
      BY Extends
    <3> HIDE DEF Good
    <3>2. Good(s, c, n, l, y)
      BY ONLY <2>6, <3>1
    <3> QED BY <3>2 DEF Good
  <2> QED BY ONLY <2>3, <2>4, <2>5, <2>7
<1> HIDE DEF x, t
<1>7. /\ after \in EngineRec /\ after.moved = [e.moved EXCEPT ![t] = x]
      /\ after.outstanding = e.outstanding /\ after.queued = e.queued /\ after.completed = e.completed
      /\ after.stall = e.stall /\ after.deferred = e.deferred
  BY <1>1, <1>2, <1>6 DEF EngineRec
<1> HIDE DEF after
<1>8. /\ after.moved[t] = x /\ \A u \in Tags \ {t} : after.moved[u] = e.moved[u]
  BY <1>1, <1>2, <1>7 DEF EngineRec
<1>9. CASE last < Len(elements)
  <2>1. a = [after EXCEPT !.stall[t] = [cmd |-> c, next |-> last + 1]]
    BY <1>5, <1>9
  <2>2. [cmd |-> c, next |-> last + 1] \in [cmd : Nat, next : Nat]
    BY <1>1, <1>4
  <2>3. /\ a \in EngineRec /\ a.stall = [e.stall EXCEPT ![t] = [cmd |-> c, next |-> last + 1]]
        /\ a.moved = after.moved /\ a.deferred = e.deferred /\ a.queued = e.queued
        /\ a.outstanding = e.outstanding /\ a.completed = e.completed
    BY <1>2, <1>7, <2>1, <2>2 DEF EngineRec
  <2>4. last # Size(C, c)
    BY <1>2, <1>3, <1>9
  <2>5. Transferred(a, e, C, c, n, last)
    BY <1>6, <1>8, <2>3, <2>4 DEF Transferred, t
  <2> QED BY <1>2, <1>3, <2>5 DEF a, C
<1>10. CASE ~(last < Len(elements))
  <2>1. a = Mfc!TagFinish(after, t)
    BY <1>5, <1>10
  <2>2. e.outstanding[t] \in Int /\ e.queued \in Int /\ e.completed \subseteq Tags
    BY <1>1, <1>2 DEF EngineRec
  <2>3. /\ a.stall = e.stall /\ a.queued = e.queued - 1
        /\ a.outstanding = [e.outstanding EXCEPT ![t] = e.outstanding[t] - 1]
        /\ a.completed = IF e.outstanding[t] = 1 THEN e.completed \cup {t} ELSE e.completed \ {t}
        /\ a.moved = after.moved /\ a.deferred = e.deferred
    BY <1>2, <1>7, <2>1 DEF EngineRec, Mfc!TagFinish
  <2>4. a \in EngineRec
    <3>1. e.outstanding[t] - 1 \in Int /\ e.queued - 1 \in Int
      BY <2>2
    <3>2. [after.outstanding EXCEPT ![t] = after.outstanding[t] - 1] \in [Tags -> Int]
      BY <1>2, <1>7, <3>1 DEF EngineRec
    <3>3. (IF after.outstanding[t] = 1 THEN after.completed \cup {t} ELSE after.completed \ {t}) \in SUBSET Tags
      BY <1>2, <1>7, <2>2
    <3>4. a = [after EXCEPT !.outstanding = [after.outstanding EXCEPT ![t] = after.outstanding[t] - 1],
                            !.queued = after.queued - 1,
                            !.completed = IF after.outstanding[t] = 1 THEN after.completed \cup {t}
                                          ELSE after.completed \ {t}]
      BY <2>1 DEF Mfc!TagFinish
    <3> QED BY <1>7, <3>1, <3>2, <3>3, <3>4 DEF EngineRec
  <2>5. ~(last < Size(C, c))
    BY <1>2, <1>10
  <2>6. Transferred(a, e, C, c, n, last)
    BY <1>6, <1>8, <2>3, <2>4, <2>5 DEF Transferred, t
  <2> QED BY <1>2, <1>3, <2>6 DEF a, C
<1> QED BY <1>9, <1>10

\* The command in the hand may be moved: nothing older waits, and a list that is stalled is
\* overtaken by a single element without fence only.
MayMove(e, C, c, n) ==
    /\ c \in 1..Len(C) /\ n \in 1..Size(C, c)
    /\ C[c].tag \in Mfc!Stalled(e) => Size(C, c) = 1 /\ ~C[c].fence
    /\ \A w \in Waits(e) : C[w].tag = C[c].tag => c < w

Carries(a, e, C, c, n, last, X) ==
    /\ EngineInv(e, C, {c}, n, X) /\ MayMove(e, C, c, n)
    /\ last \in n..Size(C, c) /\ Transferred(a, e, C, c, n, last)

Carried(a, e, C, c, n, last, u, i) ==
    \/ /\ i \in 1..Len(e.moved[u]) /\ a.moved[u][i] = e.moved[u][i]
    \/ /\ u = C[c].tag /\ i > Len(e.moved[u]) /\ i - Len(e.moved[u]) \in 1..last - n + 1
       /\ a.moved[u][i] = <<c, n + (i - Len(e.moved[u])) - 1>>

LEMMA TransferMoves ==
  ASSUME NEW a, NEW e, NEW C, NEW c, NEW n, NEW last, NEW X, Carries(a, e, C, c, n, last, X),
         NEW u \in Tags, NEW i \in 1..Len(a.moved[u])
  PROVE  Carried(a, e, C, c, n, last, u, i)
<1> SUFFICES \/ /\ i \in 1..Len(e.moved[u]) /\ a.moved[u][i] = e.moved[u][i]
             \/ /\ u = C[c].tag /\ i > Len(e.moved[u]) /\ i - Len(e.moved[u]) \in 1..last - n + 1
                /\ a.moved[u][i] = <<c, n + (i - Len(e.moved[u])) - 1>>
  BY DEF Carried
<1>1. C \in Seq(Command) /\ c \in 1..Len(C) /\ e \in EngineRec /\ n \in Nat /\ last \in Nat /\ n <= last
  <2>1. C \in Seq(Command) /\ e \in EngineRec /\ c \in 1..Len(C) /\ n \in 1..Size(C, c)
    BY DEF Carries, EngineInv, EngineTypes, MayMove
  <2>2. last \in n..Size(C, c)
    BY DEF Carries
  <2>3. Size(C, c) \in Nat
    BY <2>1, CommandOf
  <2> QED BY <2>1, <2>2, <2>3
<1>2. C[c].tag \in Tags
  BY <1>1, CommandOf
<1>3. CASE u # C[c].tag
  <2>1. a.moved[u] = e.moved[u]
    BY <1>3 DEF Carries, Transferred
  <2> QED BY <2>1
<1>4. CASE u = C[c].tag
  <2> DEFINE L == Len(e.moved[u])
  <2>1. e.moved[u] \in Seq(Nat \X Nat)
    BY <1>1 DEF EngineRec
  <2>2. L \in Nat
    BY <2>1
  <2>3. /\ Len(a.moved[u]) = L + (last - n + 1)
        /\ \A k \in 1..L : a.moved[u][k] = e.moved[u][k]
        /\ \A k \in 1 .. last - n + 1 : a.moved[u][L + k] = <<c, n + k - 1>>
    BY <1>4 DEF Carries, Transferred
  <2> HIDE DEF L
  <2>4. CASE i <= L
    <3>1. i \in 1..L
      BY <1>1, <2>2, <2>3, <2>4
    <3> QED BY <2>3, <3>1 DEF L
  <2>5. CASE ~(i <= L)
    <3>1. i > L /\ i - L \in 1..last - n + 1 /\ L + (i - L) = i
      BY <1>1, <2>2, <2>3, <2>5
    <3>2. a.moved[u][L + (i - L)] = <<c, n + (i - L) - 1>>
      BY <2>3, <3>1
    <3> QED BY <1>4, <3>1, <3>2 DEF L
  <2> QED BY <2>4, <2>5
<1> QED BY <1>3, <1>4

\* The commands that are open after a transfer.
Reopened(a, e, C, c, last) ==
    /\ Waits(a) = Waits(e) /\ c \in Nat /\ c \notin Waits(e) /\ c \notin Halts(e)
    /\ \A u \in Tags \ {C[c].tag} : a.stall[u] = e.stall[u]
    /\ last < Size(C, c) => /\ Mfc!Stalled(a) = Mfc!Stalled(e) \cup {C[c].tag} /\ C[c].tag \notin Mfc!Stalled(e)
                            /\ Halts(a) = Halts(e) \cup {c}
                            /\ a.stall[C[c].tag] = [cmd |-> c, next |-> last + 1]
                            /\ Unfinished(a, {}) = Unfinished(e, {c})
    /\ last = Size(C, c) => /\ Mfc!Stalled(a) = Mfc!Stalled(e) /\ Halts(a) = Halts(e) /\ a.stall = e.stall
                            /\ Unfinished(a, {}) = Unfinished(e, {c}) \ {c}

LEMMA TransferOpen ==
  ASSUME NEW a, NEW e, NEW C, NEW c, NEW n, NEW last, NEW X, Carries(a, e, C, c, n, last, X)
  PROVE  Reopened(a, e, C, c, last)
<1> DEFINE t == C[c].tag
<1>1. C \in Seq(Command) /\ c \in 1..Len(C) /\ e \in EngineRec /\ n \in 1..Size(C, c) /\ last \in n..Size(C, c)
  BY DEF Carries, EngineInv, EngineTypes, MayMove
<1>2. t \in Tags /\ C[c].elements \in Seq(BOOLEAN) /\ c \in Nat
  BY <1>1, CommandOf
<1>3. Size(C, c) \in Nat
  BY <1>1, CommandOf
<1>4. c \notin Waits(e) /\ c \notin Halts(e)
  BY DEF Carries, EngineInv, Placed
<1>5. Waits(a) = Waits(e)
  <2>1. a.deferred = e.deferred
    BY DEF Carries, Transferred
  <2> QED BY <2>1 DEF Waits
<1>6. CASE last < Size(C, c)
  <2>1. a.stall = [e.stall EXCEPT ![t] = [cmd |-> c, next |-> last + 1]]
    BY <1>6 DEF Carries, Transferred
  <2>2. Size(C, c) # 1
    BY <1>1, <1>3, <1>6
  <2>3. t \notin Mfc!Stalled(e)
    BY <2>2 DEF Carries, MayMove
  <2>4. DOMAIN e.stall = Tags
    BY <1>1 DEF EngineRec
  <2>5. a.stall[t] = [cmd |-> c, next |-> last + 1] /\ \A u \in Tags \ {t} : a.stall[u] = e.stall[u]
    BY <1>2, <2>1, <2>4
  <2>6. a.stall[t] # Mfc!NoStall
    <3>1. a.stall[t].cmd # Mfc!NoStall.cmd
      BY <1>1, <1>2, <2>5 DEF Mfc!NoStall
    <3> QED BY <3>1
  <2>7. Mfc!Stalled(a) = Mfc!Stalled(e) \cup {t}
    BY <1>2, <2>5, <2>6 DEF Mfc!Stalled
  <2>8. Halts(a) = Halts(e) \cup {c}
    <3>1. \A u \in Mfc!Stalled(e) : a.stall[u] = e.stall[u]
      BY <2>3, <2>5 DEF Mfc!Stalled
    <3>2. a.stall[t].cmd = c
      BY <2>5
    <3> HIDE DEF t
    <3> QED BY <2>7, <3>1, <3>2 DEF Halts
  <2>9. Unfinished(a, {}) = Unfinished(e, {c})
    BY <1>5, <2>8 DEF Unfinished
  <2>10. last # Size(C, c)
    BY <1>3, <1>6
  <2> QED BY <1>2, <1>4, <1>5, <2>3, <2>5, <2>7, <2>8, <2>9, <2>10 DEF Reopened
<1>7. CASE last = Size(C, c)
  <2>1. a.stall = e.stall
    BY <1>7 DEF Carries, Transferred
  <2>2. Mfc!Stalled(a) = Mfc!Stalled(e)
    BY <2>1 DEF Mfc!Stalled
  <2>3. Halts(a) = Halts(e)
    BY <2>1, <2>2 DEF Halts
  <2>4. Unfinished(a, {}) = Unfinished(e, {c}) \ {c}
    BY <1>4, <1>5, <2>3 DEF Unfinished
  <2>5. ~(last < Size(C, c))
    BY <1>3, <1>7
  <2> QED BY <1>2, <1>4, <1>5, <2>1, <2>2, <2>3, <2>4, <2>5 DEF Reopened
<1>8. last < Size(C, c) \/ last = Size(C, c)
  BY <1>1, <1>3 DEF Carries
<1> QED BY <1>6, <1>7, <1>8

LEMMA TransferTypes ==
  ASSUME NEW a, NEW e, NEW C, NEW c, NEW n, NEW last, NEW X, Carries(a, e, C, c, n, last, X)
  PROVE  EngineTypes(a, C)
<1>1. /\ C \in Seq(Command) /\ c \in 1..Len(C) /\ n \in 1..Size(C, c) /\ a \in EngineRec /\ last \in n..Size(C, c)
      /\ EngineTypes(e, C)
  BY DEF Carries, EngineInv, EngineTypes, MayMove, Transferred
<1>2. Size(C, c) \in Nat
  BY <1>1, CommandOf
<1>3. ASSUME NEW u \in Tags, NEW i \in 1..Len(a.moved[u])
      PROVE  /\ Cmd(a, u, i) \in 1..Len(C) /\ C[Cmd(a, u, i)].tag = u
             /\ Elt(a, u, i) \in 1..Size(C, Cmd(a, u, i))
  <2>1. CASE i \in 1..Len(e.moved[u]) /\ a.moved[u][i] = e.moved[u][i]
    <3>1. Cmd(a, u, i) = Cmd(e, u, i) /\ Elt(a, u, i) = Elt(e, u, i)
      BY <2>1 DEF Cmd, Elt
    <3>2. /\ Cmd(e, u, i) \in 1..Len(C) /\ C[Cmd(e, u, i)].tag = u
          /\ Elt(e, u, i) \in 1..Size(C, Cmd(e, u, i))
      BY <1>1, <2>1 DEF EngineTypes
    <3> QED BY <3>1, <3>2
  <2>2. CASE /\ u = C[c].tag /\ i > Len(e.moved[u]) /\ i - Len(e.moved[u]) \in 1..last - n + 1
             /\ a.moved[u][i] = <<c, n + (i - Len(e.moved[u])) - 1>>
    <3>1. Cmd(a, u, i) = c /\ Elt(a, u, i) = n + (i - Len(e.moved[u])) - 1
      BY <2>2 DEF Cmd, Elt
    <3>2. PICK k : k = i - Len(e.moved[u])
      OBVIOUS
    <3>3. k \in 1..last - n + 1
      BY <2>2, <3>2
    <3>4. n + k - 1 \in 1..Size(C, c)
      BY <1>1, <1>2, <3>3
    <3> QED BY <1>1, <2>2, <3>1, <3>2, <3>4
  <2>3. \/ /\ i \in 1..Len(e.moved[u]) /\ a.moved[u][i] = e.moved[u][i]
        \/ /\ u = C[c].tag /\ i > Len(e.moved[u]) /\ i - Len(e.moved[u]) \in 1..last - n + 1
           /\ a.moved[u][i] = <<c, n + (i - Len(e.moved[u])) - 1>>
    <3>1. Carried(a, e, C, c, n, last, u, i)
      BY TransferMoves
    <3> QED BY <3>1 DEF Carried
  <2> QED BY <2>1, <2>2, <2>3
<1> QED BY <1>1, <1>3 DEF EngineTypes

LEMMA TransferPlaced ==
  ASSUME NEW a, NEW e, NEW C, NEW c, NEW n, NEW last, NEW X, Carries(a, e, C, c, n, last, X)
  PROVE  Placed(a, C, {}) /\ BehindLists(a, C, X)
<1>0. Reopened(a, e, C, c, last)
  BY TransferOpen
<1>1. /\ C \in Seq(Command) /\ c \in 1..Len(C) /\ n \in 1..Size(C, c) /\ last \in n..Size(C, c)
      /\ Placed(e, C, {c}) /\ BehindLists(e, C, X) /\ a.deferred = e.deferred
  BY DEF Carries, EngineInv, EngineTypes, MayMove, Transferred
<1>2. Size(C, c) \in Nat /\ c \in Nat
  BY <1>1, CommandOf
<1>3. /\ Waits(a) = Waits(e) /\ Waits(e) \subseteq 1..Len(C) /\ c \notin Waits(e)
      /\ \A w \in Waits(e) : C[w].tag = C[c].tag => c < w
  <2>2. \A w \in Waits(e) : C[w].tag = C[c].tag => c < w
    BY DEF Carries, MayMove
  <2> QED BY <1>0, <1>1, <2>2 DEF Placed, Reopened
<1>4. CASE last < Size(C, c)
  <2>1. /\ Mfc!Stalled(a) = Mfc!Stalled(e) \cup {C[c].tag} /\ C[c].tag \notin Mfc!Stalled(e) /\ Halts(a) = Halts(e) \cup {c}
        /\ a.stall[C[c].tag] = [cmd |-> c, next |-> last + 1]
        /\ \A u \in Tags \ {C[c].tag} : a.stall[u] = e.stall[u]
    BY <1>0, <1>4 DEF Reopened
  <2>2. last + 1 \in 2..Size(C, c)
    BY <1>1, <1>2, <1>4
  <2>3. a.stall[C[c].tag].cmd = c /\ a.stall[C[c].tag].next = last + 1
    BY <2>1
  <2>4. \A u \in Mfc!Stalled(e) : a.stall[u] = e.stall[u]
    BY <2>1 DEF Mfc!Stalled
  <2>5. ASSUME NEW u \in Mfc!Stalled(a)
        PROVE  a.stall[u].cmd \in 1..Len(C) /\ C[a.stall[u].cmd].tag = u /\ a.stall[u].next \in 2..Size(C, a.stall[u].cmd)
    <3>1. CASE u = C[c].tag
      BY <1>1, <2>2, <2>3, <3>1
    <3>2. CASE u \in Mfc!Stalled(e)
      BY <1>1, <2>4, <3>2 DEF Placed
    <3> QED BY <2>1, <3>1, <3>2
  <2>6. Placed(a, C, {})
    BY <1>1, <1>3, <2>1, <2>5 DEF Placed
  <2>7. BehindLists(a, C, X)
    <3> SUFFICES ASSUME NEW w \in Waits(a)
                 PROVE  /\ C[w].tag \in Mfc!Stalled(a) => a.stall[C[w].tag].cmd < w
                        /\ C[w].tag \in Mfc!Stalled(a) \cup X
      BY DEF BehindLists
    <3>1. CASE C[w].tag = C[c].tag
      BY <1>3, <2>1, <2>3, <3>1
    <3>2. CASE C[w].tag # C[c].tag
      BY <1>1, <1>3, <2>1, <2>4, <3>2 DEF BehindLists
    <3> QED BY <3>1, <3>2
  <2> QED BY <2>6, <2>7
<1>5. CASE last = Size(C, c)
  <2>1. Mfc!Stalled(a) = Mfc!Stalled(e) /\ Halts(a) = Halts(e) /\ a.stall = e.stall
    BY <1>0, <1>5 DEF Reopened
  <2>2. Placed(a, C, {})
    BY <1>1, <1>3, <2>1 DEF Placed
  <2>3. BehindLists(a, C, X)
    BY <1>1, <1>3, <2>1 DEF BehindLists
  <2> QED BY <2>2, <2>3
<1> QED BY <1>1, <1>2, <1>4, <1>5

\* What was moved before stays where it was, and the elements follow.
Added(a, e, C, c, n, last) ==
    /\ \A u \in Tags : \A i \in 1..Len(e.moved[u]) :
          i \in 1..Len(a.moved[u]) /\ a.moved[u][i] = e.moved[u][i]
    /\ \A m \in n..last : \E i \in 1..Len(a.moved[C[c].tag]) : a.moved[C[c].tag][i] = <<c, m>>

LEMMA TransferAdds ==
  ASSUME NEW a, NEW e, NEW C, NEW c, NEW n, NEW last, NEW X, Carries(a, e, C, c, n, last, X)
  PROVE  Added(a, e, C, c, n, last)
<1> DEFINE t == C[c].tag
           L == Len(e.moved[t])
<1>1. /\ C \in Seq(Command) /\ c \in 1..Len(C) /\ e \in EngineRec /\ n \in 1..Size(C, c) /\ last \in n..Size(C, c)
      /\ Transferred(a, e, C, c, n, last)
  BY DEF Carries, EngineInv, EngineTypes, MayMove
<1>2. t \in Tags /\ Size(C, c) \in Nat /\ n \in Nat /\ last \in Nat /\ n <= last
  <2>1. t \in Tags /\ Size(C, c) \in Nat
    BY <1>1, CommandOf
  <2> QED BY <1>1, <2>1
<1>3. L \in Nat
  <2>1. e.moved[t] \in Seq(Nat \X Nat)
    BY <1>1, <1>2 DEF EngineRec
  <2> QED BY <2>1
<1>4. /\ \A u \in Tags \ {t} : a.moved[u] = e.moved[u]
      /\ Len(a.moved[t]) = L + (last - n + 1)
      /\ \A i \in 1..L : a.moved[t][i] = e.moved[t][i]
      /\ \A i \in 1 .. last - n + 1 : a.moved[t][L + i] = <<c, n + i - 1>>
  BY <1>1 DEF Transferred
<1>5. ASSUME NEW u \in Tags, NEW i \in 1..Len(e.moved[u])
      PROVE  i \in 1..Len(a.moved[u]) /\ a.moved[u][i] = e.moved[u][i]
  <2>1. CASE u = t
    <3>1. i \in 1..L
      BY <2>1
    <3> HIDE DEF L
    <3>2. i \in 1..L + (last - n + 1)
      BY <1>2, <1>3, <3>1
    <3> QED BY <1>4, <2>1, <3>1, <3>2
  <2>2. CASE u # t
    BY <1>4, <2>2
  <2> QED BY <2>1, <2>2
<1>6. ASSUME NEW m \in n..last
      PROVE  \E i \in 1..Len(a.moved[t]) : a.moved[t][i] = <<c, m>>
  <2> HIDE DEF L
  <2>1. m - n + 1 \in 1..last - n + 1 /\ L + (m - n + 1) \in 1..Len(a.moved[t]) /\ n + (m - n + 1) - 1 = m
    BY <1>2, <1>3, <1>4
  <2>2. a.moved[t][L + (m - n + 1)] = <<c, n + (m - n + 1) - 1>>
    BY <1>4, <2>1
  <2> QED BY <2>1, <2>2
<1> QED BY <1>5, <1>6 DEF Added

LEMMA TransferParted ==
  ASSUME NEW a, NEW e, NEW C, NEW c, NEW n, NEW last, NEW X, Carries(a, e, C, c, n, last, X)
  PROVE  Parted(a, C, {}, 0)
<1> DEFINE Moved1(f, u, d, m) == \E i \in 1..Len(f.moved[u]) : f.moved[u][i] = <<d, m>>
<1>0. Reopened(a, e, C, c, last)
  BY TransferOpen
<1>8. Added(a, e, C, c, n, last)
  BY TransferAdds
<1>1. /\ C \in Seq(Command) /\ c \in 1..Len(C) /\ e \in EngineRec /\ n \in 1..Size(C, c) /\ last \in n..Size(C, c)
      /\ Parted(e, C, {c}, n) /\ Placed(e, C, {c})
  BY DEF Carries, EngineInv, EngineTypes, MayMove
<1>2. C[c].tag \in Tags /\ Size(C, c) \in Nat /\ c \in Nat /\ n \in Nat /\ last \in Nat /\ n <= last /\ 1 <= n
  <2>1. C[c].tag \in Tags /\ Size(C, c) \in Nat /\ c \in Nat
    BY <1>1, CommandOf
  <2> QED BY <1>1, <2>1
<1>3. ASSUME NEW u \in Tags, NEW d, NEW m, Moved1(e, u, d, m) PROVE Moved1(a, u, d, m)
  <2>1. \A i \in 1..Len(e.moved[u]) : i \in 1..Len(a.moved[u]) /\ a.moved[u][i] = e.moved[u][i]
    BY <1>8 DEF Added
  <2> QED BY <1>3, <2>1
<1>4. ASSUME NEW u \in Tags, NEW d, NEW m, Moved1(a, u, d, m)
      PROVE  Moved1(e, u, d, m) \/ (d = c /\ m \in n..last)
  <2>1. PICK i \in 1..Len(a.moved[u]) : a.moved[u][i] = <<d, m>>
    BY <1>4
  <2>2. \/ /\ i \in 1..Len(e.moved[u]) /\ a.moved[u][i] = e.moved[u][i]
        \/ /\ u = C[c].tag /\ i > Len(e.moved[u]) /\ i - Len(e.moved[u]) \in 1..last - n + 1
           /\ a.moved[u][i] = <<c, n + (i - Len(e.moved[u])) - 1>>
    <3>1. Carried(a, e, C, c, n, last, u, i)
      BY TransferMoves
    <3> QED BY <3>1 DEF Carried
  <2>3. CASE i \in 1..Len(e.moved[u]) /\ a.moved[u][i] = e.moved[u][i]
    BY <2>1, <2>3
  <2>4. CASE i - Len(e.moved[u]) \in 1..last - n + 1 /\ a.moved[u][i] = <<c, n + (i - Len(e.moved[u])) - 1>>
    <3>1. PICK k : k = i - Len(e.moved[u])
      OBVIOUS
    <3>2. k \in 1..last - n + 1 /\ d = c /\ m = n + k - 1
      BY <2>1, <2>4, <3>1
    <3> QED BY <1>2, <3>2
  <2> QED BY <2>2, <2>3, <2>4
<1>5. \A d \in 1..Len(C) : \A f : Part(f, C, d) = {m \in Nat : Moved1(f, C[d].tag, d, m)}
  BY DEF Part
<1>6. \A m \in n..last : Moved1(a, C[c].tag, c, m)
  <2>1. \A m \in n..last : \E i \in 1..Len(a.moved[C[c].tag]) : a.moved[C[c].tag][i] = <<c, m>>
    BY <1>8 DEF Added
  <2> QED BY <2>1
<1> HIDE DEF Moved1
<1>7. ASSUME NEW d \in 1..Len(C) PROVE Part(a, C, d) = 1 .. Progress(a, C, {}, 0, d)
  <2>1. C[d].tag \in Tags /\ d \in Nat
    BY <1>1, CommandOf
  <2>2. Part(e, C, d) = 1 .. Progress(e, C, {c}, n, d)
    BY <1>1 DEF Parted
  <2>3. CASE d = c
    <3>1. Part(e, C, c) = 1..n - 1
      BY <2>2, <2>3 DEF Progress
    <3>2. Part(a, C, c) = Part(e, C, c) \cup n..last
      BY <1>2, <1>3, <1>4, <1>5, <1>6, <2>1, <2>3
    <3>3. Part(a, C, c) = 1..last
      BY <1>2, <3>1, <3>2
    <3>4. c \notin Waits(a)
      BY <1>0 DEF Reopened
    <3>5. Progress(a, C, {}, 0, c) = last
      <4>1. CASE last < Size(C, c)
        <5>1. c \in Halts(a) /\ a.stall[C[c].tag].next = last + 1
          BY <1>0, <4>1 DEF Reopened
        <5> QED BY <1>2, <3>4, <5>1 DEF Progress
      <4>2. CASE last = Size(C, c)
        <5>1. c \notin Halts(a)
          BY <1>0, <4>2 DEF Reopened
        <5> QED BY <3>4, <4>2, <5>1 DEF Progress
      <4> QED BY <1>1, <1>2, <4>1, <4>2
    <3> QED BY <2>3, <3>3, <3>5
  <2>4. CASE d # c
    <3>1. Part(a, C, d) = Part(e, C, d)
      <4>1. \A m : Moved1(e, C[d].tag, d, m) <=> Moved1(a, C[d].tag, d, m)
        BY <1>3, <1>4, <2>1, <2>4
      <4>2. Part(a, C, d) = {m \in Nat : Moved1(a, C[d].tag, d, m)} /\ Part(e, C, d) = {m \in Nat : Moved1(e, C[d].tag, d, m)}
        BY <1>5
      <4> QED BY <4>1, <4>2
    <3>2. Waits(a) = Waits(e)
      BY <1>0 DEF Reopened
    <3>3. d \in Halts(a) <=> d \in Halts(e)
      BY <1>0, <1>1, <1>2, <2>4 DEF Reopened
    <3>4. d \in Halts(e) => a.stall[C[d].tag] = e.stall[C[d].tag]
      <4> SUFFICES ASSUME d \in Halts(e) PROVE a.stall[C[d].tag] = e.stall[C[d].tag]
        OBVIOUS
      <4>1. C[d].tag \in Mfc!Stalled(e)
        BY <1>1 DEF Halts, Placed
      <4>2. CASE last < Size(C, c)
        BY <1>0, <2>1, <4>1, <4>2 DEF Reopened
      <4>3. CASE last = Size(C, c)
        BY <1>0, <4>3 DEF Reopened
      <4> QED BY <1>1, <1>2, <4>2, <4>3
    <3>5. Progress(a, C, {}, 0, d) = Progress(e, C, {c}, n, d)
      BY <2>4, <3>2, <3>3, <3>4 DEF Progress
    <3> QED BY <2>2, <3>1, <3>5
  <2> QED BY <2>3, <2>4
<1> QED BY <1>7 DEF Parted

\* The i-th on a tag was moved before the transfer, or is the element k of the transfer.
Before(a, e, u, i)          == i \in 1..Len(e.moved[u]) /\ a.moved[u][i] = e.moved[u][i]
Within(a, e, C, c, n, last, u, i) ==
    /\ u = C[c].tag /\ i > Len(e.moved[u]) /\ i - Len(e.moved[u]) \in 1..last - n + 1
    /\ Cmd(a, u, i) = c /\ Elt(a, u, i) = n + (i - Len(e.moved[u])) - 1

LEMMA TransferSplits ==
  ASSUME NEW a, NEW e, NEW C, NEW c, NEW n, NEW last, NEW X, Carries(a, e, C, c, n, last, X)
  PROVE  \A u \in Tags : \A i \in 1..Len(a.moved[u]) :
            Before(a, e, u, i) \/ Within(a, e, C, c, n, last, u, i)
<1> TAKE u \in Tags
<1> TAKE i \in 1..Len(a.moved[u])
<1>1. \/ /\ i \in 1..Len(e.moved[u]) /\ a.moved[u][i] = e.moved[u][i]
      \/ /\ u = C[c].tag /\ i > Len(e.moved[u]) /\ i - Len(e.moved[u]) \in 1..last - n + 1
         /\ a.moved[u][i] = <<c, n + (i - Len(e.moved[u])) - 1>>
  <2>1. Carried(a, e, C, c, n, last, u, i)
    BY TransferMoves
  <2> QED BY <2>1 DEF Carried
<1>2. CASE i \in 1..Len(e.moved[u]) /\ a.moved[u][i] = e.moved[u][i]
  BY <1>2 DEF Before
<1>3. CASE /\ u = C[c].tag /\ i > Len(e.moved[u]) /\ i - Len(e.moved[u]) \in 1..last - n + 1
           /\ a.moved[u][i] = <<c, n + (i - Len(e.moved[u])) - 1>>
  <2>1. Cmd(a, u, i) = c /\ Elt(a, u, i) = n + (i - Len(e.moved[u])) - 1
    BY <1>3 DEF Cmd, Elt
  <2> QED BY <1>3, <2>1 DEF Within
<1> QED BY <1>1, <1>2, <1>3

LEMMA TransferOrdered ==
  ASSUME NEW a, NEW e, NEW C, NEW c, NEW n, NEW last, NEW X, Carries(a, e, C, c, n, last, X)
  PROVE  Ordered(a)
<1>1. /\ C \in Seq(Command) /\ c \in 1..Len(C) /\ e \in EngineRec /\ n \in 1..Size(C, c) /\ last \in n..Size(C, c)
      /\ Parted(e, C, {c}, n) /\ Ordered(e) /\ EngineTypes(e, C)
  BY DEF Carries, EngineInv, EngineTypes, MayMove
<1>2. n \in Nat /\ last \in Nat
  <2>1. Size(C, c) \in Nat
    BY <1>1, CommandOf
  <2> QED BY <1>1, <2>1
<1>3. Part(e, C, c) = 1..n - 1
  BY <1>1 DEF Parted, Progress
<1>4. SUFFICES ASSUME NEW u \in Tags, NEW i \in 1..Len(a.moved[u]), NEW j \in 1..Len(a.moved[u]),
                      i < j, Cmd(a, u, i) = Cmd(a, u, j)
               PROVE  Elt(a, u, i) < Elt(a, u, j)
  BY DEF Ordered
<1>5. (Before(a, e, u, i) \/ Within(a, e, C, c, n, last, u, i)) /\ (Before(a, e, u, j) \/ Within(a, e, C, c, n, last, u, j))
  BY TransferSplits
<1>6. Len(e.moved[u]) \in Nat /\ i \in Nat /\ j \in Nat
  <2>1. e.moved[u] \in Seq(Nat \X Nat)
    BY <1>1 DEF EngineRec
  <2> QED BY <2>1
<1>7. CASE Before(a, e, u, j)
  <2>1. Before(a, e, u, i)
    BY <1>4, <1>5, <1>6, <1>7 DEF Before, Within
  <2>2. /\ i \in 1..Len(e.moved[u]) /\ j \in 1..Len(e.moved[u])
        /\ Cmd(a, u, i) = Cmd(e, u, i) /\ Cmd(a, u, j) = Cmd(e, u, j)
        /\ Elt(a, u, i) = Elt(e, u, i) /\ Elt(a, u, j) = Elt(e, u, j)
    BY <1>7, <2>1 DEF Before, Cmd, Elt
  <2> QED BY <1>1, <1>4, <2>2 DEF Ordered
<1>8. CASE Before(a, e, u, i) /\ Within(a, e, C, c, n, last, u, j)
  <2>1. u = C[c].tag /\ Cmd(e, u, i) = c /\ i \in 1..Len(e.moved[u]) /\ Elt(a, u, i) = Elt(e, u, i)
    BY <1>4, <1>8 DEF Before, Within, Cmd, Elt
  <2>2. e.moved[u][i] = <<c, Elt(e, u, i)>> /\ Elt(e, u, i) \in Nat
    <3>1. e.moved[u] \in Seq(Nat \X Nat)
      BY <1>1 DEF EngineRec
    <3>2. e.moved[u][i] \in Nat \X Nat
      BY <2>1, <3>1
    <3> QED BY <2>1, <3>2 DEF Cmd, Elt
  <2>3. Elt(e, u, i) \in Part(e, C, c)
    BY <2>1, <2>2 DEF Part
  <2>4. Elt(e, u, i) < n
    BY <1>2, <1>3, <2>3
  <2>5. PICK k : k = j - Len(e.moved[u])
    OBVIOUS
  <2>6. k \in 1..last - n + 1 /\ Elt(a, u, j) = n + k - 1
    BY <1>8, <2>5 DEF Within
  <2> QED BY <1>2, <2>1, <2>2, <2>4, <2>6
<1>9. CASE Within(a, e, C, c, n, last, u, i) /\ Within(a, e, C, c, n, last, u, j)
  <2>1. PICK k : k = i - Len(e.moved[u])
    OBVIOUS
  <2>2. PICK l : l = j - Len(e.moved[u])
    OBVIOUS
  <2>3. k \in Int /\ l \in Int /\ k < l
    BY <1>4, <1>6, <2>1, <2>2
  <2>4. Elt(a, u, i) = n + k - 1 /\ Elt(a, u, j) = n + l - 1
    BY <1>9, <2>1, <2>2 DEF Within
  <2> QED BY <1>2, <2>3, <2>4
<1> QED BY <1>5, <1>7, <1>8, <1>9

LEMMA TransferFenced ==
  ASSUME NEW a, NEW e, NEW C, NEW c, NEW n, NEW last, NEW X, Carries(a, e, C, c, n, last, X)
  PROVE  Fenced(a, C, {})
<1>1. /\ C \in Seq(Command) /\ c \in 1..Len(C) /\ e \in EngineRec /\ n \in 1..Size(C, c) /\ last \in n..Size(C, c)
      /\ Parted(e, C, {c}, n) /\ Placed(e, C, {c}) /\ Fenced(e, C, {c}) /\ EngineTypes(e, C) /\ MayMove(e, C, c, n)
  BY DEF Carries, EngineInv, EngineTypes, MayMove
<1>2. Reopened(a, e, C, c, last) /\ Added(a, e, C, c, n, last)
  BY TransferOpen, TransferAdds
<1>3. Unfinished(a, {}) \subseteq Unfinished(e, {c}) /\ c \in Unfinished(e, {c})
  <2>1. last < Size(C, c) \/ last = Size(C, c)
    <3>1. Size(C, c) \in Nat
      BY <1>1, CommandOf
    <3> QED BY <1>1, <3>1
  <2> QED BY <1>2, <2>1 DEF Reopened, Unfinished
<1>4. ASSUME NEW u \in Tags, NEW i \in 1..Len(e.moved[u]), NEW d, Overtakes(e, C, u, i, d)
      PROVE  Overtakes(a, C, u, i, d)
  <2>1. /\ i \in 1..Len(a.moved[u]) /\ a.moved[u][i] = e.moved[u][i]
        /\ \A k \in 1 .. i - 1 : a.moved[u][k] = e.moved[u][k]
    <3>1. e.moved[u] \in Seq(Nat \X Nat)
      BY <1>1 DEF EngineRec
    <3>2. \A k \in 1 .. i - 1 : k \in 1..Len(e.moved[u])
      BY <3>1
    <3> QED BY <1>2, <3>2 DEF Added
  <2> QED BY <1>4, <2>1 DEF Overtakes, Cmd
<1>5. ASSUME NEW u \in Tags, NEW i \in 1..Len(a.moved[u])
      PROVE  /\ i \in Nat /\ Len(e.moved[u]) \in Nat /\ Cmd(a, u, i) \in Nat
             /\ Before(a, e, u, i) \/ Within(a, e, C, c, n, last, u, i)
             /\ Before(a, e, u, i) => Cmd(a, u, i) = Cmd(e, u, i)
             /\ Within(a, e, C, c, n, last, u, i) => Cmd(a, u, i) = c /\ u = C[c].tag
  <2>1. e.moved[u] \in Seq(Nat \X Nat) /\ a.moved[u] \in Seq(Nat \X Nat)
    <3>1. a \in EngineRec
      BY DEF Carries, Transferred
    <3> QED BY <1>1, <3>1 DEF EngineRec
  <2>2. a.moved[u][i] \in Nat \X Nat
    BY <2>1
  <2>3. Before(a, e, u, i) \/ Within(a, e, C, c, n, last, u, i)
    BY TransferSplits
  <2>4. i \in Nat /\ Len(e.moved[u]) \in Nat /\ Cmd(a, u, i) \in Nat
    <3>1. i \in Nat /\ Len(e.moved[u]) \in Nat
      BY <2>1
    <3>2. a.moved[u][i][1] \in Nat
      BY <2>2
    <3> QED BY <3>1, <3>2 DEF Cmd
  <2>5. Before(a, e, u, i) => Cmd(a, u, i) = Cmd(e, u, i)
    BY DEF Before, Cmd
  <2>6. Within(a, e, C, c, n, last, u, i) => Cmd(a, u, i) = c /\ u = C[c].tag
    BY DEF Within
  <2> QED BY <2>3, <2>4, <2>5, <2>6
<1>6. ASSUME NEW u \in Tags, NEW i \in 1..Len(a.moved[u]), NEW j \in 1..Len(a.moved[u]),
             i < j, Cmd(a, u, j) < Cmd(a, u, i)
      PROVE  Overtakes(a, C, u, i, Cmd(a, u, j))
  <2>1. CASE Before(a, e, u, i) /\ Before(a, e, u, j)
    <3>1. i \in 1..Len(e.moved[u]) /\ j \in 1..Len(e.moved[u]) /\ Cmd(a, u, i) = Cmd(e, u, i) /\ Cmd(a, u, j) = Cmd(e, u, j)
      BY <1>5, <2>1 DEF Before
    <3>2. Overtakes(e, C, u, i, Cmd(a, u, j))
      BY <1>1, <1>6, <3>1 DEF Fenced
    <3> QED BY <1>4, <3>1, <3>2
  <2>2. CASE Before(a, e, u, i) /\ Within(a, e, C, c, n, last, u, j)
    <3>1. i \in 1..Len(e.moved[u]) /\ Cmd(a, u, i) = Cmd(e, u, i) /\ Cmd(a, u, j) = c /\ u = C[c].tag
      BY <1>5, <2>2 DEF Before
    <3>2. Overtakes(e, C, u, i, Cmd(a, u, j))
      BY <1>1, <1>3, <1>6, <3>1 DEF Fenced
    <3> QED BY <1>4, <3>1, <3>2
  <2>3. CASE Within(a, e, C, c, n, last, u, i)
    <3>1. Cmd(a, u, i) = c /\ ~Before(a, e, u, j)
      BY <1>5, <1>6, <2>3 DEF Before, Within
    <3>2. Cmd(a, u, j) = c
      BY <1>5, <3>1
    <3> QED BY <1>5, <1>6, <3>1, <3>2
  <2> QED BY <1>5, <2>1, <2>2, <2>3
<1>7. ASSUME NEW u \in Tags, NEW i \in 1..Len(a.moved[u]), NEW d \in Unfinished(a, {}),
             C[d].tag = u, d < Cmd(a, u, i)
      PROVE  Overtakes(a, C, u, i, d)
  <2>1. CASE Before(a, e, u, i)
    <3>1. i \in 1..Len(e.moved[u]) /\ Cmd(a, u, i) = Cmd(e, u, i) /\ d \in Unfinished(e, {c})
      BY <1>3, <1>5, <2>1 DEF Before
    <3>2. Overtakes(e, C, u, i, d)
      BY <1>1, <1>7, <3>1 DEF Fenced
    <3> QED BY <1>4, <3>1, <3>2
  <2>2. CASE Within(a, e, C, c, n, last, u, i)
    <3>1. Cmd(a, u, i) = c /\ u = C[c].tag /\ d \in Unfinished(e, {c}) /\ d < c
      BY <1>3, <1>5, <1>7, <2>2
    <3>2. d # c
      BY <1>1, <1>7, <3>1
    <3>3. d \notin Waits(e)
      <4> SUFFICES ASSUME d \in Waits(e) PROVE FALSE
        OBVIOUS
      <4>1. c < d /\ d \in 1..Len(C) /\ c \in Nat
        BY <1>1, <1>7, <3>1 DEF MayMove, Placed
      <4> QED BY <3>1, <4>1
    <3>4. d \in Halts(e)
      BY <3>1, <3>2, <3>3 DEF Unfinished
    <3>5. u \in Mfc!Stalled(e) /\ e.stall[u].cmd = d /\ d \in 1..Len(C) /\ e.stall[u].next \in 2..Size(C, d)
      BY <1>1, <1>7, <3>4 DEF Halts, Placed
    <3>6. ~C[c].fence
      BY <1>1, <3>1, <3>5 DEF MayMove
    <3>7. Part(e, C, d) = 1..e.stall[u].next - 1
      <4>1. Progress(e, C, {c}, n, d) = e.stall[u].next - 1
        BY <1>7, <3>2, <3>3, <3>4 DEF Progress
      <4> QED BY <1>1, <3>5, <4>1 DEF Parted
    <3>8. 1 \in Part(e, C, d)
      <4>1. Size(C, d) \in Nat
        BY <1>1, <3>5, CommandOf
      <4> QED BY <3>5, <3>7, <4>1
    <3>9. PICK k \in 1..Len(e.moved[u]) : e.moved[u][k] = <<d, 1>>
      BY <1>7, <3>8 DEF Part
    <3>10. Cmd(a, u, k) = d
      BY <1>2, <3>9 DEF Added, Cmd
    <3>11. k \in 1 .. i - 1
      BY <1>5, <2>2, <3>9 DEF Within
    <3> QED BY <3>1, <3>6, <3>10, <3>11 DEF Overtakes
  <2> QED BY <1>5, <2>1, <2>2
<1> QED BY <1>6, <1>7 DEF Fenced

\* The open commands are finitely many.
LEMMA OpenIsFinite ==
  ASSUME NEW e, NEW C \in Seq(Command), NEW H, Placed(e, C, H), NEW t
  PROVE  /\ Unfinished(e, H) \subseteq 1..Len(C) /\ IsFiniteSet(Unfinished(e, H)) /\ Cardinality(Unfinished(e, H)) \in Nat
         /\ OpenOn(e, C, H, t) \subseteq Unfinished(e, H) /\ IsFiniteSet(OpenOn(e, C, H, t))
         /\ Cardinality(OpenOn(e, C, H, t)) \in Nat /\ Cardinality(OpenOn(e, C, H, t)) <= Cardinality(Unfinished(e, H))
<1>1. Unfinished(e, H) \subseteq 1..Len(C)
  <2>1. Waits(e) \subseteq 1..Len(C) /\ H \subseteq 1..Len(C)
    BY DEF Placed
  <2>2. \A u \in Mfc!Stalled(e) : e.stall[u].cmd \in 1..Len(C)
    BY DEF Placed
  <2>3. Halts(e) \subseteq 1..Len(C)
    BY <2>2 DEF Halts
  <2> QED BY <2>1, <2>3 DEF Unfinished
<1>2. IsFiniteSet(1..Len(C))
  <2>1. Len(C) \in Nat
    OBVIOUS
  <2> QED BY <2>1, FS_Interval
<1>3. IsFiniteSet(Unfinished(e, H))
  BY <1>1, <1>2, FS_Subset
<1>4. OpenOn(e, C, H, t) \subseteq Unfinished(e, H)
  BY DEF OpenOn
<1>5. IsFiniteSet(OpenOn(e, C, H, t)) /\ Cardinality(OpenOn(e, C, H, t)) <= Cardinality(Unfinished(e, H))
  BY <1>3, <1>4, FS_Subset
<1> QED BY <1>1, <1>3, <1>4, <1>5, FS_CardinalityType

LEMMA TransferCounted ==
  ASSUME NEW a, NEW e, NEW C, NEW c, NEW n, NEW last, NEW X, Carries(a, e, C, c, n, last, X)
  PROVE  Accounted(a, C, {})
<1>1. /\ C \in Seq(Command) /\ c \in 1..Len(C) /\ e \in EngineRec /\ n \in 1..Size(C, c) /\ last \in n..Size(C, c)
      /\ Accounted(e, C, {c}) /\ Placed(e, C, {c}) /\ Transferred(a, e, C, c, n, last)
  BY DEF Carries, EngineInv, EngineTypes, MayMove
<1>2. Reopened(a, e, C, c, last)
  BY TransferOpen
<1>3. C[c].tag \in Tags /\ Size(C, c) \in Nat
  BY <1>1, CommandOf
<1>4. c \in Unfinished(e, {c}) /\ c \in OpenOn(e, C, {c}, C[c].tag)
  BY DEF Unfinished, OpenOn
<1>5. CASE last < Size(C, c)
  <2>1. Unfinished(a, {}) = Unfinished(e, {c})
    BY <1>2, <1>5 DEF Reopened
  <2>2. \A t \in Tags : OpenOn(a, C, {}, t) = OpenOn(e, C, {c}, t)
    BY <2>1 DEF OpenOn
  <2>3. a.queued = e.queued /\ a.outstanding = e.outstanding /\ a.completed = e.completed
    BY <1>1, <1>5 DEF Transferred
  <2> QED BY <1>1, <2>1, <2>2, <2>3 DEF Accounted
<1>6. CASE last = Size(C, c)
  <2> DEFINE t == C[c].tag
             S == OpenOn(e, C, {c}, t)
  <2>1. Unfinished(a, {}) = Unfinished(e, {c}) \ {c}
    BY <1>2, <1>6 DEF Reopened
  <2>2. \A u \in Tags \ {t} : OpenOn(a, C, {}, u) = OpenOn(e, C, {c}, u)
    BY <2>1 DEF OpenOn
  <2>3. OpenOn(a, C, {}, t) = S \ {c}
    BY <2>1 DEF OpenOn
  <2>4. IsFiniteSet(Unfinished(e, {c})) /\ IsFiniteSet(S) /\ Cardinality(S) \in Nat /\ Cardinality(Unfinished(e, {c})) \in Nat
    BY <1>1, OpenIsFinite
  <2>5. /\ a.queued = e.queued - 1
        /\ a.outstanding = [e.outstanding EXCEPT ![t] = e.outstanding[t] - 1]
        /\ a.completed = IF e.outstanding[t] = 1 THEN e.completed \cup {t} ELSE e.completed \ {t}
    BY <1>1, <1>6 DEF Transferred
  <2>6. DOMAIN e.outstanding = Tags
    BY <1>1 DEF EngineRec
  <2>7. e.queued = Cardinality(Unfinished(e, {c})) /\ e.outstanding[t] = Cardinality(S)
    BY <1>1, <1>3 DEF Accounted
  <2> HIDE DEF S
  <2>8. Cardinality(Unfinished(e, {c}) \ {c}) = Cardinality(Unfinished(e, {c})) - 1
    BY <1>4, <2>4, FS_RemoveElement
  <2>9. Cardinality(S \ {c}) = Cardinality(S) - 1 /\ IsFiniteSet(S \ {c})
    BY <1>4, <2>4, FS_RemoveElement DEF S
  <2>10. a.queued = Cardinality(Unfinished(a, {}))
    BY <2>1, <2>5, <2>7, <2>8
  <2>11. \A u \in Tags : a.outstanding[u] = Cardinality(OpenOn(a, C, {}, u))
    <3> TAKE u \in Tags
    <3>1. CASE u = t
      BY <1>3, <2>3, <2>5, <2>6, <2>7, <2>9, <3>1
    <3>2. CASE u # t
      <4>1. a.outstanding[u] = e.outstanding[u]
        BY <2>5, <2>6, <3>2
      <4>2. e.outstanding[u] = Cardinality(OpenOn(e, C, {c}, u))
        BY <1>1 DEF Accounted
      <4> QED BY <2>2, <3>2, <4>1, <4>2
    <3> QED BY <3>1, <3>2
  <2>12. e.outstanding[t] = 1 <=> S \ {c} = {}
    <3>1. S \ {c} = {} <=> Cardinality(S \ {c}) = 0
      BY <2>9, FS_EmptySet
    <3> QED BY <2>4, <2>7, <2>9, <3>1
  <2>13. e.completed = {u \in Tags : OpenOn(e, C, {c}, u) = {}}
    BY <1>1 DEF Accounted
  <2>14. a.completed = {u \in Tags : OpenOn(a, C, {}, u) = {}}
    <3>1. \A u \in Tags \ {t} : u \in a.completed <=> u \in e.completed
      BY <2>5
    <3>2. t \in a.completed <=> e.outstanding[t] = 1
      <4>1. t \notin e.completed
        BY <1>4, <2>13
      <4> QED BY <2>5, <4>1
    <3>3. a.completed \subseteq Tags
      <4>1. e.completed \subseteq Tags
        BY <2>13
      <4> QED BY <1>3, <2>5, <4>1
    <3> QED BY <1>3, <2>2, <2>3, <2>12, <2>13, <3>1, <3>2, <3>3
  <2> QED BY <2>10, <2>11, <2>14 DEF Accounted
<1>7. last < Size(C, c) \/ last = Size(C, c)
  BY <1>1, <1>3
<1> QED BY <1>5, <1>6, <1>7

\* A transfer moves its command in full, or up to an element that stalls.
LEMMA TransferKeeps ==
  ASSUME NEW e, NEW c, NEW n, NEW X, EngineInv(e, cmds', {c}, n, X), MayMove(e, cmds', c, n)
  PROVE  /\ EngineInv(Mfc!Transfer(e, c, n), cmds', {}, 0, X)
         /\ Unfinished(Mfc!Transfer(e, c, n), {}) \subseteq Unfinished(e, {c})
         /\ Mfc!Transfer(e, c, n).deferred = e.deferred
<1>1. EngineTypes(e, cmds') /\ c \in 1..Len(cmds') /\ n \in 1..Size(cmds', c) /\ cmds' \in Seq(Command)
  BY DEF EngineInv, EngineTypes, MayMove
<1>2. PICK last \in n..Size(cmds', c) : Transferred(Mfc!Transfer(e, c, n), e, cmds', c, n, last)
  BY <1>1, TransferFields
<1>3. Carries(Mfc!Transfer(e, c, n), e, cmds', c, n, last, X)
  BY <1>2 DEF Carries
<1>4. PICK C : C = cmds'
  OBVIOUS
<1>5. PICK a : a = Mfc!Transfer(e, c, n)
  OBVIOUS
<1>6. Carries(a, e, C, c, n, last, X)
  BY <1>3, <1>4, <1>5
<1>7. EngineTypes(a, C) /\ Placed(a, C, {}) /\ BehindLists(a, C, X)
  BY <1>6, TransferTypes, TransferPlaced
<1>8. Parted(a, C, {}, 0) /\ Ordered(a)
  BY <1>6, TransferParted, TransferOrdered
<1>9. Fenced(a, C, {}) /\ Accounted(a, C, {})
  BY <1>6, TransferFenced, TransferCounted
<1>10. Unfinished(a, {}) \subseteq Unfinished(e, {c})
  <2>1. Reopened(a, e, C, c, last)
    BY <1>6, TransferOpen
  <2>2. Size(C, c) \in Nat
    BY <1>1, <1>4, CommandOf
  <2>3. last < Size(C, c) \/ last = Size(C, c)
    BY <1>1, <1>4, <2>2
  <2> QED BY <2>1, <2>3 DEF Reopened
<1>11. a.deferred = e.deferred
  BY <1>2, <1>5 DEF Transferred
<1>12. EngineInv(a, C, {}, 0, X)
  BY <1>7, <1>8, <1>9 DEF EngineInv
<1> QED BY <1>4, <1>5, <1>10, <1>11, <1>12

-----------------------------------------------------------------------------
(* A command changes hands: what was moved and what is open stay the same. *)

Regrouped(b, e, C, H, n, G, m) ==
    /\ b \in EngineRec /\ b.moved = e.moved /\ b.queued = e.queued
    /\ b.outstanding = e.outstanding /\ b.completed = e.completed
    /\ Unfinished(b, G) = Unfinished(e, H)
    /\ \A c \in 1..Len(C) : Progress(b, C, G, m, c) = Progress(e, C, H, n, c)

LEMMA RegroupKeeps ==
  ASSUME NEW e, NEW b, NEW C, NEW H, NEW n, NEW X, NEW G, NEW m, NEW Y,
         EngineInv(e, C, H, n, X), Regrouped(b, e, C, H, n, G, m), Placed(b, C, G), BehindLists(b, C, Y)
  PROVE  EngineInv(b, C, G, m, Y)
<1>1. /\ EngineTypes(e, C) /\ Parted(e, C, H, n) /\ Ordered(e) /\ Fenced(e, C, H) /\ Accounted(e, C, H)
  BY DEF EngineInv
<1>2. EngineTypes(b, C)
  BY <1>1 DEF EngineTypes, Regrouped, Cmd, Elt
<1>3. Parted(b, C, G, m)
  <2>1. \A c \in 1..Len(C) : Part(b, C, c) = Part(e, C, c)
    BY DEF Part, Regrouped
  <2> QED BY <1>1, <2>1 DEF Parted, Regrouped
<1>4. Ordered(b)
  BY <1>1 DEF Ordered, Regrouped, Cmd, Elt
<1>5. Fenced(b, C, G)
  BY <1>1 DEF Fenced, Overtakes, Regrouped, Cmd
<1>6. Accounted(b, C, G)
  <2>1. \A t \in Tags : OpenOn(b, C, G, t) = OpenOn(e, C, H, t)
    BY DEF OpenOn, Regrouped
  <2> QED BY <1>1, <2>1 DEF Accounted, Regrouped
<1> QED BY <1>2, <1>3, <1>4, <1>5, <1>6 DEF EngineInv

\* A command that must wait is put behind the others.
LEMMA DeferKeeps ==
  ASSUME NEW e, NEW C, NEW c, EngineInv(e, C, {c}, 1, {}), \A w \in Waits(e) : w < c,
         C[c].tag \in Mfc!Stalled(e), e.stall[C[c].tag].cmd < c
  PROVE  /\ EngineInv([e EXCEPT !.deferred = Append(@, c)], C, {}, 0, {})
         /\ Unfinished([e EXCEPT !.deferred = Append(@, c)], {}) = Unfinished(e, {c})
<1> DEFINE b == [e EXCEPT !.deferred = Append(@, c)]
           L == Len(e.deferred)
<1>1. C \in Seq(Command) /\ e \in EngineRec /\ Placed(e, C, {c}) /\ BehindLists(e, C, {})
  BY DEF EngineInv, EngineTypes
<1>2. c \in 1..Len(C) /\ c \in Nat /\ e.deferred \in Seq(Nat) /\ c \notin Waits(e) /\ c \notin Halts(e)
  <2>1. c \in 1..Len(C) /\ c \notin Waits(e) /\ c \notin Halts(e)
    BY <1>1 DEF Placed
  <2> QED BY <1>1, <2>1 DEF EngineRec
<1>3. /\ b \in EngineRec /\ b.deferred = Append(e.deferred, c) /\ b.moved = e.moved /\ b.queued = e.queued
      /\ b.outstanding = e.outstanding /\ b.completed = e.completed /\ b.stall = e.stall
  <2>1. Append(e.deferred, c) \in Seq(Nat)
    BY <1>2
  <2> QED BY <1>1, <2>1 DEF EngineRec
<1> HIDE DEF b
<1>4. L \in Nat /\ Len(b.deferred) = L + 1 /\ b.deferred[L + 1] = c /\ \A i \in 1..L : b.deferred[i] = e.deferred[i]
  BY <1>2, <1>3
<1>5. Waits(b) = Waits(e) \cup {c}
  <2> HIDE DEF L
  <2>1. \A i \in 1..L + 1 : i \in 1..L \/ i = L + 1
    BY <1>4
  <2>2. L + 1 \in 1..L + 1 /\ \A i \in 1..L : i \in 1..L + 1
    BY <1>4
  <2>3. Waits(e) = {e.deferred[i] : i \in 1..L}
    BY DEF Waits, L
  <2>4. Waits(b) = {b.deferred[i] : i \in 1..L + 1}
    BY <1>4 DEF Waits
  <2> QED BY <1>4, <2>1, <2>2, <2>3, <2>4
<1>6. Mfc!Stalled(b) = Mfc!Stalled(e) /\ Halts(b) = Halts(e)
  BY <1>3 DEF Mfc!Stalled, Halts
<1>7. Unfinished(b, {}) = Unfinished(e, {c})
  BY <1>5, <1>6 DEF Unfinished
<1>8. ASSUME NEW d \in 1..Len(C) PROVE Progress(b, C, {}, 0, d) = Progress(e, C, {c}, 1, d)
  BY <1>2, <1>3, <1>5, <1>6 DEF Progress
<1>9. ASSUME NEW i \in 1..Len(b.deferred), NEW j \in 1..Len(b.deferred), i < j
      PROVE  b.deferred[i] < b.deferred[j]
  <2>1. i \in 1..L /\ (j \in 1..L \/ j = L + 1)
    BY <1>4, <1>9
  <2>2. CASE j \in 1..L
    BY <1>1, <1>4, <1>9, <2>1, <2>2 DEF Placed
  <2>3. CASE j = L + 1
    <3>1. e.deferred[i] \in Waits(e)
      BY <2>1 DEF Waits
    <3> QED BY <1>4, <2>1, <2>3, <3>1
  <2> QED BY <2>1, <2>2, <2>3
<1>10. Placed(b, C, {})
  <2>1. /\ Waits(b) \subseteq 1..Len(C) /\ Waits(b) \cap Halts(b) = {}
    BY <1>1, <1>2, <1>5, <1>6 DEF Placed
  <2>2. \A t \in Mfc!Stalled(b) : /\ b.stall[t].cmd \in 1..Len(C) /\ C[b.stall[t].cmd].tag = t
                                  /\ b.stall[t].next \in 2..Size(C, b.stall[t].cmd)
    BY <1>1, <1>3, <1>6 DEF Placed
  <2> QED BY <1>9, <2>1, <2>2 DEF Placed
<1>11. BehindLists(b, C, {})
  BY <1>1, <1>3, <1>5, <1>6 DEF BehindLists
<1>12. Regrouped(b, e, C, {c}, 1, {}, 0)
  BY <1>3, <1>7, <1>8 DEF Regrouped
<1>13. EngineInv(b, C, {}, 0, {})
  BY <1>10, <1>11, <1>12, RegroupKeeps
<1> QED BY <1>7, <1>13 DEF b

\* An acknowledged list is in the hand, and what waits behind it waits for the hand.
LEMMA AckKeeps ==
  ASSUME NEW e, NEW C, NEW t \in Mfc!Stalled(e), EngineInv(e, C, {}, 0, {})
  PROVE  /\ EngineInv([e EXCEPT !.stall[t] = Mfc!NoStall], C, {e.stall[t].cmd}, e.stall[t].next, {t})
         /\ MayMove([e EXCEPT !.stall[t] = Mfc!NoStall], C, e.stall[t].cmd, e.stall[t].next)
         /\ Unfinished([e EXCEPT !.stall[t] = Mfc!NoStall], {e.stall[t].cmd}) = Unfinished(e, {})
<1> DEFINE b == [e EXCEPT !.stall[t] = Mfc!NoStall]
<1>1. C \in Seq(Command) /\ e \in EngineRec /\ Placed(e, C, {}) /\ BehindLists(e, C, {})
  BY DEF EngineInv, EngineTypes
<1>2. t \in Tags /\ Mfc!NoStall \in [cmd : Nat, next : Nat]
  BY DEF Mfc!Stalled, Mfc!NoStall
<1>3. /\ b \in EngineRec /\ b.deferred = e.deferred /\ b.moved = e.moved /\ b.queued = e.queued
      /\ b.outstanding = e.outstanding /\ b.completed = e.completed /\ b.stall = [e.stall EXCEPT ![t] = Mfc!NoStall]
  BY <1>1, <1>2 DEF EngineRec
<1>4. PICK c : c = e.stall[t].cmd
  OBVIOUS
<1>5. PICK n : n = e.stall[t].next
  OBVIOUS
<1> HIDE DEF b
<1>6. b.stall[t] = Mfc!NoStall /\ \A u \in Tags \ {t} : b.stall[u] = e.stall[u]
  <2>1. DOMAIN e.stall = Tags
    BY <1>1 DEF EngineRec
  <2> QED BY <1>2, <1>3, <2>1
<1>7. Waits(b) = Waits(e) /\ Mfc!Stalled(b) = Mfc!Stalled(e) \ {t}
  BY <1>3, <1>6 DEF Waits, Mfc!Stalled
<1>8. /\ c \in 1..Len(C) /\ C[c].tag = t /\ n \in 2..Size(C, c) /\ c \in Halts(e) /\ c \notin Waits(e)
  BY <1>1, <1>4, <1>5 DEF Placed, Halts
<1>9. Size(C, c) \in Nat /\ c \in Nat
  BY <1>1, <1>8, CommandOf
<1>10. \A u \in Mfc!Stalled(e) : C[e.stall[u].cmd].tag = u
  BY <1>1 DEF Placed
<1>11. Halts(b) = Halts(e) \ {c}
  <2>1. \A u \in Mfc!Stalled(b) : u \in Mfc!Stalled(e) /\ b.stall[u].cmd = e.stall[u].cmd /\ b.stall[u].cmd # c
    BY <1>6, <1>7, <1>8, <1>10 DEF Mfc!Stalled
  <2>2. \A u \in Mfc!Stalled(e) : u \in Mfc!Stalled(b) \/ e.stall[u].cmd = c
    BY <1>4, <1>7
  <2> QED BY <2>1, <2>2 DEF Halts
<1>12. Unfinished(b, {c}) = Unfinished(e, {})
  BY <1>7, <1>8, <1>11 DEF Unfinished
<1>13. ASSUME NEW d \in 1..Len(C) PROVE Progress(b, C, {c}, n, d) = Progress(e, C, {}, 0, d)
  <2>1. CASE d = c
    BY <1>5, <1>8, <2>1 DEF Progress
  <2>2. CASE d # c
    <3>1. d \in Halts(b) => b.stall[C[d].tag] = e.stall[C[d].tag]
      <4> SUFFICES ASSUME d \in Halts(b) PROVE b.stall[C[d].tag] = e.stall[C[d].tag]
        OBVIOUS
      <4>1. PICK u \in Mfc!Stalled(b) : d = b.stall[u].cmd
        BY DEF Halts
      <4>2. u \in Tags \ {t} /\ u \in Mfc!Stalled(e) /\ b.stall[u] = e.stall[u]
        BY <1>6, <1>7, <4>1 DEF Mfc!Stalled
      <4> QED BY <1>10, <4>1, <4>2
    <3> QED BY <1>7, <1>11, <2>2, <3>1 DEF Progress
  <2> QED BY <2>1, <2>2
<1>14. Placed(b, C, {c})
  <2>1. /\ Waits(b) \subseteq 1..Len(C) /\ Waits(b) \cap Halts(b) = {} /\ {c} \cap (Waits(b) \cup Halts(b)) = {}
    BY <1>1, <1>7, <1>8, <1>11 DEF Placed
  <2>2. \A u \in Mfc!Stalled(b) : u \in Mfc!Stalled(e) /\ b.stall[u] = e.stall[u]
    BY <1>6, <1>7 DEF Mfc!Stalled
  <2>3. \A u \in Mfc!Stalled(b) : /\ b.stall[u].cmd \in 1..Len(C) /\ C[b.stall[u].cmd].tag = u
                                  /\ b.stall[u].next \in 2..Size(C, b.stall[u].cmd)
    BY <1>1, <2>2 DEF Placed
  <2> QED BY <1>1, <1>3, <1>8, <2>1, <2>3 DEF Placed
<1>15. BehindLists(b, C, {t})
  <2> SUFFICES ASSUME NEW w \in Waits(b)
               PROVE  /\ C[w].tag \in Mfc!Stalled(b) => b.stall[C[w].tag].cmd < w
                      /\ C[w].tag \in Mfc!Stalled(b) \cup {t}
    BY DEF BehindLists
  <2>1. /\ C[w].tag \in Mfc!Stalled(e) => e.stall[C[w].tag].cmd < w
        /\ C[w].tag \in Mfc!Stalled(e)
    BY <1>1, <1>7 DEF BehindLists
  <2>2. C[w].tag \in Mfc!Stalled(b) => b.stall[C[w].tag] = e.stall[C[w].tag]
    BY <1>6, <1>7 DEF Mfc!Stalled
  <2> QED BY <1>7, <2>1, <2>2
<1>16. Regrouped(b, e, C, {}, 0, {c}, n)
  BY <1>3, <1>12, <1>13 DEF Regrouped
<1>17. EngineInv(b, C, {c}, n, {t})
  BY <1>14, <1>15, <1>16, RegroupKeeps
<1>18. MayMove(b, C, c, n)
  <2>1. \A w \in Waits(b) : C[w].tag = t => c < w
    BY <1>1, <1>4, <1>7 DEF BehindLists
  <2>2. n \in 1..Size(C, c)
    BY <1>8, <1>9
  <2> QED BY <1>7, <1>8, <2>1, <2>2 DEF MayMove
<1> QED BY <1>4, <1>5, <1>12, <1>17, <1>18 DEF b

\* A sequence without one element.
LEMMA RemoveAtKeeps ==
  ASSUME NEW s \in Seq(Nat), NEW i \in 1..Len(s), NEW r, r = Mfc!RemoveAt(s, i)
  PROVE  /\ r \in Seq(Nat) /\ Len(r) = Len(s) - 1 /\ Len(r) \in Nat
         /\ \A k \in 1..Len(r) : r[k] = IF k < i THEN s[k] ELSE s[k + 1]
<1> DEFINE p == SubSeq(s, 1, i - 1)
           q == SubSeq(s, i + 1, Len(s))
<1>1. Len(s) \in Nat /\ i \in Nat /\ 1 <= i /\ i <= Len(s)
  OBVIOUS
<1>2. p \in Seq(Nat) /\ Len(p) = i - 1 /\ \A k \in 1..i - 1 : p[k] = s[k]
  BY <1>1
<1>3. q \in Seq(Nat) /\ Len(q) = Len(s) - i /\ \A k \in 1..Len(s) - i : q[k] = s[i + k]
  <2>1. q \in Seq(Nat) /\ Len(q) = Len(s) - i
    BY <1>1
  <2>2. ASSUME NEW k \in 1..Len(s) - i PROVE q[k] = s[i + k]
    BY <1>1
  <2> QED BY <2>1, <2>2
<1>4. r = p \o q
  BY DEF Mfc!RemoveAt
<1> HIDE DEF p, q
<1>5. /\ r \in Seq(Nat) /\ Len(r) = Len(p) + Len(q)
      /\ \A k \in 1 .. Len(p) + Len(q) : r[k] = IF k <= Len(p) THEN p[k] ELSE q[k - Len(p)]
  <2>1. p \in Seq(Nat) /\ q \in Seq(Nat)
    BY <1>2, <1>3
  <2> QED BY <1>4, <2>1, ConcatProperties
<1>6. Len(r) = Len(s) - 1 /\ Len(r) \in Nat
  BY <1>1, <1>2, <1>3, <1>5
<1>7. ASSUME NEW k \in 1..Len(r) PROVE r[k] = IF k < i THEN s[k] ELSE s[k + 1]
  <2>1. CASE k < i
    <3>1. k \in 1..i - 1 /\ k \in 1..Len(p)
      BY <1>1, <1>2, <1>6, <2>1
    <3>2. r[k] = p[k]
      BY <1>1, <1>2, <1>3, <1>5, <3>1
    <3> QED BY <1>2, <2>1, <3>1, <3>2
  <2>2. CASE ~(k < i)
    <3>1. k - (i - 1) \in 1..Len(s) - i /\ i + (k - (i - 1)) = k + 1 /\ k > Len(p) /\ k \in 1..Len(p) + Len(q)
      BY <1>1, <1>2, <1>3, <1>6, <2>2
    <3>2. r[k] = q[k - (i - 1)]
      <4>1. ~(k <= Len(p)) /\ k - Len(p) = k - (i - 1)
        BY <1>1, <1>2, <3>1
      <4> QED BY <1>5, <3>1, <4>1
    <3>3. q[k - (i - 1)] = s[i + (k - (i - 1))]
      BY <1>3, <3>1
    <3> QED BY <2>2, <3>1, <3>2, <3>3
  <2> QED BY <2>1, <2>2
<1> QED BY <1>5, <1>6, <1>7

\* The oldest of the commands that wait on a tag that is not stalled is in the hand.
Picked(e, i) == [e EXCEPT !.deferred = Mfc!RemoveAt(@, i)]
Taken(e, C, t, i) ==
    /\ EngineInv(Picked(e, i), C, {e.deferred[i]}, 1, {t}) /\ MayMove(Picked(e, i), C, e.deferred[i], 1)
    /\ Unfinished(Picked(e, i), {e.deferred[i]}) = Unfinished(e, {}) /\ Picked(e, i).deferred = Mfc!RemoveAt(e.deferred, i)

LEMMA PickKeeps ==
  ASSUME NEW e, NEW C, NEW t \in Tags \ Mfc!Stalled(e), EngineInv(e, C, {}, 0, {t}),
         NEW i \in 1..Len(e.deferred),
         C[e.deferred[i]].tag = t, \A j \in 1..Len(e.deferred) : C[e.deferred[j]].tag = t => i <= j
  PROVE  Taken(e, C, t, i)
<1> DEFINE b == Picked(e, i)
           r == Mfc!RemoveAt(e.deferred, i)
<1>1. C \in Seq(Command) /\ e \in EngineRec /\ Placed(e, C, {}) /\ BehindLists(e, C, {t})
  BY DEF EngineInv, EngineTypes
<1>2. e.deferred \in Seq(Nat)
  BY <1>1 DEF EngineRec
<1>3. /\ r \in Seq(Nat) /\ Len(r) = Len(e.deferred) - 1 /\ Len(r) \in Nat
      /\ \A k \in 1..Len(r) : r[k] = IF k < i THEN e.deferred[k] ELSE e.deferred[k + 1]
  BY <1>2, RemoveAtKeeps
<1>4. /\ b \in EngineRec /\ b.deferred = r /\ b.moved = e.moved /\ b.queued = e.queued
      /\ b.outstanding = e.outstanding /\ b.completed = e.completed /\ b.stall = e.stall
  BY <1>1, <1>3 DEF EngineRec, Picked
<1> HIDE DEF b, r
<1>5. PICK c : c = e.deferred[i]
  OBVIOUS
<1>6. c \in Waits(e) /\ c \in 1..Len(C) /\ C[c].tag = t /\ c \notin Halts(e) /\ Len(e.deferred) \in Nat /\ i \in Nat
  <2>1. c \in Waits(e)
    BY <1>5 DEF Waits
  <2> QED BY <1>1, <1>2, <1>5, <2>1 DEF Placed
<1>7. Size(C, c) \in Nat \ {0} /\ c \in Nat
  BY <1>1, <1>6, CommandOf
<1>19. Len(r) = Len(e.deferred) - 1 /\ i \in 1..Len(e.deferred)
  BY <1>3
<1>20. /\ \A k \in 1..Len(r) : k < i => r[k] = e.deferred[k]
       /\ \A k \in 1..Len(r) : ~(k < i) => r[k] = e.deferred[k + 1]
  BY <1>3
<1>8. \A k \in 1..Len(e.deferred) : k # i => e.deferred[k] # c
  <2>1. \A k \in 1..Len(e.deferred) : e.deferred[k] \in Nat
    BY <1>2
  <2> QED BY <1>1, <1>5, <1>6, <2>1 DEF Placed
<1>9. Waits(b) = Waits(e) \ {c}
  <2>1. Waits(b) = {r[k] : k \in 1..Len(r)} /\ Waits(e) = {e.deferred[k] : k \in 1..Len(e.deferred)}
    BY <1>4 DEF Waits
  <2>2. ASSUME NEW k \in 1..Len(r) PROVE r[k] \in Waits(e) \ {c}
    <3>1. CASE k < i
      <4>1. k \in 1..Len(e.deferred) /\ k # i /\ r[k] = e.deferred[k]
        BY <1>3, <1>6, <3>1
      <4> QED BY <1>8, <2>1, <4>1
    <3>2. CASE ~(k < i)
      <4>1. k + 1 \in 1..Len(e.deferred) /\ k + 1 # i
        BY <1>6, <1>19, <3>2
      <4>2. r[k] = e.deferred[k + 1]
        BY <1>20, <3>2
      <4> QED BY <1>8, <2>1, <4>1, <4>2
    <3> QED BY <3>1, <3>2
  <2>3. ASSUME NEW k \in 1..Len(e.deferred), e.deferred[k] # c
        PROVE \E l \in 1..Len(r) : r[l] = e.deferred[k]
    <3>1. k # i
      BY <1>5, <2>3
    <3>2. CASE k < i
      <4>1. k \in 1..Len(r)
        BY <1>6, <1>19, <3>2
      <4>2. r[k] = e.deferred[k]
        BY <1>20, <3>2, <4>1
      <4> QED BY <4>1, <4>2
    <3>3. CASE ~(k < i)
      <4>1. k - 1 \in 1..Len(r) /\ ~(k - 1 < i) /\ (k - 1) + 1 = k
        BY <1>6, <1>19, <3>1, <3>3
      <4>2. r[k - 1] = e.deferred[(k - 1) + 1]
        BY <1>20, <4>1
      <4> QED BY <4>1, <4>2
    <3> QED BY <3>2, <3>3
  <2> QED BY <2>1, <2>2, <2>3
<1>10. Mfc!Stalled(b) = Mfc!Stalled(e) /\ Halts(b) = Halts(e)
  BY <1>4 DEF Mfc!Stalled, Halts
<1>11. Unfinished(b, {c}) = Unfinished(e, {})
  BY <1>6, <1>9, <1>10 DEF Unfinished
<1>12. ASSUME NEW d \in 1..Len(C) PROVE Progress(b, C, {c}, 1, d) = Progress(e, C, {}, 0, d)
  <2>1. CASE d = c
    BY <1>6, <2>1 DEF Progress
  <2>2. CASE d # c
    BY <1>4, <1>9, <1>10, <2>2 DEF Progress
  <2> QED BY <2>1, <2>2
<1>13. ASSUME NEW k \in 1..Len(r), NEW l \in 1..Len(r), k < l PROVE r[k] < r[l]
  <2> DEFINE up(x) == IF x < i THEN x ELSE x + 1
  <2>1. up(k) \in 1..Len(e.deferred) /\ up(l) \in 1..Len(e.deferred) /\ up(k) < up(l)
    BY <1>6, <1>13, <1>19
  <2>2. r[k] = e.deferred[up(k)] /\ r[l] = e.deferred[up(l)]
    BY <1>20
  <2> HIDE DEF up
  <2> QED BY <1>1, <2>1, <2>2 DEF Placed
<1>14. Placed(b, C, {c})
  <2>1. /\ Waits(b) \subseteq 1..Len(C) /\ Waits(b) \cap Halts(b) = {} /\ {c} \cap (Waits(b) \cup Halts(b)) = {}
    BY <1>1, <1>6, <1>9, <1>10 DEF Placed
  <2>2. \A u \in Mfc!Stalled(b) : /\ b.stall[u].cmd \in 1..Len(C) /\ C[b.stall[u].cmd].tag = u
                                  /\ b.stall[u].next \in 2..Size(C, b.stall[u].cmd)
    BY <1>1, <1>4, <1>10 DEF Placed
  <2> QED BY <1>4, <1>6, <1>13, <2>1, <2>2 DEF Placed
<1>15. BehindLists(b, C, {t})
  BY <1>1, <1>4, <1>9, <1>10 DEF BehindLists
<1>16. Regrouped(b, e, C, {}, 0, {c}, 1)
  BY <1>4, <1>11, <1>12 DEF Regrouped
<1>17. EngineInv(b, C, {c}, 1, {t})
  BY <1>14, <1>15, <1>16, RegroupKeeps
<1>18. MayMove(b, C, c, 1)
  <2>1. ASSUME NEW w \in Waits(b), C[w].tag = t PROVE c < w
    <3>1. PICK j \in 1..Len(e.deferred) : w = e.deferred[j]
      BY <1>9 DEF Waits
    <3>2. i <= j /\ j # i
      BY <1>5, <1>9, <2>1, <3>1
    <3>3. i < j
      BY <1>6, <3>1, <3>2
    <3> QED BY <1>1, <1>5, <3>1, <3>3 DEF Placed
  <2>2. 1 \in 1..Size(C, c)
    BY <1>7
  <2> QED BY <1>6, <1>10, <2>1, <2>2 DEF MayMove
<1> QED BY <1>4, <1>5, <1>11, <1>17, <1>18 DEF b, r, Taken

\* A command that is issued is in the hand, with nothing moved.
Received(e, C, D, r) ==
    /\ EngineInv(Mfc!Accepted(e, r.tag), D, {Len(C) + 1}, 1, {})
    /\ Unfinished(Mfc!Accepted(e, r.tag), {Len(C) + 1}) = Unfinished(e, {}) \cup {Len(C) + 1}
    /\ Unfinished(e, {}) \subseteq 1..Len(C) /\ Waits(Mfc!Accepted(e, r.tag)) = Waits(e)
    /\ D \in Seq(Command) /\ Len(D) = Len(C) + 1 /\ D[Len(C) + 1] = r
    /\ \A d \in 1..Len(C) : D[d] = C[d]

LEMMA AcceptKeeps ==
  ASSUME NEW e, NEW C, NEW r \in Command, NEW D, D = Append(C, r), EngineInv(e, C, {}, 0, {})
  PROVE  Received(e, C, D, r)
<1> DEFINE t == r.tag
           b == Mfc!Accepted(e, t)
           c == Len(C) + 1
<1>1. /\ C \in Seq(Command) /\ e \in EngineRec /\ Placed(e, C, {}) /\ BehindLists(e, C, {})
      /\ EngineTypes(e, C) /\ Parted(e, C, {}, 0) /\ Ordered(e) /\ Fenced(e, C, {}) /\ Accounted(e, C, {})
  BY DEF EngineInv, EngineTypes
<1>2. t \in Tags
  BY DEF Command
<1>3. D \in Seq(Command) /\ Len(D) = c /\ D[c] = r /\ Len(C) \in Nat /\ \A d \in 1..Len(C) : D[d] = C[d]
  BY <1>1
<1>4. /\ b \in EngineRec /\ b.deferred = e.deferred /\ b.stall = e.stall /\ b.moved = e.moved
      /\ b.outstanding = [e.outstanding EXCEPT ![t] = e.outstanding[t] + 1] /\ b.queued = e.queued + 1
      /\ b.completed = e.completed \ {t}
  <2>1. e.outstanding[t] + 1 \in Int /\ e.queued + 1 \in Int /\ e.completed \ {t} \in SUBSET Tags
    BY <1>1, <1>2 DEF EngineRec
  <2> QED BY <1>1, <1>2, <2>1 DEF EngineRec, Mfc!Accepted
<1> HIDE DEF b
<1>5. \A d \in 1..Len(C) : D[d] = C[d] /\ Size(D, d) = Size(C, d) /\ d \in 1..c /\ d # c
  BY <1>3 DEF Size
<1>6. c \in 1..Len(D) /\ D[c].tag = t /\ \A d \in 1..Len(D) : d \in 1..Len(C) \/ d = c
  BY <1>3
<1> HIDE DEF c
<1>7. Waits(b) = Waits(e) /\ Mfc!Stalled(b) = Mfc!Stalled(e) /\ Halts(b) = Halts(e)
  BY <1>4 DEF Waits, Mfc!Stalled, Halts
<1>8. Unfinished(e, {}) \subseteq 1..Len(C) /\ c \notin Waits(e) /\ c \notin Halts(e)
  <2>1. Unfinished(e, {}) \subseteq 1..Len(C)
    BY <1>1, OpenIsFinite
  <2> QED BY <1>5, <2>1 DEF Unfinished
<1>9. Unfinished(b, {c}) = Unfinished(e, {}) \cup {c}
  BY <1>7 DEF Unfinished
<1>10. EngineTypes(b, D)
  <2> SUFFICES ASSUME NEW u \in Tags, NEW i \in 1..Len(b.moved[u])
               PROVE  /\ Cmd(b, u, i) \in 1..Len(D) /\ D[Cmd(b, u, i)].tag = u
                      /\ Elt(b, u, i) \in 1..Size(D, Cmd(b, u, i))
    BY <1>3, <1>4 DEF EngineTypes
  <2>1. Cmd(b, u, i) = Cmd(e, u, i) /\ Elt(b, u, i) = Elt(e, u, i) /\ i \in 1..Len(e.moved[u])
    BY <1>4 DEF Cmd, Elt
  <2>2. /\ Cmd(e, u, i) \in 1..Len(C) /\ C[Cmd(e, u, i)].tag = u
        /\ Elt(e, u, i) \in 1..Size(C, Cmd(e, u, i))
    BY <1>1, <2>1 DEF EngineTypes
  <2> QED BY <1>3, <1>5, <2>1, <2>2
<1>11. Placed(b, D, {c})
  <2>1. /\ Waits(b) \subseteq 1..Len(D) /\ {c} \subseteq 1..Len(D)
        /\ Waits(b) \cap Halts(b) = {} /\ {c} \cap (Waits(b) \cup Halts(b)) = {}
    BY <1>1, <1>3, <1>5, <1>6, <1>7, <1>8 DEF Placed
  <2>2. ASSUME NEW u \in Mfc!Stalled(b)
        PROVE  /\ b.stall[u].cmd \in 1..Len(D) /\ D[b.stall[u].cmd].tag = u
               /\ b.stall[u].next \in 2..Size(D, b.stall[u].cmd)
    <3>1. /\ b.stall[u].cmd \in 1..Len(C) /\ C[b.stall[u].cmd].tag = u
          /\ b.stall[u].next \in 2..Size(C, b.stall[u].cmd)
      BY <1>1, <1>4, <1>7 DEF Placed
    <3> QED BY <1>3, <1>5, <3>1
  <2>3. \A i, j \in 1..Len(b.deferred) : i < j => b.deferred[i] < b.deferred[j]
    BY <1>1, <1>4 DEF Placed
  <2> QED BY <2>1, <2>2, <2>3 DEF Placed
<1>12. Parted(b, D, {c}, 1)
  <2> SUFFICES ASSUME NEW d \in 1..Len(D) PROVE Part(b, D, d) = 1 .. Progress(b, D, {c}, 1, d)
    BY DEF Parted
  <2>1. CASE d \in 1..Len(C)
    <3>1. Part(b, D, d) = Part(e, C, d)
      BY <1>4, <1>5, <2>1 DEF Part
    <3>2. Progress(b, D, {c}, 1, d) = Progress(e, C, {}, 0, d)
      BY <1>4, <1>5, <1>7, <2>1 DEF Progress
    <3> QED BY <1>1, <2>1, <3>1, <3>2 DEF Parted
  <2>2. CASE d = c
    <3>1. Progress(b, D, {c}, 1, d) = 0
      BY <2>2 DEF Progress
    <3>2. \A i \in 1..Len(b.moved[t]) : Cmd(b, t, i) # c
      <4> TAKE i \in 1..Len(b.moved[t])
      <4>1. Cmd(b, t, i) = Cmd(e, t, i) /\ i \in 1..Len(e.moved[t])
        BY <1>4 DEF Cmd
      <4>2. Cmd(e, t, i) \in 1..Len(C)
        BY <1>1, <1>2, <4>1 DEF EngineTypes
      <4> QED BY <1>5, <4>1, <4>2
    <3>3. \A m : ~ \E i \in 1..Len(b.moved[t]) : b.moved[t][i] = <<c, m>>
      BY <3>2 DEF Cmd
    <3>4. Part(b, D, d) = {}
      BY <1>6, <2>2, <3>3 DEF Part
    <3> QED BY <3>1, <3>4
  <2> QED BY <1>6, <2>1, <2>2
<1>13. Ordered(b)
  BY <1>1, <1>4 DEF Ordered, Cmd, Elt
<1>14. Fenced(b, D, {c})
  <2>1. ASSUME NEW u \in Tags, NEW i \in 1..Len(b.moved[u])
        PROVE  /\ Cmd(b, u, i) = Cmd(e, u, i) /\ i \in 1..Len(e.moved[u]) /\ Cmd(e, u, i) \in 1..Len(C)
               /\ \A d : Overtakes(e, C, u, i, d) => Overtakes(b, D, u, i, d)
    <3>1. Cmd(b, u, i) = Cmd(e, u, i) /\ i \in 1..Len(e.moved[u])
      BY <1>4 DEF Cmd
    <3>2. Cmd(e, u, i) \in 1..Len(C)
      BY <1>1, <3>1 DEF EngineTypes
    <3>3. D[Cmd(b, u, i)] = C[Cmd(e, u, i)]
      BY <1>5, <3>1, <3>2
    <3>4. \A k : Cmd(b, u, k) = Cmd(e, u, k)
      BY <1>4 DEF Cmd
    <3> QED BY <3>1, <3>2, <3>3, <3>4 DEF Overtakes
  <2>2. ASSUME NEW u \in Tags, NEW i \in 1..Len(b.moved[u]), NEW j \in 1..Len(b.moved[u]),
               i < j, Cmd(b, u, j) < Cmd(b, u, i)
        PROVE  Overtakes(b, D, u, i, Cmd(b, u, j))
    <3>1. Overtakes(e, C, u, i, Cmd(e, u, j))
      BY <1>1, <2>1, <2>2 DEF Fenced
    <3> QED BY <2>1, <3>1
  <2>3. ASSUME NEW u \in Tags, NEW i \in 1..Len(b.moved[u]), NEW d \in Unfinished(b, {c}),
               D[d].tag = u, d < Cmd(b, u, i)
        PROVE  Overtakes(b, D, u, i, d)
    <3>1. Cmd(b, u, i) \in 1..Len(C)
      BY <2>1
    <3>2. d # c
      BY <1>3, <2>3, <3>1 DEF c
    <3>3. d \in Unfinished(e, {}) /\ C[d].tag = u
      BY <1>5, <1>8, <1>9, <2>3, <3>2
    <3>4. Overtakes(e, C, u, i, d)
      BY <1>1, <2>1, <2>3, <3>3 DEF Fenced
    <3> QED BY <2>1, <3>4
  <2> QED BY <2>2, <2>3 DEF Fenced
<1>15. Accounted(b, D, {c})
  <2>1. /\ IsFiniteSet(Unfinished(e, {})) /\ Cardinality(Unfinished(e, {})) \in Nat
        /\ IsFiniteSet(OpenOn(e, C, {}, t)) /\ Cardinality(OpenOn(e, C, {}, t)) \in Nat
    BY <1>1, OpenIsFinite
  <2>2. c \notin Unfinished(e, {}) /\ c \notin OpenOn(e, C, {}, t)
    BY <1>5, <1>8 DEF OpenOn
  <2>3. OpenOn(b, D, {c}, t) = OpenOn(e, C, {}, t) \cup {c}
    BY <1>5, <1>6, <1>8, <1>9 DEF OpenOn
  <2>4. \A u \in Tags \ {t} : OpenOn(b, D, {c}, u) = OpenOn(e, C, {}, u)
    BY <1>5, <1>6, <1>8, <1>9 DEF OpenOn
  <2>5. Cardinality(Unfinished(b, {c})) = Cardinality(Unfinished(e, {})) + 1
    BY <1>9, <2>1, <2>2, FS_AddElement
  <2>6. Cardinality(OpenOn(b, D, {c}, t)) = Cardinality(OpenOn(e, C, {}, t)) + 1
    BY <2>1, <2>2, <2>3, FS_AddElement
  <2>7. DOMAIN e.outstanding = Tags
    BY <1>1 DEF EngineRec
  <2>8. /\ e.queued = Cardinality(Unfinished(e, {})) /\ \A u \in Tags : e.outstanding[u] = Cardinality(OpenOn(e, C, {}, u))
        /\ e.completed = {u \in Tags : OpenOn(e, C, {}, u) = {}}
    BY <1>1 DEF Accounted
  <2>9. ASSUME NEW u \in Tags PROVE b.outstanding[u] = Cardinality(OpenOn(b, D, {c}, u))
    <3>1. CASE u = t
      BY <1>2, <1>4, <2>6, <2>7, <2>8, <3>1
    <3>2. CASE u # t
      BY <1>4, <2>4, <2>7, <2>8, <3>2
    <3> QED BY <3>1, <3>2
  <2>10. b.completed = {u \in Tags : OpenOn(b, D, {c}, u) = {}}
    BY <1>4, <2>3, <2>4, <2>8
  <2> QED BY <1>4, <2>5, <2>8, <2>9, <2>10 DEF Accounted
<1>16. BehindLists(b, D, {})
  <2> SUFFICES ASSUME NEW w \in Waits(b)
               PROVE  /\ D[w].tag \in Mfc!Stalled(b) => b.stall[D[w].tag].cmd < w
                      /\ D[w].tag \in Mfc!Stalled(b) \cup {}
    BY DEF BehindLists
  <2>1. w \in Waits(e) /\ w \in 1..Len(C)
    BY <1>7, <1>8 DEF Unfinished
  <2> QED BY <1>1, <1>4, <1>5, <1>7, <2>1 DEF BehindLists
<1>17. EngineInv(b, D, {c}, 1, {})
  BY <1>10, <1>11, <1>12, <1>13, <1>14, <1>15, <1>16 DEF EngineInv
<1> QED BY <1>3, <1>7, <1>8, <1>9, <1>17 DEF b, c, Received

-----------------------------------------------------------------------------
(* What waited is drained *)

Step(f, e, t, n)   == IF n = 0 THEN e ELSE Mfc!DrainOne(f[n - 1], t)
Drained(e, t, m)   == CHOOSE f : f = [n \in 0..m |-> Step(f, e, t, n)]
Still(f, t)        == t \in Mfc!Stalled(f) \/ Mfc!Waiting(f, t) = {}

\* The commands of a tag are drained one after the other.
LEMMA DrainedExists ==
  ASSUME NEW e, NEW t, NEW m \in Nat
  PROVE  \E f : f = [n \in 0..m |-> Step(f, e, t, n)]
<1> DEFINE Has(k) == \E f : f = [n \in 0..k |-> Step(f, e, t, n)]
           Bad    == {k \in Nat : ~Has(k)}
<1>1. Has(0)
  <2> DEFINE f == [n \in 0..0 |-> e]
  <2>1. \A n \in 0..0 : f[n] = Step(f, e, t, n)
    BY DEF Step
  <2>2. f = [n \in 0..0 |-> f[n]]
    OBVIOUS
  <2> HIDE DEF f
  <2>3. f = [n \in 0..0 |-> Step(f, e, t, n)]
    BY <2>1, <2>2
  <2> QED BY <2>3
<1>2. ASSUME NEW k \in Nat, Has(k) PROVE Has(k + 1)
  <2>1. PICK g : g = [n \in 0..k |-> Step(g, e, t, n)]
    BY <1>2
  <2>2. \A n \in 0..k : g[n] = Step(g, e, t, n)
    BY <2>1
  <2> DEFINE f == [n \in 0..k + 1 |-> IF n = k + 1 THEN Mfc!DrainOne(g[k], t) ELSE g[n]]
  <2>3. f = [n \in 0..k + 1 |-> f[n]]
    OBVIOUS
  <2>4. f[k + 1] = Mfc!DrainOne(g[k], t) /\ \A n \in 0..k : f[n] = g[n]
    OBVIOUS
  <2> HIDE DEF f
  <2>5. ASSUME NEW n \in 0..k + 1 PROVE f[n] = Step(f, e, t, n)
    <3>1. CASE n = k + 1
      <4>1. n # 0 /\ n - 1 = k /\ k \in 0..k
        BY <3>1
      <4> QED BY <2>4, <3>1, <4>1 DEF Step
    <3>2. CASE n = 0
      <4>1. 0 \in 0..k
        OBVIOUS
      <4> QED BY <2>2, <2>4, <3>2, <4>1 DEF Step
    <3>3. CASE n # k + 1 /\ n # 0
      <4>1. n \in 0..k /\ n - 1 \in 0..k
        BY <3>3
      <4> QED BY <2>2, <2>4, <3>3, <4>1 DEF Step
    <3> QED BY <3>1, <3>2, <3>3
  <2>6. f = [n \in 0..k + 1 |-> Step(f, e, t, n)]
    BY <2>3, <2>5
  <2> QED BY <2>6
<1> HIDE DEF Has
<1>3. Bad = {}
  <2> SUFFICES ASSUME Bad # {} PROVE FALSE
    OBVIOUS
  <2>1. PICK k \in Bad : \A j \in Bad : k <= j
    <3>1. Bad \in SUBSET Nat
      OBVIOUS
    <3> HIDE DEF Bad
    <3> QED BY <3>1, LeastExists
  <2>2. k \in Nat /\ k # 0
    BY <1>1
  <2>3. k - 1 \in Nat /\ k - 1 \notin Bad /\ (k - 1) + 1 = k
    <3>1. k - 1 \in Nat /\ ~(k <= k - 1)
      BY <2>2
    <3> QED BY <2>1, <2>2, <3>1
  <2>4. Has(k)
    BY <1>2, <2>3
  <2> QED BY <2>4
<1>4. Has(m)
  BY <1>3
<1> QED BY <1>4 DEF Has

LEMMA DrainOneKeeps ==
  ASSUME NEW f, NEW t \in Tags, cmds' = cmds, EngineInv(f, cmds', {}, 0, {t})
  PROVE  /\ EngineInv(Mfc!DrainOne(f, t), cmds', {}, 0, {t}) /\ Unfinished(Mfc!DrainOne(f, t), {}) \subseteq Unfinished(f, {})
         /\ Still(f, t) => Mfc!DrainOne(f, t) = f
         /\ ~Still(f, t) => Len(Mfc!DrainOne(f, t).deferred) = Len(f.deferred) - 1
<1>1. CASE Still(f, t)
  BY <1>1 DEF Still, Mfc!DrainOne
<1>2. CASE ~Still(f, t)
  <2> DEFINE S == Mfc!Waiting(f, t)
             i == CHOOSE j \in S : \A k \in S : j <= k
             b == Picked(f, i)
             c == f.deferred[i]
  <2>1. t \in Tags \ Mfc!Stalled(f) /\ S # {}
    BY <1>2 DEF Still
  <2>2. S \in SUBSET Nat
    BY DEF Mfc!Waiting
  <2>3. i \in S /\ \A k \in S : i <= k
    <3> HIDE DEF S
    <3> QED BY <2>1, <2>2, LeastExists
  <2>4. i \in 1..Len(f.deferred) /\ cmds'[f.deferred[i]].tag = t
    BY <2>3 DEF Mfc!Waiting
  <2>5. \A j \in 1..Len(f.deferred) : cmds'[f.deferred[j]].tag = t => i <= j
    BY <2>3 DEF Mfc!Waiting
  <2>6. Mfc!DrainOne(f, t) = Mfc!Transfer(b, c, 1)
    BY <1>2 DEF Still, Mfc!DrainOne, Picked
  <2> HIDE DEF i, S
  <2>7. /\ EngineInv(b, cmds', {c}, 1, {t}) /\ MayMove(b, cmds', c, 1) /\ Unfinished(b, {c}) = Unfinished(f, {})
        /\ b.deferred = Mfc!RemoveAt(f.deferred, i)
    <3>1. Taken(f, cmds', t, i)
      BY <2>1, <2>4, <2>5, PickKeeps
    <3> QED BY <3>1 DEF Taken
  <2> HIDE DEF b, c
  <2>8. /\ EngineInv(Mfc!Transfer(b, c, 1), cmds', {}, 0, {t}) /\ Unfinished(Mfc!Transfer(b, c, 1), {}) \subseteq Unfinished(b, {c})
        /\ Mfc!Transfer(b, c, 1).deferred = b.deferred
    BY <2>7, TransferKeeps
  <2>9. f.deferred \in Seq(Nat)
    BY DEF EngineInv, EngineTypes, EngineRec
  <2>10. Len(Mfc!RemoveAt(f.deferred, i)) = Len(f.deferred) - 1
    BY <2>4, <2>9, RemoveAtKeeps
  <2> QED BY <1>2, <2>6, <2>7, <2>8, <2>10
<1> QED BY <1>1, <1>2

\* After as many steps as the queue is deep nothing of the tag waits without a stalled list.
LEMMA DrainKeeps ==
  ASSUME NEW e, NEW t \in Tags, cmds' = cmds, EngineInv(e, cmds', {}, 0, {t}),
         Depth \in Nat, Len(e.deferred) <= Depth
  PROVE  EngineInv(Mfc!Drain(e, t), cmds', {}, 0, {}) /\ Unfinished(Mfc!Drain(e, t), {}) \subseteq Unfinished(e, {})
<1> DEFINE g == Drained(e, t, Depth)
           Good(n) == /\ EngineInv(g[n], cmds', {}, 0, {t}) /\ Unfinished(g[n], {}) \subseteq Unfinished(e, {})
                      /\ Still(g[n], t) \/ Len(g[n].deferred) + n <= Len(e.deferred)
           Bad == {n \in 0..Depth : ~Good(n)}
<1>1. g = [n \in 0..Depth |-> Step(g, e, t, n)]
  BY DrainedExists DEF Drained
<1>2. Mfc!Drain(e, t) = g[Depth]
  BY DEF Mfc!Drain, Drained, Step
<1> HIDE DEF g
<1>3. \A n \in 0..Depth : g[n] = Step(g, e, t, n)
  BY <1>1
<1>4. ASSUME NEW f, EngineInv(f, cmds', {}, 0, {t}) PROVE Len(f.deferred) \in Nat
  <2>1. f.deferred \in Seq(Nat)
    BY <1>4 DEF EngineInv, EngineTypes, EngineRec
  <2> QED BY <2>1
<1>5. Good(0)
  <2>1. g[0] = e
    BY <1>3 DEF Step
  <2>2. Len(e.deferred) \in Nat
    BY <1>4
  <2> QED BY <2>1, <2>2
<1>6. ASSUME NEW n \in 1..Depth, Good(n - 1) PROVE Good(n)
  <2>1. g[n] = Mfc!DrainOne(g[n - 1], t)
    BY <1>3 DEF Step
  <2>2. PICK f : f = g[n - 1]
    OBVIOUS
  <2>3. EngineInv(f, cmds', {}, 0, {t}) /\ Unfinished(f, {}) \subseteq Unfinished(e, {})
    BY <1>6, <2>2
  <2>4. /\ EngineInv(g[n], cmds', {}, 0, {t}) /\ Unfinished(g[n], {}) \subseteq Unfinished(f, {})
        /\ Still(f, t) => g[n] = f
        /\ ~Still(f, t) => Len(g[n].deferred) = Len(f.deferred) - 1
    BY <2>1, <2>2, <2>3, DrainOneKeeps
  <2>5. Len(f.deferred) \in Nat /\ Len(e.deferred) \in Nat
    BY <1>4, <2>3
  <2>6. CASE Still(f, t)
    BY <2>3, <2>4, <2>6
  <2>7. CASE ~Still(f, t)
    <3>1. Len(f.deferred) + (n - 1) <= Len(e.deferred)
      BY <1>6, <2>2, <2>7
    <3>2. Len(g[n].deferred) + n <= Len(e.deferred)
      <4> HIDE DEF Good
      <4> QED BY <2>4, <2>5, <2>7, <3>1
    <3> QED BY <2>3, <2>4, <3>2
  <2> QED BY <2>6, <2>7
<1> HIDE DEF Good
<1>7. Bad = {}
  <2> SUFFICES ASSUME Bad # {} PROVE FALSE
    OBVIOUS
  <2>1. PICK k \in Bad : \A j \in Bad : k <= j
    <3>1. Bad \in SUBSET Nat
      OBVIOUS
    <3> HIDE DEF Bad
    <3> QED BY <3>1, LeastExists
  <2>2. k \in 0..Depth /\ k # 0
    BY <1>5
  <2>3. k - 1 \in 0..Depth /\ k \in 1..Depth /\ ~(k <= k - 1)
    BY <2>2
  <2>4. Good(k - 1)
    BY <2>1, <2>3
  <2>5. Good(k)
    BY <1>6, <2>3, <2>4
  <2> QED BY <2>5
<1>8. Good(Depth)
  BY <1>7
<1>9. PICK f : f = g[Depth]
  OBVIOUS
<1>10. /\ EngineInv(f, cmds', {}, 0, {t}) /\ Unfinished(f, {}) \subseteq Unfinished(e, {})
       /\ Still(f, t) \/ Len(f.deferred) + Depth <= Len(e.deferred)
  BY <1>8, <1>9 DEF Good
<1>11. Still(f, t)
  <2>1. CASE Len(f.deferred) + Depth <= Len(e.deferred)
    <3>1. Len(f.deferred) \in Nat /\ Len(e.deferred) \in Nat
      BY <1>4, <1>10
    <3>2. Len(f.deferred) = 0
      BY <2>1, <3>1
    <3> QED BY <3>2 DEF Still, Mfc!Waiting
  <2> QED BY <1>10, <2>1
<1>12. BehindLists(f, cmds', {})
  <2>1. BehindLists(f, cmds', {t})
    BY <1>10 DEF EngineInv
  <2>2. ASSUME NEW w \in Waits(f), cmds'[w].tag = t PROVE t \in Mfc!Stalled(f)
    <3>1. PICK i \in 1..Len(f.deferred) : w = f.deferred[i]
      BY DEF Waits
    <3>2. i \in Mfc!Waiting(f, t)
      BY <2>2, <3>1 DEF Mfc!Waiting
    <3> QED BY <1>11, <3>2 DEF Still
  <2> QED BY <2>1, <2>2 DEF BehindLists
<1>13. EngineInv(f, cmds', {}, 0, {})
  BY <1>10, <1>12 DEF EngineInv
<1> QED BY <1>2, <1>9, <1>10, <1>13

-----------------------------------------------------------------------------
(* The commands *)

UpdateRec == [type : {"none", "now", "any", "all", "ready"}, mask : SUBSET Tags, status : SUBSET Tags, upto : Nat]

\* What a status says of the commands that were issued before it was asked for.
Truth(u, C, e) == u.type = "ready" => \A c \in 1..u.upto : C[c].tag \in u.status => c \notin Unfinished(e, {})

MfcInv ==
    /\ EngineInv(Mfc!Engine, cmds, {}, 0, {})
    /\ queued <= Depth
    /\ update \in UpdateRec /\ update.upto <= Len(cmds) /\ Truth(update, cmds, Mfc!Engine)

LEMMA MfcInitInv == MfcSizes /\ Mfc!Init => MfcInv
<1> SUFFICES ASSUME MfcSizes, Mfc!Init PROVE MfcInv
  OBVIOUS
<1> DEFINE e == Mfc!Engine
<1>1. /\ e = [outstanding |-> [t \in Tags |-> 0], queued |-> 0, completed |-> Tags,
              stall |-> [t \in Tags |-> Mfc!NoStall], deferred |-> <<>>, moved |-> [t \in Tags |-> <<>>]]
      /\ cmds = <<>> /\ update = Mfc!NoUpdate /\ queued = 0
  BY DEF Mfc!Init, Mfc!Engine
<1>2. e \in EngineRec
  <2>1. <<>> \in Seq(Nat \X Nat) /\ <<>> \in Seq(Nat) /\ Mfc!NoStall \in [cmd : Nat, next : Nat] /\ 0 \in Int
    BY DEF Mfc!NoStall
  <2> QED BY <1>1, <2>1 DEF EngineRec
<1>3. /\ Len(e.deferred) = 0 /\ \A t \in Tags : Len(e.moved[t]) = 0 /\ e.stall[t] = Mfc!NoStall /\ e.outstanding[t] = 0
      /\ e.queued = 0 /\ e.completed = Tags
  BY <1>1
<1>4. cmds \in Seq(Command) /\ Len(cmds) = 0
  BY <1>1
<1> HIDE DEF e
<1>5. Waits(e) = {} /\ Mfc!Stalled(e) = {} /\ Halts(e) = {} /\ Unfinished(e, {}) = {}
  <2>1. Waits(e) = {} /\ Mfc!Stalled(e) = {}
    BY <1>3 DEF Waits, Mfc!Stalled
  <2> QED BY <2>1 DEF Halts, Unfinished
<1>6. EngineTypes(e, cmds) /\ Ordered(e) /\ Fenced(e, cmds, {})
  <2>1. \A t \in Tags : 1..Len(e.moved[t]) = {}
    BY <1>3
  <2> QED BY <1>2, <1>4, <2>1 DEF EngineTypes, Ordered, Fenced
<1>7. Placed(e, cmds, {}) /\ Parted(e, cmds, {}, 0) /\ BehindLists(e, cmds, {})
  BY <1>3, <1>4, <1>5 DEF Placed, Parted, BehindLists
<1>8. Accounted(e, cmds, {})
  <2>1. \A t \in Tags : OpenOn(e, cmds, {}, t) = {}
    BY <1>5 DEF OpenOn
  <2> QED BY <1>3, <1>5, <2>1, FS_EmptySet DEF Accounted
<1>9. EngineInv(e, cmds, {}, 0, {})
  BY <1>6, <1>7, <1>8 DEF EngineInv
<1>10. update \in UpdateRec /\ update.upto <= Len(cmds) /\ Truth(update, cmds, e)
  BY <1>1, <1>4 DEF UpdateRec, Mfc!NoUpdate, Truth
<1> QED BY <1>1, <1>9, <1>10 DEF MfcInv, MfcSizes, e

\* A request that becomes ready only tells of tags that are completed.
LEMMA RefreshTells ==
  ASSUME NEW u \in UpdateRec, NEW ended \in SUBSET Tags, Mfc!Refreshed(u, ended)
  PROVE  /\ update' \in UpdateRec /\ update'.upto = u.upto
         /\ update' = u \/ update'.status \subseteq ended
<1> DEFINE r == [u EXCEPT !.type = "ready", !.status = ended \cap u.mask]
<1>1. update' = u \/ update' = r
  BY DEF Mfc!Refreshed
<1>2. r \in UpdateRec /\ r.upto = u.upto /\ r.status = ended \cap u.mask
  BY DEF UpdateRec
<1> QED BY <1>1, <1>2

\* The engine that a handler leaves.
LEMMA EngineBecomes ==
  ASSUME NEW f \in EngineRec, Mfc!Becomes(f)
  PROVE  Mfc!Engine' = f /\ queued' = f.queued
<1>1. f = [outstanding |-> f.outstanding, queued |-> f.queued, completed |-> f.completed,
           stall |-> f.stall, deferred |-> f.deferred, moved |-> f.moved]
  BY DEF EngineRec
<1>2. Mfc!Engine' = [outstanding |-> f.outstanding, queued |-> f.queued, completed |-> f.completed,
                 stall |-> f.stall, deferred |-> f.deferred, moved |-> f.moved]
  BY DEF Mfc!Becomes, Mfc!Engine
<1> QED BY <1>1, <1>2 DEF Mfc!Becomes

\* What a handler does to the commands that are open settles the invariant.
LEMMA HandlerKeeps ==
  ASSUME MfcInv, NEW f, EngineInv(f, cmds', {}, 0, {}), Mfc!Becomes(f), f.queued <= Depth,
         Mfc!Refreshed(update, f.completed) \/ UNCHANGED update,
         Len(cmds') >= Len(cmds), \A c \in 1..Len(cmds) : cmds'[c] = cmds[c],
         Unfinished(f, {}) \cap 1..Len(cmds) \subseteq Unfinished(Mfc!Engine, {})
  PROVE  MfcInv'
<1>1. cmds \in Seq(Command) /\ cmds' \in Seq(Command) /\ f \in EngineRec
  BY DEF MfcInv, EngineInv, EngineTypes
<1>2. Len(cmds) \in Nat /\ Len(cmds') \in Nat
  BY <1>1
<1>3. Mfc!Engine' = f /\ queued' = f.queued
  BY <1>1, EngineBecomes
<1>4. f.completed = {t \in Tags : OpenOn(f, cmds', {}, t) = {}}
  BY DEF EngineInv, Accounted
<1>5. update \in UpdateRec /\ update.upto <= Len(cmds) /\ Truth(update, cmds, Mfc!Engine) /\ update.upto \in Nat
  BY DEF MfcInv, UpdateRec
<1>6. /\ update' \in UpdateRec /\ update'.upto = update.upto
      /\ update' = update \/ update'.status \subseteq f.completed
  <2>1. CASE Mfc!Refreshed(update, f.completed)
    <3>1. f.completed \in SUBSET Tags
      BY <1>4
    <3> QED BY <1>5, <2>1, <3>1, RefreshTells
  <2>2. CASE UNCHANGED update
    BY <1>5, <2>2
  <2> QED BY <2>1, <2>2
<1>7. update'.upto <= Len(cmds')
  BY <1>2, <1>5, <1>6
<1>8. ASSUME update'.type = "ready", NEW c \in 1..update'.upto, cmds'[c].tag \in update'.status
      PROVE  c \notin Unfinished(f, {})
  <2>1. c \in 1..Len(cmds) /\ c \in 1..update.upto /\ cmds'[c] = cmds[c]
    BY <1>2, <1>5, <1>6
  <2>2. CASE update' = update
    BY <1>5, <1>8, <2>1, <2>2 DEF Truth
  <2>3. CASE update'.status \subseteq f.completed
    <3>1. OpenOn(f, cmds', {}, cmds'[c].tag) = {}
      BY <1>4, <1>8, <2>3
    <3> QED BY <3>1 DEF OpenOn
  <2> QED BY <1>6, <2>2, <2>3
<1>9. Truth(update', cmds', f)
  BY <1>8 DEF Truth
<1>10. EngineInv(Mfc!Engine, cmds, {}, 0, {})'
  BY <1>3
<1>11. Truth(update, cmds, Mfc!Engine)'
  BY <1>3, <1>9
<1> QED BY <1>3, <1>6, <1>7, <1>10, <1>11 DEF MfcInv

LEMMA IssueKeeps ==
  ASSUME MfcSizes, MfcInv, NEW t \in Tags, NEW fence \in BOOLEAN, NEW elements \in Lists,
         Mfc!Issue(t, fence, elements)
  PROVE  MfcInv'
<1> DEFINE r == [tag |-> t, fence |-> fence, elements |-> elements]
           c == Len(cmds) + 1
           b == Mfc!Accepted(Mfc!Engine, t)
<1>1. EngineInv(Mfc!Engine, cmds, {}, 0, {}) /\ cmds \in Seq(Command) /\ queued \in Int /\ Depth \in Nat
  <2>1. EngineInv(Mfc!Engine, cmds, {}, 0, {})
    BY DEF MfcInv
  <2>2. cmds \in Seq(Command) /\ Mfc!Engine \in EngineRec
    BY <2>1 DEF EngineInv, EngineTypes
  <2>3. Mfc!Engine.queued = queued
    BY DEF Mfc!Engine
  <2> QED BY <2>1, <2>2, <2>3 DEF EngineRec, MfcSizes
<1>2. r \in Command /\ r.tag = t /\ r.fence = fence /\ r.elements = elements
  BY DEF Command, MfcSizes
<1>3. /\ queued < Depth /\ cmds' = Append(cmds, r)
      /\ stall[t] = Mfc!NoStall \/ Len(elements) = 1 \/ Mfc!MustWait(t, fence)
  BY DEF Mfc!Issue, MfcSizes
<1>4. /\ Mfc!MustWait(t, fence) => Mfc!Becomes([b EXCEPT !.deferred = Append(@, c)]) /\ UNCHANGED update
      /\ ~Mfc!MustWait(t, fence) => Mfc!Becomes(Mfc!Transfer(b, c, 1)) /\ Mfc!Refreshed(update, Mfc!Transfer(b, c, 1).completed)
  BY DEF Mfc!Issue
<1> HIDE DEF r
<1>5. Received(Mfc!Engine, cmds, cmds', r)
  BY <1>1, <1>2, <1>3, AcceptKeeps
<1>6. /\ EngineInv(b, cmds', {c}, 1, {}) /\ Unfinished(b, {c}) = Unfinished(Mfc!Engine, {}) \cup {c}
      /\ Unfinished(Mfc!Engine, {}) \subseteq 1..Len(cmds) /\ Waits(b) = Waits(Mfc!Engine)
      /\ cmds' \in Seq(Command) /\ Len(cmds') = c /\ cmds'[c] = r /\ \A d \in 1..Len(cmds) : cmds'[d] = cmds[d]
  BY <1>2, <1>5 DEF Received
<1>7. b.stall = stall /\ b.deferred = deferred /\ Mfc!Stalled(b) = {u \in Tags : stall[u] # Mfc!NoStall}
  BY DEF Mfc!Accepted, Mfc!Engine, Mfc!Stalled
<1>8. /\ Len(cmds) \in Nat /\ c \in 1..Len(cmds') /\ cmds'[c].tag = t /\ cmds'[c].fence = fence
      /\ Size(cmds', c) = Len(elements)
  BY <1>1, <1>2, <1>6 DEF Size
<1>9. \A w \in Waits(b) : w < c /\ w \in 1..Len(cmds)
  <2>1. \A w \in Waits(b) : w \in 1..Len(cmds)
    BY <1>6 DEF Unfinished
  <2> QED BY <1>8, <2>1
<1>10. \A w \in Waits(b) : cmds'[w].tag = cmds[w].tag /\ \E i \in 1..Len(deferred) : deferred[i] = w
  BY <1>6, <1>7, <1>9 DEF Waits
<1>11. BehindLists(b, cmds', {}) /\ Placed(b, cmds', {c})
  BY <1>6 DEF EngineInv
<1>12. Mfc!MustWait(t, fence) <=> (fence /\ t \in Mfc!Stalled(b)) \/ \E w \in Waits(b) : cmds'[w].tag = t
  <2>1. \A i \in 1..Len(deferred) : deferred[i] \in Waits(b)
    BY <1>7 DEF Waits
  <2>2. (\E i \in 1..Len(deferred) : cmds[deferred[i]].tag = t) <=> \E w \in Waits(b) : cmds'[w].tag = t
    BY <1>10, <2>1
  <2> QED BY <1>7, <2>2 DEF Mfc!MustWait
<1> HIDE DEF b, c
<1>13. ASSUME NEW f, EngineInv(f, cmds', {}, 0, {}), Mfc!Becomes(f), Unfinished(f, {}) \subseteq Unfinished(b, {c}),
              Mfc!Refreshed(update, f.completed) \/ UNCHANGED update
       PROVE  MfcInv'
  <2>1. f.queued <= Depth
    <3>1. f.queued = Cardinality(Unfinished(f, {})) /\ b.queued = Cardinality(Unfinished(b, {c}))
      BY <1>6, <1>13 DEF EngineInv, Accounted
    <3>2. IsFiniteSet(Unfinished(b, {c}))
      BY <1>6, <1>11, OpenIsFinite
    <3>3. Cardinality(Unfinished(f, {})) <= Cardinality(Unfinished(b, {c})) /\ IsFiniteSet(Unfinished(f, {}))
      BY <1>13, <3>2, FS_Subset
    <3>4. Cardinality(Unfinished(f, {})) \in Nat /\ Cardinality(Unfinished(b, {c})) \in Nat
      BY <3>2, <3>3, FS_CardinalityType
    <3>5. b.queued = queued + 1
      BY DEF b, Mfc!Accepted, Mfc!Engine
    <3> QED BY <1>1, <1>3, <3>1, <3>3, <3>4, <3>5
  <2>2. Len(cmds') >= Len(cmds)
    BY <1>6, <1>8 DEF c
  <2>3. Unfinished(f, {}) \cap 1..Len(cmds) \subseteq Unfinished(Mfc!Engine, {})
    <3>1. c \notin 1..Len(cmds)
      BY <1>8 DEF c
    <3> QED BY <1>6, <1>13, <3>1
  <2> QED BY <1>6, <1>13, <2>1, <2>2, <2>3, HandlerKeeps
<1>14. CASE Mfc!MustWait(t, fence)
  <2>1. t \in Mfc!Stalled(b)
    BY <1>11, <1>12, <1>14 DEF BehindLists
  <2>2. b.stall[t].cmd < c
    <3>1. b.stall[t].cmd \in Unfinished(b, {c}) /\ b.stall[t].cmd \notin {c}
      BY <1>11, <2>1 DEF Unfinished, Halts, Placed
    <3>2. b.stall[t].cmd \in 1..Len(cmds)
      BY <1>6, <3>1
    <3> QED BY <1>8, <3>2 DEF c
  <2>3. /\ EngineInv([b EXCEPT !.deferred = Append(@, c)], cmds', {}, 0, {})
        /\ Unfinished([b EXCEPT !.deferred = Append(@, c)], {}) = Unfinished(b, {c})
    BY <1>6, <1>8, <1>9, <2>1, <2>2, DeferKeeps
  <2> QED BY <1>4, <1>13, <1>14, <2>3
<1>15. CASE ~Mfc!MustWait(t, fence)
  <2>1. MayMove(b, cmds', c, 1)
    <3>1. Size(cmds', c) \in Nat \ {0}
      BY <1>6, <1>8, CommandOf
    <3>2. t \in Mfc!Stalled(b) => Size(cmds', c) = 1 /\ ~fence
      BY <1>3, <1>7, <1>8, <1>12, <1>15
    <3>3. \A w \in Waits(b) : cmds'[w].tag # t
      BY <1>12, <1>15
    <3>4. 1 \in 1..Size(cmds', c)
      BY <3>1
    <3> QED BY <1>8, <3>2, <3>3, <3>4 DEF MayMove
  <2>2. EngineInv(Mfc!Transfer(b, c, 1), cmds', {}, 0, {}) /\ Unfinished(Mfc!Transfer(b, c, 1), {}) \subseteq Unfinished(b, {c})
    BY <1>6, <2>1, TransferKeeps
  <2> QED BY <1>4, <1>13, <1>15, <2>2
<1> QED BY <1>14, <1>15

\* What waits is not more than the queue is deep.
LEMMA WaitersFit ==
  ASSUME NEW e, NEW C, NEW H, NEW n, NEW X, EngineInv(e, C, H, n, X)
  PROVE  Len(e.deferred) <= e.queued
<1>1. Placed(e, C, H) /\ C \in Seq(Command) /\ e.queued = Cardinality(Unfinished(e, H)) /\ e.deferred \in Seq(Nat)
  BY DEF EngineInv, EngineTypes, EngineRec, Accounted
<1>2. IsFiniteSet(Unfinished(e, H)) /\ Cardinality(Unfinished(e, H)) \in Nat
  BY <1>1, OpenIsFinite
<1>3. Len(e.deferred) \in Nat /\ e.deferred \in [1..Len(e.deferred) -> Nat]
  BY <1>1
<1> DEFINE S == 1..Len(e.deferred)
           f == e.deferred
<1>4. f = [x \in S |-> f[x]] /\ IsFiniteSet(S) /\ Cardinality(S) = Len(e.deferred)
  <2>1. f = [x \in S |-> f[x]]
    BY <1>3
  <2>2. PICK L : L = Len(e.deferred)
    OBVIOUS
  <2>3. IsFiniteSet(1..L) /\ Cardinality(1..L) = L
    <3>1. L \in Nat
      BY <1>3, <2>2
    <3>2. IsFiniteSet(1..L) /\ Cardinality(1..L) = IF 1 > L THEN 0 ELSE L - 1 + 1
      BY <3>1, FS_Interval
    <3> QED BY <3>1, <3>2
  <2> QED BY <2>1, <2>2, <2>3
<1>5. ASSUME NEW x \in S, NEW y \in S, f[x] = f[y] PROVE x = y
  <2>1. x \in Nat /\ y \in Nat /\ f[x] \in Nat /\ (x < y => f[x] < f[y]) /\ (y < x => f[y] < f[x])
    BY <1>1, <1>3 DEF Placed
  <2> QED BY <1>5, <2>1
<1>6. Cardinality({f[x] : x \in S}) = Cardinality(S)
  <2> HIDE DEF f, S
  <2> QED BY <1>4, <1>5, AsManyImages
<1>7. {f[x] : x \in S} = Waits(e)
  BY DEF Waits
<1>8. Cardinality(Waits(e)) <= Cardinality(Unfinished(e, H))
  <2>1. Waits(e) \in SUBSET Unfinished(e, H)
    BY DEF Unfinished
  <2> QED BY <1>2, <2>1, FS_Subset
<1> QED BY <1>1, <1>4, <1>6, <1>7, <1>8

LEMMA AckStallKeeps ==
  ASSUME MfcSizes, MfcInv, NEW t \in Tags, Mfc!AckStall(t)
  PROVE  MfcInv'
<1> DEFINE c == stall[t].cmd
           n == stall[t].next
           b == [Mfc!Engine EXCEPT !.stall[t] = Mfc!NoStall]
           rest == Mfc!Transfer(b, c, n)
           f == IF t \in Mfc!Stalled(rest) THEN rest ELSE Mfc!Drain(rest, t)
<1>1. EngineInv(Mfc!Engine, cmds, {}, 0, {}) /\ cmds \in Seq(Command) /\ queued \in Int /\ Depth \in Nat /\ queued <= Depth
  <2>1. EngineInv(Mfc!Engine, cmds, {}, 0, {}) /\ queued <= Depth
    BY DEF MfcInv
  <2>2. cmds \in Seq(Command) /\ Mfc!Engine \in EngineRec
    BY <2>1 DEF EngineInv, EngineTypes
  <2>3. Mfc!Engine.queued = queued
    BY DEF Mfc!Engine
  <2> QED BY <2>1, <2>2, <2>3 DEF EngineRec, MfcSizes
<1>2. /\ cmds' = cmds /\ Mfc!Becomes(f) /\ Mfc!Refreshed(update, f.completed)
      /\ t \in Mfc!Stalled(Mfc!Engine) /\ Mfc!Engine.stall = stall
  BY DEF Mfc!AckStall, Mfc!Engine, Mfc!Stalled
<1> HIDE DEF f
<1>3. EngineInv(b, cmds', {c}, n, {t}) /\ MayMove(b, cmds', c, n) /\ Unfinished(b, {c}) = Unfinished(Mfc!Engine, {})
  <2>1. /\ EngineInv([Mfc!Engine EXCEPT !.stall[t] = Mfc!NoStall], cmds, {Mfc!Engine.stall[t].cmd}, Mfc!Engine.stall[t].next, {t})
        /\ MayMove([Mfc!Engine EXCEPT !.stall[t] = Mfc!NoStall], cmds, Mfc!Engine.stall[t].cmd, Mfc!Engine.stall[t].next)
        /\ Unfinished([Mfc!Engine EXCEPT !.stall[t] = Mfc!NoStall], {Mfc!Engine.stall[t].cmd}) = Unfinished(Mfc!Engine, {})
    BY <1>1, <1>2, AckKeeps
  <2> QED BY <1>2, <2>1
<1> HIDE DEF b, c, n
<1>4. /\ EngineInv(rest, cmds', {}, 0, {t}) /\ Unfinished(rest, {}) \subseteq Unfinished(b, {c})
  BY <1>3, TransferKeeps
<1> HIDE DEF rest
<1>5. ASSUME NEW g, NEW X, EngineInv(g, cmds', {}, 0, X), Unfinished(g, {}) \subseteq Unfinished(Mfc!Engine, {})
      PROVE  g.queued <= Depth /\ g.queued \in Int
  <2>1. g.queued = Cardinality(Unfinished(g, {})) /\ Mfc!Engine.queued = Cardinality(Unfinished(Mfc!Engine, {}))
    BY <1>1, <1>5 DEF EngineInv, Accounted
  <2>2. IsFiniteSet(Unfinished(Mfc!Engine, {}))
    <3>1. Placed(Mfc!Engine, cmds, {})
      BY <1>1 DEF EngineInv
    <3> QED BY <1>1, <3>1, OpenIsFinite
  <2>3. Cardinality(Unfinished(g, {})) <= Cardinality(Unfinished(Mfc!Engine, {})) /\ IsFiniteSet(Unfinished(g, {}))
    BY <1>5, <2>2, FS_Subset
  <2>4. Cardinality(Unfinished(g, {})) \in Nat /\ Cardinality(Unfinished(Mfc!Engine, {})) \in Nat
    BY <2>2, <2>3, FS_CardinalityType
  <2>5. Mfc!Engine.queued = queued
    BY DEF Mfc!Engine
  <2> QED BY <1>1, <2>1, <2>3, <2>4, <2>5
<1>6. EngineInv(f, cmds', {}, 0, {}) /\ Unfinished(f, {}) \subseteq Unfinished(rest, {})
  <2>1. CASE t \in Mfc!Stalled(rest)
    <3>1. f = rest
      BY <2>1 DEF f
    <3>2. BehindLists(rest, cmds', {})
      BY <1>4, <2>1 DEF EngineInv, BehindLists
    <3> QED BY <1>4, <3>1, <3>2 DEF EngineInv
  <2>2. CASE t \notin Mfc!Stalled(rest)
    <3>1. f = Mfc!Drain(rest, t)
      BY <2>2 DEF f
    <3>2. Len(rest.deferred) <= rest.queued
      BY <1>4, WaitersFit
    <3>3. rest.queued <= Depth /\ rest.queued \in Int
      BY <1>3, <1>4, <1>5
    <3>4. Len(rest.deferred) \in Nat
      <4>1. rest.deferred \in Seq(Nat)
        BY <1>4 DEF EngineInv, EngineTypes, EngineRec
      <4> QED BY <4>1
    <3>5. Len(rest.deferred) <= Depth
      BY <1>1, <3>2, <3>3, <3>4
    <3> QED BY <1>1, <1>2, <1>4, <3>1, <3>5, DrainKeeps
  <2> QED BY <2>1, <2>2
<1>7. f.queued <= Depth
  BY <1>3, <1>4, <1>5, <1>6
<1>8. Len(cmds') >= Len(cmds)
  BY <1>1, <1>2
<1> QED BY <1>2, <1>3, <1>4, <1>6, <1>7, <1>8, HandlerKeeps

LEMMA RequestKeeps ==
  ASSUME MfcSizes, MfcInv, NEW type \in {"now", "any", "all"}, NEW mask \in Masks,
         Mfc!RequestStatus(type, mask)
  PROVE  MfcInv'
<1> DEFINE u == [type |-> type, mask |-> mask, status |-> {}, upto |-> Len(cmds)]
<1>1. /\ Mfc!Refreshed(u, tagsDone) /\ cmds' = cmds /\ queued' = queued
      /\ Mfc!Engine' = Mfc!Engine
  BY DEF Mfc!RequestStatus, Mfc!Engine
<1>2. /\ EngineInv(Mfc!Engine, cmds, {}, 0, {}) /\ cmds \in Seq(Command)
      /\ tagsDone = {t \in Tags : OpenOn(Mfc!Engine, cmds, {}, t) = {}}
  <2>1. EngineInv(Mfc!Engine, cmds, {}, 0, {})
    BY DEF MfcInv
  <2>2. Mfc!Engine.completed = tagsDone
    BY DEF Mfc!Engine
  <2> QED BY <2>1, <2>2 DEF EngineInv, EngineTypes, Accounted
<1>3. u \in UpdateRec /\ u.upto = Len(cmds) /\ u.type # "ready" /\ Len(cmds) \in Nat
  BY <1>2 DEF UpdateRec, MfcSizes
<1> HIDE DEF u
<1>4. /\ update' \in UpdateRec /\ update'.upto = u.upto
      /\ update' = u \/ update'.status \subseteq tagsDone
  <2>1. tagsDone \in SUBSET Tags
    BY <1>2
  <2> QED BY <1>1, <1>3, <2>1, RefreshTells
<1>5. ASSUME update'.type = "ready", NEW c \in 1..update'.upto, cmds[c].tag \in update'.status
      PROVE  c \notin Unfinished(Mfc!Engine, {})
  <2>1. OpenOn(Mfc!Engine, cmds, {}, cmds[c].tag) = {}
    BY <1>2, <1>3, <1>4, <1>5
  <2> QED BY <2>1 DEF OpenOn
<1>6. EngineInv(Mfc!Engine, cmds, {}, 0, {})'
  BY <1>1, <1>2
<1>7. Truth(update, cmds, Mfc!Engine)'
  <2>1. Truth(update', cmds, Mfc!Engine)
    BY <1>5 DEF Truth
  <2> QED BY <1>1, <2>1
<1>8. queued' <= Depth /\ update'.upto <= Len(cmds')
  <2>1. queued <= Depth
    BY DEF MfcInv
  <2> QED BY <1>1, <1>3, <1>4, <2>1
<1> QED BY <1>4, <1>6, <1>7, <1>8 DEF MfcInv

LEMMA ReadKeeps ==
  ASSUME MfcInv, Mfc!ReadStatus
  PROVE  MfcInv'
<1>1. update' = Mfc!NoUpdate /\ cmds' = cmds /\ queued' = queued /\ Mfc!Engine' = Mfc!Engine
  BY DEF Mfc!ReadStatus, Mfc!Engine
<1>2. EngineInv(Mfc!Engine, cmds, {}, 0, {}) /\ queued <= Depth /\ cmds \in Seq(Command)
  BY DEF MfcInv, EngineInv, EngineTypes
<1>3. EngineInv(Mfc!Engine, cmds, {}, 0, {})'
  BY <1>1, <1>2
<1>4. Truth(update, cmds, Mfc!Engine)'
  <2>1. Truth(Mfc!NoUpdate, cmds, Mfc!Engine)
    BY DEF Truth, Mfc!NoUpdate
  <2> QED BY <1>1, <2>1
<1>5. update' \in UpdateRec /\ update'.upto <= Len(cmds')
  BY <1>1, <1>2 DEF UpdateRec, Mfc!NoUpdate
<1> QED BY <1>1, <1>2, <1>3, <1>4, <1>5 DEF MfcInv

LEMMA MfcNextInv == MfcSizes /\ MfcInv /\ [Mfc!Next]_(Mfc!mfcVars) => MfcInv'
<1> SUFFICES ASSUME MfcSizes, MfcInv, [Mfc!Next]_(Mfc!mfcVars) PROVE MfcInv'
  OBVIOUS
<1>1. ASSUME NEW t \in Tags, NEW fence \in BOOLEAN, NEW elements \in Lists, Mfc!Issue(t, fence, elements)
      PROVE MfcInv'
  BY <1>1, IssueKeeps
<1>2. ASSUME NEW t \in Tags, Mfc!AckStall(t) PROVE MfcInv'
  BY <1>2, AckStallKeeps
<1>3. ASSUME NEW type \in {"now", "any", "all"}, NEW mask \in Masks, Mfc!RequestStatus(type, mask)
      PROVE MfcInv'
  BY <1>3, RequestKeeps
<1>4. CASE Mfc!ReadStatus
  BY <1>4, ReadKeeps
<1>5. CASE UNCHANGED Mfc!mfcVars
  <2>1. cmds' = cmds /\ update' = update /\ queued' = queued /\ Mfc!Engine' = Mfc!Engine
    BY <1>5 DEF Mfc!mfcVars, Mfc!Engine
  <2>2. EngineInv(Mfc!Engine, cmds, {}, 0, {})' /\ Truth(update, cmds, Mfc!Engine)'
    BY <2>1 DEF MfcInv
  <2> QED BY <2>1, <2>2 DEF MfcInv
<1> QED BY <1>1, <1>2, <1>3, <1>4, <1>5 DEF Mfc!Next

-----------------------------------------------------------------------------
(* What the invariant says *)

\* As many elements of a command were moved as it has got on.
LEMMA MovedIsProgress ==
  ASSUME MfcInv, NEW c \in 1..Len(cmds)
  PROVE  /\ Cardinality(Mfc!Moved(c)) = Progress(Mfc!Engine, cmds, {}, 0, c)
         /\ Progress(Mfc!Engine, cmds, {}, 0, c) \in Nat
         /\ Progress(Mfc!Engine, cmds, {}, 0, c) = Len(cmds[c].elements) <=> c \notin Unfinished(Mfc!Engine, {})
<1> DEFINE e == Mfc!Engine
           p == Progress(e, cmds, {}, 0, c)
           t == cmds[c].tag
           f == [i \in Mfc!Moved(c) |-> Elt(e, t, i)]
<1>1. /\ EngineTypes(e, cmds) /\ Placed(e, cmds, {}) /\ Parted(e, cmds, {}, 0) /\ Ordered(e) /\ e.moved = moved
  BY DEF MfcInv, EngineInv, Mfc!Engine
<1>2. cmds \in Seq(Command) /\ e \in EngineRec
  BY <1>1 DEF EngineTypes
<1> HIDE DEF e
<1>3. t \in Tags /\ Size(cmds, c) \in Nat \ {0} /\ Size(cmds, c) = Len(cmds[c].elements)
  BY <1>2, CommandOf DEF Size
<1>4. moved[t] \in Seq(Nat \X Nat) /\ Len(moved[t]) \in Nat
  <2>1. moved[t] \in Seq(Nat \X Nat)
    BY <1>1, <1>2, <1>3 DEF EngineRec
  <2> QED BY <2>1
<1>5. p \in Nat /\ (p = Size(cmds, c) <=> c \notin Unfinished(e, {}))
  <2>1. CASE c \in Waits(e)
    BY <1>3, <2>1 DEF Progress, Unfinished
  <2>2. CASE c \in Halts(e) /\ c \notin Waits(e)
    <3>1. PICK u \in Mfc!Stalled(e) : c = e.stall[u].cmd
      BY <2>2 DEF Halts
    <3>2. e.stall[u].next \in 2..Size(cmds, c) /\ t = u
      BY <1>1, <3>1 DEF Placed
    <3>3. p = e.stall[u].next - 1
      BY <2>2, <3>2 DEF Progress
    <3>4. p \in Nat /\ p # Size(cmds, c)
      BY <1>3, <3>2, <3>3
    <3> QED BY <2>2, <3>4 DEF Unfinished
  <2>3. CASE c \notin Halts(e) /\ c \notin Waits(e)
    BY <1>3, <2>3 DEF Progress, Unfinished
  <2> QED BY <2>1, <2>2, <2>3
<1>6. Part(e, cmds, c) = 1..p
  BY <1>1 DEF Parted
<1>7. Mfc!Moved(c) = {i \in 1..Len(e.moved[t]) : Cmd(e, t, i) = c}
  BY <1>1 DEF Mfc!Moved, Mfc!Mover, Cmd
<1>8. ASSUME NEW i \in Mfc!Moved(c)
      PROVE i \in 1..Len(e.moved[t]) /\ e.moved[t][i] = <<c, Elt(e, t, i)>> /\ Elt(e, t, i) \in Nat
  <2>1. i \in 1..Len(e.moved[t]) /\ Cmd(e, t, i) = c
    BY <1>7
  <2>2. e.moved[t][i] \in Nat \X Nat
    BY <1>1, <1>4, <2>1
  <2> QED BY <2>1, <2>2 DEF Cmd, Elt
<1>9. IsFiniteSet(Mfc!Moved(c))
  <2>1. IsFiniteSet(1..Len(moved[t]))
    <3>1. PICK L : L = Len(moved[t])
      OBVIOUS
    <3>2. L \in Nat
      BY <1>4, <3>1
    <3>3. IsFiniteSet(1..L)
      BY <3>2, FS_Interval
    <3> QED BY <3>1, <3>3
  <2>2. Mfc!Moved(c) \in SUBSET (1..Len(moved[t]))
    BY DEF Mfc!Moved
  <2> QED BY <2>1, <2>2, FS_Subset
<1>10. ASSUME NEW i \in Mfc!Moved(c), NEW j \in Mfc!Moved(c), f[i] = f[j] PROVE i = j
  <2>1. i \in Nat /\ j \in Nat /\ i \in 1..Len(e.moved[t]) /\ j \in 1..Len(e.moved[t])
    BY <1>8
  <2>2. Cmd(e, t, i) = Cmd(e, t, j)
    BY <1>7
  <2>3. (i < j => Elt(e, t, i) < Elt(e, t, j)) /\ (j < i => Elt(e, t, j) < Elt(e, t, i))
    BY <1>1, <1>3, <2>1, <2>2 DEF Ordered
  <2>4. Elt(e, t, i) \in Nat /\ Elt(e, t, i) = Elt(e, t, j)
    BY <1>8, <1>10
  <2> QED BY <2>1, <2>3, <2>4
<1>11. {f[i] : i \in Mfc!Moved(c)} = 1..p
  <2>1. \A i \in Mfc!Moved(c) : f[i] = Elt(e, t, i)
    OBVIOUS
  <2>2. ASSUME NEW i \in Mfc!Moved(c) PROVE Elt(e, t, i) \in Part(e, cmds, c)
    BY <1>8 DEF Part
  <2>3. ASSUME NEW m \in Part(e, cmds, c) PROVE \E i \in Mfc!Moved(c) : Elt(e, t, i) = m
    <3>1. PICK i \in 1..Len(e.moved[t]) : e.moved[t][i] = <<c, m>>
      BY DEF Part
    <3>2. Cmd(e, t, i) = c /\ Elt(e, t, i) = m
      BY <3>1 DEF Cmd, Elt
    <3> QED BY <1>7, <3>1, <3>2
  <2> HIDE DEF f
  <2> QED BY <1>6, <2>1, <2>2, <2>3
<1>12. Cardinality({f[i] : i \in Mfc!Moved(c)}) = Cardinality(Mfc!Moved(c))
  <2>1. f = [i \in Mfc!Moved(c) |-> f[i]]
    OBVIOUS
  <2> HIDE DEF f
  <2> QED BY <1>9, <1>10, <2>1, AsManyImages
<1>13. Cardinality(1..p) = p
  <2> HIDE DEF p
  <2>1. Cardinality(1..p) = IF 1 > p THEN 0 ELSE p - 1 + 1
    BY <1>5, FS_Interval
  <2> QED BY <1>5, <2>1
<1> QED BY <1>3, <1>5, <1>11, <1>12, <1>13 DEF e

LEMMA FinishedIsClosed == MfcInv => \A c \in 1..Len(cmds) : Mfc!Finished(c) <=> c \notin Unfinished(Mfc!Engine, {})
<1> SUFFICES ASSUME MfcInv, NEW c \in 1..Len(cmds)
    PROVE Mfc!Finished(c) <=> c \notin Unfinished(Mfc!Engine, {})
  OBVIOUS
<1>1. Mfc!Cardinality(Mfc!Moved(c)) = Cardinality(Mfc!Moved(c))
  BY SameCardinality
<1> QED BY <1>1, MovedIsProgress DEF Mfc!Finished

LEMMA MfcFollows == MfcSizes /\ MfcInv => Mfc!TypeOK /\ Mfc!MfcSound
<1> SUFFICES ASSUME MfcSizes, MfcInv PROVE Mfc!TypeOK /\ Mfc!MfcSound
  OBVIOUS
<1> DEFINE e == Mfc!Engine
<1>1. /\ EngineTypes(e, cmds) /\ Placed(e, cmds, {}) /\ Ordered(e) /\ Fenced(e, cmds, {}) /\ Accounted(e, cmds, {})
      /\ BehindLists(e, cmds, {}) /\ queued <= Depth /\ update \in UpdateRec /\ update.upto <= Len(cmds)
      /\ Truth(update, cmds, e)
  BY DEF MfcInv, EngineInv
<1>2. /\ e.moved = moved /\ e.stall = stall /\ e.queued = queued /\ e.outstanding = outstanding
      /\ e.completed = tagsDone /\ e.deferred = deferred
  BY DEF Mfc!Engine
<1>3. cmds \in Seq(Command) /\ e \in EngineRec /\ Len(cmds) \in Nat /\ Depth \in Nat
  <2>1. cmds \in Seq(Command) /\ e \in EngineRec
    BY <1>1 DEF EngineTypes
  <2> QED BY <2>1 DEF MfcSizes
<1>4. \A c \in 1..Len(cmds) : Mfc!Finished(c) <=> c \notin Unfinished(e, {})
  BY FinishedIsClosed
<1> HIDE DEF e
<1>5. Unfinished(e, {}) \subseteq 1..Len(cmds) /\ Cardinality(Unfinished(e, {})) \in Nat /\ queued = Cardinality(Unfinished(e, {}))
  BY <1>1, <1>2, <1>3, OpenIsFinite DEF Accounted
<1>6. Mfc!TypeOK
  <2>1. queued \in 0..Depth
    BY <1>1, <1>3, <1>5
  <2>2. outstanding \in [Tags -> 0..Depth]
    <3>1. outstanding \in [Tags -> Int]
      BY <1>2, <1>3 DEF EngineRec
    <3>2. ASSUME NEW t \in Tags PROVE outstanding[t] \in 0..Depth
      <4>1. outstanding[t] = Cardinality(OpenOn(e, cmds, {}, t))
        BY <1>1, <1>2 DEF Accounted
      <4>2. /\ Cardinality(OpenOn(e, cmds, {}, t)) \in Nat
            /\ Cardinality(OpenOn(e, cmds, {}, t)) <= Cardinality(Unfinished(e, {}))
        BY <1>1, <1>3, OpenIsFinite
      <4> QED BY <1>1, <1>3, <1>5, <4>1, <4>2
    <3> QED BY <3>1, <3>2
  <2>3. tagsDone \subseteq Tags
    BY <1>2, <1>3 DEF EngineRec
  <2>4. ASSUME NEW t \in Tags PROVE stall[t].cmd \in 0..Len(cmds)
    <3>1. CASE t \in Mfc!Stalled(e)
      <4>1. e.stall[t].cmd \in 1..Len(cmds)
        BY <1>1, <3>1 DEF Placed
      <4> QED BY <1>2, <1>3, <4>1
    <3>2. CASE t \notin Mfc!Stalled(e)
      <4>1. stall[t].cmd = 0
        BY <1>2, <3>2 DEF Mfc!Stalled, Mfc!NoStall
      <4> QED BY <1>3, <4>1
    <3> QED BY <3>1, <3>2
  <2>5. update.type \in {"none", "now", "any", "all", "ready"}
    BY <1>1 DEF UpdateRec
  <2> QED BY <2>1, <2>2, <2>3, <2>4, <2>5 DEF Mfc!TypeOK
<1>7. \A t \in Tags : \A i \in 1..Len(moved[t]) :
         Cmd(e, t, i) = Mfc!Mover(t, i) /\ Elt(e, t, i) = moved[t][i][2]
  BY <1>2 DEF Cmd, Elt, Mfc!Mover
<1>8. Mfc!InOrder
  BY <1>1, <1>2, <1>7 DEF Ordered, Mfc!InOrder
<1>9. Mfc!FencesHold
  <2> SUFFICES ASSUME NEW t \in Tags, NEW i \in 1..Len(moved[t]), NEW j \in 1..Len(moved[t]),
                      i < j, Mfc!Mover(t, j) < Mfc!Mover(t, i)
               PROVE  /\ ~cmds[Mfc!Mover(t, i)].fence
                      /\ \E k \in 1 .. i - 1 : Mfc!Mover(t, k) = Mfc!Mover(t, j)
    BY DEF Mfc!FencesHold
  <2>1. Overtakes(e, cmds, t, i, Cmd(e, t, j))
    BY <1>1, <1>2, <1>7 DEF Fenced
  <2>2. \A k \in 1 .. i - 1 : Cmd(e, t, k) = Mfc!Mover(t, k)
    BY <1>2 DEF Cmd, Mfc!Mover
  <2> QED BY <1>7, <2>1, <2>2 DEF Overtakes
<1>10. Mfc!StatusTrue
  <2> SUFFICES ASSUME update.type = "ready", NEW c \in 1..update.upto, cmds[c].tag \in update.status
               PROVE  Mfc!Finished(c)
    BY DEF Mfc!StatusTrue
  <2>1. c \in 1..Len(cmds)
    BY <1>1, <1>3 DEF UpdateRec
  <2>2. c \notin Unfinished(e, {})
    BY <1>1 DEF Truth
  <2> QED BY <1>4, <2>1, <2>2
<1>11. Mfc!QueueAccounts
  <2> DEFINE open == {c \in 1..Len(cmds) : ~Mfc!Finished(c)}
  <2>1. open = Unfinished(e, {})
    BY <1>4, <1>5
  <2> HIDE DEF open
  <2>2. ASSUME NEW c \in open PROVE stall[cmds[c].tag] # Mfc!NoStall
    <3>1. CASE c \in Waits(e)
      BY <1>1, <1>2, <3>1 DEF BehindLists, Mfc!Stalled
    <3>2. CASE c \in Halts(e)
      <4>1. PICK u \in Mfc!Stalled(e) : c = e.stall[u].cmd
        BY <3>2 DEF Halts
      <4>2. cmds[c].tag = u
        BY <1>1, <4>1 DEF Placed
      <4> QED BY <1>2, <4>1, <4>2 DEF Mfc!Stalled
    <3> QED BY <2>1, <3>1, <3>2 DEF Unfinished
  <2>3. tagsDone = {t \in Tags : \A c \in open : cmds[c].tag # t}
    <3>1. tagsDone = {t \in Tags : OpenOn(e, cmds, {}, t) = {}}
      BY <1>1, <1>2 DEF Accounted
    <3>2. \A t \in Tags : OpenOn(e, cmds, {}, t) = {} <=> \A c \in open : cmds[c].tag # t
      BY <2>1 DEF OpenOn
    <3> QED BY <3>1, <3>2
  <2>4. queued = Cardinality(open)
    BY <1>5, <2>1
  <2>5. queued = Mfc!Cardinality(open)
    BY <2>4, SameCardinality
  <2> QED BY <2>2, <2>3, <2>5 DEF Mfc!QueueAccounts, open
<1> QED BY <1>6, <1>8, <1>9, <1>10, <1>11 DEF Mfc!MfcSound

\* A command of an SPU moves every element once and in order, a fence and what follows it
\* wait for the older commands, and a tag status only names what is finished.
THEOREM FencesAndStatusHold == ASSUME MfcSizes PROVE Mfc!Spec => [](Mfc!TypeOK /\ Mfc!MfcSound)
<1>1. Mfc!Init => MfcInv
  BY MfcInitInv
<1>2. MfcInv /\ [Mfc!Next]_(Mfc!mfcVars) => MfcInv'
  BY MfcNextInv
<1>3. MfcInv => Mfc!TypeOK /\ Mfc!MfcSound
  BY MfcFollows
<1> QED BY <1>1, <1>2, <1>3, PTL DEF Mfc!Spec

=============================================================================
