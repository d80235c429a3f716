--------------------------- MODULE CellSyncProofs ---------------------------
(***************************************************************************)
(* Theorems about the reader-writer memory, the bounded queue and the      *)
(* barrier, for any number of threads, any values, depth and rounds.       *)
(***************************************************************************)
EXTENDS MCCellSync, FiniteSetTheorems, SequenceTheorems, TLAPS

-----------------------------------------------------------------------------
(* Threads at a set of steps. *)

LEMMA AtFinite ==
  ASSUME NEW S PROVE IsFiniteSet(At(S)) /\ Cardinality(At(S)) \in Nat
  BY ThreadsAssumption, FS_Subset, FS_CardinalityType DEF At

\* A thread that moves between two steps, both in S or both not, keeps the set.
LEMMA AtStays ==
  ASSUME NEW S, NEW t \in Threads, NEW n, pc = [u \in Threads |-> pc[u]],
         pc' = [pc EXCEPT ![t] = n], pc[t] \in S <=> n \in S
  PROVE  At(S)' = At(S)
  BY DEF At

LEMMA AtEnters ==
  ASSUME NEW S, NEW t \in Threads, NEW n \in S, pc = [u \in Threads |-> pc[u]],
         pc' = [pc EXCEPT ![t] = n], pc[t] \notin S
  PROVE  /\ At(S)' = At(S) \cup {t} /\ t \notin At(S)
         /\ Cardinality(At(S)') = Cardinality(At(S)) + 1
<1>1. At(S)' = At(S) \cup {t} /\ t \notin At(S)
  BY DEF At
<1> QED BY <1>1, AtFinite, FS_AddElement

LEMMA AtLeaves ==
  ASSUME NEW S, NEW t \in Threads, NEW n, n \notin S, pc = [u \in Threads |-> pc[u]],
         pc' = [pc EXCEPT ![t] = n], pc[t] \in S
  PROVE  /\ At(S)' = At(S) \ {t} /\ t \in At(S)
         /\ Cardinality(At(S)') = Cardinality(At(S)) - 1
<1>1. At(S)' = At(S) \ {t} /\ t \in At(S)
  BY DEF At
<1> QED BY <1>1, AtFinite, FS_RemoveElement

-----------------------------------------------------------------------------
(* Reader-writer memory. *)

\* What is in the buffer and in the copies, between the steps of a copy.
RwmData ==
    /\ \A t \in At(WriteSteps) : dst[t] \in Values \X Values /\ dst[t][1] = dst[t][2]
    /\ At({"wCopy2"}) = {} => buffer[1] = buffer[2]
    /\ \A t \in At({"wCopy2"}) : buffer[1] = dst[t][1]
    /\ \A t \in At({"rCopy2"}) : dst[t] = <<buffer[1]>>

(* ReadsAreWhole is not inductive: that a copy is whole needs what the buffer
   holds in the middle of a write.                                           *)
RwmInv == RwmTypeOK /\ RwmCounts /\ RwmExclusion /\ RwmData /\ NoTornRead

LEMMA CopyTypes ==
  /\ <<>> \in Copies
  /\ \A v \in Values : <<v>> \in Copies
  /\ \A v, w \in Values : <<v, w>> \in Copies
  /\ \A c \in Values \X Values : c \in Copies
<1>1. <<>> \in Copies /\ \A c \in Values \X Values : c \in Copies
  BY DEF Copies
<1>2. \A v \in Values : <<v>> \in Copies
  BY DEF Copies
<1>3. ASSUME NEW v \in Values, NEW w \in Values PROVE <<v, w>> \in Copies
  <2>1. <<v, w>> \in Values \X Values
    OBVIOUS
  <2> QED BY <1>1, <2>1
<1> QED BY <1>1, <1>2, <1>3

LEMMA RwmInitInv ==
  ASSUME RwmInit, pc = [t \in Threads |-> "idle"], try = [t \in Threads |-> FALSE]
  PROVE  RwmInv
<1>1. RwmTypeOK
  BY CopyTypes DEF RwmInit, RwmTypeOK
<1>2. \A S \in SUBSET (ReadSteps \cup WriteSteps) : At(S) = {}
  BY DEF At, ReadSteps, WriteSteps
<1>3. /\ At(Counted) = {} /\ At(Holding) = {} /\ At(Writing) = {} /\ At(Copying) = {}
      /\ At(WriteSteps) = {} /\ At({"wCopy2"}) = {} /\ At({"rCopy2"}) = {} /\ At({"rLeave"}) = {}
  BY <1>2 DEF Counted, Holding, Writing, Copying, ReadSteps, WriteSteps
<1>4. buffer[1] = buffer[2]
  BY DEF RwmInit
<1> QED
  BY <1>1, <1>3, <1>4, FS_EmptySet DEF RwmInit, RwmInv, RwmCounts, RwmExclusion, RwmData, NoTornRead

LEMMA PcIsFunction == RwmTypeOK => pc = [u \in Threads |-> pc[u]]
  BY DEF RwmTypeOK, ReadSteps, WriteSteps

\* A step that touches neither counter word nor the data, within the same roles.
LEMMA QuietMove ==
  ASSUME RwmInv, RwmTypeOK', NEW t \in Threads, NEW n,
         pc' = [pc EXCEPT ![t] = n],
         readers' = readers, writer' = writer, buffer' = buffer,
         \A u \in Threads \ {t} : dst'[u] = dst[u],
         pc[t] \in Counted <=> n \in Counted,
         pc[t] \in Holding <=> n \in Holding,
         n \in WriteSteps => dst'[t] \in Values \X Values /\ dst'[t][1] = dst'[t][2],
         pc[t] \notin {"wCopy2"}, n \notin {"wCopy2", "rCopy2", "rLeave"},
         n \in Copying /\ pc[t] \notin Copying => At(Holding) = {},
         n \in Writing /\ pc[t] \notin Writing => At(Counted) = {}
  PROVE  RwmInv'
<1> USE DEF RwmInv
<1>0. pc = [u \in Threads |-> pc[u]]
  BY PcIsFunction
<1>1. At(Counted)' = At(Counted) /\ At(Holding)' = At(Holding)
  BY <1>0, AtStays
<1>2. RwmCounts'
  BY <1>1 DEF RwmCounts
<1>3. At(Copying) \subseteq At(Counted) /\ At(Writing) \subseteq At(Holding)
  BY DEF At, Copying, Counted, Writing, Holding
<1>4. RwmExclusion'
  <2> SUFFICES ASSUME NEW w \in At(Writing)', NEW c \in At(Copying)' PROVE FALSE
    BY DEF RwmExclusion
  <2>1. /\ w = t \/ w \in At(Writing)
        /\ c = t \/ c \in At(Copying)
        /\ ~ (n \in Writing /\ n \in Copying)
    BY <1>0 DEF At, Writing, Copying
  <2>2. CASE w = t
    <3>1. n \in Writing /\ c \in At(Copying)
      BY <1>0, <2>1, <2>2 DEF At
    <3> QED BY <1>3, <3>1 DEF RwmExclusion, At
  <2>3. CASE w # t /\ c = t
    <3>1. n \in Copying /\ w \in At(Writing)
      BY <1>0, <2>1, <2>3 DEF At
    <3> QED BY <1>3, <3>1 DEF RwmExclusion, At
  <2> QED BY <2>1, <2>2, <2>3 DEF RwmExclusion
<1>5. RwmData'
  BY <1>0 DEF RwmData, At
<1>6. NoTornRead'
  BY <1>0 DEF NoTornRead, At
<1> QED BY <1>2, <1>4, <1>5, <1>6

LEMMA RwmTyping ==
  ASSUME RwmInv, RwmNext PROVE RwmTypeOK'
<1> USE DEF RwmInv, RwmTypeOK, ReadSteps, WriteSteps, Calls, Goes, Returns, Forget
<1> USE CopyTypes
<1>1. ASSUME NEW t \in Threads, RwmCall(t) PROVE RwmTypeOK'
  BY <1>1 DEF RwmCall, ReadCall, WriteCall
<1>2. ASSUME NEW t \in Threads, RwmStep(t) PROVE RwmTypeOK'
  <2>1. CASE ReadBusy(t)
    BY <2>1 DEF ReadBusy
  <2>13. CASE ReadSpin(t)
    BY <2>13 DEF ReadSpin
  <2>14. CASE ReadCount(t)
    <3>1. readers' \in Int
      BY <2>14 DEF ReadCount
    <3> QED BY <2>14, <3>1 DEF ReadCount
  <2>8. CASE ReadCheck(t)
    BY <2>8 DEF ReadCheck
  <2>9. CASE ReadBack(t)
    <3>1. readers' \in Int
      BY <2>9 DEF ReadBack
    <3>2. pc' \in [Threads -> {"idle"} \cup ReadSteps \cup WriteSteps] /\ try' \in [Threads -> BOOLEAN]
      BY <2>9 DEF ReadBack
    <3> QED BY <2>9, <3>1, <3>2 DEF ReadBack
  <2>2. CASE ReadCopy1(t)
    BY <2>2 DEF ReadCopy1
  <2>3. CASE ReadCopy2(t)
    <3>1. dst[t] = <<buffer[1]>> /\ buffer[1] \in Values /\ buffer[2] \in Values
      BY <2>3 DEF ReadCopy2, RwmData, At
    <3>2. <<dst[t][1], buffer[2]>> \in Copies
      BY <3>1
    <3> QED BY <2>3, <3>2 DEF ReadCopy2
  <2>4. CASE ReadLeave(t)
    BY <2>4 DEF ReadLeave
  <2>10. CASE WriteBusy(t)
    BY <2>10 DEF WriteBusy
  <2>11. CASE WriteTake(t) \/ WriteDrain(t)
    BY <2>11 DEF WriteTake, WriteDrain
  <2>12. CASE WriteGiveUp(t)
    BY <2>12 DEF WriteGiveUp
  <2>5. CASE WriteCopy1(t)
    <3>1. dst[t] \in Values \X Values
      BY <2>5 DEF WriteCopy1, RwmData, At
    <3> QED BY <2>5, <3>1 DEF WriteCopy1
  <2>6. CASE WriteCopy2(t)
    <3>1. dst[t] \in Values \X Values
      BY <2>6 DEF WriteCopy2, RwmData, At
    <3> QED BY <2>6, <3>1 DEF WriteCopy2
  <2>7. CASE WriteRelease(t)
    BY <2>7 DEF WriteRelease
  <2> QED BY <1>2, <2>1, <2>2, <2>3, <2>4, <2>5, <2>6, <2>7, <2>8, <2>9, <2>10, <2>11,
            <2>12, <2>13, <2>14 DEF RwmStep
<1> QED BY <1>1, <1>2 DEF RwmNext

LEMMA RwmStepInv ==
  ASSUME RwmInv, RwmTypeOK', NEW t \in Threads, RwmCall(t) \/ RwmStep(t)
  PROVE  RwmInv'
<1> USE DEF RwmInv
<1>0. /\ pc = [u \in Threads |-> pc[u]] /\ dst = [u \in Threads |-> dst[u]]
      /\ writer \in {0, 1}
  BY DEF RwmTypeOK, ReadSteps, WriteSteps
<1> USE DEF ReadSteps, WriteSteps, Counted, Copying, Holding, Writing, Calls, Goes, Returns, Forget
<1>1. ASSUME NEW b \in BOOLEAN, ReadCall(t, b) PROVE RwmInv'
  BY <1>0, <1>1, QuietMove DEF ReadCall
<1>2. ASSUME NEW b \in BOOLEAN, NEW v \in Values, WriteCall(t, v, b) PROVE RwmInv'
  <2>1. dst'[t] \in Values \X Values /\ dst'[t][1] = dst'[t][2]
    BY <1>0, <1>2 DEF WriteCall
  <2> QED BY <1>0, <1>2, <2>1, QuietMove DEF WriteCall
<1>3. ASSUME ReadBusy(t) PROVE RwmInv'
  BY <1>0, <1>3, QuietMove DEF ReadBusy
<1>4. ASSUME ReadSpin(t) PROVE RwmInv'
  BY <1>0, <1>4, QuietMove DEF ReadSpin
<1>5. ASSUME ReadCheck(t) PROVE RwmInv'
  <2>1. CASE MayCopy /\ Goes(t, "rCheck", "rCopy1")
    <3>1. At(Holding) = {}
      BY <2>1 DEF MayCopy, RwmCounts
    <3> QED BY <1>0, <1>5, <2>1, <3>1, QuietMove DEF ReadCheck
  <2>2. CASE Goes(t, "rCheck", "rBack")
    BY <1>0, <1>5, <2>2, QuietMove DEF ReadCheck
  <2> QED BY <1>5, <2>1, <2>2 DEF ReadCheck
<1>6. ASSUME WriteBusy(t) PROVE RwmInv'
  BY <1>0, <1>6, QuietMove DEF WriteBusy
<1>7. ASSUME WriteDrain(t) PROVE RwmInv'
  <2>1. At(Counted) = {}
    BY <1>7, AtFinite, FS_EmptySet DEF WriteDrain, Drained, RwmCounts
  <2>2. dst[t] \in Values \X Values /\ dst[t][1] = dst[t][2]
    BY <1>7 DEF WriteDrain, RwmData, At
  <2> QED BY <1>0, <1>7, <2>1, <2>2, QuietMove DEF WriteDrain
<1>8. ASSUME ReadCount(t) PROVE RwmInv'
  <2>1. /\ Cardinality(At(Counted)') = Cardinality(At(Counted)) + 1
        /\ At(Holding)' = At(Holding)
    BY <1>0, <1>8, AtEnters, AtStays DEF ReadCount
  <2>2. RwmCounts'
    BY <1>8, <2>1 DEF ReadCount, RwmCounts
  <2>3. RwmExclusion'
    BY <1>0, <1>8 DEF ReadCount, RwmExclusion, At
  <2>4. RwmData' /\ NoTornRead'
    BY <1>0, <1>8 DEF ReadCount, RwmData, NoTornRead, At
  <2> QED BY <2>2, <2>3, <2>4
<1>9. ASSUME ReadBack(t) PROVE RwmInv'
  <2>0. \E n \in {"rSpin", "idle"} : pc' = [pc EXCEPT ![t] = n]
    BY <1>9 DEF ReadBack
  <2>1. /\ Cardinality(At(Counted)') = Cardinality(At(Counted)) - 1
        /\ At(Holding)' = At(Holding)
    BY <1>0, <1>9, <2>0, AtLeaves, AtStays DEF ReadBack
  <2>2. RwmCounts'
    BY <1>9, <2>1 DEF ReadBack, RwmCounts
  <2>3. RwmExclusion'
    BY <1>0, <1>9, <2>0 DEF ReadBack, RwmExclusion, At
  <2>4. RwmData' /\ NoTornRead'
    BY <1>0, <1>9, <2>0 DEF ReadBack, RwmData, NoTornRead, At
  <2> QED BY <2>2, <2>3, <2>4
<1>10. ASSUME ReadCopy1(t) PROVE RwmInv'
  <2>1. /\ At(Counted)' = At(Counted) /\ At(Holding)' = At(Holding)
        /\ At(Writing)' = At(Writing) /\ At(Copying)' = At(Copying)
    BY <1>0, <1>10, AtStays DEF ReadCopy1
  <2>2. RwmCounts' /\ RwmExclusion'
    BY <1>10, <2>1 DEF ReadCopy1, RwmCounts, RwmExclusion
  <2>3. RwmData' /\ NoTornRead'
    BY <1>0, <1>10 DEF ReadCopy1, RwmData, NoTornRead, At
  <2> QED BY <2>2, <2>3
<1>11. ASSUME ReadCopy2(t) PROVE RwmInv'
  <2>1. /\ At(Counted)' = At(Counted) /\ At(Holding)' = At(Holding)
        /\ At(Writing)' = At(Writing) /\ At(Copying)' = At(Copying)
    BY <1>0, <1>11, AtStays DEF ReadCopy2
  <2>2. RwmCounts' /\ RwmExclusion'
    BY <1>11, <2>1 DEF ReadCopy2, RwmCounts, RwmExclusion
  <2>3. t \in At(Copying) /\ At(Writing) = {} /\ At({"wCopy2"}) \subseteq At(Writing)
    BY <1>11 DEF ReadCopy2, RwmExclusion, At
  <2>4. dst[t] = <<buffer[1]>> /\ buffer[1] = buffer[2]
    BY <1>11, <2>3 DEF ReadCopy2, RwmData, At
  <2>5. RwmData'
    BY <1>0, <1>11 DEF ReadCopy2, RwmData, At
  <2>6. NoTornRead'
    BY <1>0, <1>11, <2>4 DEF ReadCopy2, NoTornRead, At
  <2> QED BY <2>2, <2>5, <2>6
<1>12. ASSUME ReadLeave(t) PROVE RwmInv'
  <2>1. /\ Cardinality(At(Counted)') = Cardinality(At(Counted)) - 1
        /\ At(Holding)' = At(Holding)
    BY <1>0, <1>12, AtLeaves, AtStays DEF ReadLeave
  <2>2. RwmCounts'
    BY <1>12, <2>1 DEF ReadLeave, RwmCounts
  <2>3. RwmExclusion'
    BY <1>0, <1>12 DEF ReadLeave, RwmExclusion, At
  <2>4. RwmData' /\ NoTornRead'
    BY <1>0, <1>12 DEF ReadLeave, RwmData, NoTornRead, At
  <2> QED BY <2>2, <2>3, <2>4
<1>13. ASSUME WriteTake(t) PROVE RwmInv'
  <2>1. /\ At(Counted)' = At(Counted) /\ At(Holding)' = At(Holding) \cup {t}
        /\ At(Writing)' = At(Writing) /\ At(Copying)' = At(Copying)
    BY <1>0, <1>13, AtEnters, AtStays DEF WriteTake
  <2>2. At(Holding) = {}
    BY <1>13 DEF WriteTake, RwmCounts
  <2>3. RwmCounts' /\ RwmExclusion'
    BY <1>13, <2>1, <2>2 DEF WriteTake, RwmCounts, RwmExclusion
  <2>4. RwmData' /\ NoTornRead'
    BY <1>0, <1>13 DEF WriteTake, RwmData, NoTornRead, At
  <2> QED BY <2>3, <2>4
<1>14. ASSUME WriteGiveUp(t) \/ WriteRelease(t) PROVE RwmInv'
  <2>1. /\ At(Counted)' = At(Counted) /\ At(Holding)' = At(Holding) \ {t} /\ t \in At(Holding)
        /\ At(Writing)' \subseteq At(Writing) /\ At(Copying)' = At(Copying)
    BY <1>0, <1>14 DEF WriteGiveUp, WriteRelease, At
  <2>2. RwmCounts'
    BY <1>14, <2>1 DEF WriteGiveUp, WriteRelease, RwmCounts
  <2>3. RwmExclusion'
    BY <2>1 DEF RwmExclusion
  <2>4. RwmData' /\ NoTornRead'
    BY <1>0, <1>14 DEF WriteGiveUp, WriteRelease, RwmData, NoTornRead, At
  <2> QED BY <2>2, <2>3, <2>4
<1>15. ASSUME WriteCopy1(t) \/ WriteCopy2(t) PROVE RwmInv'
  <2>1. /\ At(Counted)' = At(Counted) /\ At(Holding)' = At(Holding)
        /\ At(Writing)' = At(Writing) /\ At(Copying)' = At(Copying)
    BY <1>0, <1>15, AtStays DEF WriteCopy1, WriteCopy2
  <2>2. RwmCounts' /\ RwmExclusion'
    BY <1>15, <2>1 DEF WriteCopy1, WriteCopy2, RwmCounts, RwmExclusion
  <2>3. t \in At(Writing) /\ At(Copying) = {}
    BY <1>15 DEF WriteCopy1, WriteCopy2, RwmExclusion, At
  <2>4. \A u \in Threads : pc[u] \in Holding => u = t
    BY <1>15 DEF WriteCopy1, WriteCopy2, RwmCounts, At
  <2>5. dst[t] \in Values \X Values /\ dst[t][1] = dst[t][2]
    BY <1>15 DEF WriteCopy1, WriteCopy2, RwmData, At
  <2>6. \A u \in Threads : pc'[u] \notin {"rCopy2", "rLeave"}
    BY <1>0, <1>15, <2>3 DEF WriteCopy1, WriteCopy2, At
  <2>7. NoTornRead'
    BY <2>6 DEF NoTornRead, At
  <2>8. CASE WriteCopy1(t)
    <3>1. buffer'[1] = dst[t][1] /\ pc'[t] = "wCopy2" /\ dst' = dst
      BY <1>0, <2>8 DEF WriteCopy1, RwmTypeOK
    <3>2. \A u \in Threads : pc'[u] \in WriteSteps => pc[u] \in WriteSteps
      BY <1>0, <2>8 DEF WriteCopy1
    <3>3. \A u \in Threads : pc'[u] = "wCopy2" => u = t
      BY <1>0, <2>4, <2>8 DEF WriteCopy1
    <3>4. RwmData'
      BY <2>6, <3>1, <3>2, <3>3 DEF RwmData, At
    <3> QED BY <2>2, <2>7, <3>4
  <2>9. CASE WriteCopy2(t)
    <3>1. buffer'[1] = dst[t][1] /\ buffer'[2] = dst[t][2] /\ dst' = dst
      BY <1>0, <2>9 DEF WriteCopy2, RwmTypeOK, RwmData, At
    <3>2. \A u \in Threads : /\ pc'[u] \in WriteSteps => pc[u] \in WriteSteps
                             /\ pc'[u] # "wCopy2"
      BY <1>0, <2>4, <2>9 DEF WriteCopy2
    <3>3. RwmData'
      BY <2>5, <2>6, <3>1, <3>2 DEF RwmData, At
    <3> QED BY <2>2, <2>7, <3>3
  <2> QED BY <1>15, <2>8, <2>9
<1> QED
  BY <1>1, <1>2, <1>3, <1>4, <1>5, <1>6, <1>7, <1>8, <1>9, <1>10, <1>11, <1>12, <1>13, <1>14, <1>15
     DEF RwmCall, RwmStep

LEMMA RwmNextInv == RwmInv /\ [RwmNext]_rwmVars => RwmInv'
<1> SUFFICES ASSUME RwmInv, [RwmNext]_rwmVars PROVE RwmInv'
  OBVIOUS
<1>1. CASE RwmNext
  <2>1. RwmTypeOK'
    BY <1>1, RwmTyping
  <2> QED BY <1>1, <2>1, RwmStepInv DEF RwmNext
<1>2. CASE UNCHANGED rwmVars
  BY <1>2 DEF rwmVars, RwmInv, RwmTypeOK, RwmCounts, RwmExclusion, RwmData, NoTornRead, At
<1> QED BY <1>1, <1>2

LEMMA RwmInductive == RwmSpec => []RwmInv
  BY RwmInitInv, RwmNextInv, PTL DEF RwmSpec

(* Reader-writer memory: no read mixes two writes, for any number of readers
   and writers, blocking or trying.                                          *)
THEOREM ReadsWhole == RwmSpec => []ReadsAreWhole
<1>1. RwmInv => ReadsAreWhole
  BY DEF RwmInv, ReadsAreWhole
<1> QED BY <1>1, RwmInductive, PTL

-----------------------------------------------------------------------------
(* The bounded queue. *)

\* What a push carries, and where it has put it.
PushSteps == {"pushSpin", "pushLock", "pushCheck", "pushCopy", "pushCount", "retryPush"}
PushData ==
    /\ \A t \in At(PushSteps) : item[t] \in Elems
    /\ \A t \in At({"retryPush", "retryPop"}) : ~try[t]
    /\ \A t \in At({"pushCount"}) :
        slots[IF head + count >= depth THEN head + count - depth ELSE head + count] = item[t]

QInv == QueueTypeOK /\ QueueIntact

LEMMA QueueTyping ==
  ASSUME QueueTypeOK, QueueNext \/ UNCHANGED queueVars PROVE QueueTypeOK'
<1> USE DepthMaxAssumption, NoElemAssumption
        DEF QueueTypeOK, QueueSteps, Locked, Calls, Goes, Returns, ringVars
<1>1. ASSUME NEW t \in Threads, QueueCall(t) PROVE QueueTypeOK'
  <2>1. CASE PeekCall(t) \/ ClearCall(t)
    BY <2>1 DEF PeekCall, ClearCall
  <2>2. ASSUME NEW isTry \in BOOLEAN, PopCall(t, isTry) PROVE QueueTypeOK'
    BY <2>2 DEF PopCall
  <2>3. ASSUME NEW isTry \in BOOLEAN, NEW e \in Elems, PushCall(t, e, isTry) PROVE QueueTypeOK'
    BY <2>3 DEF PushCall
  <2> QED BY <1>1, <2>1, <2>2, <2>3 DEF QueueCall
<1>2. ASSUME NEW t \in Threads, QueueStep(t) PROVE QueueTypeOK'
  <2>1. CASE \/ Acquire(t, "pushLock", "pushCheck") \/ Acquire(t, "popLock", "popCheck")
             \/ Acquire(t, "peekLock", "peek") \/ Acquire(t, "clearLock", "clear")
    BY <2>1 DEF Acquire
  <2>2. CASE TryLoses(t, "pushLock") \/ TryLoses(t, "popLock") \/ Unlock(t)
    BY <2>2 DEF TryLoses, Unlock
  <2>3. CASE Retry(t)
    BY <2>3 DEF Retry
  <2>4. CASE PushSpin(t) \/ PopSpin(t) \/ Peek(t)
    BY <2>4 DEF PushSpin, PopSpin, Peek
  <2>5. CASE PushOverflow(t) \/ PopEmpty(t)
    BY <2>5 DEF PushOverflow, PopEmpty
  <2>6. CASE PushCheck(t)
    BY <2>6 DEF PushCheck
  <2>7. CASE PushCopy(t)
    <3>1. After(tail) \in 0 .. depth - 1
      BY DEF After
    <3> QED BY <2>7, <3>1 DEF PushCopy
  <2>8. CASE PushCount(t) \/ PopCount(t)
    BY <2>8 DEF PushCount, PopCount
  <2>9. CASE PopCheck(t)
    BY <2>9 DEF PopCheck
  <2>10. CASE PopCopy(t)
    <3>1. After(head) \in 0 .. depth - 1 /\ slots[head] \in Elems \cup {NoElem}
      BY DEF After
    <3> QED BY <2>10, <3>1 DEF PopCopy
  <2>11. CASE Clear(t)
    BY <2>11 DEF Clear
  <2> QED BY <1>2, <2>1, <2>2, <2>3, <2>4, <2>5, <2>6, <2>7, <2>8, <2>9, <2>10, <2>11 DEF QueueStep
<1>3. ASSUME UNCHANGED queueVars PROVE QueueTypeOK'
  BY <1>3 DEF queueVars
<1> QED BY <1>1, <1>2, <1>3 DEF QueueNext

LEMMA SpinlockStep ==
  ASSUME QueueTypeOK, SpinlockHeld, QueueNext \/ UNCHANGED queueVars PROVE SpinlockHeld'
<1>0. pc = [u \in Threads |-> pc[u]] /\ spinlock \in {0, 1}
  BY DEF QueueTypeOK
<1> USE <1>0 DEF SpinlockHeld, At, Locked, Calls, Goes, Returns, ringVars
<1>1. ASSUME NEW t \in Threads, QueueCall(t) PROVE SpinlockHeld'
  BY <1>1 DEF QueueCall, PeekCall, ClearCall, PopCall, PushCall
<1>2. ASSUME NEW t \in Threads, QueueStep(t) PROVE SpinlockHeld'
  <2>1. CASE Acquire(t, "pushLock", "pushCheck")
    BY <2>1 DEF Acquire
  <2>2. CASE Acquire(t, "popLock", "popCheck")
    BY <2>2 DEF Acquire
  <2>3. CASE Acquire(t, "peekLock", "peek")
    BY <2>3 DEF Acquire
  <2>4. CASE Acquire(t, "clearLock", "clear")
    BY <2>4 DEF Acquire
  <2>5. CASE TryLoses(t, "pushLock") \/ TryLoses(t, "popLock")
    BY <2>5 DEF TryLoses
  <2>6. CASE Unlock(t)
    BY <2>6 DEF Unlock
  <2>7. CASE Retry(t)
    BY <2>7 DEF Retry
  <2>8. CASE PushSpin(t) \/ PopSpin(t) \/ PushOverflow(t) \/ PopEmpty(t)
    BY <2>8 DEF PushSpin, PopSpin, PushOverflow, PopEmpty
  <2>9. CASE PushCheck(t)
    BY <2>9 DEF PushCheck
  <2>10. CASE PopCheck(t)
    BY <2>10 DEF PopCheck
  <2>11. CASE PushCopy(t) \/ PushCount(t)
    BY <2>11 DEF PushCopy, PushCount
  <2>12. CASE PopCopy(t) \/ PopCount(t)
    BY <2>12 DEF PopCopy, PopCount
  <2>13. CASE Peek(t) \/ Clear(t)
    BY <2>13 DEF Peek, Clear
  <2> QED BY <1>2, <2>1, <2>2, <2>3, <2>4, <2>5, <2>6, <2>7, <2>8, <2>9, <2>10, <2>11, <2>12,
             <2>13 DEF QueueStep
<1>3. ASSUME UNCHANGED queueVars PROVE SpinlockHeld'
  BY <1>3 DEF queueVars
<1> QED BY <1>1, <1>2, <1>3 DEF QueueNext


Middle == {"pushCopy", "pushCount", "popCopy", "popCount"}

\* A step that leaves the ring alone and neither enters nor leaves the middle of a push or pop.
LEMMA RingUntouched ==
  ASSUME QInv, NEW t \in Threads, pc' = [pc EXCEPT ![t] = pc'[t]], UNCHANGED ringVars,
         pc[t] \notin Middle, pc'[t] \notin Middle
  PROVE  RingAgrees' /\ Held' = Held /\ Written' = Written
<1>0. pc = [u \in Threads |-> pc[u]]
  BY DEF QInv, QueueTypeOK
<1>1. \A n \in Middle : At({n})' = At({n})
  BY <1>0, AtStays
<1>2. Held' = Held /\ Written' = Written
  BY <1>1 DEF Held, Written, ringVars, Middle
<1> QED BY <1>1, <1>2 DEF QInv, QueueIntact, RingAgrees, ringVars, Middle

\* The thread in the spin lock is the only one in the middle of a push or pop.
LEMMA Alone ==
  ASSUME QInv, NEW t \in Threads, pc[t] \in Locked, NEW n \in Middle
  PROVE  At({n}) = IF pc[t] = n THEN {t} ELSE {}
  BY DEF QInv, QueueIntact, SpinlockHeld, At, Locked, Middle

\* The same after a step of the thread.
LEMMA AloneNext ==
  ASSUME QInv, NEW t \in Threads, pc[t] \in Locked, NEW n \in Middle, NEW m,
         pc' = [pc EXCEPT ![t] = m]
  PROVE  At({n})' = IF m = n THEN {t} ELSE {}
<1>0. pc = [u \in Threads |-> pc[u]]
  BY DEF QInv, QueueTypeOK
<1> QED BY <1>0 DEF QInv, QueueIntact, SpinlockHeld, At, Locked, Middle

LEMMA PushCheckRing ==
  ASSUME QInv, NEW t \in Threads, PushCheck(t)
  PROVE  RingAgrees' /\ Held' = Held
<1> USE DEF QInv, QueueIntact, Goes, Locked, Middle
<1>1. CASE RoomLeft /\ Goes(t, "pushCheck", "pushCopy")
  <2>1. /\ At({"popCount"}) = {} /\ At({"popCount"})' = {}
        /\ At({"pushCount"}) = {} /\ At({"pushCount"})' = {} /\ At({"popCopy"})' = {}
    BY <1>1, Alone, AloneNext
  <2>2. Held = count /\ Held' = count /\ Written = count /\ Written' = count
    BY <2>1 DEF PushCheck, Held, Written, ringVars
  <2> QED BY <1>1, <2>1, <2>2 DEF PushCheck, RingAgrees, ringVars, RoomLeft, Full, QueueTypeOK
<1>2. CASE ~RoomLeft /\ Goes(t, "pushCheck", IF try[t] THEN "unlock" ELSE "retryPush")
  <2>1. pc' = [pc EXCEPT ![t] = pc'[t]] /\ pc[t] \notin Middle /\ pc'[t] \notin Middle
    BY <1>2 DEF QueueTypeOK
  <2> QED BY <2>1, RingUntouched DEF PushCheck
<1> QED BY <1>1, <1>2 DEF PushCheck

LEMMA PopCheckRing ==
  ASSUME QInv, NEW t \in Threads, PopCheck(t)
  PROVE  RingAgrees' /\ Held' = Held
<1> USE DEF QInv, QueueIntact, Goes, Locked, Middle
<1>1. CASE SomeLeft /\ Goes(t, "popCheck", "popCopy")
  <2>1. /\ At({"popCount"}) = {} /\ At({"popCount"})' = {}
        /\ At({"pushCount"}) = {} /\ At({"pushCount"})' = {} /\ At({"pushCopy"})' = {}
    BY <1>1, Alone, AloneNext
  <2>2. Held = count /\ Held' = count /\ Written = count /\ Written' = count
    BY <2>1 DEF PopCheck, Held, Written, ringVars
  <2> QED BY <1>1, <2>1, <2>2 DEF PopCheck, RingAgrees, ringVars, SomeLeft, QueueTypeOK
<1>2. CASE ~SomeLeft /\ Goes(t, "popCheck", IF try[t] THEN "unlock" ELSE "retryPop")
  <2>1. pc' = [pc EXCEPT ![t] = pc'[t]] /\ pc[t] \notin Middle /\ pc'[t] \notin Middle
    BY <1>2 DEF QueueTypeOK
  <2> QED BY <2>1, RingUntouched DEF PopCheck
<1> QED BY <1>1, <1>2 DEF PopCheck

LEMMA PushCopyRing ==
  ASSUME QInv, NEW t \in Threads, PushCopy(t)
  PROVE  /\ RingAgrees' /\ Held = count /\ Held' = count /\ count \in 0 .. depth - 1
         /\ tail = IF head + count >= depth THEN head + count - depth ELSE head + count
<1> USE DEF QInv, QueueIntact, Goes, Locked, Middle
<1>1. /\ At({"popCount"}) = {} /\ At({"popCount"})' = {} /\ At({"pushCopy"}) = {t}
      /\ At({"pushCount"}) = {} /\ At({"pushCount"})' = {t}
      /\ At({"pushCopy"})' = {} /\ At({"popCopy"})' = {}
  BY Alone, AloneNext DEF PushCopy
<1>2. Held = count /\ Held' = count /\ Written = count /\ Written' = count + 1
  BY <1>1 DEF PushCopy, Held, Written
<1>3. /\ count \in 0 .. depth - 1 /\ head \in 0 .. depth - 1 /\ depth \in Nat
      /\ tail = IF head + count >= depth THEN head + count - depth ELSE head + count
  BY <1>1, <1>2, DepthMaxAssumption DEF RingAgrees, QueueTypeOK
<1>4. tail' = After(tail) /\ head' = head /\ count' = count /\ depth' = depth
  BY DEF PushCopy
<1>5. RingAgrees'
  BY <1>1, <1>2, <1>3, <1>4 DEF RingAgrees, After
<1> QED BY <1>2, <1>3, <1>5

LEMMA PushCountRing ==
  ASSUME QInv, NEW t \in Threads, PushCount(t)
  PROVE  RingAgrees' /\ Held = count /\ Held' = count + 1 /\ count \in 0 .. depth - 1
<1> USE DEF QInv, QueueIntact, Goes, Locked, Middle
<1>1. /\ At({"popCount"}) = {} /\ At({"popCount"})' = {}
      /\ At({"pushCount"}) = {t} /\ At({"pushCount"})' = {}
      /\ At({"pushCopy"})' = {} /\ At({"popCopy"})' = {}
  BY Alone, AloneNext DEF PushCount
<1>2. Held = count /\ Held' = count + 1 /\ Written = count + 1 /\ Written' = count + 1
  BY <1>1 DEF PushCount, Held, Written
<1> QED
  BY <1>1, <1>2, DepthMaxAssumption DEF PushCount, RingAgrees, QueueTypeOK

LEMMA PopCopyRing ==
  ASSUME QInv, NEW t \in Threads, PopCopy(t)
  PROVE  RingAgrees' /\ Held = count /\ Held' = count - 1 /\ count \in 1 .. depth
<1> USE DEF QInv, QueueIntact, Goes, Locked, Middle
<1>1. /\ At({"popCount"}) = {} /\ At({"popCount"})' = {t} /\ At({"popCopy"}) = {t}
      /\ At({"pushCount"}) = {} /\ At({"pushCount"})' = {}
      /\ At({"pushCopy"})' = {} /\ At({"popCopy"})' = {}
  BY Alone, AloneNext DEF PopCopy
<1>2. Held = count /\ Held' = count - 1 /\ Written = count /\ Written' = count - 1
  BY <1>1 DEF PopCopy, Held, Written
<1>3. /\ count \in 1 .. depth /\ head \in 0 .. depth - 1 /\ depth \in Nat
      /\ tail = IF head + count >= depth THEN head + count - depth ELSE head + count
  BY <1>1, <1>2, DepthMaxAssumption DEF RingAgrees, QueueTypeOK
<1>4. head' = After(head) /\ tail' = tail /\ count' = count /\ depth' = depth
  BY DEF PopCopy
<1>5. RingAgrees'
  BY <1>1, <1>2, <1>3, <1>4 DEF RingAgrees, After
<1> QED BY <1>2, <1>3, <1>5

LEMMA PopCountRing ==
  ASSUME QInv, NEW t \in Threads, PopCount(t)
  PROVE  RingAgrees' /\ Held' = Held
<1> USE DEF QInv, QueueIntact, Goes, Locked, Middle
<1>1. /\ At({"popCount"}) = {t} /\ At({"popCount"})' = {}
      /\ At({"pushCount"}) = {} /\ At({"pushCount"})' = {}
      /\ At({"pushCopy"})' = {} /\ At({"popCopy"})' = {}
  BY Alone, AloneNext DEF PopCount
<1>2. Held = count - 1 /\ Held' = count - 1 /\ Written = count - 1 /\ Written' = count - 1
  BY <1>1 DEF PopCount, Held, Written
<1>3. count \in Int /\ count' = count - 1 /\ head' = head /\ depth' = depth /\ slots' = slots
  BY DEF PopCount, QueueTypeOK
<1> QED BY <1>1, <1>2, <1>3, DepthMaxAssumption DEF PopCount, RingAgrees, QueueTypeOK

LEMMA ClearRing ==
  ASSUME QInv, NEW t \in Threads, Clear(t)
  PROVE  RingAgrees' /\ Held' = 0
<1> USE DEF QInv, QueueIntact, Goes, Locked, Middle
<1>1. ASSUME NEW n \in Middle PROVE At({n})' = {}
  <2>1. pc[t] \in Locked /\ pc' = [pc EXCEPT ![t] = "unlock"] /\ "unlock" # n
    BY DEF Clear
  <2> QED BY <2>1, AloneNext
<1>2. Held' = 0 /\ Written' = 0
  BY <1>1 DEF Clear, Held, Written
<1> QED BY <1>1, <1>2, DepthMaxAssumption DEF Clear, RingAgrees, QueueTypeOK


-----------------------------------------------------------------------------
(* The queue and the FIFO it promises. *)

Es     == Elems \cup {NoElem}
Offers == [t \in Threads |-> Offered(t)]

LEMMA ContentsIsSeq ==
  ASSUME QInv
  PROVE  /\ Contents \in Seq(Es) /\ Held \in Nat /\ Len(Contents) = Held
         /\ \A i \in 1 .. Held : Contents[i] =
              slots[IF head + i - 1 >= depth THEN head + i - 1 - depth ELSE head + i - 1]
<1>1. Held \in Nat /\ Held <= depth
  BY DEF QInv, QueueIntact, RingAgrees, QueueTypeOK
<1>2. \A i \in 1 .. Held :
        slots[IF head + i - 1 >= depth THEN head + i - 1 - depth ELSE head + i - 1] \in Es
  BY <1>1, DepthMaxAssumption DEF QInv, QueueTypeOK, Es
<1>3. Contents \in [1 .. Held -> Es]
  BY <1>2 DEF Contents
<1>4. Contents \in Seq(Es)
  BY <1>1, <1>3, SeqDef
<1> QED BY <1>1, <1>3, <1>4, LenProperties DEF Contents

LEMMA ContentsNext == (QInv => Contents \in Seq(Es) /\ Len(Contents) = Held)'
<1>1. QInv => Contents \in Seq(Es) /\ Len(Contents) = Held
  BY ContentsIsSeq
<1> QED BY <1>1, PTL

LEMMA SameContents ==
  ASSUME Held' = Held, head' = head, slots' = slots, depth' = depth
  PROVE  Contents' = Contents
  BY DEF Contents

\* A step of t changes at most what t offers.
LEMMA OffersStep ==
  ASSUME NEW t \in Threads, QueueTypeOK,
         pc' = [pc EXCEPT ![t] = pc'[t]], item' = [item EXCEPT ![t] = item'[t]],
         try' = [try EXCEPT ![t] = try'[t]]
  PROVE  Offers' = [Offers EXCEPT ![t] = Offered(t)']
  BY DEF Offers, Offered, QueueTypeOK

\* What the abstract queue calls its state.
Abstract == <<<<Contents>>, Offers, out>>

LEMMA Quiet ==
  ASSUME NEW t \in Threads, QueueTypeOK,
         pc' = [pc EXCEPT ![t] = pc'[t]], item' = [item EXCEPT ![t] = item'[t]],
         try' = [try EXCEPT ![t] = try'[t]],
         Offered(t)' = Offered(t), Contents' = Contents, out' = out
  PROVE  UNCHANGED Abstract
  BY OffersStep DEF Abstract, Offers

LEMMA PushDataStep ==
  ASSUME QInv, PushData, NEW t \in Threads, QueueCall(t) \/ QueueStep(t)
  PROVE  PushData'
<1>0. /\ pc = [u \in Threads |-> pc[u]] /\ item = [u \in Threads |-> item[u]]
      /\ try = [u \in Threads |-> try[u]]
      /\ \A u \in At({"pushCount"}) : pc[t] \in Locked => u = t
  BY DEF QInv, QueueTypeOK, QueueIntact, SpinlockHeld, At, Locked
<1> USE <1>0 DEF PushData, At, PushSteps, Locked, Calls, Goes, Returns, ringVars
<1>1. CASE QueueCall(t)
  BY <1>1 DEF QueueCall, PeekCall, ClearCall, PopCall, PushCall
<1>2. CASE \/ Acquire(t, "pushLock", "pushCheck") \/ Acquire(t, "popLock", "popCheck")
           \/ Acquire(t, "peekLock", "peek") \/ Acquire(t, "clearLock", "clear")
  BY <1>2 DEF Acquire
<1>3. CASE TryLoses(t, "pushLock") \/ TryLoses(t, "popLock") \/ Unlock(t) \/ PushOverflow(t)
  BY <1>3 DEF TryLoses, Unlock, PushOverflow
<1>4. CASE Retry(t) \/ PushSpin(t) \/ PopSpin(t) \/ PopEmpty(t) \/ Peek(t)
  BY <1>4 DEF Retry, PushSpin, PopSpin, PopEmpty, Peek
<1>5. CASE PushCheck(t)
  BY <1>5 DEF PushCheck
<1>6. CASE PopCheck(t)
  BY <1>6 DEF PopCheck
<1>7. CASE PushCopy(t)
  <2>1. tail = (IF head + count >= depth THEN head + count - depth ELSE head + count)
        /\ tail \in 0 .. DepthMax - 1
    BY <1>7, PushCopyRing, DepthMaxAssumption DEF QInv, QueueTypeOK
  <2>2. slots'[tail] = item[t]
    BY <1>7, <2>1 DEF PushCopy, QInv, QueueTypeOK
  <2> QED BY <1>7, <2>1, <2>2 DEF PushCopy
<1>8. CASE PushCount(t) \/ PopCopy(t) \/ PopCount(t) \/ Clear(t)
  BY <1>8 DEF PushCount, PopCopy, PopCount, Clear
<1> QED BY <1>1, <1>2, <1>3, <1>4, <1>5, <1>6, <1>7, <1>8 DEF QueueStep

LEMMA RingStep ==
  ASSUME QInv, NEW t \in Threads, QueueCall(t) \/ QueueStep(t)
  PROVE  RingAgrees'
<1>0. pc = [u \in Threads |-> pc[u]]
  BY DEF QInv, QueueTypeOK
<1>1. CASE QueueCall(t)
  BY <1>0, <1>1, RingUntouched
     DEF QueueCall, PeekCall, ClearCall, PopCall, PushCall, Calls, Middle
<1>2. CASE \/ Acquire(t, "pushLock", "pushCheck") \/ Acquire(t, "popLock", "popCheck")
           \/ Acquire(t, "peekLock", "peek") \/ Acquire(t, "clearLock", "clear")
  BY <1>0, <1>2, RingUntouched DEF Acquire, Goes, Middle
<1>3. CASE TryLoses(t, "pushLock") \/ TryLoses(t, "popLock") \/ Unlock(t) \/ PushOverflow(t)
  BY <1>0, <1>3, RingUntouched DEF TryLoses, Unlock, PushOverflow, Returns, Middle
<1>4. CASE Retry(t) \/ PushSpin(t) \/ PopSpin(t) \/ PopEmpty(t) \/ Peek(t)
  BY <1>0, <1>4, RingUntouched
     DEF Retry, PushSpin, PopSpin, PopEmpty, Peek, Goes, Returns, Middle
<1> QED
  BY <1>1, <1>2, <1>3, <1>4, PushCheckRing, PopCheckRing, PushCopyRing, PushCountRing,
     PopCopyRing, PopCountRing, ClearRing DEF QueueStep


\* What the calls and the steps outside the copies look like from outside.
LEMMA OuterSimulated ==
  ASSUME QInv, PushData, NEW t \in Threads, UNCHANGED <<ringVars, out>>,
         pc' = [pc EXCEPT ![t] = pc'[t]], item' = [item EXCEPT ![t] = item'[t]],
         try' = [try EXCEPT ![t] = try'[t]],
         pc[t] \notin Middle, pc'[t] \notin Middle,
         \/ Offered(t)' = Offered(t)
         \/ Offered(t) = NoElem /\ Offered(t)' \in Elems
         \/ Offered(t)' = NoElem /\ Held > 0
  PROVE  SyncFifo!Next \/ UNCHANGED Abstract
<1>1. Contents' = Contents
  BY RingUntouched, SameContents DEF ringVars
<1>2. Offers' = [Offers EXCEPT ![t] = Offered(t)'] /\ Offers[t] = Offered(t)
  BY OffersStep DEF QInv, Offers
<1>3. CASE Offered(t)' = Offered(t)
  BY <1>1, <1>3, Quiet DEF QInv
<1>4. CASE Offered(t) = NoElem /\ Offered(t)' \in Elems
  <2>1. SyncFifo!Offer(t, Offered(t)')
    BY <1>1, <1>2, <1>4 DEF SyncFifo!Offer, Offers
  <2> QED BY <1>4, <2>1 DEF SyncFifo!Next
<1>5. CASE Offered(t)' = NoElem /\ Held > 0
  <2>1. Contents # <<>>
    BY <1>5, ContentsIsSeq
  <2>2. SyncFifo!Refuse(t, 1)
    BY <1>1, <1>2, <1>5, <2>1 DEF SyncFifo!Refuse, Offers
  <2> QED BY <2>2 DEF SyncFifo!Next
<1> QED BY <1>3, <1>4, <1>5

LEMMA PushCopySimulated ==
  ASSUME QInv, PushData, NEW t \in Threads, PushCopy(t)
  PROVE  UNCHANGED Abstract
<1>1. /\ Held' = Held /\ Held = count /\ count \in 0 .. depth - 1 /\ head \in 0 .. depth - 1
      /\ tail = IF head + count >= depth THEN head + count - depth ELSE head + count
  BY PushCopyRing DEF QInv, QueueTypeOK
<1>2. ASSUME NEW i \in 1 .. Held
      PROVE  (IF head + i - 1 >= depth THEN head + i - 1 - depth ELSE head + i - 1) # tail
  BY <1>1, DepthMaxAssumption DEF QInv, QueueTypeOK
<1>3. slots' = [slots EXCEPT ![tail] = item[t]] /\ head' = head /\ depth' = depth
  BY DEF PushCopy
<1>4. Contents' = Contents
  BY <1>1, <1>2, <1>3 DEF Contents, QInv, QueueTypeOK
<1>5. Offered(t)' = Offered(t) /\ pc' = [pc EXCEPT ![t] = pc'[t]] /\ item' = item /\ try' = try
  BY DEF PushCopy, Goes, Offered, QInv, QueueTypeOK
<1> QED BY <1>4, <1>5, Quiet DEF PushCopy, QInv, QueueTypeOK

LEMMA PushCountSimulated ==
  ASSUME QInv, QInv', PushData, NEW t \in Threads, PushCount(t)
  PROVE  SyncFifo!Put(t, 1)
<1>1. Held = count /\ Held' = count + 1 /\ count \in 0 .. depth - 1
  BY PushCountRing
<1>2. /\ item[t] \in Elems /\ Offered(t) = item[t] /\ Offered(t)' = NoElem
      /\ slots[IF head + count >= depth THEN head + count - depth ELSE head + count] = item[t]
  BY DEF PushCount, Goes, Offered, PushData, At, PushSteps, QInv, QueueTypeOK
<1>3. Offers' = [Offers EXCEPT ![t] = NoElem] /\ Offers[t] = item[t]
  BY <1>2, OffersStep DEF QInv, QueueTypeOK, PushCount, Goes, Offers
<1>4. Contents' = Append(Contents, item[t])
  <2>1. /\ Contents \in Seq(Es) /\ Len(Contents) = count
        /\ Contents' \in Seq(Es) /\ Len(Contents') = count + 1
    BY <1>1, ContentsIsSeq, ContentsNext
  <2>2. /\ Append(Contents, item[t]) \in Seq(Es) /\ Len(Append(Contents, item[t])) = count + 1
        /\ \A i \in 1 .. count : Append(Contents, item[t])[i] = Contents[i]
        /\ Append(Contents, item[t])[count + 1] = item[t]
    BY <1>2, <2>1, AppendProperties DEF Es
  <2>3. \A i \in 1 .. count + 1 : Contents'[i] = Append(Contents, item[t])[i]
    <3>1. \A i \in 1 .. count : Contents'[i] = Contents[i]
      BY <1>1 DEF Contents, PushCount
    <3>2. Contents'[count + 1] = item[t]
      BY <1>1, <1>2 DEF Contents, PushCount
    <3> QED BY <1>1, <2>2, <3>1, <3>2 DEF QInv, QueueTypeOK
  <2> QED BY <2>1, <2>2, <2>3, SeqEqual
<1>5. Len(Contents) < DepthMax
  BY <1>1, ContentsIsSeq, DepthMaxAssumption DEF QInv, QueueTypeOK
<1>6. item[t] # NoElem /\ out' = out
  BY <1>2, NoElemAssumption DEF PushCount
<1> QED BY <1>3, <1>4, <1>5, <1>6 DEF SyncFifo!Put, Offers

LEMMA PopCopySimulated ==
  ASSUME QInv, QInv', NEW t \in Threads, PopCopy(t)
  PROVE  SyncFifo!Take(1, 1)
<1>1. Held = count /\ Held' = count - 1 /\ count \in 1 .. depth
  BY PopCopyRing
<1>2. /\ Contents \in Seq(Es) /\ Len(Contents) = count
      /\ Contents' \in Seq(Es) /\ Len(Contents') = count - 1
      /\ \A i \in 1 .. count : Contents[i] \in Es
  BY <1>1, ContentsIsSeq, ContentsNext, ElementOfSeq
<1>3. head' = After(head) /\ depth' = depth /\ slots' = slots /\ out' = <<slots[head]>>
  BY DEF PopCopy
<1>4. \A i \in 1 .. count - 1 : Contents'[i] = Contents[i + 1]
  <2> TAKE i \in 1 .. count - 1
  <2>1. (IF After(head) + i - 1 >= depth THEN After(head) + i - 1 - depth ELSE After(head) + i - 1)
        = (IF head + i >= depth THEN head + i - depth ELSE head + i)
    BY <1>1, DepthMaxAssumption DEF After, QInv, QueueTypeOK
  <2> QED BY <1>1, <1>3, <2>1, DepthMaxAssumption DEF Contents, QInv, QueueTypeOK
<1>5. Contents[1] = slots[head]
  BY <1>1, DepthMaxAssumption DEF Contents, QInv, QueueTypeOK
<1>6. Contents' = SubSeq(Contents, 2, count)
  <2>1. /\ SubSeq(Contents, 2, count) \in Seq(Es)
        /\ Len(SubSeq(Contents, 2, count)) = IF 2 <= count THEN count - 2 + 1 ELSE 0
        /\ \A i \in 1 .. count - 2 + 1 : SubSeq(Contents, 2, count)[i] = Contents[2 + i - 1]
    BY <1>1, <1>2, DepthMaxAssumption, SubSeqProperties DEF QInv, QueueTypeOK
  <2>2. Len(SubSeq(Contents, 2, count)) = count - 1
    BY <1>1, <2>1, DepthMaxAssumption DEF QInv, QueueTypeOK
  <2>3. \A i \in 1 .. count - 1 : SubSeq(Contents, 2, count)[i] = Contents'[i]
    BY <1>1, <1>4, <2>1, DepthMaxAssumption DEF QInv, QueueTypeOK
  <2> QED BY <1>2, <2>1, <2>2, <2>3, SeqEqual
<1>7. out' = SubSeq(Contents, 1, 1)
  <2>1. /\ SubSeq(Contents, 1, 1) \in Seq(Es) /\ Len(SubSeq(Contents, 1, 1)) = 1
        /\ SubSeq(Contents, 1, 1)[1] = Contents[1]
    BY <1>1, <1>2, DepthMaxAssumption, SubSeqProperties DEF QInv, QueueTypeOK
  <2>2. out' \in Seq(Es) /\ Len(out') = 1 /\ out'[1] = Contents[1]
    BY <1>1, <1>2, <1>3, <1>5, DepthMaxAssumption DEF QInv, QueueTypeOK
  <2> QED BY <2>1, <2>2, SeqEqual
<1>8. Offers' = Offers
  <2>1. Offered(t)' = Offered(t)
    BY DEF PopCopy, Goes, Offered, QInv, QueueTypeOK
  <2> QED BY <2>1, OffersStep DEF PopCopy, Goes, Offers, QInv, QueueTypeOK
<1> QED BY <1>2, <1>6, <1>7, <1>8 DEF SyncFifo!Take, Offers


LEMMA PopCountSimulated ==
  ASSUME QInv, NEW t \in Threads, PopCount(t)
  PROVE  UNCHANGED Abstract
<1>1. Contents' = Contents
  BY PopCountRing, SameContents DEF PopCount
<1>2. Offered(t)' = Offered(t)
  BY DEF PopCount, Goes, Offered, QInv, QueueTypeOK
<1> QED BY <1>1, <1>2, Quiet DEF PopCount, Goes, QInv, QueueTypeOK

LEMMA ClearSimulated ==
  ASSUME QInv, NEW t \in Threads, Clear(t)
  PROVE  SyncFifo!Clear(1)
<1>1. Contents' = <<>>
  BY ClearRing DEF Contents
<1>2. Offered(t)' = Offered(t)
  BY DEF Clear, Goes, Offered, QInv, QueueTypeOK
<1>3. Offers' = Offers
  BY <1>2, OffersStep DEF Clear, Goes, Offers, QInv, QueueTypeOK
<1> QED BY <1>1, <1>3 DEF SyncFifo!Clear, Clear, Offers

\* A refused TryPush has seen a full ring.
LEMMA FullHolds == ASSUME QInv, NEW t \in Threads, PushCheck(t), ~RoomLeft PROVE Held > 0
<1>1. At({"popCount"}) = {}
  BY Alone DEF PushCheck, Goes, Locked, Middle
<1> QED BY <1>1, DepthMaxAssumption DEF Held, RoomLeft, Full, QInv, QueueTypeOK

LEMMA StepSimulated ==
  ASSUME QInv, QInv', PushData, NEW t \in Threads, QueueCall(t) \/ QueueStep(t)
  PROVE  SyncFifo!Next \/ UNCHANGED Abstract
<1>0. /\ pc = [u \in Threads |-> pc[u]] /\ item = [u \in Threads |-> item[u]]
      /\ try = [u \in Threads |-> try[u]]
      /\ pc[t] \in PushSteps => item[t] \in Elems
      /\ pc[t] = "retryPush" => ~try[t]
  BY DEF QInv, QueueTypeOK, PushData, At
<1> USE <1>0 DEF Offered, Calls, Goes, Returns, Middle, PushSteps
<1>1. CASE QueueCall(t)
  <2>1. CASE PeekCall(t) \/ ClearCall(t) \/ \E b \in BOOLEAN : PopCall(t, b)
    BY <2>1, OuterSimulated DEF PeekCall, ClearCall, PopCall
  <2>2. ASSUME NEW b \in BOOLEAN, NEW e \in Elems, PushCall(t, e, b)
        PROVE  SyncFifo!Next \/ UNCHANGED Abstract
    BY <2>2, OuterSimulated DEF PushCall
  <2> QED BY <1>1, <2>1, <2>2 DEF QueueCall
<1>2. CASE Acquire(t, "pushLock", "pushCheck")
  BY <1>2, OuterSimulated DEF Acquire
<1>3. CASE Acquire(t, "popLock", "popCheck") \/ Acquire(t, "peekLock", "peek")
           \/ Acquire(t, "clearLock", "clear")
  BY <1>3, OuterSimulated DEF Acquire
<1>4. CASE TryLoses(t, "pushLock") \/ TryLoses(t, "popLock") \/ Unlock(t) \/ PushOverflow(t)
  BY <1>4, OuterSimulated DEF TryLoses, Unlock, PushOverflow
<1>5. CASE Retry(t)
  BY <1>5, OuterSimulated DEF Retry
<1>6. CASE PushSpin(t) \/ PopSpin(t) \/ PopEmpty(t) \/ Peek(t)
  BY <1>6, OuterSimulated DEF PushSpin, PopSpin, PopEmpty, Peek
<1>7. CASE PushCheck(t)
  <2>0. item' = [item EXCEPT ![t] = item'[t]] /\ try' = [try EXCEPT ![t] = try'[t]]
    BY <1>7 DEF PushCheck
  <2>1. CASE RoomLeft /\ Goes(t, "pushCheck", "pushCopy")
    <3>1. Contents' = Contents
      BY <1>7, PushCheckRing, SameContents DEF PushCheck, ringVars
    <3>2. Offered(t)' = Offered(t)
      BY <1>7, <2>1 DEF PushCheck
    <3> QED BY <1>7, <2>0, <2>1, <3>1, <3>2, Quiet DEF PushCheck, QInv
  <2>2. CASE ~RoomLeft /\ Goes(t, "pushCheck", IF try[t] THEN "unlock" ELSE "retryPush")
    BY <1>7, <2>0, <2>2, FullHolds, OuterSimulated DEF PushCheck
  <2> QED BY <1>7, <2>1, <2>2 DEF PushCheck
<1>8. CASE PopCheck(t)
  <2>0. item' = [item EXCEPT ![t] = item'[t]] /\ try' = [try EXCEPT ![t] = try'[t]]
    BY <1>8 DEF PopCheck
  <2>1. Contents' = Contents
    BY <1>8, PopCheckRing, SameContents DEF PopCheck, ringVars
  <2>2. Offered(t)' = Offered(t) /\ pc' = [pc EXCEPT ![t] = pc'[t]] /\ out' = out
    BY <1>8 DEF PopCheck
  <2> QED BY <2>0, <2>1, <2>2, Quiet DEF QInv
<1>9. CASE PushCopy(t) \/ PopCount(t)
  BY <1>9, PushCopySimulated, PopCountSimulated
<1>10. CASE PushCount(t) \/ PopCopy(t) \/ Clear(t)
  <2>1. Contents \in Seq(Es) /\ Len(Contents) = Held /\ (PopCopy(t) => Held >= 1)
    BY ContentsIsSeq, PopCopyRing, DepthMaxAssumption DEF QInv, QueueTypeOK
  <2> QED BY <1>10, <2>1, PushCountSimulated, PopCopySimulated, ClearSimulated DEF SyncFifo!Next
<1> QED BY <1>1, <1>2, <1>3, <1>4, <1>5, <1>6, <1>7, <1>8, <1>9, <1>10 DEF QueueStep

LEMMA QueueInitInv ==
  ASSUME QueueInit, pc = [t \in Threads |-> "idle"], try = [t \in Threads |-> FALSE]
  PROVE  QInv /\ PushData /\ SyncFifo!Init
<1>1. QueueTypeOK
  BY DepthMaxAssumption, NoElemAssumption DEF QueueInit, QueueTypeOK
<1>2. SpinlockHeld
  BY DEF QueueInit, SpinlockHeld, At, Locked
<1>3. \A n \in Middle : At({n}) = {}
  BY DEF At, Middle
<1>4. Held = 0 /\ Written = 0
  BY <1>3 DEF Held, Written, Middle, QueueInit
<1>5. RingAgrees
  BY <1>3, <1>4, DepthMaxAssumption DEF RingAgrees, Middle, QueueInit
<1>6. PushData
  BY DEF PushData, At, PushSteps
<1>7. Contents = <<>> /\ \A t \in Threads : Offered(t) = NoElem
  BY <1>4 DEF Contents, Offered, QueueInit
<1>8. SyncFifo!Init
  BY <1>7 DEF SyncFifo!Init, QueueInit
<1> QED BY <1>1, <1>2, <1>5, <1>6, <1>8 DEF QInv, QueueIntact

LEMMA QueueNextInv ==
  ASSUME QInv, PushData, [QueueNext]_queueVars PROVE QInv' /\ PushData'
<1>1. QueueTypeOK' /\ SpinlockHeld'
  BY QueueTyping, SpinlockStep DEF QInv, QueueIntact
<1>2. CASE QueueNext
  <2>1. PICK t \in Threads : QueueCall(t) \/ QueueStep(t)
    BY <1>2 DEF QueueNext
  <2> QED BY <1>1, <2>1, RingStep, PushDataStep DEF QInv, QueueIntact
<1>3. CASE UNCHANGED queueVars
  <2>1. RingAgrees'
    BY <1>3 DEF QInv, QueueIntact, RingAgrees, Held, Written, At, queueVars, ringVars
  <2>2. PushData'
    BY <1>3 DEF PushData, At, queueVars, ringVars
  <2> QED BY <1>1, <2>1, <2>2 DEF QInv, QueueIntact
<1> QED BY <1>2, <1>3

LEMMA QueueInductive == QueueSpec => [](QInv /\ PushData)
<1>1. QInv /\ PushData /\ [QueueNext]_queueVars => (QInv /\ PushData)'
  BY QueueNextInv
<1> QED BY <1>1, QueueInitInv, PTL DEF QueueSpec

(* The queue stays one ring although the decisions to push and pop are taken
   on looks without the lock, at any depth and with any number of threads.   *)
THEOREM QueueStaysIntact == QueueSpec => []QueueIntact
<1>1. QInv => QueueIntact
  BY DEF QInv
<1> QED BY <1>1, QueueInductive, PTL

(* The bounded queue implements the bounded FIFO. *)
THEOREM QueueIsFifo == QueueSpec => SyncQueueIsFifo
<1>1. QInv /\ QInv' /\ PushData /\ [QueueNext]_queueVars => SyncFifo!Next \/ UNCHANGED Abstract
  <2> SUFFICES ASSUME QInv, QInv', PushData, [QueueNext]_queueVars
               PROVE  SyncFifo!Next \/ UNCHANGED Abstract
    OBVIOUS
  <2>1. CASE QueueNext
    BY <2>1, StepSimulated DEF QueueNext
  <2>2. CASE UNCHANGED queueVars
    BY <2>2 DEF queueVars, ringVars, Abstract, Offers, Offered, Contents, Held, At
  <2> QED BY <2>1, <2>2
<1>2. QInv /\ QInv' /\ PushData /\ [QueueNext]_queueVars
        => [SyncFifo!Next]_(<<<<Contents>>, [t \in Threads |-> Offered(t)], out>>)
  BY <1>1 DEF Abstract, Offers
<1> QED BY <1>2, QueueInitInv, QueueInductive, PTL DEF QueueSpec, SyncQueueIsFifo, SyncFifo!Spec

-----------------------------------------------------------------------------
(* The barrier. *)

\* The threads that have notified in the round being collected.
Up == {t \in Threads : notified[t] = opened + 1}

Changing == {"bReset", "bPhase"}

\* Where each thread is in the rounds.
InRounds ==
    \A t \in Threads : /\ notified[t] \in {opened, opened + 1}
                       /\ passed[t] \in {notified[t] - 1, notified[t]}
                       /\ passed[t] <= opened

\* One thread at a time moves the barrier to the next round, and until it has
\* moved the phase it cannot notify again, so that no round completes meanwhile.
OneChanges ==
    /\ \A t, u \in Threads : pc[t] \in Changing /\ pc[u] \in Changing => t = u
    /\ \A t, u \in Threads : pc[t] = "bReset" => notified[u] = opened + 1
    /\ \A t \in Threads :
        pc[t] = "bPhase" => notified[t] = opened /\ passed[t] < opened /\ opened = phase + 1
    /\ (\A t \in Threads : pc[t] # "bPhase") => opened = phase

\* A wait has sampled a phase at least as late as its round.
Samples ==
    \A t \in Threads :
        /\ ~polls[t] => passed[t] <= phase
        /\ pc[t] = "bWait" => /\ ~polls[t] /\ passed[t] < notified[t]
                              /\ passed[t] <= sampled[t] /\ sampled[t] <= phase

BInv == BarrierTypeOK /\ InRounds /\ arrived = Cardinality(Up) /\ OneChanges /\ Samples

LEMMA UpFinite ==
  /\ IsFiniteSet(Up) /\ Cardinality(Up) \in Nat /\ Cardinality(Up) <= total /\ total \in Nat
  /\ Cardinality(Up) = total => Up = Threads
  BY ThreadsAssumption, FS_Subset, FS_CardinalityType DEF Up, total

LEMMA BarrierInitInv ==
  ASSUME BarrierInit, pc = [t \in Threads |-> "idle"], try = [t \in Threads |-> FALSE]
  PROVE  BInv
<1>1. BarrierTypeOK
  BY RoundsAssumption, UpFinite DEF BarrierInit, BarrierTypeOK
<1>2. Up = {}
  BY DEF BarrierInit, Up
<1>3. arrived = Cardinality(Up)
  BY <1>2, FS_EmptySet DEF BarrierInit
<1>4. InRounds /\ OneChanges /\ Samples
  BY DEF BarrierInit, InRounds, OneChanges, Samples, Changing
<1> QED BY <1>1, <1>3, <1>4 DEF BInv

\* A notify that is not the last one of its round is counted.
LEMMA NotifyCounts ==
  ASSUME BInv, NEW t \in Threads, Notify(t)
  PROVE  /\ notified[t] = opened /\ passed[t] = opened /\ pc[t] = "idle"
         /\ \A u \in Threads : notified'[u] = IF u = t THEN opened + 1 ELSE notified[u]
         /\ arrived' = Cardinality(Up') /\ arrived' = arrived + 1 /\ arrived' \in 0 .. total
         /\ IsLast(arrived) => Up' = Threads
<1>1. BarrierTypeOK /\ notified[t] = passed[t] /\ opened' = opened /\ arrived' = arrived + 1
      /\ notified' = [notified EXCEPT ![t] = notified[t] + 1] /\ arrived = Cardinality(Up)
  BY DEF BInv, Notify
<1>2. notified[t] = opened /\ passed[t] = opened
  BY <1>1 DEF BInv, InRounds, BarrierTypeOK
<1>3. pc[t] = "idle"
  BY DEF Notify, Calls
<1>4. \A u \in Threads : notified'[u] = IF u = t THEN opened + 1 ELSE notified[u]
  BY <1>1, <1>2 DEF BarrierTypeOK
<1>5. Up' = Up \cup {t} /\ t \notin Up
  BY <1>1, <1>2, <1>4 DEF Up, BarrierTypeOK
<1>6. Cardinality(Up \cup {t}) = Cardinality(Up) + 1
  BY <1>5, UpFinite, FS_AddElement
<1>7. arrived' = Cardinality(Up')
  BY <1>1, <1>5, <1>6
<1>8. /\ IsFiniteSet(Up') /\ Cardinality(Up') <= total
      /\ Cardinality(Up') = total => Up' = Threads
  <2>1. Up' \subseteq Threads
    BY <1>5 DEF Up
  <2> QED BY <2>1, ThreadsAssumption, FS_Subset DEF total
<1>9. arrived' \in 0 .. total /\ (IsLast(arrived) => Up' = Threads)
  BY <1>1, <1>7, <1>8, UpFinite DEF IsLast, BarrierTypeOK
<1> QED BY <1>1, <1>2, <1>3, <1>4, <1>7, <1>9

LEMMA NotifyKeeps == ASSUME BInv, NEW t \in Threads, Notify(t) PROVE BInv'
<1>1. /\ notified[t] = opened /\ passed[t] = opened /\ pc[t] = "idle"
      /\ \A u \in Threads : notified'[u] = IF u = t THEN opened + 1 ELSE notified[u]
      /\ arrived' = Cardinality(Up') /\ arrived' = arrived + 1 /\ arrived' \in 0 .. total
      /\ IsLast(arrived) => Up' = Threads
  BY NotifyCounts
<1>2. /\ BarrierTypeOK /\ InRounds /\ OneChanges /\ Samples
      /\ UNCHANGED <<phase, sampled, polls, passed, opened>> /\ notified[t] < MaxRounds
      /\ notified' = [notified EXCEPT ![t] = notified[t] + 1]
  BY DEF BInv, Notify
<1>3. CASE IsLast(arrived) /\ Calls(t, "bReset", FALSE)
  <2>1. pc' = [pc EXCEPT ![t] = "bReset"] /\ try' = [try EXCEPT ![t] = FALSE]
    BY <1>3 DEF Calls
  <2>2. BarrierTypeOK'
    BY <1>1, <1>2, <2>1, RoundsAssumption DEF BarrierTypeOK
  <2>3. \A u \in Threads : notified'[u] = opened + 1
    BY <1>1, <1>2, <1>3 DEF Up
  <2>4. \A u \in Threads : pc[u] \notin Changing
    BY <1>1, <1>2, <2>3 DEF OneChanges, Changing, BarrierTypeOK
  <2>5. \A u \in Threads : pc'[u] = IF u = t THEN "bReset" ELSE pc[u]
    BY <1>2, <2>1 DEF BarrierTypeOK
  <2>6. InRounds'
    BY <1>1, <1>2, <2>3 DEF InRounds, BarrierTypeOK
  <2>7. OneChanges'
    BY <1>2, <2>3, <2>4, <2>5 DEF OneChanges, Changing
  <2>8. Samples'
    BY <1>1, <1>2, <2>3, <2>5 DEF Samples, BarrierTypeOK
  <2> QED BY <1>1, <2>2, <2>6, <2>7, <2>8 DEF BInv
<1>4. CASE UNCHANGED <<pc, try>>
  <2>1. BarrierTypeOK'
    BY <1>1, <1>2, <1>4, RoundsAssumption DEF BarrierTypeOK
  <2>2. InRounds'
    BY <1>1, <1>2 DEF InRounds, BarrierTypeOK
  <2>3. OneChanges'
    BY <1>1, <1>2, <1>4 DEF OneChanges, Changing, BarrierTypeOK
  <2>4. Samples'
    BY <1>1, <1>2, <1>4 DEF Samples, BarrierTypeOK
  <2> QED BY <1>1, <2>1, <2>2, <2>3, <2>4 DEF BInv
<1> QED BY <1>3, <1>4 DEF Notify

LEMMA ResetKeeps == ASSUME BInv, NEW t \in Threads, NotifyReset(t) PROVE BInv'
<1>1. /\ BarrierTypeOK /\ InRounds /\ OneChanges /\ Samples /\ pc[t] = "bReset"
      /\ pc' = [pc EXCEPT ![t] = "bPhase"] /\ arrived' = 0 /\ opened' = opened + 1
      /\ UNCHANGED <<phase, sampled, polls, notified, passed, try>>
  BY DEF BInv, NotifyReset, Goes
<1>2. /\ \A u \in Threads : notified[u] = opened + 1
      /\ \A u \in Threads \ {t} : pc[u] \notin Changing
  BY <1>1 DEF OneChanges, Changing
<1>3. opened = phase
  BY <1>1, <1>2 DEF OneChanges, Changing
<1>4. BarrierTypeOK'
  BY <1>1, <1>2, UpFinite DEF BarrierTypeOK
<1>5. Up' = {}
  BY <1>1, <1>2 DEF Up, BarrierTypeOK
<1>6. arrived' = Cardinality(Up')
  BY <1>1, <1>5, FS_EmptySet
<1>7. InRounds'
  BY <1>1, <1>2 DEF InRounds, BarrierTypeOK
<1>8. \A u \in Threads : pc'[u] = IF u = t THEN "bPhase" ELSE pc[u]
  BY <1>1 DEF BarrierTypeOK
<1>9. OneChanges'
  BY <1>1, <1>2, <1>3, <1>8 DEF OneChanges, Changing, InRounds, BarrierTypeOK
<1>10. Samples'
  BY <1>1, <1>8 DEF Samples
<1> QED BY <1>4, <1>6, <1>7, <1>9, <1>10 DEF BInv

LEMMA PhaseKeeps == ASSUME BInv, NEW t \in Threads, NotifyPhase(t) PROVE BInv'
<1>1. /\ BarrierTypeOK /\ InRounds /\ OneChanges /\ Samples /\ pc[t] = "bPhase"
      /\ arrived = Cardinality(Up)
      /\ pc' = [pc EXCEPT ![t] = "idle"] /\ try' = [try EXCEPT ![t] = FALSE] /\ phase' = phase + 1
      /\ UNCHANGED <<arrived, sampled, polls, notified, passed, opened>>
  BY DEF BInv, NotifyPhase, Returns, history
<1>2. opened = phase + 1 /\ \A u \in Threads \ {t} : pc[u] \notin Changing
  BY <1>1 DEF OneChanges, Changing
<1>3. \A u \in Threads : pc'[u] = IF u = t THEN "idle" ELSE pc[u]
  BY <1>1 DEF BarrierTypeOK
<1>4. BarrierTypeOK'
  BY <1>1, <1>2 DEF BarrierTypeOK
<1>5. InRounds' /\ arrived' = Cardinality(Up')
  BY <1>1 DEF InRounds, Up
<1>6. OneChanges'
  BY <1>1, <1>2, <1>3 DEF OneChanges, Changing
<1>7. Samples'
  BY <1>1, <1>3 DEF Samples, BarrierTypeOK
<1> QED BY <1>4, <1>5, <1>6, <1>7 DEF BInv

LEMMA WaitKeeps == ASSUME BInv, NEW t \in Threads, Wait(t) PROVE BInv'
<1>1. /\ BarrierTypeOK /\ InRounds /\ OneChanges /\ Samples /\ arrived = Cardinality(Up)
      /\ pc[t] = "idle" /\ ~polls[t] /\ passed[t] < notified[t]
      /\ pc' = [pc EXCEPT ![t] = "bWait"] /\ try' = [try EXCEPT ![t] = FALSE]
      /\ sampled' = [sampled EXCEPT ![t] = phase]
      /\ UNCHANGED <<arrived, phase, polls, notified, passed, opened>>
  BY DEF BInv, Wait, Calls, history
<1>2. /\ \A u \in Threads : pc'[u] = IF u = t THEN "bWait" ELSE pc[u]
      /\ \A u \in Threads : sampled'[u] = IF u = t THEN phase ELSE sampled[u]
  BY <1>1 DEF BarrierTypeOK
<1>3. BarrierTypeOK'
  BY <1>1 DEF BarrierTypeOK
<1>4. InRounds' /\ arrived' = Cardinality(Up')
  BY <1>1 DEF InRounds, Up
<1>5. OneChanges'
  BY <1>1, <1>2 DEF OneChanges, Changing
<1>6. Samples'
  BY <1>1, <1>2 DEF Samples, BarrierTypeOK
<1> QED BY <1>3, <1>4, <1>5, <1>6 DEF BInv

\* A wait that returns has its round behind it.
LEMMA PassKeeps ==
  ASSUME BInv, NEW t \in Threads, HasPassed(t), pc[t] \notin Changing, passed[t] < notified[t],
         passed[t] < opened, ~polls[t] => passed[t] < phase,
         pc' = [pc EXCEPT ![t] = "idle"], try' \in [Threads -> BOOLEAN],
         UNCHANGED <<arrived, phase, sampled, polls>>
  PROVE  BInv'
<1>1. /\ BarrierTypeOK /\ InRounds /\ OneChanges /\ Samples /\ arrived = Cardinality(Up)
      /\ passed' = [passed EXCEPT ![t] = passed[t] + 1] /\ UNCHANGED <<notified, opened>>
  BY DEF BInv, HasPassed
<1>2. /\ \A u \in Threads : pc'[u] = IF u = t THEN "idle" ELSE pc[u]
      /\ \A u \in Threads : passed'[u] = IF u = t THEN passed[u] + 1 ELSE passed[u]
  BY <1>1 DEF BarrierTypeOK
<1>3. BarrierTypeOK'
  <2>1. passed' \in [Threads -> 0 .. MaxRounds]
    <3>1. passed[t] + 1 \in 0 .. MaxRounds
      BY <1>1, RoundsAssumption DEF BarrierTypeOK
    <3> QED BY <1>1, <3>1 DEF BarrierTypeOK
  <2>2. pc' \in [Threads -> {"idle", "bReset", "bPhase", "bWait"}]
    BY <1>1 DEF BarrierTypeOK
  <2> QED BY <1>1, <2>1, <2>2 DEF BarrierTypeOK
<1>4. InRounds' /\ arrived' = Cardinality(Up')
  BY <1>1, <1>2 DEF InRounds, Up, BarrierTypeOK
<1>5. OneChanges'
  BY <1>1, <1>2 DEF OneChanges, Changing
<1>6. Samples'
  BY <1>1, <1>2 DEF Samples, BarrierTypeOK
<1> QED BY <1>3, <1>4, <1>5, <1>6 DEF BInv

LEMMA PhaseIsBehind == BInv => phase <= opened
  BY DEF BInv, OneChanges, BarrierTypeOK

LEMMA WaitOverKeeps == ASSUME BInv, NEW t \in Threads, WaitOver(t) PROVE BInv'
<1>1. /\ pc[t] = "bWait" /\ phase # sampled[t] /\ HasPassed(t)
      /\ pc' = [pc EXCEPT ![t] = "idle"] /\ try' = [try EXCEPT ![t] = FALSE]
      /\ UNCHANGED <<arrived, phase, sampled, polls>>
  BY DEF WaitOver, Returns
<1>2. passed[t] < notified[t] /\ passed[t] < phase /\ passed[t] < opened
  BY <1>1, PhaseIsBehind DEF BInv, Samples, BarrierTypeOK
<1>3. try' \in [Threads -> BOOLEAN]
  BY <1>1 DEF BInv, BarrierTypeOK
<1> QED BY <1>1, <1>2, <1>3, PassKeeps DEF Changing

LEMMA TryWaitKeeps == ASSUME BInv, NEW t \in Threads, TryWait(t) PROVE BInv'
<1>1. /\ polls[t] /\ passed[t] < notified[t] /\ pc[t] = "idle" /\ arrived = 0 /\ HasPassed(t)
      /\ UNCHANGED <<arrived, phase, sampled, polls, pc, try>>
  BY DEF TryWait
<1>2. Up = {}
  BY <1>1, UpFinite, FS_EmptySet DEF BInv
<1>3. passed[t] < opened
  BY <1>1, <1>2 DEF Up, BInv, InRounds, BarrierTypeOK
<1>4. pc' = [pc EXCEPT ![t] = "idle"] /\ try' \in [Threads -> BOOLEAN]
  BY <1>1 DEF BInv, BarrierTypeOK
<1> QED BY <1>1, <1>3, <1>4, PassKeeps DEF Changing

LEMMA BarrierNextInv == BInv /\ [BarrierNext]_barrierVars => BInv'
<1> SUFFICES ASSUME BInv, [BarrierNext]_barrierVars PROVE BInv'
  OBVIOUS
<1>1. CASE BarrierNext
  BY <1>1, NotifyKeeps, ResetKeeps, PhaseKeeps, WaitKeeps, WaitOverKeeps, TryWaitKeeps
     DEF BarrierNext, BarrierGuest, BarrierStep
<1>2. CASE UNCHANGED barrierVars
  BY <1>2 DEF barrierVars, BInv, BarrierTypeOK, InRounds, Up, OneChanges, Samples
<1> QED BY <1>1, <1>2

(* Rounds of the barrier do not mix, for any number of participants and
   rounds, in any mixture of threads that wait and threads that poll.        *)
THEOREM BarrierRounds == BarrierSpec => []RoundsDontMix
<1>1. BInv => RoundsDontMix
  <2> SUFFICES ASSUME BInv PROVE RoundsDontMix
    OBVIOUS
  <2>1. NoNotifyErased
    BY DEF BInv, InRounds, Up, NoNotifyErased
  <2>2. NoEarlyRelease
    BY DEF BInv, InRounds, BarrierTypeOK, NoEarlyRelease
  <2> QED BY <2>1, <2>2 DEF RoundsDontMix
<1> QED BY <1>1, BarrierInitInv, BarrierNextInv, PTL DEF BarrierSpec

-----------------------------------------------------------------------------
(* The three objects in one run. *)

HostInv ==
    /\ object = "barrier" => BInv
    /\ object = "rwm" => RwmInv
    /\ object = "queue" => QInv /\ PushData

(* Every variable of the object the guest uses keeps its type. *)
THEOREM Typing == Spec => []TypeOK
<1>1. Init => HostInv
  BY BarrierInitInv, RwmInitInv, QueueInitInv DEF Init, HostInv
<1>2. HostInv /\ [Next]_allVars => HostInv'
  <2> SUFFICES ASSUME HostInv, [Next]_allVars PROVE HostInv'
    OBVIOUS
  <2>1. CASE UsesBarrier
    BY <2>1, BarrierNextInv DEF HostInv, UsesBarrier
  <2>2. CASE UsesRwm
    BY <2>2, RwmNextInv DEF HostInv, UsesRwm
  <2>3. CASE UsesQueue
    BY <2>3, QueueNextInv DEF HostInv, UsesQueue
  <2>4. CASE UNCHANGED allVars
    <3>1. UNCHANGED barrierVars /\ UNCHANGED rwmVars /\ UNCHANGED queueVars /\ object' = object
      BY <2>4 DEF allVars, barrierVars, rwmVars, queueVars, ringVars, barrierOnly, rwmOnly, queueOnly
    <3> QED BY <3>1, BarrierNextInv, RwmNextInv, QueueNextInv DEF HostInv
  <2> QED BY <2>1, <2>2, <2>3, <2>4 DEF Next
<1>3. HostInv => TypeOK
  BY DEF HostInv, TypeOK, BInv, RwmInv, QInv
<1> QED BY <1>1, <1>2, <1>3, PTL DEF Spec

=============================================================================
