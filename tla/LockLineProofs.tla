--------------------------- MODULE LockLineProofs ---------------------------
(***************************************************************************)
(* Theorems about LockLine for a line that has been reserved before        *)
(* (Marked = TRUE), for every set of PPU threads and SPUs, every number of *)
(* tickets and every bound of the counter.                                 *)
(***************************************************************************)
EXTENDS LockLine, FiniteSetTheorems, TLAPS

(* Every write of the line is made under the lock-line lock. *)
AllLock == reserved /\ \A t \in PPUs : pc[t] # "bare"

(* The SPU inside the lock is the one between two steps of a command. *)
OneInside == \A s \in SPUs : spc[s] \in {"get", "put"} <=> lock = s

(* What a call of a PPU thread relies on. *)
CallOk ==
    \A t \in PPUs :
        /\ pc[t] \notin {"idle", "critical"} => op[t] # "none"
        /\ op[t] = "stwcx" => raw[t].count < MaxCount

(* A copy that may be committed is the line, at the latest under the lock. *)
CopyFresh ==
    \A s \in SPUs :
        /\ spc[s] \in {"get", "put"} => ls[s] = line
        /\ spc[s] = "have" /\ resv[s] # None => ls[s] = resv[s]
        /\ spc[s] = "put" => ls[s].count < MaxCount

(* An SPU that looked at the line has a standing reservation or the event; a
   write it missed is in the event or will be found by its next GETLLAR. *)
EventKept ==
    \A s \in SPUs :
        /\ spc[s] \in {"have", "put", "parked"} =>
              lr[s] \/ (resv[s] # None /\ gen[s] = "current")
        /\ missed[s] => lr[s] \/ gen[s] = "old"

Held == AllLock /\ OneInside /\ CallOk

IInv == TypeOK /\ Held /\ ReservationFresh /\ CopyFresh /\ EventKept /\ NoLostCount

-----------------------------------------------------------------------------
(* The operators on lines *)

LEMMA Wraps == ASSUME NEW n \in Ticket PROVE (n + 1) % Width \in Ticket
  BY LineSizesAssumption DEF Ticket

LEMMA FreshLine == Fresh \in Lines
  BY LineSizesAssumption DEF Fresh, Lines, Ticket

LEMMA WordType ==
  ASSUME NEW o \in Ops, NEW v \in Lines, NEW w \in Lines
  PROVE  WithWord(o, v, w) \in Lines /\ WordOf(o, v) \in Lines
  BY FreshLine DEF WithWord, WordOf, Lines

LEMMA DesiredType ==
  ASSUME NEW o \in Ops \ {"none"}, NEW w \in Lines, o = "stwcx" => w.count < MaxCount
  PROVE  Desired(o, w) \in Lines
<1>1. w.count \in 0 .. MaxCount /\ MaxCount \in Nat
  BY LineSizesAssumption DEF Lines
<1>2. (w.next + 1) % Width \in Ticket /\ (w.serving + 1) % Width \in Ticket
  BY Wraps DEF Lines
<1>3. CASE o \in {"lock", "try"}
  BY <1>2, <1>3 DEF Desired, Lines
<1>4. CASE o = "unlock"
  BY <1>2, <1>4 DEF Desired, Lines
<1>5. CASE o = "stwcx"
  <2>1. w.count + 1 \in 0 .. MaxCount
    BY <1>1, <1>5
  <2> QED BY <2>1, <1>5 DEF Desired, Lines
<1> QED BY <1>3, <1>4, <1>5 DEF Ops

LEMMA InitIInv == Marked = TRUE /\ Init => IInv
<1> SUFFICES ASSUME Marked = TRUE, Init PROVE IInv
  OBVIOUS
<1>1. TypeOK
  BY FreshLine DEF Init, TypeOK, Ops, Pcs, SPcs, Gens
<1>2. Held
  BY NoneAssumption DEF Init, Held, AllLock, OneInside, CallOk
<1>3. ReservationFresh /\ CopyFresh /\ EventKept /\ NoLostCount
  BY DEF Init, ReservationFresh, CopyFresh, EventKept, NoLostCount, Fresh
<1> QED BY <1>1, <1>2, <1>3 DEF IInv

-----------------------------------------------------------------------------
(* A step of an SPU that leaves the line alone, and moves only its own state:
   who is inside the lock, and what the copies are worth, must be shown. *)

LEMMA GetllarStep == ASSUME IInv, NEW s \in SPUs, Getllar(s) PROVE IInv'
<1> USE DEF IInv, Held
<1>1. /\ spc[s] \in {"idle", "have"} /\ lock = None /\ lock' = s /\ reserved' = TRUE
      /\ ls' = [ls EXCEPT ![s] = line] /\ spc' = [spc EXCEPT ![s] = "get"]
      /\ UNCHANGED <<line, resv, gen, lr, raw, op, pc, counted, missed>>
  BY DEF Getllar, SpuGoto, ppuVars, history
<1>2. TypeOK'
  BY <1>1 DEF TypeOK, SPcs
<1>3. Held'
  BY <1>1, NoneAssumption DEF AllLock, OneInside, CallOk, TypeOK
<1>4. ReservationFresh'
  BY <1>1, NoneAssumption DEF ReservationFresh
<1>5. CopyFresh'
  BY <1>1 DEF CopyFresh, OneInside, TypeOK
<1>6. EventKept'
  BY <1>1 DEF EventKept, TypeOK
<1>7. NoLostCount'
  BY <1>1 DEF NoLostCount
<1> QED BY <1>2, <1>3, <1>4, <1>5, <1>6, <1>7

LEMMA GetllarEndsStep == ASSUME IInv, NEW s \in SPUs, GetllarEnds(s) PROVE IInv'
<1> USE DEF IInv, Held
<1>1. /\ spc[s] = "get" /\ resv' = [resv EXCEPT ![s] = line]
      /\ lr' = [lr EXCEPT ![s] = lr[s] \/ gen[s] = "old"]
      /\ gen' = [gen EXCEPT ![s] = "current"] /\ lock' = None
      /\ spc' = [spc EXCEPT ![s] = "have"]
      /\ UNCHANGED <<line, reserved, ls, raw, op, pc, counted, missed>>
  BY DEF GetllarEnds, LrRederived, SpuGoto, ppuVars, history
<1>2. lock = s
  BY <1>1 DEF OneInside
<1>3. TypeOK'
  BY <1>1 DEF TypeOK, SPcs, Gens
<1>4. Held'
  BY <1>1, <1>2, NoneAssumption DEF AllLock, OneInside, CallOk, TypeOK
<1>5. ReservationFresh'
  BY <1>1, <1>2, NoneAssumption DEF ReservationFresh, TypeOK
<1>6. CopyFresh'
  BY <1>1 DEF CopyFresh, TypeOK
<1>7. EventKept'
  <2> SUFFICES ASSUME NEW r \in SPUs
               PROVE /\ spc'[r] \in {"have", "put", "parked"} =>
                           lr'[r] \/ (resv'[r] # None /\ gen'[r] = "current")
                     /\ missed'[r] => lr'[r] \/ gen'[r] = "old"
    BY DEF EventKept
  <2>1. CASE r # s
    BY <1>1, <2>1 DEF EventKept, TypeOK
  <2>2. CASE r = s
    BY <1>1, <2>2, NoneAssumption DEF EventKept, TypeOK
  <2> QED BY <2>1, <2>2
<1>8. NoLostCount'
  BY <1>1 DEF NoLostCount
<1> QED BY <1>3, <1>4, <1>5, <1>6, <1>7, <1>8

LEMMA GetllarCachedStep == ASSUME IInv, NEW s \in SPUs, GetllarCached(s) PROVE IInv'
<1> USE DEF IInv, Held
<1>1. /\ spc[s] \in {"idle", "have"} /\ resv[s] # None /\ gen[s] = "current"
      /\ ls' = [ls EXCEPT ![s] = resv[s]] /\ spc' = [spc EXCEPT ![s] = "have"]
      /\ UNCHANGED <<line, lock, reserved, resv, gen, lr, raw, op, pc, counted, missed>>
  BY DEF GetllarCached, SpuGoto, ppuVars, history
<1>2. TypeOK'
  BY <1>1 DEF TypeOK, SPcs
<1>3. Held'
  BY <1>1, NoneAssumption DEF AllLock, OneInside, CallOk, TypeOK
<1>4. ReservationFresh' /\ NoLostCount'
  BY <1>1 DEF ReservationFresh, NoLostCount
<1>5. CopyFresh'
  BY <1>1 DEF CopyFresh, TypeOK
<1>6. EventKept'
  BY <1>1 DEF EventKept, TypeOK
<1> QED BY <1>2, <1>3, <1>4, <1>5, <1>6

LEMMA PutllcStep == ASSUME IInv, NEW s \in SPUs, Putllc(s) PROVE IInv'
<1> USE DEF IInv, Held
<1>1. /\ spc[s] = "have" /\ ls[s].count < MaxCount /\ lock = None
      /\ UNCHANGED <<line, reserved, gen, lr, raw, op, pc, counted, missed>>
  BY DEF Putllc, ppuVars, history
<1>2. CASE MayCommit(s)
  <2>1. /\ resv[s] # None /\ resv[s] = line /\ lock' = s
        /\ spc' = [spc EXCEPT ![s] = "put"] /\ UNCHANGED <<resv, ls>>
    BY <1>2 DEF Putllc, MayCommit, SpuGoto
  <2>2. TypeOK'
    BY <1>1, <2>1 DEF TypeOK, SPcs
  <2>3. Held'
    BY <1>1, <2>1, NoneAssumption DEF AllLock, OneInside, CallOk, TypeOK
  <2>4. ReservationFresh' /\ NoLostCount'
    BY <1>1, <2>1, NoneAssumption DEF ReservationFresh, NoLostCount
  <2>5. CopyFresh'
    BY <1>1, <2>1 DEF CopyFresh, TypeOK
  <2>6. EventKept'
    BY <1>1, <2>1 DEF EventKept, TypeOK
  <2> QED BY <2>2, <2>3, <2>4, <2>5, <2>6
<1>3. CASE ~MayCommit(s)
  <2>1. /\ resv' = [resv EXCEPT ![s] = None] /\ lock' = lock
        /\ ls' = [ls EXCEPT ![s] = Fresh] /\ spc' = [spc EXCEPT ![s] = "idle"]
    BY <1>3 DEF Putllc, Forget, SpuGoto
  <2>2. TypeOK'
    BY <1>1, <2>1, FreshLine DEF TypeOK, SPcs
  <2>3. Held'
    BY <1>1, <2>1, NoneAssumption DEF AllLock, OneInside, CallOk, TypeOK
  <2>4. ReservationFresh' /\ NoLostCount'
    BY <1>1, <2>1 DEF ReservationFresh, NoLostCount, TypeOK
  <2>5. CopyFresh'
    BY <1>1, <2>1 DEF CopyFresh, TypeOK
  <2>6. EventKept'
    BY <1>1, <2>1 DEF EventKept, TypeOK
  <2> QED BY <2>2, <2>3, <2>4, <2>5, <2>6
<1> QED BY <1>2, <1>3

\* A step that takes an SPU back to its idle state, and at most drops its
\* reservation, its claim on the line, and its event with what the event stood for.
LEMMA IdleStep ==
  ASSUME IInv, NEW s \in SPUs, spc[s] \notin {"get", "put"},
         ls' = [ls EXCEPT ![s] = Fresh], spc' = [spc EXCEPT ![s] = "idle"],
         UNCHANGED <<line, lock, reserved, raw, op, pc, counted>>,
         resv' = resv \/ resv' = [resv EXCEPT ![s] = None],
         gen' = gen \/ gen' = [gen EXCEPT ![s] = "none"],
         lr' = lr \/ lr' = [lr EXCEPT ![s] = FALSE],
         \/ missed' = [missed EXCEPT ![s] = FALSE]
         \/ missed' = missed /\ gen' = gen /\ lr' = lr
  PROVE  IInv'
<1> USE DEF IInv, Held
<1>1. TypeOK'
  <2>1. resv' \in [SPUs -> Lines \cup {None}] /\ gen' \in [SPUs -> Gens]
    BY DEF TypeOK, Gens
  <2>2. lr' \in [SPUs -> BOOLEAN] /\ missed' \in [SPUs -> BOOLEAN]
    BY DEF TypeOK
  <2>3. ls' \in [SPUs -> Lines] /\ spc' \in [SPUs -> SPcs]
    BY FreshLine DEF TypeOK, SPcs
  <2> QED BY <2>1, <2>2, <2>3 DEF TypeOK
<1>2. Held'
  BY DEF AllLock, OneInside, CallOk, TypeOK
<1>3. ReservationFresh' /\ NoLostCount'
  BY DEF ReservationFresh, NoLostCount, TypeOK
<1>4. CopyFresh'
  BY DEF CopyFresh, TypeOK
<1>5. EventKept'
  <2> SUFFICES ASSUME NEW r \in SPUs
               PROVE /\ spc'[r] \in {"have", "put", "parked"} =>
                           lr'[r] \/ (resv'[r] # None /\ gen'[r] = "current")
                     /\ missed'[r] => lr'[r] \/ gen'[r] = "old"
    BY DEF EventKept
  <2>1. CASE r # s
    <3>1. /\ resv'[r] = resv[r] /\ gen'[r] = gen[r] /\ lr'[r] = lr[r]
          /\ missed'[r] = missed[r] /\ spc'[r] = spc[r]
      BY <2>1 DEF TypeOK
    <3> QED BY <3>1 DEF EventKept
  <2>2. CASE r = s
    BY <2>2 DEF EventKept, TypeOK
  <2> QED BY <2>1, <2>2
<1> QED BY <1>1, <1>2, <1>3, <1>4, <1>5

LEMMA ContextSwitchStep == ASSUME IInv, NEW s \in SPUs, ContextSwitch(s) PROVE IInv'
  BY IdleStep DEF ContextSwitch, Forget, SpuGoto, ppuVars, history

LEMMA ElsewhereStep == ASSUME IInv, NEW s \in SPUs, Elsewhere(s) PROVE IInv'
  BY IdleStep DEF Elsewhere, Forget, SpuGoto, ppuVars

LEMMA WakeStep == ASSUME IInv, NEW s \in SPUs, Wake(s) PROVE IInv'
  BY IdleStep DEF Wake, Forget, SpuGoto, ppuVars

LEMMA ParkStep == ASSUME IInv, NEW s \in SPUs, Park(s) PROVE IInv'
<1> USE DEF IInv, Held
<1>1. /\ spc[s] = "have" /\ spc' = [spc EXCEPT ![s] = "parked"]
      /\ UNCHANGED <<line, lock, reserved, resv, gen, ls, lr, raw, op, pc, counted, missed>>
  BY DEF Park, SpuGoto, ppuVars, history
<1>2. TypeOK'
  BY <1>1 DEF TypeOK, SPcs
<1>3. Held'
  BY <1>1 DEF AllLock, OneInside, CallOk, TypeOK
<1>4. ReservationFresh' /\ NoLostCount'
  BY <1>1 DEF ReservationFresh, NoLostCount
<1>5. CopyFresh'
  BY <1>1 DEF CopyFresh, TypeOK
<1>6. EventKept'
  BY <1>1 DEF EventKept, TypeOK
<1> QED BY <1>2, <1>3, <1>4, <1>5, <1>6

-----------------------------------------------------------------------------
(* A notification: no reservation is left to be stale, and whoever held one
   has the event.                                                           *)

LEMMA NotifyFacts ==
  ASSUME TypeOK, NEW b, Notify(b)
  PROVE  /\ gen' \in [SPUs -> Gens] /\ lr' \in [SPUs -> BOOLEAN]
         /\ resv' \in [SPUs -> Lines \cup {None}]
         /\ \A s \in SPUs : /\ resv'[s] = None
                            /\ gen'[s] = IF gen[s] = "none" THEN "none" ELSE "old"
                            /\ lr[s] => lr'[s]
                            /\ resv[s] # None /\ s # b => lr'[s]
<1>1. /\ gen' = [s \in SPUs |-> IF gen[s] = "none" THEN "none" ELSE "old"]
      /\ lr' = [s \in SPUs |-> lr[s] \/ (resv[s] # None /\ s # b)]
      /\ resv' = [s \in SPUs |-> None]
  BY DEF Notify, Bumped
<1>2. lr' \in [SPUs -> BOOLEAN]
  BY <1>1 DEF TypeOK
<1>3. gen' \in [SPUs -> Gens] /\ resv' \in [SPUs -> Lines \cup {None}]
  BY <1>1 DEF Gens
<1>4. \A s \in SPUs : lr'[s] = (lr[s] \/ (resv[s] # None /\ s # b))
  BY <1>1
<1>5. \A s \in SPUs : resv'[s] = None /\ gen'[s] = IF gen[s] = "none" THEN "none" ELSE "old"
  BY <1>1
<1> QED BY <1>2, <1>3, <1>4, <1>5

LEMMA WrittenFacts ==
  ASSUME TypeOK, NEW b, NEW n \in Nat, Written(b, n)
  PROVE  /\ counted' = counted + n /\ counted' \in Nat
         /\ missed' \in [SPUs -> BOOLEAN]
         /\ \A s \in SPUs : missed'[s] => missed[s] \/ gen[s] # "none"
<1>1. missed' = [s \in SPUs |-> missed[s] \/ (s # b /\ gen[s] # "none")] /\ counted' = counted + n
  BY DEF Written
<1>2. missed' \in [SPUs -> BOOLEAN]
  BY <1>1 DEF TypeOK
<1>3. \A s \in SPUs : missed'[s] = (missed[s] \/ (s # b /\ gen[s] # "none"))
  BY <1>1
<1> QED BY <1>1, <1>2, <1>3 DEF TypeOK

LEMMA PutllcCommitsStep == ASSUME IInv, NEW s \in SPUs, PutllcCommits(s) PROVE IInv'
<1> USE DEF IInv, Held
<1>1. /\ spc[s] = "put" /\ line' = [ls[s] EXCEPT !.count = ls[s].count + 1]
      /\ Written(s, 1) /\ Notify(s) /\ lock' = None
      /\ ls' = [ls EXCEPT ![s] = Fresh] /\ spc' = [spc EXCEPT ![s] = "idle"]
      /\ UNCHANGED <<reserved, raw, op, pc>>
  BY DEF PutllcCommits, Forget, SpuGoto, ppuVars
<1>2. ls[s] = line /\ ls[s].count < MaxCount /\ lock = s
  BY <1>1 DEF CopyFresh, OneInside
<1>3. line' \in Lines /\ line'.count = line.count + 1
  BY <1>1, <1>2, LineSizesAssumption DEF TypeOK, Lines
<1>4. TypeOK'
  <2>1. ls' \in [SPUs -> Lines] /\ spc' \in [SPUs -> SPcs]
    BY <1>1, FreshLine DEF TypeOK, SPcs
  <2> QED BY <1>1, <1>3, <2>1, NotifyFacts, WrittenFacts DEF TypeOK
<1>5. Held'
  BY <1>1, <1>2, NoneAssumption DEF AllLock, OneInside, CallOk, TypeOK
<1>6. ReservationFresh'
  BY <1>1, NotifyFacts DEF ReservationFresh
<1>7. NoLostCount'
  BY <1>1, <1>3, WrittenFacts DEF NoLostCount
<1>8. \A r \in SPUs : resv'[r] = None
  BY <1>1, NotifyFacts
<1>9. ASSUME NEW r \in SPUs PROVE spc'[r] \notin {"get", "put"}
  BY <1>1, <1>2 DEF OneInside, TypeOK
<1>10. CopyFresh'
  BY <1>8, <1>9 DEF CopyFresh
<1>11. EventKept'
  <2> SUFFICES ASSUME NEW r \in SPUs
               PROVE /\ spc'[r] \in {"have", "put", "parked"} => lr'[r]
                     /\ missed'[r] => lr'[r] \/ gen'[r] = "old"
    BY DEF EventKept
  <2>1. missed'[r] => lr'[r] \/ gen'[r] = "old"
    BY <1>1, NotifyFacts, WrittenFacts DEF EventKept
  <2>2. CASE r # s
    <3>1. spc'[r] = spc[r]
      BY <1>1, <2>2 DEF TypeOK
    <3> QED BY <1>1, <2>1, <2>2, <3>1, NotifyFacts DEF EventKept
  <2>3. CASE r = s
    BY <1>1, <2>1, <2>3 DEF TypeOK
  <2> QED BY <2>2, <2>3
<1> QED BY <1>4, <1>5, <1>6, <1>7, <1>10, <1>11

-----------------------------------------------------------------------------
(* PPU *)

\* A step of a PPU thread that moves its own call and nothing else.
LEMMA PpuStep ==
  ASSUME IInv, UNCHANGED <<line, lock, reserved, spuVars, history>>,
         raw' \in [PPUs -> Lines], op' \in [PPUs -> Ops], pc' \in [PPUs -> Pcs],
         \A t \in PPUs : pc'[t] # "bare", CallOk'
  PROVE  IInv'
<1> USE DEF IInv, Held
<1>1. UNCHANGED <<line, lock, reserved, resv, gen, ls, lr, spc, counted, missed>>
  BY DEF spuVars, history
<1>2. TypeOK'
  BY <1>1 DEF TypeOK
<1>3. Held'
  BY <1>1 DEF AllLock, OneInside
<1>4. ReservationFresh' /\ CopyFresh' /\ EventKept' /\ NoLostCount'
  BY <1>1 DEF ReservationFresh, CopyFresh, EventKept, NoLostCount
<1> QED BY <1>2, <1>3, <1>4

\* Where PpuGoto leaves a call: the word and the operation stay until its end.
LEMMA PpuGotoFacts ==
  ASSUME IInv, NEW t \in PPUs, NEW n \in Pcs \ {"bare"}, PpuGoto(t, n),
         n \notin {"idle", "critical"} => op[t] # "none"
  PROVE  /\ raw' \in [PPUs -> Lines] /\ op' \in [PPUs -> Ops] /\ pc' \in [PPUs -> Pcs]
         /\ \A u \in PPUs : pc'[u] # "bare"
         /\ CallOk'
<1> USE DEF IInv, Held
<1>1. /\ pc' = [pc EXCEPT ![t] = n]
      /\ raw' = [raw EXCEPT ![t] = IF n \in {"idle", "critical"} THEN Fresh ELSE raw[t]]
      /\ op' = [op EXCEPT ![t] = IF n \in {"idle", "critical"} THEN "none" ELSE op[t]]
  BY DEF PpuGoto
<1>2. raw' \in [PPUs -> Lines] /\ op' \in [PPUs -> Ops] /\ pc' \in [PPUs -> Pcs]
  BY <1>1, FreshLine DEF TypeOK, Ops
<1>3. \A u \in PPUs : pc'[u] # "bare"
  BY <1>1 DEF AllLock, TypeOK
<1>4. CallOk'
  <2> SUFFICES ASSUME NEW u \in PPUs
               PROVE /\ pc'[u] \notin {"idle", "critical"} => op'[u] # "none"
                     /\ op'[u] = "stwcx" => raw'[u].count < MaxCount
    BY DEF CallOk
  <2>1. CASE u # t
    BY <1>1, <2>1 DEF CallOk, TypeOK
  <2>2. CASE u = t
    BY <1>1, <2>2 DEF CallOk, TypeOK
  <2> QED BY <2>1, <2>2
<1> QED BY <1>2, <1>3, <1>4

LEMMA LookFacts ==
  ASSUME IInv, NEW t \in PPUs, NEW o \in Ops \ {"none"}, Look(t, o)
  PROVE  /\ raw' \in [PPUs -> Lines] /\ op' \in [PPUs -> Ops] /\ pc' \in [PPUs -> Pcs]
         /\ \A u \in PPUs : pc'[u] # "bare"
         /\ CallOk'
<1> USE DEF IInv, Held
<1> DEFINE go == Proceeds(o, line)
           word == WordOf(o, line)
<1>1. /\ pc' = [pc EXCEPT ![t] = IF go THEN "check" ELSE "idle"]
      /\ raw' = [raw EXCEPT ![t] = IF go THEN word ELSE Fresh]
      /\ op' = [op EXCEPT ![t] = IF go THEN o ELSE "none"]
  BY DEF Look
<1>2. word \in Lines
  BY WordType DEF TypeOK
<1>3. go /\ o = "stwcx" => word.count < MaxCount
  BY DEF Proceeds, WordOf, WithWord, Fresh
<1> HIDE DEF go, word
<1>4. raw' \in [PPUs -> Lines] /\ op' \in [PPUs -> Ops] /\ pc' \in [PPUs -> Pcs]
  BY <1>1, <1>2, FreshLine DEF TypeOK, Ops, Pcs
<1>5. \A u \in PPUs : pc'[u] # "bare"
  BY <1>1 DEF AllLock, TypeOK
<1>6. CallOk'
  <2> SUFFICES ASSUME NEW u \in PPUs
               PROVE /\ pc'[u] \notin {"idle", "critical"} => op'[u] # "none"
                     /\ op'[u] = "stwcx" => raw'[u].count < MaxCount
    BY DEF CallOk
  <2>1. CASE u # t
    BY <1>1, <2>1 DEF CallOk, TypeOK
  <2>2. CASE u = t
    BY <1>1, <1>3, <2>2 DEF CallOk, TypeOK
  <2> QED BY <2>1, <2>2
<1> QED BY <1>4, <1>5, <1>6

LEMMA BeginStep ==
  ASSUME IInv, NEW t \in PPUs, NEW o \in Ops \ {"none"}, Begin(t, o) PROVE IInv'
  BY LookFacts, PpuStep DEF Begin

LEMMA CheckReservedStep == ASSUME IInv, NEW t \in PPUs, CheckReserved(t) PROVE IInv'
<1>1. PpuGoto(t, "locked") /\ op[t] # "none"
  BY DEF CheckReserved, TakesLock, IInv, Held, AllLock, CallOk
<1> QED BY <1>1, PpuGotoFacts, PpuStep DEF CheckReserved, Pcs

LEMMA ServedStep == ASSUME IInv, NEW t \in PPUs, Served(t) PROVE IInv'
  BY PpuGotoFacts, PpuStep DEF Served, Pcs

LEMMA CasFailsStep == ASSUME IInv, NEW t \in PPUs, CasFails(t) PROVE IInv'
<1>1. pc[t] = "locked" /\ op[t] \in Ops \ {"none"}
  BY DEF CasFails, AtCas, IInv, Held, AllLock, CallOk, TypeOK
<1>2. CASE op[t] = "stwcx"
  BY <1>2, PpuGotoFacts, PpuStep DEF CasFails, Pcs
<1>3. CASE op[t] # "stwcx"
  BY <1>1, <1>3, LookFacts, PpuStep DEF CasFails
<1> QED BY <1>2, <1>3

\* A notification by a PPU thread, whether or not it wrote the line, keeps what
\* waiting SPUs rely on.
LEMMA NotifyKeeps ==
  ASSUME IInv, Notify(None), spc' = spc,
         \A s \in SPUs : missed'[s] => missed[s] \/ gen[s] # "none"
  PROVE  ReservationFresh' /\ EventKept'
<1>1. TypeOK /\ EventKept
  BY DEF IInv
<1>2. ReservationFresh'
  BY <1>1, NotifyFacts DEF ReservationFresh
<1>3. EventKept'
  <2> SUFFICES ASSUME NEW s \in SPUs
               PROVE /\ spc'[s] \in {"have", "put", "parked"} => lr'[s]
                     /\ missed'[s] => lr'[s] \/ gen'[s] = "old"
    BY DEF EventKept
  <2>1. s # None
    BY NoneAssumption
  <2>2. /\ gen'[s] = IF gen[s] = "none" THEN "none" ELSE "old"
        /\ lr[s] => lr'[s]
        /\ resv[s] # None => lr'[s]
    BY <1>1, <2>1, NotifyFacts
  <2> QED BY <1>1, <2>2 DEF EventKept
<1> QED BY <1>2, <1>3

LEMMA MutexNotifyStep == ASSUME IInv, NEW t \in PPUs, MutexNotify(t) PROVE IInv'
<1> USE DEF IInv, Held
<1>1. /\ Notify(None) /\ PpuGoto(t, Done(op[t])) /\ op[t] # "none"
      /\ UNCHANGED <<line, lock, reserved, ls, spc, counted, missed>>
  BY DEF MutexNotify, AllLock, CallOk, history
<1>2. /\ raw' \in [PPUs -> Lines] /\ op' \in [PPUs -> Ops] /\ pc' \in [PPUs -> Pcs]
      /\ \A u \in PPUs : pc'[u] # "bare"
      /\ CallOk'
  <2>1. Done(op[t]) \in Pcs \ {"bare"}
    BY DEF Done, Pcs
  <2> HIDE DEF IInv
  <2> QED BY <1>1, <2>1, PpuGotoFacts
<1>3. TypeOK'
  BY <1>1, <1>2, NotifyFacts DEF TypeOK
<1>4. Held'
  BY <1>1, <1>2 DEF AllLock, OneInside
<1>5. ReservationFresh' /\ EventKept'
  BY <1>1, NotifyKeeps
<1>6. CopyFresh'
  BY <1>1, NotifyFacts DEF CopyFresh
<1>7. NoLostCount'
  BY <1>1 DEF NoLostCount
<1> QED BY <1>3, <1>4, <1>5, <1>6, <1>7

LEMMA CasCommitsStep == ASSUME IInv, NEW t \in PPUs, CasCommits(t) PROVE IInv'
<1> USE DEF IInv, Held
<1> DEFINE done == IF op[t] = "stwcx" THEN 1 ELSE 0
           next == IF NotifiesLater(t) THEN "notify" ELSE Done(op[t])
<1>1. pc[t] = "locked" /\ lock = None /\ op[t] \in Ops \ {"none"}
  BY DEF CasCommits, AtCas, AllLock, CallOk, TypeOK
<1>2. /\ WordOf(op[t], line) = raw[t]
      /\ line' = WithWord(op[t], line, Desired(op[t], raw[t]))
      /\ Written(None, done) /\ Notify(None) /\ PpuGoto(t, next)
      /\ UNCHANGED <<lock, reserved, ls, spc>>
  BY <1>1 DEF CasCommits
<1>3. line' \in Lines
  <2>1. raw[t] \in Lines /\ line \in Lines /\ (op[t] = "stwcx" => raw[t].count < MaxCount)
    BY DEF TypeOK, CallOk
  <2>2. Desired(op[t], raw[t]) \in Lines
    BY <1>1, <2>1, DesiredType
  <2> QED BY <1>1, <1>2, <2>1, <2>2, WordType
<1>4. line'.count = line.count + done
  <2>1. line.count \in Nat
    BY LineSizesAssumption DEF TypeOK, Lines
  <2>2. CASE op[t] = "stwcx"
    <3>1. raw[t].count = line.count
      BY <1>2, <2>2 DEF WordOf, WithWord, Fresh
    <3>2. Desired(op[t], raw[t]).count = raw[t].count + 1
      BY <2>2 DEF Desired, TypeOK, Lines
    <3>3. line'.count = Desired(op[t], raw[t]).count
      BY <1>2, <2>2 DEF WithWord, TypeOK, Lines
    <3> QED BY <2>2, <3>1, <3>2, <3>3
  <2>3. CASE op[t] # "stwcx"
    <3>1. line'.count = line.count
      BY <1>2, <2>3 DEF WithWord, TypeOK, Lines
    <3> QED BY <2>1, <2>3, <3>1
  <2> QED BY <2>2, <2>3
<1>5. /\ raw' \in [PPUs -> Lines] /\ op' \in [PPUs -> Ops] /\ pc' \in [PPUs -> Pcs]
      /\ \A u \in PPUs : pc'[u] # "bare"
      /\ CallOk'
  <2>1. next \in Pcs \ {"bare"}
    BY DEF Done, Pcs
  <2> HIDE DEF IInv, next
  <2> QED BY <1>1, <1>2, <2>1, PpuGotoFacts
<1>6. done \in Nat
  OBVIOUS
<1> HIDE DEF done, next
<1>7. TypeOK'
  BY <1>2, <1>3, <1>5, <1>6, NotifyFacts, WrittenFacts DEF TypeOK
<1>8. Held'
  BY <1>2, <1>5 DEF AllLock, OneInside
<1>9. ReservationFresh' /\ EventKept'
  BY <1>2, <1>6, WrittenFacts, NotifyKeeps
<1>10. CopyFresh'
  <2>1. \A s \in SPUs : spc'[s] \notin {"get", "put"} /\ resv'[s] = None
    BY <1>1, <1>2, NotifyFacts, NoneAssumption DEF OneInside
  <2> QED BY <2>1 DEF CopyFresh
<1>11. NoLostCount'
  BY <1>2, <1>4, <1>6, WrittenFacts DEF NoLostCount
<1> QED BY <1>7, <1>8, <1>9, <1>10, <1>11

-----------------------------------------------------------------------------

LEMMA NextIInv == IInv /\ [Next]_vars => IInv'
<1> SUFFICES ASSUME IInv, [Next]_vars PROVE IInv'
  OBVIOUS
<1>1. CASE UNCHANGED vars
  <2>1. \A t \in PPUs : pc'[t] # "bare"
    BY <1>1 DEF vars, IInv, Held, AllLock
  <2>2. CallOk'
    BY <1>1 DEF vars, IInv, Held, CallOk
  <2>3. raw' \in [PPUs -> Lines] /\ op' \in [PPUs -> Ops] /\ pc' \in [PPUs -> Pcs]
    BY <1>1 DEF vars, IInv, TypeOK
  <2> QED BY <1>1, <2>1, <2>2, <2>3, PpuStep DEF vars, spuVars, history
<1>2. ASSUME NEW s \in SPUs,
             \/ Getllar(s) \/ GetllarCached(s) \/ Putllc(s) \/ ContextSwitch(s)
             \/ Elsewhere(s) \/ Park(s) \/ SpuRuns(s)
      PROVE  IInv'
  BY <1>2, GetllarStep, GetllarCachedStep, PutllcStep, ContextSwitchStep, ElsewhereStep,
     ParkStep, GetllarEndsStep, PutllcCommitsStep, WakeStep DEF SpuRuns
<1>3. ASSUME NEW t \in PPUs,
             \/ \E o \in Ops \ {"none"} : Begin(t, o)
             \/ CasCommits(t) \/ CasFails(t) \/ PpuRuns(t)
      PROVE  IInv'
  BY <1>3, BeginStep, CasCommitsStep, CasFailsStep, CheckReservedStep, MutexNotifyStep,
     ServedStep DEF PpuRuns
<1> QED BY <1>1, <1>2, <1>3 DEF Next

(* The invariant, of any run over a line that was reserved before.          *)
THEOREM Invariance == Marked = TRUE => (Spec => []IInv)
<1> SUFFICES ASSUME Marked = TRUE PROVE Spec => []IInv
  OBVIOUS
<1>1. Init => IInv
  BY InitIInv
<1> QED BY <1>1, NextIInv, PTL DEF Spec

(* Every variable keeps its type, whatever the numbers of threads, SPUs and
   tickets: in particular the ticket halves stay within 16 bits.             *)
THEOREM Typing == Marked = TRUE => (Spec => []TypeOK)
<1> SUFFICES ASSUME Marked = TRUE PROVE Spec => []TypeOK
  OBVIOUS
<1>1. IInv => TypeOK
  BY DEF IInv
<1> QED BY <1>1, Invariance, PTL

(* No increment that stwcx. or PUTLLC reported is missing from the counter:
   PUTLLC's compare under the lock-line lock and stwcx.'s exchange under it
   (spu_dma.h, shims.cpp) never overwrite one another.                      *)
THEOREM CountIsKept == Marked = TRUE => (Spec => []NoLostCount)
<1> SUFFICES ASSUME Marked = TRUE PROVE Spec => []NoLostCount
  OBVIOUS
<1>1. IInv => NoLostCount
  BY DEF IInv
<1> QED BY <1>1, Invariance, PTL

(* The copy that GETLLAR's lock-free path serves is the line in memory.     *)
THEOREM CachedCopyIsTheLine == Marked = TRUE => (Spec => []ReservationFresh)
<1> SUFFICES ASSUME Marked = TRUE PROVE Spec => []ReservationFresh
  OBVIOUS
<1>1. IInv => ReservationFresh
  BY DEF IInv
<1> QED BY <1>1, Invariance, PTL

(* An SPU parked on its event channel has the event of every write by others
   since the last one it acknowledged.                                      *)
THEOREM EventIsKept == Marked = TRUE => (Spec => []NoLostEvent)
<1> SUFFICES ASSUME Marked = TRUE PROVE Spec => []NoLostEvent
  OBVIOUS
<1>1. IInv => NoLostEvent
  BY DEF IInv, EventKept, NoLostEvent
<1> QED BY <1>1, Invariance, PTL

(* What TicketsAdvance asks of a step. *)
TicketStep ==
    \/ line'.serving = line.serving /\ line'.next = line.next
    \/ line'.serving = line.serving /\ line'.next = (line.next + 1) % Width
    \/ line'.next = line.next /\ line'.serving = (line.serving + 1) % Width

LEMMA CasTickets == ASSUME IInv, NEW t \in PPUs, CasCommits(t) PROVE TicketStep
<1> DEFINE w == raw[t]
           d == Desired(op[t], w)
<1>1. op[t] \in Ops \ {"none"} /\ w \in Lines /\ line \in Lines
  BY DEF CasCommits, AtCas, IInv, Held, AllLock, CallOk, TypeOK
<1>2. WordOf(op[t], line) = w /\ line' = WithWord(op[t], line, d)
  BY DEF CasCommits
<1>3. CASE op[t] = "stwcx"
  BY <1>1, <1>2, <1>3 DEF WithWord, TicketStep, Lines
<1>4. CASE op[t] # "stwcx"
  <2>1. w.serving = line.serving /\ w.next = line.next
    BY <1>2, <1>4 DEF WordOf, WithWord, Fresh
  <2>2. \/ d.serving = w.serving /\ d.next = (w.next + 1) % Width
        \/ d.next = w.next /\ d.serving = (w.serving + 1) % Width
    <3>1. CASE op[t] \in {"lock", "try"}
      BY <1>1, <3>1 DEF Desired, Lines
    <3>2. CASE op[t] = "unlock"
      BY <1>1, <3>2 DEF Desired, Lines
    <3> QED BY <1>1, <1>4, <3>1, <3>2 DEF Ops
  <2> HIDE DEF d
  <2>3. line'.serving = d.serving /\ line'.next = d.next
    BY <1>1, <1>2, <1>4 DEF WithWord, Lines
  <2> QED BY <2>1, <2>2, <2>3 DEF TicketStep
<1> QED BY <1>3, <1>4

LEMMA PutllcTickets == ASSUME IInv, NEW s \in SPUs, PutllcCommits(s) PROVE TicketStep
<1>1. line' = [ls[s] EXCEPT !.count = ls[s].count + 1] /\ ls[s] = line /\ line \in Lines
  BY DEF PutllcCommits, IInv, CopyFresh, TypeOK
<1> QED BY <1>1 DEF TicketStep, Lines

(* Every step of a thread or an SPU moves the ticket word by one ticket at
   most: neither side writes back a ticket word that others have moved on.  *)
THEOREM TicketsAreKept == Marked = TRUE => (Spec => TicketsAdvance)
<1> SUFFICES ASSUME Marked = TRUE PROVE Spec => TicketsAdvance
  OBVIOUS
<1>1. ASSUME IInv, [Next]_vars PROVE [TicketStep]_vars
  <2>1. CASE line' = line
    BY <2>1 DEF TicketStep
  <2>2. CASE line' # line
    <3>1. \/ \E s \in SPUs : PutllcCommits(s)
          \/ \E t \in PPUs : CasCommits(t)
      BY <1>1, <2>2 DEF Next, SpuRuns, PpuRuns, vars, Getllar, GetllarCached, Putllc,
         ContextSwitch, Elsewhere, Park, GetllarEnds, Wake, Begin, CasFails, CheckReserved,
         MutexNotify, Served
    <3> QED BY <1>1, <3>1, CasTickets, PutllcTickets
  <2> QED BY <2>1, <2>2
<1>2. TicketsAdvance <=> [][TicketStep]_vars
  BY DEF TicketsAdvance, TicketStep
<1> QED BY <1>1, <1>2, Invariance, PTL DEF Spec

-----------------------------------------------------------------------------
(* The mutex.  The tickets between serving and next, modulo 2^16, are out; the
   first belongs to the holder and each other one to a thread of its own. *)

Succ(n) == IF n + 1 = Width THEN 0 ELSE n + 1

\* How many tickets lie between a and b.
Dist(a, b) == IF b >= a THEN b - a ELSE b - a + Width

LEMMA SuccIsStep == ASSUME NEW n \in Ticket PROVE (n + 1) % Width = Succ(n) /\ Succ(n) \in Ticket
  BY LineSizesAssumption DEF Ticket, Succ

LEMMA DistIsOut ==
  ASSUME NEW a \in Ticket, NEW b \in Ticket
  PROVE  (b - a) % Width = Dist(a, b) /\ Dist(a, b) \in Ticket
  BY LineSizesAssumption DEF Ticket, Dist

\* Giving a ticket out, and serving the next one.
LEMMA DistGrows ==
  ASSUME NEW a \in Ticket, NEW b \in Ticket, Dist(a, b) # Width - 1
  PROVE  Dist(a, Succ(b)) = Dist(a, b) + 1
  BY LineSizesAssumption DEF Ticket, Dist, Succ

LEMMA DistShrinks ==
  ASSUME NEW a \in Ticket, NEW b \in Ticket, a # b
  PROVE  Dist(Succ(a), b) = Dist(a, b) - 1
  BY LineSizesAssumption DEF Ticket, Dist, Succ

\* Threads that have drawn a ticket and wait for it.
Queued == {t \in PPUs : pc[t] = "spin" \/ (pc[t] = "notify" /\ op[t] = "lock")}

\* What the exchange of a call relies on, since it was read from the same word.
Armed ==
    \A t \in PPUs : pc[t] \in {"check", "locked"} =>
        /\ op[t] = "lock" => Dist(raw[t].serving, raw[t].next) # Width - 1
        /\ op[t] = "try" => raw[t].serving = raw[t].next

InLine == \A t \in Queued : Dist(line.serving, raw[t].next) < Dist(line.serving, line.next)
Apart  == \A t, u \in Queued : t # u => raw[t].next # raw[u].next
OneHolder == \A t, u \in Holders : t = u
HolderIsFirst == \A t \in Holders : /\ line.serving # line.next
                                    /\ \A u \in Queued : raw[u].next # line.serving

XInv == IInv /\ Armed /\ InLine /\ Apart /\ OneHolder /\ HolderIsFirst

\* The ticket word and the threads with tickets do not change, or some leave.
LEMMA TicketsRest ==
  ASSUME XInv, IInv', Armed', line'.serving = line.serving, line'.next = line.next,
         Queued' \subseteq Queued, \A t \in Queued' : raw'[t] = raw[t], Holders' \subseteq Holders
  PROVE  XInv'
<1>1. InLine' /\ Apart'
  BY DEF XInv, InLine, Apart
<1>2. OneHolder' /\ HolderIsFirst'
  BY DEF XInv, OneHolder, HolderIsFirst
<1> QED BY <1>1, <1>2 DEF XInv

LEMMA SpuKeepsTickets ==
  ASSUME XInv, IInv', line'.serving = line.serving, line'.next = line.next, UNCHANGED <<raw, op, pc>>
  PROVE  XInv'
<1>1. Queued' = Queued /\ Holders' = Holders
  BY DEF Queued, Holders
<1>2. Armed'
  BY DEF XInv, Armed
<1> QED BY <1>1, <1>2, TicketsRest

\* The step moves one call and no ticket.
LEMMA CallMoves ==
  ASSUME XInv, IInv', NEW t \in PPUs, NEW n \in Pcs \ {"spin"}, NEW o \in Ops,
         line'.serving = line.serving, line'.next = line.next,
         pc' = [pc EXCEPT ![t] = n], op' = [op EXCEPT ![t] = o],
         \A u \in PPUs \ {t} : raw'[u] = raw[u],
         ~(n = "notify"), n \in {"check", "locked"} =>
            /\ o = "lock" => Dist(raw'[t].serving, raw'[t].next) # Width - 1
            /\ o = "try" => raw'[t].serving = raw'[t].next,
         (n = "critical" \/ o = "unlock") => t \in Holders
  PROVE  XInv'
<1>1. TypeOK
  BY DEF XInv, IInv
<1>2. \A u \in PPUs \ {t} : pc'[u] = pc[u] /\ op'[u] = op[u] /\ raw'[u] = raw[u]
  BY <1>1 DEF TypeOK
<1>3. pc'[t] = n /\ op'[t] = o
  BY <1>1 DEF TypeOK
<1>4. Queued' \subseteq Queued /\ t \notin Queued'
  BY <1>2, <1>3 DEF Queued
<1>5. Holders' \subseteq Holders
  BY <1>2, <1>3 DEF Holders
<1>6. Armed'
  BY <1>2, <1>3 DEF XInv, Armed
<1> QED BY <1>2, <1>4, <1>5, <1>6, TicketsRest DEF Queued

\* A call that looks at the word goes on with what Proceeds tested.
LEMMA LookKeeps ==
  ASSUME XInv, IInv', NEW t \in PPUs, NEW o \in Ops \ {"none"}, Look(t, o), line' = line,
         o = "unlock" => t \in Holders
  PROVE  XInv'
<1> DEFINE w == WordOf(o, line)
<1>1. TypeOK /\ line \in Lines
  BY DEF XInv, IInv, TypeOK
<1>2. /\ pc' = [pc EXCEPT ![t] = IF Proceeds(o, line) THEN "check" ELSE "idle"]
      /\ op' = [op EXCEPT ![t] = IF Proceeds(o, line) THEN o ELSE "none"]
      /\ raw' = [raw EXCEPT ![t] = IF Proceeds(o, line) THEN w ELSE Fresh]
  BY DEF Look
<1>3. o # "stwcx" => w.serving = line.serving /\ w.next = line.next
  BY DEF WordOf, WithWord, Fresh
<1>4. o = "lock" /\ Proceeds(o, line) => Dist(line.serving, line.next) # Width - 1
  BY <1>1, DistIsOut DEF Proceeds, Busy, Lines
<1>5. o = "try" /\ Proceeds(o, line) => line.serving = line.next
  BY DEF Proceeds
<1>6. \A u \in PPUs \ {t} : raw'[u] = raw[u]
  BY <1>1, <1>2 DEF TypeOK
<1> HIDE DEF w
<1>7. CASE Proceeds(o, line)
  <2>1. raw'[t] = w
    BY <1>1, <1>2, <1>7 DEF TypeOK
  <2>2. pc' = [pc EXCEPT ![t] = "check"] /\ op' = [op EXCEPT ![t] = o]
    BY <1>2, <1>7
  <2>3. /\ o = "lock" => Dist(raw'[t].serving, raw'[t].next) # Width - 1
        /\ o = "try" => raw'[t].serving = raw'[t].next
    BY <1>3, <1>4, <1>5, <1>7, <2>1
  <2>4. "check" \in Pcs \ {"spin"}
    BY DEF Pcs
  <2> QED BY <1>6, <2>2, <2>3, <2>4, CallMoves
<1>8. CASE ~Proceeds(o, line)
  <2>1. pc' = [pc EXCEPT ![t] = "idle"] /\ op' = [op EXCEPT ![t] = "none"]
    BY <1>2, <1>8
  <2>2. "idle" \in Pcs \ {"spin"} /\ "none" \in Ops
    BY DEF Pcs, Ops
  <2> QED BY <1>6, <2>1, <2>2, CallMoves
<1> QED BY <1>7, <1>8

LEMMA BeginKeeps ==
  ASSUME XInv, IInv', NEW t \in PPUs, NEW o \in Ops \ {"none"}, Begin(t, o) PROVE XInv'
<1>1. o = "unlock" => t \in Holders
  BY DEF Begin, Holders
<1> QED BY <1>1, LookKeeps DEF Begin

LEMMA CheckKeeps == ASSUME XInv, IInv', NEW t \in PPUs, CheckReserved(t) PROVE XInv'
<1>1. TypeOK /\ pc[t] = "check" /\ line' = line
      /\ pc' = [pc EXCEPT ![t] = "locked"] /\ op' = [op EXCEPT ![t] = op[t]]
      /\ raw' = [raw EXCEPT ![t] = raw[t]]
  BY DEF CheckReserved, TakesLock, PpuGoto, XInv, IInv, Held, AllLock
<1>2. \A u \in PPUs : raw'[u] = raw[u]
  BY <1>1 DEF TypeOK
<1>3. /\ op[t] = "lock" => Dist(raw'[t].serving, raw'[t].next) # Width - 1
      /\ op[t] = "try" => raw'[t].serving = raw'[t].next
  BY <1>1, <1>2 DEF XInv, Armed
<1>4. op[t] = "unlock" => t \in Holders
  BY <1>1 DEF Holders
<1>5. op[t] \in Ops /\ "locked" \in Pcs \ {"spin"}
  BY <1>1 DEF TypeOK, Pcs
<1> QED BY <1>1, <1>2, <1>3, <1>4, <1>5, CallMoves

LEMMA FailKeeps == ASSUME XInv, IInv', NEW t \in PPUs, CasFails(t) PROVE XInv'
<1>1. pc[t] = "locked" /\ op[t] \in Ops \ {"none"} /\ TypeOK /\ line' = line
  BY DEF CasFails, AtCas, XInv, IInv, Held, AllLock, CallOk, TypeOK
<1>2. CASE op[t] = "stwcx"
  <2>1. /\ pc' = [pc EXCEPT ![t] = "idle"] /\ op' = [op EXCEPT ![t] = "none"]
        /\ raw' = [raw EXCEPT ![t] = Fresh]
    BY <1>2 DEF CasFails, PpuGoto
  <2>2. "idle" \in Pcs \ {"spin"} /\ "none" \in Ops
    BY DEF Pcs, Ops
  <2>3. \A u \in PPUs \ {t} : raw'[u] = raw[u]
    BY <1>1, <2>1 DEF TypeOK
  <2> QED BY <1>1, <2>1, <2>2, <2>3, CallMoves
<1>3. CASE op[t] # "stwcx"
  <2>1. op[t] = "unlock" => t \in Holders
    BY <1>1 DEF Holders
  <2> QED BY <1>1, <1>3, <2>1, LookKeeps DEF CasFails
<1> QED BY <1>2, <1>3

\* The notification of a lock call leaves it in the queue.
LEMMA NotifyKeepsTickets == ASSUME XInv, IInv', NEW t \in PPUs, MutexNotify(t) PROVE XInv'
<1>1. TypeOK /\ pc[t] = "notify" /\ line' = line /\ PpuGoto(t, Done(op[t])) /\ op[t] \in Ops \ {"none"}
  BY DEF MutexNotify, XInv, IInv, TypeOK, Held, CallOk
<1>2. CASE op[t] = "lock"
  <2>1. pc' = [pc EXCEPT ![t] = "spin"] /\ op' = [op EXCEPT ![t] = op[t]] /\ raw' = [raw EXCEPT ![t] = raw[t]]
    BY <1>1, <1>2 DEF PpuGoto, Done
  <2>2. raw' = raw /\ op' = op
    BY <1>1, <2>1 DEF TypeOK
  <2>3. Queued' = Queued /\ Holders' = Holders
    BY <1>1, <1>2, <2>1, <2>2 DEF Queued, Holders, TypeOK
  <2>4. Armed'
    BY <1>1, <2>1, <2>2 DEF XInv, Armed, TypeOK
  <2> QED BY <1>1, <2>2, <2>3, <2>4, TicketsRest
<1>3. CASE op[t] # "lock"
  <2> PICK n \in {"critical", "idle"} : n = Done(op[t])
    BY <1>1, <1>3 DEF Done, Ops
  <2>1. /\ pc' = [pc EXCEPT ![t] = n] /\ op' = [op EXCEPT ![t] = "none"]
        /\ raw' = [raw EXCEPT ![t] = Fresh]
    BY <1>1 DEF PpuGoto
  <2>2. n \in Pcs \ {"spin"} /\ "none" \in Ops
    BY DEF Pcs, Ops
  <2>3. \A u \in PPUs \ {t} : raw'[u] = raw[u]
    BY <1>1, <2>1 DEF TypeOK
  <2>4. n = "critical" => t \in Holders
    BY <1>1, <1>3 DEF Done, Ops, Holders
  <2> QED BY <1>1, <2>1, <2>2, <2>3, <2>4, CallMoves
<1> QED BY <1>2, <1>3

\* The ticket that is served is the first one: nobody holds the mutex, and
\* nobody else has that ticket.
LEMMA ServedKeeps == ASSUME XInv, IInv', NEW t \in PPUs, Served(t) PROVE XInv'
<1>1. /\ TypeOK /\ pc[t] = "spin" /\ line.serving = raw[t].next /\ line' = line
      /\ pc' = [pc EXCEPT ![t] = "critical"] /\ op' = [op EXCEPT ![t] = "none"]
      /\ raw' = [raw EXCEPT ![t] = Fresh]
  BY DEF Served, PpuGoto, XInv, IInv
<1>2. t \in Queued
  BY <1>1 DEF Queued
<1>3. line.serving \in Ticket /\ line.next \in Ticket
  BY <1>1 DEF TypeOK, Lines
<1>4. Holders = {}
  BY <1>1, <1>2 DEF XInv, HolderIsFirst
<1>5. \A u \in PPUs \ {t} : pc'[u] = pc[u] /\ op'[u] = op[u] /\ raw'[u] = raw[u]
  BY <1>1 DEF TypeOK
<1>6. pc'[t] = "critical" /\ op'[t] = "none"
  BY <1>1 DEF TypeOK
<1>7. Queued' = Queued \ {t}
  BY <1>5, <1>6 DEF Queued
<1>8. Holders' = {t}
  BY <1>4, <1>5, <1>6 DEF Holders
<1>9. line.serving # line.next
  <2>1. Dist(line.serving, line.serving) < Dist(line.serving, line.next)
    BY <1>1, <1>2 DEF XInv, InLine
  <2> QED BY <1>3, <2>1 DEF Dist, Ticket
<1>10. HolderIsFirst' /\ OneHolder'
  <2>1. \A u \in Queued' : raw'[u].next # line'.serving
    BY <1>1, <1>2, <1>5, <1>7 DEF XInv, Apart, Queued
  <2> QED BY <1>1, <1>8, <1>9, <2>1 DEF HolderIsFirst, OneHolder
<1>11. InLine' /\ Apart'
  BY <1>1, <1>5, <1>7 DEF XInv, InLine, Apart, Queued
<1>12. Armed'
  BY <1>5, <1>6 DEF XInv, Armed
<1> QED BY <1>10, <1>11, <1>12 DEF XInv

-----------------------------------------------------------------------------
(* The exchanges *)

\* What an exchange of the mutex does to the ticket word.
LEMMA CasFacts ==
  ASSUME XInv, NEW t \in PPUs, CasCommits(t), op[t] # "stwcx"
  PROVE  /\ TypeOK /\ pc[t] = "locked" /\ op[t] \in {"lock", "try", "unlock"}
         /\ raw[t].serving = line.serving /\ raw[t].next = line.next
         /\ line.serving \in Ticket /\ line.next \in Ticket
         /\ op[t] \in {"lock", "try"} =>
               line'.serving = line.serving /\ line'.next = Succ(line.next)
         /\ op[t] = "unlock" =>
               line'.next = line.next /\ line'.serving = Succ(line.serving)
         /\ PpuGoto(t, IF op[t] = "lock" THEN "notify" ELSE Done(op[t]))
<1>1. /\ TypeOK /\ pc[t] = "locked" /\ op[t] \in {"lock", "try", "unlock"}
      /\ raw[t] \in Lines /\ line \in Lines
  BY DEF CasCommits, AtCas, XInv, IInv, Held, AllLock, CallOk, TypeOK, Ops
<1>2. WordOf(op[t], line) = raw[t] /\ line' = WithWord(op[t], line, Desired(op[t], raw[t]))
  BY DEF CasCommits
<1>3. raw[t].serving = line.serving /\ raw[t].next = line.next
  BY <1>2 DEF WordOf, WithWord, Fresh
<1>4. line.serving \in Ticket /\ line.next \in Ticket
  BY <1>1 DEF Lines
<1>5. (line.next + 1) % Width = Succ(line.next) /\ (line.serving + 1) % Width = Succ(line.serving)
  BY <1>4, SuccIsStep
<1>6. op[t] \in {"lock", "try"} => line'.serving = line.serving /\ line'.next = Succ(line.next)
  <2> SUFFICES ASSUME op[t] \in {"lock", "try"}
               PROVE  line'.serving = line.serving /\ line'.next = Succ(line.next)
    OBVIOUS
  <2> DEFINE d == Desired(op[t], raw[t])
  <2>1. d.serving = raw[t].serving /\ d.next = (raw[t].next + 1) % Width
    BY <1>1 DEF Desired, Lines
  <2>0. line' = WithWord(op[t], line, d) /\ op[t] # "stwcx"
    BY <1>2
  <2> HIDE DEF d
  <2>2. line'.serving = d.serving /\ line'.next = d.next
    BY <1>1, <2>0 DEF WithWord, Lines
  <2> QED BY <1>3, <1>5, <2>1, <2>2
<1>7. op[t] = "unlock" => line'.next = line.next /\ line'.serving = Succ(line.serving)
  <2> SUFFICES ASSUME op[t] = "unlock"
               PROVE  line'.next = line.next /\ line'.serving = Succ(line.serving)
    OBVIOUS
  <2> DEFINE d == Desired(op[t], raw[t])
  <2>1. d.next = raw[t].next /\ d.serving = (raw[t].serving + 1) % Width
    BY <1>1 DEF Desired, Lines
  <2>0. line' = WithWord(op[t], line, d) /\ op[t] # "stwcx"
    BY <1>2
  <2> HIDE DEF d
  <2>2. line'.serving = d.serving /\ line'.next = d.next
    BY <1>1, <2>0 DEF WithWord, Lines
  <2> QED BY <1>3, <1>5, <2>1, <2>2
<1>8. PpuGoto(t, IF op[t] = "lock" THEN "notify" ELSE Done(op[t]))
  BY <1>1 DEF CasCommits, NotifiesLater
<1> QED BY <1>1, <1>3, <1>4, <1>6, <1>7, <1>8

\* A lock call draws the ticket `next', which nobody has.
LEMMA LockDraws ==
  ASSUME XInv, IInv', NEW t \in PPUs, CasCommits(t), op[t] = "lock" PROVE XInv'
<1>1. /\ TypeOK /\ pc[t] = "locked" /\ raw[t].serving = line.serving /\ raw[t].next = line.next
      /\ line.serving \in Ticket /\ line.next \in Ticket
      /\ line'.serving = line.serving /\ line'.next = Succ(line.next)
      /\ PpuGoto(t, "notify")
  BY CasFacts
<1>2. /\ pc' = [pc EXCEPT ![t] = "notify"] /\ op' = [op EXCEPT ![t] = op[t]]
      /\ raw' = [raw EXCEPT ![t] = raw[t]]
  BY <1>1 DEF PpuGoto
<1>3. raw' = raw /\ op' = op
  BY <1>1, <1>2 DEF TypeOK
<1>4. Queued' = Queued \cup {t} /\ t \notin Queued
  BY <1>1, <1>2, <1>3 DEF Queued, TypeOK
<1>5. Holders' = Holders
  BY <1>1, <1>2, <1>3 DEF Holders, TypeOK
<1>6. Dist(line.serving, line.next) # Width - 1
  BY <1>1 DEF XInv, Armed
<1>7. Dist(line.serving, line'.next) = Dist(line.serving, line.next) + 1
      /\ Dist(line.serving, line.next) \in Ticket
  BY <1>1, <1>6, DistGrows, DistIsOut
<1>8. \A u \in Queued : raw[u].next # line.next
  BY <1>7 DEF XInv, InLine, Ticket
<1>9. InLine'
  <2>0. \A u \in Queued : Dist(line.serving, raw[u].next) \in Ticket
    BY <1>1, DistIsOut DEF TypeOK, Lines, Queued
  <2>1. \A u \in Queued : Dist(line.serving, raw[u].next) < Dist(line.serving, line'.next)
    BY <1>7, <2>0 DEF XInv, InLine, Ticket
  <2>2. Dist(line.serving, raw[t].next) < Dist(line.serving, line'.next)
    BY <1>1, <1>7 DEF Ticket
  <2> QED BY <1>1, <1>3, <1>4, <2>1, <2>2 DEF InLine
<1>10. Apart'
  BY <1>1, <1>3, <1>4, <1>8 DEF XInv, Apart
<1>11. OneHolder'
  BY <1>5 DEF XInv, OneHolder
<1>12. HolderIsFirst'
  <2>1. line.serving # line'.next
    BY <1>1, <1>7, LineSizesAssumption DEF Dist, Ticket
  <2> QED BY <1>1, <1>3, <1>4, <1>5, <2>1 DEF XInv, HolderIsFirst
<1>13. Armed'
  BY <1>1, <1>2, <1>3 DEF XInv, Armed, TypeOK
<1> QED BY <1>9, <1>10, <1>11, <1>12, <1>13 DEF XInv

\* trylock finds no ticket out and takes the first one.
LEMMA TryTakes ==
  ASSUME XInv, IInv', NEW t \in PPUs, CasCommits(t), op[t] = "try" PROVE XInv'
<1>1. /\ TypeOK /\ pc[t] = "locked" /\ raw[t].serving = line.serving /\ raw[t].next = line.next
      /\ line.serving \in Ticket /\ line.next \in Ticket
      /\ line'.serving = line.serving /\ line'.next = Succ(line.next)
      /\ PpuGoto(t, "critical")
  BY CasFacts DEF Done
<1>2. /\ pc' = [pc EXCEPT ![t] = "critical"] /\ op' = [op EXCEPT ![t] = "none"]
      /\ raw' = [raw EXCEPT ![t] = Fresh]
  BY <1>1 DEF PpuGoto
<1>3. line.serving = line.next
  BY <1>1 DEF XInv, Armed
<1>4. Holders = {} /\ Queued = {}
  <2>1. Holders = {}
    BY <1>3 DEF XInv, HolderIsFirst
  <2>2. ASSUME NEW u \in Queued PROVE FALSE
    <3>1. Dist(line.serving, raw[u].next) < 0
      BY <1>1, <1>3 DEF XInv, InLine, Dist, Ticket
    <3>2. Dist(line.serving, raw[u].next) \in Ticket
      BY <1>1, DistIsOut DEF TypeOK, Lines, Queued
    <3> QED BY <3>1, <3>2 DEF Ticket
  <2> QED BY <2>1, <2>2
<1>5. \A u \in PPUs \ {t} : pc'[u] = pc[u] /\ op'[u] = op[u] /\ raw'[u] = raw[u]
  BY <1>1, <1>2 DEF TypeOK
<1>6. pc'[t] = "critical" /\ op'[t] = "none"
  BY <1>1, <1>2 DEF TypeOK
<1>7. Queued' = {} /\ Holders' = {t}
  BY <1>4, <1>5, <1>6 DEF Queued, Holders
<1>8. line'.serving # line'.next
  BY <1>1, <1>3, LineSizesAssumption DEF Succ, Ticket
<1>9. InLine' /\ Apart' /\ OneHolder' /\ HolderIsFirst'
  BY <1>7, <1>8 DEF InLine, Apart, OneHolder, HolderIsFirst
<1>10. Armed'
  BY <1>5, <1>6 DEF XInv, Armed
<1> QED BY <1>9, <1>10 DEF XInv

\* unlock passes the mutex on to the next ticket.
LEMMA UnlockPasses ==
  ASSUME XInv, IInv', NEW t \in PPUs, CasCommits(t), op[t] = "unlock" PROVE XInv'
<1>1. /\ TypeOK /\ pc[t] = "locked"
      /\ line.serving \in Ticket /\ line.next \in Ticket
      /\ line'.next = line.next /\ line'.serving = Succ(line.serving)
      /\ PpuGoto(t, "idle")
  BY CasFacts DEF Done
<1>2. /\ pc' = [pc EXCEPT ![t] = "idle"] /\ op' = [op EXCEPT ![t] = "none"]
      /\ raw' = [raw EXCEPT ![t] = Fresh]
  BY <1>1 DEF PpuGoto
<1>3. t \in Holders
  BY <1>1 DEF Holders
<1>4. Holders = {t} /\ line.serving # line.next /\ \A u \in Queued : raw[u].next # line.serving
  BY <1>3 DEF XInv, OneHolder, HolderIsFirst
<1>5. \A u \in PPUs \ {t} : pc'[u] = pc[u] /\ op'[u] = op[u] /\ raw'[u] = raw[u]
  BY <1>1, <1>2 DEF TypeOK
<1>6. pc'[t] = "idle" /\ op'[t] = "none"
  BY <1>1, <1>2 DEF TypeOK
<1>7. Queued' \subseteq Queued /\ t \notin Queued' /\ Holders' = {}
  BY <1>4, <1>5, <1>6 DEF Queued, Holders
<1>8. ASSUME NEW u \in Queued' PROVE Dist(line'.serving, raw'[u].next) < Dist(line'.serving, line'.next)
  <2>1. u \in Queued /\ raw'[u] = raw[u] /\ raw[u].next \in Ticket
    BY <1>1, <1>5, <1>7, <1>8 DEF Queued, TypeOK, Lines
  <2>2. Dist(line'.serving, raw[u].next) = Dist(line.serving, raw[u].next) - 1
        /\ Dist(line'.serving, line.next) = Dist(line.serving, line.next) - 1
    BY <1>1, <1>4, <2>1, DistShrinks
  <2>3. Dist(line.serving, raw[u].next) \in Ticket /\ Dist(line.serving, line.next) \in Ticket
    BY <1>1, <2>1, DistIsOut
  <2>4. Dist(line.serving, raw[u].next) < Dist(line.serving, line.next)
    BY <2>1 DEF XInv, InLine
  <2> QED BY <1>1, <2>1, <2>2, <2>3, <2>4 DEF Ticket
<1>9. InLine'
  BY <1>8 DEF InLine
<1>10. Apart'
  BY <1>5, <1>7 DEF XInv, Apart, Queued
<1>11. OneHolder' /\ HolderIsFirst'
  BY <1>7 DEF OneHolder, HolderIsFirst
<1>12. Armed'
  BY <1>5, <1>6 DEF XInv, Armed
<1> QED BY <1>9, <1>10, <1>11, <1>12 DEF XInv

\* stwcx. changes the counter and no ticket.
LEMMA StoreKeepsTickets ==
  ASSUME XInv, IInv', NEW t \in PPUs, CasCommits(t), op[t] = "stwcx" PROVE XInv'
<1>1. /\ TypeOK /\ pc[t] = "locked" /\ line \in Lines
      /\ line' = WithWord("stwcx", line, Desired(op[t], raw[t]))
      /\ PpuGoto(t, "idle")
  BY DEF CasCommits, AtCas, XInv, IInv, Held, AllLock, TypeOK, NotifiesLater, Done
<1>2. line'.serving = line.serving /\ line'.next = line.next
  BY <1>1 DEF WithWord, Lines
<1>3. /\ pc' = [pc EXCEPT ![t] = "idle"] /\ op' = [op EXCEPT ![t] = "none"]
      /\ raw' = [raw EXCEPT ![t] = Fresh]
  BY <1>1 DEF PpuGoto
<1>4. "idle" \in Pcs \ {"spin"} /\ "none" \in Ops
  BY DEF Pcs, Ops
<1>5. \A u \in PPUs \ {t} : raw'[u] = raw[u]
  BY <1>1, <1>3 DEF TypeOK
<1> QED BY <1>2, <1>3, <1>4, <1>5, CallMoves

LEMMA CommitKeeps == ASSUME XInv, IInv', NEW t \in PPUs, CasCommits(t) PROVE XInv'
<1>1. op[t] = "stwcx" \/ op[t] \in {"lock", "try", "unlock"}
  BY CasFacts
<1> QED BY <1>1, LockDraws, TryTakes, UnlockPasses, StoreKeepsTickets

LEMMA NextXInv == XInv /\ [Next]_vars => XInv'
<1> SUFFICES ASSUME XInv, [Next]_vars PROVE XInv'
  OBVIOUS
<1>0. IInv' /\ IInv
  BY NextIInv DEF XInv
<1>1. CASE UNCHANGED vars
  BY <1>0, <1>1, SpuKeepsTickets DEF vars
<1>2. ASSUME NEW s \in SPUs,
             \/ Getllar(s) \/ GetllarCached(s) \/ Putllc(s) \/ ContextSwitch(s)
             \/ Elsewhere(s) \/ Park(s) \/ SpuRuns(s)
      PROVE  XInv'
  <2>1. UNCHANGED <<raw, op, pc>>
    BY <1>2 DEF Getllar, GetllarCached, Putllc, ContextSwitch, Elsewhere, Park, SpuRuns,
                GetllarEnds, PutllcCommits, Wake, ppuVars
  <2>2. line'.serving = line.serving /\ line'.next = line.next
    <3>1. CASE PutllcCommits(s)
      <4>1. line' = [ls[s] EXCEPT !.count = ls[s].count + 1] /\ ls[s] = line /\ line \in Lines
        BY <1>0, <3>1 DEF PutllcCommits, IInv, CopyFresh, TypeOK
      <4> QED BY <4>1 DEF Lines
    <3>2. CASE ~PutllcCommits(s)
      BY <1>2, <3>2 DEF Getllar, GetllarCached, Putllc, ContextSwitch, Elsewhere, Park, SpuRuns,
                        GetllarEnds, Wake
    <3> QED BY <3>1, <3>2
  <2> QED BY <1>0, <2>1, <2>2, SpuKeepsTickets
<1>3. ASSUME NEW t \in PPUs,
             \/ \E o \in Ops \ {"none"} : Begin(t, o)
             \/ CasCommits(t) \/ CasFails(t) \/ PpuRuns(t)
      PROVE  XInv'
  BY <1>0, <1>3, BeginKeeps, CommitKeeps, FailKeeps, CheckKeeps, NotifyKeepsTickets, ServedKeeps
     DEF PpuRuns
<1> QED BY <1>1, <1>2, <1>3 DEF Next

LEMMA InitXInv == Marked = TRUE /\ Init => XInv
<1> SUFFICES ASSUME Marked = TRUE, Init PROVE XInv
  OBVIOUS
<1>1. Queued = {} /\ Holders = {}
  BY DEF Init, Queued, Holders
<1>2. Armed
  BY DEF Init, Armed
<1> QED BY <1>1, <1>2, InitIInv DEF XInv, InLine, Apart, OneHolder, HolderIsFirst

LEMMA OneIsEnough == XInv => MutualExclusion
<1> SUFFICES ASSUME XInv PROVE Cardinality(Holders) <= 1
  BY DEF MutualExclusion
<1>1. CASE Holders = {}
  BY <1>1, FS_EmptySet
<1>2. CASE Holders # {}
  <2> PICK t \in Holders : TRUE
    BY <1>2
  <2>1. Holders = {t}
    BY Zenon DEF XInv, OneHolder
  <2>2. Cardinality({t}) = 1
    BY FS_Singleton
  <2> QED BY <2>1, <2>2
<1> QED BY <1>1, <1>2

(* At most one thread holds the mutex: each ticket that is out belongs to one
   thread, BUSY keeps the tickets from meeting when they wrap at 16 bits, and
   no exchange and no PUTLLC writes an old ticket word back. *)
THEOREM MutexExcludes == Marked = TRUE => (Spec => []MutualExclusion)
<1> SUFFICES ASSUME Marked = TRUE PROVE Spec => []MutualExclusion
  OBVIOUS
<1>1. Init => XInv
  BY InitXInv
<1> QED BY <1>1, NextXInv, OneIsEnough, PTL DEF Spec

=============================================================================
