---------------------------- MODULE LibraryProofs ----------------------------
(***************************************************************************)
(* Theorems about components that the run Libraries hosts, each for every  *)
(* size: SPURS job chains, audio ports, the memory of the guest, its files *)
(* and its saves.  They are instances here, each with its own constants    *)
(* and variables and none with anything of another's.                      *)
(***************************************************************************)
EXTENDS Integers, FiniteSets, Sequences, FiniteSetTheorems, SequenceTheorems,
        WellFoundedInduction, TLAPS

CONSTANTS
    Guests, Programs, Original, MaxCalls,                            \* job chains
    Callers, NumPorts, BlockCounts, Window, FreeMax, Keys, NumNotify, BlockFrames,
    Movies, MaxFed, MaxInits, Overlap,                               \* audio ports
    Allocators, AddressSpace, Base, WindowEnd, MB, Sizes, Budget, Footprint, Slots,
    VmBase, VmEnd, VmSlots, VSize, PSizes, StackBase, StackEnd,      \* memory
    Openers, Names, Unmapped, Fds, MaxOpens, Entries, Flags,         \* files
    Dirs, Files, Contents, MaxSecure, Spans, MaxLen, MaxOps, MaxSaves, MaxCrashes  \* saves

VARIABLES
    mem, run, cur, calls, scan, asleep, pool, wk, done, failed, guard, jpc,
    audio, ports, bump, free, notify, mixer, stream, ring, acall,
    heapBump, allocs, total, external, charged, vms, vmBump, stacks, mpc, given, billed, raced,
    api, host, fds, streams, dir, got, fpc, held, fileRaced,
    disk, op, saves, crashes, wanted, shown, upset

Jobs   == INSTANCE JobChain WITH Callers <- Guests
Audio  == INSTANCE AudioPorts WITH Streams <- Movies
Memory == INSTANCE GuestMemory WITH Callers <- Allocators, bump <- heapBump
Fs     == INSTANCE GuestFiles WITH Callers <- Openers, raced <- fileRaced
Saves  == INSTANCE SaveData

\* Cardinality means in the instances what it means here.
LEMMA SameCardinality ==
    ASSUME NEW S
    PROVE  /\ Audio!Cardinality(S) = Cardinality(S)
           /\ Audio!IsFiniteSet(S) = IsFiniteSet(S)
           /\ Memory!Cardinality(S) = Cardinality(S)
           /\ Memory!IsFiniteSet(S) = IsFiniteSet(S)
           /\ Saves!Cardinality(S) = Cardinality(S)
           /\ Saves!IsFiniteSet(S) = IsFiniteSet(S)
  BY DEF Cardinality, IsFiniteSet, Audio!Cardinality, Audio!IsFiniteSet, Memory!Cardinality,
     Memory!IsFiniteSet, Saves!Cardinality, Saves!IsFiniteSet

\* A set of numbers has a least element.
LEMMA LeastExists ==
    ASSUME NEW S \in SUBSET Nat, S # {}
    PROVE  \E i \in S : \A j \in S : i <= j
<1> DEFINE Less == {ss \in Nat \X Nat : ss[1] < ss[2]}
<1>1. IsWellFoundedOn(Less, Nat)
  BY NatLessThanWellFounded DEF OpToRel
<1>2. \E i \in S : \A j \in S : ~ (<<j, i>> \in Less)
  <2> HIDE DEF Less
  <2> QED BY <1>1, WFMin
<1>3. PICK i \in S : \A j \in S : ~ (<<j, i>> \in Less)
  BY <1>2
<1>4. ASSUME NEW j \in S PROVE i <= j
  <2>1. i \in Nat /\ j \in Nat /\ ~ (<<j, i>> \in Less)
    BY <1>3
  <2>2. ~ (j < i)
    BY <2>1
  <2> HIDE DEF Less
  <2> QED BY <2>1, <2>2
<1> QED BY <1>4

-----------------------------------------------------------------------------
(* Job chains *)

Job == [op |-> "job"]

\* The commands that memory may hold: those of the programs, and a job in place of a link.
Commands == {Jobs!NoCmd, Job} \cup UNION {{p[i] : i \in DOMAIN p} : p \in Programs}
Streams  == UNION {[DOMAIN p -> Commands] : p \in Programs}

\* The programs are sequences of commands, and the guards have a count.
JobSizes ==
    /\ Original \in Nat
    /\ \A p \in Programs :
          /\ p = [i \in DOMAIN p |-> p[i]] /\ DOMAIN p \subseteq Nat
          /\ \A i \in DOMAIN p : /\ p[i].op \in {"next", "resetpc", "call"} => p[i].to \in Nat
                                 /\ p[i].op = "list" => p[i].count \in Nat

RunRec  == [running : BOOLEAN, complete : BOOLEAN, shutdown : BOOLEAN, error : Int,
            valid : BOOLEAN, joined : BOOLEAN]
PoolRec == [on : BOOLEAN, serial : BOOLEAN, stop : BOOLEAN, error : Nat, errSeq : Nat,
            next : Nat]
WorkRec == [at : {"none", "look", "asleep", "run", "over"}, busy : BOOLEAN, seq : Nat]
Places  == {"off", "create", "fetch", "drain", "exec", "submit", "guard", "park", "drainEnd",
            "stop", "join", "finish"}
Decided == {"exec", "guard", "park"}

ScanRec == [at : Places, cmd : Commands, left : Nat, rc : Int]

JobTypes ==
    /\ run \in RunRec /\ pool \in PoolRec
    /\ wk \in [Jobs!Workers -> WorkRec]
    /\ mem \in Streams /\ scan \in ScanRec
    /\ cur \in Nat /\ calls \in Seq(Nat)
    /\ asleep \in BOOLEAN
    /\ guard \in [live : 0..Original, auto : BOOLEAN]
    /\ jpc \in [Guests -> {"idle", "join", "asleep"}]
    /\ run.running = (scan.at # "off")
    /\ done \subseteq Nat /\ failed \subseteq done

\* Where the scanner is and what there is of a pool.
Phases ==
    /\ pool.on <=> \/ scan.at \in {"drain", "drainEnd", "stop", "join"}
                   \/ pool.on /\ scan.at \in {"fetch", "exec", "submit", "guard", "park"}
    /\ asleep => pool.on /\ scan.at \in {"drain", "submit", "drainEnd"}
    /\ pool.stop => scan.at = "join"
    /\ pool.on /\ pool.serial => scan.at \in {"drainEnd", "stop", "join"} /\ pool.next = 0
    /\ scan.at = "create" => pool.next = 0
    /\ ~pool.on /\ scan.at \in {"create", "fetch", "submit"} => failed = {}
    /\ pool.error # 0 => pool.errSeq = pool.error

\* A worker that runs a job has one, nobody has a job once the pool is drained, and
\* no worker leaves a pool before it is stopped.
Busy(w) == wk[w].busy
WorkersHold ==
    /\ \A w \in Jobs!Workers : wk[w].at = "run" => Busy(w)
    /\ \A w \in Jobs!Workers : Busy(w) => pool.on /\ scan.at \notin Decided \cup {"stop", "join"}
    /\ \A w \in Jobs!Workers : wk[w].at = "over" => ~pool.on \/ pool.stop

JobInv == JobTypes /\ Phases /\ WorkersHold /\ Jobs!JobsOrderly

LEMMA CommandFields ==
  ASSUME JobSizes
  PROVE  \A c \in Commands : /\ c.op \in {"next", "resetpc", "call"} => c.to \in Nat
                             /\ c.op = "list" => c.count \in Nat
  BY DEF JobSizes, Commands, Jobs!NoCmd, Job

LEMMA ProgramStreams == ASSUME JobSizes PROVE Programs \subseteq Streams
<1> SUFFICES ASSUME NEW p \in Programs PROVE p \in [DOMAIN p -> Commands]
  BY DEF Streams
<1> QED BY DEF JobSizes, Commands

LEMMA StreamCells ==
  ASSUME JobSizes, NEW m \in Streams
  PROVE  /\ DOMAIN m \subseteq Nat /\ \A i \in DOMAIN m : m[i] \in Commands
         /\ \A i \in DOMAIN m : [m EXCEPT ![i] = Job] \in Streams
<1>1. PICK p \in Programs : m \in [DOMAIN p -> Commands]
  BY DEF Streams
<1>2. ASSUME NEW i \in DOMAIN m PROVE [m EXCEPT ![i] = Job] \in [DOMAIN p -> Commands]
  BY <1>1 DEF Commands
<1> QED BY <1>1, <1>2 DEF JobSizes, Streams

LEMMA JobInitInv == JobSizes /\ Jobs!Init => JobInv
<1> SUFFICES ASSUME JobSizes, Jobs!Init PROVE JobInv
  OBVIOUS
<1>1. JobTypes
  <2>1. mem \in Streams
    BY ProgramStreams DEF Jobs!Init
  <2>2. scan \in ScanRec
    BY DEF Jobs!Init, Jobs!OffScan, ScanRec, Places, Commands
  <2>3. guard \in [live : 0..Original, auto : BOOLEAN]
    BY DEF Jobs!Init, JobSizes
  <2>4. run \in RunRec /\ pool \in PoolRec /\ wk \in [Jobs!Workers -> WorkRec]
    BY DEF Jobs!Init, RunRec, PoolRec, WorkRec, Jobs!NoPool, Jobs!NoWork
  <2>5. run.running = FALSE /\ scan.at = "off" /\ cur \in Nat /\ calls \in Seq(Nat)
        /\ asleep \in BOOLEAN /\ jpc \in [Guests -> {"idle", "join", "asleep"}]
        /\ done \subseteq Nat /\ failed \subseteq done
    <3>1. <<>> \in Seq(Nat)
      OBVIOUS
    <3> QED BY <3>1 DEF Jobs!Init, Jobs!OffScan
  <2> QED BY <2>1, <2>2, <2>3, <2>4, <2>5 DEF JobTypes
<1>2. Phases /\ WorkersHold
  BY DEF Jobs!Init, Phases, WorkersHold, Busy, Jobs!OffScan, Jobs!NoPool, Jobs!NoWork, Decided
<1>3. Jobs!JobsOrderly
  BY DEF Jobs!Init, Jobs!JobsOrderly, Jobs!EachJobOnce, Jobs!BatchesFenced, Jobs!FirstErrorKept,
     Jobs!PoolOutlivesWorkers,
         Jobs!OffScan, Jobs!NoPool, Jobs!NoWork
<1> QED BY <1>1, <1>2, <1>3 DEF JobInv

-----------------------------------------------------------------------------
(* Types *)

LEMMA WokenTypes ==
  ASSUME NEW ws \in [Jobs!Workers -> WorkRec]
  PROVE  /\ Jobs!Woken(ws) \in [Jobs!Workers -> WorkRec]
         /\ \A w \in Jobs!Workers : /\ Jobs!Woken(ws)[w].busy = ws[w].busy /\ Jobs!Woken(ws)[w].seq = ws[w].seq
                                    /\ Jobs!Woken(ws)[w].at = IF ws[w].at = "asleep" THEN "look" ELSE ws[w].at
  BY DEF Jobs!Woken, WorkRec

LEMMA GuestTypes ==
  ASSUME JobSizes, JobTypes, Jobs!Guest \/ (\E c \in Guests : Jobs!Joiner(c))
  PROVE  JobTypes'
<1>1. ASSUME NEW c \in Guests, NEW b \in BOOLEAN, Jobs!RunChain(c, b) PROVE JobTypes'
  <2>1. scan' \in ScanRec /\ scan'.at = (IF b THEN "create" ELSE "off")
    BY <1>1 DEF Jobs!RunChain, Jobs!OffScan, ScanRec, Commands, Places
  <2>2. run' \in RunRec /\ run'.running = b /\ pool' \in PoolRec
    BY <1>1 DEF Jobs!RunChain, RunRec, PoolRec, Jobs!NoPool
  <2>3. <<>> \in Seq(Nat)
    OBVIOUS
  <2> QED BY <1>1, <2>1, <2>2, <2>3 DEF Jobs!RunChain, Jobs!guestVars, JobTypes
<1>2. ASSUME NEW c \in Guests,
             Jobs!Shutdown(c) \/ Jobs!JoinEnds(c) \/ Jobs!JoinCall(c) \/ Jobs!JoinWaits(c)
      PROVE  JobTypes'
  <2>1. run' \in RunRec /\ run'.running = run.running
    BY <1>2 DEF Jobs!Shutdown, Jobs!JoinEnds, Jobs!JoinCall, Jobs!JoinWaits, JobTypes, RunRec
  <2>2. jpc' \in [Guests -> {"idle", "join", "asleep"}]
    BY <1>2 DEF Jobs!Shutdown, Jobs!JoinEnds, Jobs!JoinCall, Jobs!JoinWaits, JobTypes,
       Jobs!JoinersAwake
  <2>3. UNCHANGED <<mem, cur, calls, scan, Jobs!poolVars, guard>>
    BY <1>2 DEF Jobs!Shutdown, Jobs!JoinEnds, Jobs!JoinCall, Jobs!JoinWaits
  <2> QED BY <2>1, <2>2, <2>3 DEF JobTypes, Jobs!poolVars
<1>3. ASSUME NEW c \in Guests, Jobs!Notify(c) \/ Jobs!GuardReset(c) PROVE JobTypes'
  <2>1. guard.live \in Nat /\ guard.live <= Original /\ Original \in Nat
    BY DEF JobTypes, JobSizes
  <2>2. guard.live > 0 => guard.live - 1 \in 0..Original
    BY <2>1
  <2>3. guard' \in [live : 0..Original, auto : BOOLEAN]
    BY <1>3, <2>1, <2>2 DEF Jobs!Notify, Jobs!GuardReset, JobTypes
  <2>4. UNCHANGED <<mem, run, cur, calls, scan, Jobs!poolVars, jpc>>
    BY <1>3 DEF Jobs!Notify, Jobs!GuardReset
  <2> QED BY <2>3, <2>4 DEF JobTypes, Jobs!poolVars
<1>4. CASE Jobs!SpuNotifies
  <2>1. guard.live - 1 \in 0..Original
    BY <1>4 DEF Jobs!SpuNotifies, JobTypes, JobSizes
  <2>2. guard' \in [live : 0..Original, auto : BOOLEAN]
    BY <1>4, <2>1 DEF Jobs!SpuNotifies, JobTypes
  <2>3. UNCHANGED <<mem, run, cur, calls, scan, Jobs!poolVars, jpc>>
    BY <1>4 DEF Jobs!SpuNotifies
  <2> QED BY <2>2, <2>3 DEF JobTypes, Jobs!poolVars
<1>5. ASSUME NEW i \in DOMAIN mem, Jobs!Publish(i) PROVE JobTypes'
  <2>1. mem' \in Streams
    BY <1>5, StreamCells DEF Jobs!Publish, Job, JobTypes
  <2>2. UNCHANGED <<run, cur, calls, scan, Jobs!poolVars, guard, jpc>>
    BY <1>5 DEF Jobs!Publish
  <2> QED BY <2>1, <2>2 DEF JobTypes, Jobs!poolVars
<1> QED BY <1>1, <1>2, <1>3, <1>4, <1>5 DEF Jobs!Guest, Jobs!Joiner

LEMMA WorkTypes ==
  ASSUME JobTypes, NEW w \in Jobs!Workers, Jobs!Worker(w) PROVE JobTypes'
<1>1. CASE Jobs!WorkerLooks(w)
  <2>1. /\ UNCHANGED <<mem, run, cur, calls, scan, asleep, pool, done, failed, guard, jpc>>
        /\ wk' = [wk EXCEPT ![w].at = IF pool.stop THEN "over"
                                      ELSE IF wk[w].busy THEN "run" ELSE "asleep"]
    BY <1>1 DEF Jobs!WorkerLooks, Jobs!guestVars
  <2>2. wk' \in [Jobs!Workers -> WorkRec]
    <3>1. PICK x : x = IF pool.stop THEN "over" ELSE IF wk[w].busy THEN "run" ELSE "asleep"
      OBVIOUS
    <3>2. x \in {"none", "look", "asleep", "run", "over"}
      BY <3>1
    <3>3. wk[w] \in WorkRec /\ wk \in [Jobs!Workers -> WorkRec]
      BY DEF JobTypes
    <3>4. [wk[w] EXCEPT !.at = x] \in WorkRec
      BY <3>2, <3>3 DEF WorkRec
    <3>5. wk' = [wk EXCEPT ![w] = [wk[w] EXCEPT !.at = x]]
      BY <2>1, <3>1, <3>3
    <3> QED BY <3>3, <3>4, <3>5
  <2> QED BY <2>1, <2>2 DEF JobTypes
<1>2. ASSUME NEW b \in BOOLEAN, Jobs!WorkerEnds(w, b) PROVE JobTypes'
  <2>1. wk[w].seq \in Nat
    BY DEF JobTypes, WorkRec
  <2>2. [wk EXCEPT ![w] = [at |-> "look", busy |-> FALSE, seq |-> wk[w].seq]] \in [Jobs!Workers -> WorkRec]
    BY <2>1 DEF JobTypes, WorkRec
  <2>3. wk' \in [Jobs!Workers -> WorkRec]
    BY <1>2, <2>2, WokenTypes DEF Jobs!WorkerEnds
  <2>4. pool' \in PoolRec
    BY <1>2, <2>1 DEF Jobs!WorkerEnds, JobTypes, PoolRec
  <2> QED BY <1>2, <2>1, <2>3, <2>4 DEF Jobs!WorkerEnds, JobTypes, Jobs!guestVars
<1> QED BY <1>1, <1>2 DEF Jobs!Worker

\* The scanner moves, and what else changes has its type.
LEMMA ScanKeepsTypes ==
  ASSUME JobTypes, scan.at # "off", scan'.at # "off", scan' \in ScanRec,
         UNCHANGED <<run, mem, jpc>>, cur' \in Nat, calls' \in Seq(Nat), asleep' \in BOOLEAN,
         pool' \in PoolRec, wk' \in [Jobs!Workers -> WorkRec], done' \subseteq Nat, failed' \subseteq done',
         guard' \in [live : 0..Original, auto : BOOLEAN]
  PROVE  JobTypes'
  BY DEF JobTypes

\* What ScanTo, Returns and JobTaken make of the scanner.
LEMMA ScanToTypes ==
  ASSUME JobTypes, NEW w \in Places, Jobs!ScanTo(w) PROVE scan' \in ScanRec /\ scan'.at = w
  BY DEF JobTypes, ScanRec, Jobs!ScanTo

LEMMA ReturnTypes ==
  ASSUME JobTypes, NEW r \in Int, Jobs!Returns(r)
  PROVE  scan' \in ScanRec /\ scan'.at = IF pool.on THEN "drainEnd" ELSE "finish"
<1> DEFINE w == IF pool.on THEN "drainEnd" ELSE "finish"
<1>1. w \in Places /\ scan' = [scan EXCEPT !.at = w, !.rc = r]
  BY DEF Jobs!Returns, Places
<1> HIDE DEF w
<1>2. scan' \in ScanRec /\ scan'.at = w
  BY <1>1 DEF JobTypes, ScanRec
<1> QED BY <1>2 DEF w

LEMMA TakenTypes ==
  ASSUME JobTypes, Jobs!JobTaken
  PROVE  scan' \in ScanRec /\ cur' \in Nat /\ (scan'.at = scan.at \/ scan'.at = "fetch")
<1>1. scan.left \in Nat /\ cur \in Nat /\ scan \in ScanRec
  BY DEF JobTypes, ScanRec
<1>2. CASE scan.left > 1
  BY <1>1, <1>2 DEF Jobs!JobTaken, ScanRec
<1>3. CASE ~(scan.left > 1)
  <2>1. scan' = [scan EXCEPT !.left = 0, !.at = "fetch"] /\ cur' = cur + 1
    BY <1>3 DEF Jobs!JobTaken
  <2>2. scan' \in ScanRec /\ scan'.at = "fetch"
    BY <1>1, <2>1 DEF ScanRec, Places
  <2>3. cur + 1 \in Nat
    BY <1>1
  <2> QED BY <2>1, <2>2, <2>3
<1> QED BY <1>2, <1>3

LEMMA JumpTypes ==
  ASSUME JobTypes, NEW to \in Nat, NEW stack \in Seq(Nat), Jobs!Jump(to, stack)
  PROVE  scan' \in ScanRec /\ scan'.at = "fetch" /\ cur' \in Nat /\ calls' \in Seq(Nat)
  BY DEF Jobs!Jump, Jobs!ScanTo, JobTypes, ScanRec, Places

LEMMA ScannerTypes ==
  ASSUME JobSizes, JobTypes, Jobs!Scanner PROVE JobTypes'
<1>0. /\ scan \in ScanRec /\ scan.at \in Places /\ scan.left \in Nat /\ scan.cmd \in Commands
      /\ cur \in Nat /\ cur + 1 \in Nat /\ calls \in Seq(Nat) /\ asleep \in BOOLEAN
      /\ pool \in PoolRec /\ pool.error \in Int /\ pool.next + 1 \in Nat
      /\ wk \in [Jobs!Workers -> WorkRec]
      /\ done \subseteq Nat /\ failed \subseteq done
      /\ guard \in [live : 0..Original, auto : BOOLEAN] /\ mem \in Streams
  BY DEF JobTypes, PoolRec, ScanRec
<1>1. CASE Jobs!CreateSerial
  <2>1. scan' \in ScanRec /\ scan'.at = "fetch"
    BY <1>1, ScanToTypes DEF Jobs!CreateSerial, Places
  <2> QED BY <1>0, <1>1, <2>1, ScanKeepsTypes DEF Jobs!CreateSerial, Jobs!poolVars, Jobs!guestVars
<1>2. ASSUME NEW n \in 0..2, Jobs!CreatePool(n) PROVE JobTypes'
  <2>1. scan' \in ScanRec /\ scan'.at # "off"
    BY <1>0, <1>2 DEF Jobs!CreatePool, Jobs!ScanTo, ScanRec, Places
  <2>2. pool' \in PoolRec /\ wk' \in [Jobs!Workers -> WorkRec]
    <3>1. pool' = [Jobs!NoPool EXCEPT !.on = TRUE, !.serial = n < 2]
          /\ wk' = [w \in Jobs!Workers |-> [Jobs!NoWork EXCEPT !.at = IF w <= n THEN "look" ELSE "none"]]
      BY <1>2 DEF Jobs!CreatePool
    <3>2. Jobs!NoPool \in PoolRec /\ Jobs!NoWork \in WorkRec /\ (n < 2) \in BOOLEAN
      BY DEF PoolRec, WorkRec, Jobs!NoPool, Jobs!NoWork
    <3>3. [Jobs!NoPool EXCEPT !.on = TRUE, !.serial = n < 2] \in PoolRec
      BY <3>2 DEF PoolRec
    <3>4. \A w \in Jobs!Workers : [Jobs!NoWork EXCEPT !.at = IF w <= n THEN "look" ELSE "none"] \in WorkRec
      BY <3>2 DEF WorkRec
    <3> QED BY <3>1, <3>3, <3>4
  <2> QED BY <1>0, <1>2, <2>1, <2>2, ScanKeepsTypes DEF Jobs!CreatePool, Jobs!guestVars
<1>3. CASE Jobs!Fetch
  <2>1. UNCHANGED <<run, cur, calls, Jobs!poolVars, Jobs!guestVars>> /\ scan.at = "fetch"
    BY <1>3 DEF Jobs!Fetch
  <2>2. scan' \in ScanRec /\ scan'.at # "off"
    <3>1. CASE Jobs!Returns(0) \/ Jobs!Returns(Jobs!Fault)
      <4>1. Jobs!Fault \in Int
        BY DEF Jobs!Fault
      <4> QED BY <3>1, <4>1, ReturnTypes
    <3>2. CASE /\ cur \in DOMAIN mem
               /\ scan' = [scan EXCEPT !.cmd = mem[cur],
                                 !.left = IF mem[cur].op = "job" THEN 1 ELSE 0,
                                 !.at = IF mem[cur].op = "job" THEN "submit" ELSE Jobs!First(mem[cur])]
      <4>1. mem[cur] \in Commands
        BY <1>0, <3>2, StreamCells
      <4> QED BY <1>0, <3>2, <4>1 DEF ScanRec, Places, Jobs!First
    <3> QED BY <1>3, <3>1, <3>2 DEF Jobs!Fetch
  <2> QED BY <1>0, <2>1, <2>2, ScanKeepsTypes DEF Jobs!poolVars, Jobs!guestVars
<1>4. CASE Jobs!Drain
  <2>1. /\ scan' \in ScanRec /\ scan'.at # "off" /\ scan.at # "off" /\ asleep' \in BOOLEAN
    <3>1. scan.at = "drain" /\ asleep' \in BOOLEAN
      BY <1>0, <1>4 DEF Jobs!Drain
    <3>2. CASE UNCHANGED scan
      BY <1>0, <3>1, <3>2
    <3>3. CASE Jobs!Returns(pool.error) \/ Jobs!ScanTo("exec")
      BY <1>0, <3>1, <3>3, ReturnTypes, ScanToTypes DEF Places
    <3> QED BY <1>4, <3>1, <3>2, <3>3 DEF Jobs!Drain
  <2> QED BY <1>0, <1>4, <2>1, ScanKeepsTypes DEF Jobs!Drain, Jobs!guestVars
<1>5. CASE Jobs!Exec
  <2>1. UNCHANGED <<run, Jobs!poolVars, Jobs!guestVars>> /\ scan.at = "exec"
    BY <1>5 DEF Jobs!Exec
  <2> DEFINE c == scan.cmd
  <2>2. scan' \in ScanRec /\ scan'.at # "off" /\ cur' \in Nat /\ calls' \in Seq(Nat)
    <3>1. CASE c.op = "nop" /\ Jobs!Jump(cur + 1, calls)
      BY <1>0, <3>1, JumpTypes
    <3>2. CASE c.op = "next" /\ Jobs!Jump(c.to, calls)
      BY <1>0, <3>2, JumpTypes, CommandFields
    <3>3. CASE c.op = "resetpc" /\ Jobs!Jump(c.to, <<>>)
      <4>1. <<>> \in Seq(Nat) /\ c.to \in Nat
        BY <1>0, <3>3, CommandFields
      <4> QED BY <3>3, <4>1, JumpTypes
    <3>4. CASE c.op = "call" /\ Jobs!Jump(c.to, Append(calls, cur + 1))
      <4>1. Append(calls, cur + 1) \in Seq(Nat) /\ c.to \in Nat
        BY <1>0, <3>4, CommandFields
      <4> QED BY <3>4, <4>1, JumpTypes
    <3>5. CASE calls # <<>> /\ Jobs!Jump(calls[Len(calls)], SubSeq(calls, 1, Len(calls) - 1))
      <4>1. calls[Len(calls)] \in Nat /\ SubSeq(calls, 1, Len(calls) - 1) \in Seq(Nat)
        BY <1>0, <3>5
      <4> QED BY <3>5, <4>1, JumpTypes
    <3>6. CASE (Jobs!Returns(Jobs!Unknown) \/ Jobs!Returns(0) \/ Jobs!Returns(Jobs!Abort)) /\ UNCHANGED <<cur, calls>>
      <4>1. Jobs!Unknown \in Int /\ Jobs!Abort \in Int
        BY DEF Jobs!Unknown, Jobs!Abort
      <4> QED BY <1>0, <3>6, <4>1, ReturnTypes
    <3>7. CASE (Jobs!ScanTo("park") \/ Jobs!ScanTo("guard")) /\ UNCHANGED <<cur, calls>>
      BY <1>0, <3>7, ScanToTypes DEF Places
    <3>8. CASE /\ c.op = "list" /\ scan' = [scan EXCEPT !.at = "submit", !.left = c.count]
               /\ UNCHANGED <<cur, calls>>
      <4>1. c.count \in Nat
        BY <1>0, <3>8, CommandFields
      <4> QED BY <1>0, <3>8, <4>1 DEF ScanRec, Places
    <3> QED BY <1>5, <3>1, <3>2, <3>3, <3>4, <3>5, <3>6, <3>7, <3>8 DEF Jobs!Exec
  <2> QED BY <1>0, <2>1, <2>2, ScanKeepsTypes DEF Jobs!poolVars, Jobs!guestVars
<1>6. CASE Jobs!SubmitRefused
  <2>1. UNCHANGED <<run, calls, Jobs!poolVars, Jobs!guestVars>> /\ scan.at = "submit"
    BY <1>6 DEF Jobs!SubmitRefused
  <2>2. scan' \in ScanRec /\ scan'.at # "off" /\ cur' \in Nat
    BY <1>0, <1>6, ReturnTypes, TakenTypes DEF Jobs!SubmitRefused
  <2> QED BY <1>0, <2>1, <2>2, ScanKeepsTypes DEF Jobs!poolVars, Jobs!guestVars
<1>7. ASSUME NEW w \in Jobs!Workers, Jobs!Submit(w) PROVE JobTypes'
  <2>1. UNCHANGED <<run, calls, asleep, done, failed, Jobs!guestVars>> /\ scan.at = "submit"
    BY <1>7 DEF Jobs!Submit
  <2>2. scan' \in ScanRec /\ scan'.at # "off" /\ cur' \in Nat
    BY <1>7, <2>1, TakenTypes DEF Jobs!Submit
  <2>3. [wk EXCEPT ![w] = [wk[w] EXCEPT !.busy = TRUE, !.seq = pool.next + 1]] \in [Jobs!Workers -> WorkRec]
    BY <1>0 DEF WorkRec
  <2>4. wk' \in [Jobs!Workers -> WorkRec]
    BY <1>7, <2>3, WokenTypes DEF Jobs!Submit
  <2>5. pool' \in PoolRec
    BY <1>0, <1>7 DEF Jobs!Submit, PoolRec
  <2> QED BY <1>0, <2>1, <2>2, <2>4, <2>5, ScanKeepsTypes DEF Jobs!guestVars
<1>8. CASE Jobs!SubmitWaits
  BY <1>0, <1>8, ScanKeepsTypes DEF Jobs!SubmitWaits, Jobs!guestVars
<1>9. ASSUME NEW b \in BOOLEAN, Jobs!RunSerial(b) PROVE JobTypes'
  <2>1. UNCHANGED <<run, calls, asleep, wk, Jobs!guestVars>> /\ scan.at = "submit"
    BY <1>9 DEF Jobs!RunSerial
  <2>2. scan' \in ScanRec /\ scan'.at # "off" /\ cur' \in Nat
    <3>1. CASE Jobs!Returns(pool.next + 1) /\ UNCHANGED cur
      <4>1. pool.next + 1 \in Int
        BY <1>0
      <4> QED BY <1>0, <3>1, <4>1, ReturnTypes
    <3>2. CASE Jobs!JobTaken
      BY <2>1, <3>2, TakenTypes
    <3> QED BY <1>9, <3>1, <3>2 DEF Jobs!RunSerial
  <2>3. pool' \in PoolRec /\ done' \subseteq Nat /\ failed' \subseteq done'
    BY <1>0, <1>9 DEF Jobs!RunSerial, PoolRec
  <2> QED BY <1>0, <2>1, <2>2, <2>3, ScanKeepsTypes DEF Jobs!guestVars
<1>10. CASE Jobs!GuardPassed
  <2>1. UNCHANGED <<mem, run, Jobs!poolVars, jpc>> /\ scan.at = "guard" /\ Jobs!Jump(cur + 1, calls)
    BY <1>10 DEF Jobs!GuardPassed
  <2>2. guard' \in [live : 0..Original, auto : BOOLEAN]
    BY <1>0, <1>10 DEF Jobs!GuardPassed, JobSizes
  <2> QED BY <1>0, <2>1, <2>2, JumpTypes, ScanKeepsTypes DEF Jobs!poolVars
<1>11. CASE Jobs!ParkEnds
  <2>1. scan' \in ScanRec /\ scan'.at # "off"
    BY <1>11, ScanToTypes DEF Jobs!ParkEnds, Places
  <2> QED BY <1>0, <1>11, <2>1, ScanKeepsTypes DEF Jobs!ParkEnds, Jobs!poolVars, Jobs!guestVars
<1>12. CASE Jobs!DrainEnd
  <2>1. scan' \in ScanRec /\ scan'.at # "off" /\ asleep' \in BOOLEAN
    <3>1. scan.at = "drainEnd" /\ asleep' \in BOOLEAN
      BY <1>12 DEF Jobs!DrainEnd, Jobs!JobsBusy
    <3>2. CASE UNCHANGED scan
      BY <1>0, <3>1, <3>2
    <3>3. CASE Jobs!ScanTo("stop")
      BY <3>1, <3>3, ScanToTypes DEF Places
    <3> QED BY <1>12, <3>1, <3>2, <3>3 DEF Jobs!DrainEnd
  <2> QED BY <1>0, <1>12, <2>1, ScanKeepsTypes DEF Jobs!DrainEnd, Jobs!guestVars
<1>13. CASE Jobs!StopPool
  <2>1. scan' \in ScanRec /\ scan'.at # "off"
    BY <1>13, ScanToTypes DEF Jobs!StopPool, Places
  <2>2. pool' \in PoolRec /\ wk' \in [Jobs!Workers -> WorkRec]
    BY <1>0, <1>13, WokenTypes DEF Jobs!StopPool, PoolRec
  <2> QED BY <1>0, <1>13, <2>1, <2>2, ScanKeepsTypes DEF Jobs!StopPool, Jobs!guestVars
<1>14. CASE Jobs!FreePool
  <2>1. scan' \in ScanRec /\ scan'.at # "off"
    BY <1>0, <1>14 DEF Jobs!FreePool, ScanRec, Places
  <2>2. pool' \in PoolRec
    BY <1>0, <1>14 DEF Jobs!FreePool, PoolRec, Jobs!NoPool
  <2> QED BY <1>0, <1>14, <2>1, <2>2, ScanKeepsTypes DEF Jobs!FreePool, Jobs!guestVars
<1>15. CASE Jobs!Finish
  <2>1. scan' \in ScanRec /\ scan'.at = "off"
    BY <1>15 DEF Jobs!Finish, Jobs!OffScan, ScanRec, Places, Commands
  <2>2. run' \in RunRec /\ run'.running = FALSE
    BY <1>15 DEF Jobs!Finish, JobTypes, RunRec, ScanRec
  <2>3. jpc' \in [Guests -> {"idle", "join", "asleep"}]
    BY <1>15 DEF Jobs!Finish, JobTypes, Jobs!JoinersAwake
  <2> QED BY <1>15, <2>1, <2>2, <2>3 DEF Jobs!Finish, JobTypes, Jobs!poolVars
<1> QED BY <1>1, <1>2, <1>3, <1>4, <1>5, <1>6, <1>7, <1>8, <1>9, <1>10, <1>11, <1>12, <1>13,
           <1>14, <1>15 DEF Jobs!Scanner

LEMMA JobTyping == ASSUME JobSizes, JobTypes, [Jobs!Next]_(Jobs!jobVars) PROVE JobTypes'
<1>1. CASE UNCHANGED Jobs!jobVars
  BY <1>1 DEF Jobs!jobVars, JobTypes
<1> QED BY <1>1, GuestTypes, WorkTypes, ScannerTypes DEF Jobs!Next

-----------------------------------------------------------------------------
(* Control *)

JobCore == Phases /\ WorkersHold /\ Jobs!JobsOrderly

\* A pool that is drained has done what it was given.
LEMMA DrainedDid ==
  ASSUME JobTypes, Jobs!EachJobOnce
  PROVE  /\ ~Jobs!JobsBusy => done = 1 .. pool.next
         /\ done = 1 .. pool.next => ~Jobs!JobsBusy
         /\ \A w \in Jobs!Workers : Busy(w) => wk[w].seq \in 1 .. pool.next /\ wk[w].seq \notin done
         /\ done \subseteq 1 .. pool.next
  BY DEF Jobs!EachJobOnce, Jobs!JobsBusy, Busy

\* The scanner goes on and the pool stays as it is.
LEMMA ControlKeeps ==
  ASSUME JobTypes, JobCore, UNCHANGED <<pool, wk, done, failed>>, ~pool.stop,
         scan'.at \notin {"off", "create", "join"},
         scan'.at \in {"drain", "drainEnd", "stop"} => pool.on,
         scan'.at = "finish" => ~pool.on,
         asleep' => pool.on /\ scan'.at \in {"drain", "submit", "drainEnd"},
         pool.on /\ pool.serial => scan'.at \in {"drainEnd", "stop"},
         ~pool.on /\ scan'.at \in {"fetch", "submit"} => failed = {},
         scan'.at \in Decided \cup {"stop"} => ~Jobs!JobsBusy,
         scan'.at \in Decided => failed = {},
         scan'.at \in Places
  PROVE  JobCore'
<1>1. Phases'
  BY DEF JobCore, Phases, Places
<1>2. WorkersHold'
  BY DEF JobCore, WorkersHold, Busy, Jobs!JobsBusy
<1>3. Jobs!EachJobOnce' /\ Jobs!FirstErrorKept' /\ Jobs!PoolOutlivesWorkers'
  BY DEF JobCore, Jobs!JobsOrderly, Jobs!EachJobOnce, Jobs!FirstErrorKept,
     Jobs!PoolOutlivesWorkers
<1>4. Jobs!BatchesFenced'
  BY DrainedDid DEF JobCore, Jobs!JobsOrderly, Jobs!BatchesFenced, Decided
<1> QED BY <1>1, <1>2, <1>3, <1>4 DEF JobCore, Jobs!JobsOrderly

LEMMA ControlSteps ==
  ASSUME JobTypes, JobTypes', JobCore,
         \/ Jobs!CreateSerial \/ Jobs!Fetch \/ Jobs!Drain \/ Jobs!Exec \/ Jobs!SubmitRefused \/ Jobs!SubmitWaits
         \/ Jobs!GuardPassed \/ Jobs!ParkEnds \/ Jobs!DrainEnd
  PROVE  JobCore'
<1>0. /\ UNCHANGED <<pool, wk, done, failed>> /\ scan \in ScanRec /\ scan' \in ScanRec /\ scan'.at \in Places
      /\ scan.at \in {"create", "fetch", "drain", "exec", "submit", "guard", "park", "drainEnd"}
      /\ ~pool.stop
  <2>1. UNCHANGED <<pool, wk, done, failed>>
    BY DEF Jobs!CreateSerial, Jobs!Fetch, Jobs!Drain, Jobs!Exec, Jobs!SubmitRefused,
       Jobs!SubmitWaits, Jobs!GuardPassed, Jobs!ParkEnds,
           Jobs!DrainEnd, Jobs!poolVars
  <2>2. scan.at \in {"create", "fetch", "drain", "exec", "submit", "guard", "park", "drainEnd"}
    BY DEF Jobs!CreateSerial, Jobs!Fetch, Jobs!Drain, Jobs!Exec, Jobs!SubmitRefused,
       Jobs!SubmitWaits, Jobs!GuardPassed, Jobs!ParkEnds, Jobs!DrainEnd
  <2> QED BY <2>1, <2>2 DEF JobCore, Phases, JobTypes, ScanRec
<1>1. /\ scan.at \in {"drain", "drainEnd"} => pool.on
      /\ scan.at \in Decided => ~Jobs!JobsBusy /\ failed = {}
      /\ ~pool.on /\ scan.at \in {"create", "fetch", "submit"} => failed = {}
      /\ pool.on => ~pool.serial \/ scan.at = "drainEnd"
      /\ pool.on => scan.at # "create"
      /\ pool.on /\ pool.error = 0 => failed = {}
      /\ asleep => pool.on /\ scan.at \in {"drain", "submit", "drainEnd"}
  BY <1>0, DrainedDid DEF JobCore, Phases, WorkersHold, Busy, Jobs!JobsBusy, Decided,
     Jobs!JobsOrderly, Jobs!BatchesFenced,
     Jobs!FirstErrorKept, JobTypes
<1>r. ASSUME NEW r \in Int, Jobs!Returns(r), ~asleep' PROVE JobCore'
  <2>1. scan'.at = IF pool.on THEN "drainEnd" ELSE "finish"
    BY <1>r, ReturnTypes
  <2> QED BY <1>0, <1>1, <1>r, <2>1, ControlKeeps DEF Decided
<1>f. ASSUME scan'.at = "fetch", ~asleep', pool.on => ~pool.serial,
             ~pool.on => failed = {}
      PROVE  JobCore'
  BY <1>0, <1>1, <1>f, ControlKeeps DEF Decided
<1>n. scan \in ScanRec /\ pool \in PoolRec
  BY DEF JobTypes
<1>2. CASE Jobs!CreateSerial
  <2>1. scan'.at = "fetch" /\ asleep' = asleep /\ scan.at = "create"
    BY <1>2, ScanToTypes DEF Jobs!CreateSerial, Places, Jobs!poolVars
  <2> QED BY <1>1, <1>f, <2>1
<1>3. CASE Jobs!Fetch
  <2>1. asleep' = asleep /\ scan.at = "fetch"
    BY <1>3 DEF Jobs!Fetch, Jobs!poolVars
  <2>2. CASE Jobs!Returns(0) \/ Jobs!Returns(Jobs!Fault)
    <3>1. Jobs!Fault \in Int
      BY DEF Jobs!Fault
    <3> QED BY <1>1, <1>r, <2>1, <2>2, <3>1
  <2>3. CASE /\ cur \in DOMAIN mem
             /\ scan' = [scan EXCEPT !.cmd = mem[cur],
                               !.left = IF mem[cur].op = "job" THEN 1 ELSE 0,
                               !.at = IF mem[cur].op = "job" THEN "submit" ELSE Jobs!First(mem[cur])]
    <3>1. scan'.at \in {"submit", IF pool.on THEN "drain" ELSE "exec"}
      BY <1>n, <2>3 DEF ScanRec, Jobs!First
    <3>2. ~pool.on => ~Jobs!JobsBusy
      BY DEF JobCore, WorkersHold, Jobs!JobsBusy, Busy
    <3> QED BY <1>0, <1>1, <2>1, <3>1, <3>2, ControlKeeps DEF Decided
  <2> QED BY <1>3, <2>2, <2>3 DEF Jobs!Fetch
<1>4. CASE Jobs!Drain
  <2>1. scan.at = "drain" /\ ~asleep
    BY <1>4 DEF Jobs!Drain
  <2>2. CASE Jobs!JobsBusy
    <3>1. scan' = scan
      BY <1>4, <2>2 DEF Jobs!Drain
    <3> QED BY <1>0, <1>1, <2>1, <3>1, ControlKeeps DEF Decided
  <2>3. CASE ~Jobs!JobsBusy /\ pool.error # 0
    <3>1. Jobs!Returns(pool.error) /\ ~asleep' /\ pool.error \in Int
      BY <1>4, <1>n, <2>1, <2>3 DEF Jobs!Drain, PoolRec
    <3> QED BY <1>r, <3>1
  <2>4. CASE ~Jobs!JobsBusy /\ pool.error = 0
    <3>1. scan'.at = "exec" /\ ~asleep'
      BY <1>4, <2>1, <2>4, ScanToTypes DEF Jobs!Drain, Places
    <3> QED BY <1>0, <1>1, <2>1, <2>4, <3>1, ControlKeeps DEF Decided
  <2> QED BY <2>2, <2>3, <2>4
<1>5. CASE Jobs!Exec
  <2>1. asleep' = asleep /\ scan.at = "exec" /\ ~Jobs!JobsBusy /\ failed = {} /\ ~asleep
    BY <1>1, <1>5 DEF Jobs!Exec, Jobs!poolVars, Decided
  <2>2. pool.on => ~pool.serial
    BY <1>1, <2>1
  <2>3. ASSUME scan'.at \in {"fetch", "submit", "park", "guard"} PROVE JobCore'
    BY <1>0, <1>1, <2>1, <2>2, <2>3, ControlKeeps DEF Decided
  <2>4. CASE Jobs!Returns(Jobs!Unknown) \/ Jobs!Returns(0) \/ Jobs!Returns(Jobs!Abort)
    <3>1. Jobs!Unknown \in Int /\ Jobs!Abort \in Int
      BY DEF Jobs!Unknown, Jobs!Abort
    <3> QED BY <1>r, <2>1, <2>4, <3>1
  <2>5. CASE \/ \E to, stack : Jobs!Jump(to, stack)
             \/ Jobs!ScanTo("park") \/ Jobs!ScanTo("guard")
             \/ scan' = [scan EXCEPT !.at = "submit", !.left = scan.cmd.count]
    BY <1>n, <2>3, <2>5 DEF Jobs!Jump, Jobs!ScanTo, ScanRec
  <2> QED BY <1>5, <2>4, <2>5 DEF Jobs!Exec
<1>6. CASE Jobs!SubmitRefused
  <2>1. scan.at = "submit" /\ ~asleep /\ asleep' = asleep /\ pool.on
    BY <1>6 DEF Jobs!SubmitRefused, Jobs!poolVars
  <2>2. CASE Jobs!Returns(pool.error)
    <3>1. pool.error \in Int
      BY <1>n DEF PoolRec
    <3> QED BY <1>r, <2>1, <2>2, <3>1
  <2>3. CASE Jobs!JobTaken
    <3>1. scan'.at \in {"submit", "fetch"}
      BY <2>1, <2>3, TakenTypes
    <3> QED BY <1>0, <1>1, <2>1, <3>1, ControlKeeps DEF Decided
  <2> QED BY <1>6, <2>2, <2>3 DEF Jobs!SubmitRefused
<1>7. CASE Jobs!SubmitWaits
  <2>1. scan.at = "submit" /\ scan' = scan /\ pool.on
    BY <1>7 DEF Jobs!SubmitWaits
  <2> QED BY <1>0, <1>1, <2>1, ControlKeeps DEF Decided
<1>8. CASE Jobs!GuardPassed
  <2>1. scan.at = "guard" /\ asleep' = asleep /\ scan'.at = "fetch"
    BY <1>8, <1>n DEF Jobs!GuardPassed, Jobs!Jump, Jobs!ScanTo, Jobs!poolVars, ScanRec
  <2> QED BY <1>1, <1>f, <2>1 DEF Decided
<1>9. CASE Jobs!ParkEnds
  <2>1. scan.at = "park" /\ asleep' = asleep /\ scan'.at = "fetch"
    BY <1>9, <1>n DEF Jobs!ParkEnds, Jobs!ScanTo, Jobs!poolVars, ScanRec
  <2> QED BY <1>1, <1>f, <2>1 DEF Decided
<1>10. CASE Jobs!DrainEnd
  <2>1. scan.at = "drainEnd" /\ asleep' = Jobs!JobsBusy /\ pool.on
    BY <1>1, <1>10 DEF Jobs!DrainEnd
  <2>2. CASE Jobs!JobsBusy
    <3>1. scan' = scan
      BY <1>10, <2>2 DEF Jobs!DrainEnd
    <3> QED BY <1>0, <1>1, <2>1, <3>1, ControlKeeps DEF Decided
  <2>3. CASE ~Jobs!JobsBusy
    <3>1. scan'.at = "stop"
      BY <1>10, <2>3, ScanToTypes DEF Jobs!DrainEnd, Places
    <3> QED BY <1>0, <1>1, <2>1, <2>3, <3>1, ControlKeeps DEF Decided
  <2> QED BY <2>2, <2>3
<1> QED BY <1>2, <1>3, <1>4, <1>5, <1>6, <1>7, <1>8, <1>9, <1>10

-----------------------------------------------------------------------------
(* The pool comes and goes *)

\* Nobody holds a job, so all that were handed out have ended.
LEMMA NobodyHolds ==
  ASSUME JobTypes, JobCore, ~pool.on \/ scan.at \in Decided \cup {"stop", "join"}
  PROVE  (\A w \in Jobs!Workers : ~Busy(w)) /\ done = 1 .. pool.next
<1>1. \A w \in Jobs!Workers : ~Busy(w)
  BY DEF JobCore, WorkersHold
<1> QED BY <1>1, DrainedDid DEF JobCore, Jobs!JobsOrderly, Jobs!JobsBusy, Busy

\* Nobody holds a job before or after, and the jobs that ended are numbered.
LEMMA IdlePool ==
  ASSUME \A w \in Jobs!Workers : ~Busy(w)', done' = 1 .. pool'.next
  PROVE  Jobs!EachJobOnce'
  BY DEF Jobs!EachJobOnce, Busy

LEMMA ChainRuns ==
  ASSUME JobTypes, JobCore, NEW c \in Guests, NEW b \in BOOLEAN, Jobs!RunChain(c, b)
  PROVE  JobCore'
<1>1. scan.at = "off" /\ ~pool.on /\ ~asleep
  BY DEF Jobs!RunChain, JobTypes, JobCore, Phases
<1>2. /\ pool' = Jobs!NoPool /\ done' = {} /\ failed' = {} /\ wk' = wk /\ asleep' = asleep
      /\ scan'.at = IF b THEN "create" ELSE "off"
  BY DEF Jobs!RunChain, Jobs!OffScan
<1>3. \A w \in Jobs!Workers : ~Busy(w)
  BY <1>1, NobodyHolds
<1>4. Phases'
  BY <1>1, <1>2 DEF Phases, Jobs!NoPool
<1>5. WorkersHold'
  BY <1>2, <1>3 DEF JobCore, WorkersHold, Busy, Jobs!NoPool
<1>6. Jobs!EachJobOnce'
  BY <1>2, <1>3, IdlePool DEF Busy, Jobs!NoPool
<1>7. Jobs!BatchesFenced' /\ Jobs!FirstErrorKept' /\ Jobs!PoolOutlivesWorkers'
  BY <1>1, <1>2 DEF Jobs!BatchesFenced, Jobs!FirstErrorKept, Jobs!PoolOutlivesWorkers,
     Jobs!NoPool, JobCore, Jobs!JobsOrderly
<1> QED BY <1>4, <1>5, <1>6, <1>7 DEF JobCore, Jobs!JobsOrderly

LEMMA PoolCreated ==
  ASSUME JobTypes, JobCore, NEW n \in 0..2, Jobs!CreatePool(n)
  PROVE  JobCore'
<1>1. scan.at = "create" /\ ~pool.on /\ ~asleep /\ pool.next = 0
  BY DEF Jobs!CreatePool, JobCore, Phases
<1>2. done = {} /\ failed = {}
  BY <1>1, NobodyHolds DEF JobTypes
<1>3. /\ done' = done /\ failed' = failed /\ asleep' = asleep
      /\ pool'.on /\ ~pool'.stop /\ pool'.next = 0 /\ pool'.error = 0 /\ pool'.serial = (n < 2)
      /\ scan'.at = IF n < 2 THEN "drainEnd" ELSE "fetch"
  BY DEF Jobs!CreatePool, Jobs!NoPool, Jobs!ScanTo, JobTypes, ScanRec
<1>4. \A w \in Jobs!Workers : wk'[w].at \in {"look", "none"} /\ ~Busy(w)'
  BY DEF Jobs!CreatePool, Jobs!NoWork, Busy
<1>5. Phases'
  BY <1>1, <1>3 DEF Phases
<1>6. WorkersHold'
  BY <1>4 DEF WorkersHold
<1>7. Jobs!EachJobOnce'
  BY <1>2, <1>3, <1>4, IdlePool
<1>8. Jobs!BatchesFenced' /\ Jobs!FirstErrorKept' /\ Jobs!PoolOutlivesWorkers'
  BY <1>2, <1>3 DEF Jobs!BatchesFenced, Jobs!FirstErrorKept, Jobs!PoolOutlivesWorkers
<1> QED BY <1>5, <1>6, <1>7, <1>8 DEF JobCore, Jobs!JobsOrderly

LEMMA PoolStopped ==
  ASSUME JobTypes, JobCore, Jobs!StopPool
  PROVE  JobCore'
<1>1. scan.at = "stop" /\ pool.on /\ ~asleep
  BY DEF Jobs!StopPool, JobCore, Phases
<1>2. /\ pool' = [pool EXCEPT !.stop = TRUE] /\ wk' = Jobs!Woken(wk) /\ scan'.at = "join"
      /\ asleep' = asleep /\ done' = done /\ failed' = failed
  BY DEF Jobs!StopPool, Jobs!ScanTo, JobTypes, ScanRec
<1>3. \A w \in Jobs!Workers : ~Busy(w) /\ ~Busy(w)' /\ (wk'[w].at = "run" => wk[w].at = "run")
  BY <1>1, <1>2, NobodyHolds, WokenTypes DEF Busy, JobTypes
<1>4. /\ pool'.on = pool.on /\ pool'.serial = pool.serial /\ pool'.error = pool.error
      /\ pool'.errSeq = pool.errSeq /\ pool'.next = pool.next /\ pool'.stop
  BY <1>2 DEF JobTypes, PoolRec
<1>5. Phases'
  BY <1>1, <1>2, <1>4 DEF JobCore, Phases
<1>6. WorkersHold'
  BY <1>3, <1>4 DEF JobCore, WorkersHold
<1>7. Jobs!EachJobOnce'
  BY <1>1, <1>2, <1>3, <1>4, NobodyHolds, IdlePool
<1>8. Jobs!BatchesFenced' /\ Jobs!FirstErrorKept' /\ Jobs!PoolOutlivesWorkers'
  BY <1>1, <1>2, <1>4 DEF Jobs!BatchesFenced, Jobs!FirstErrorKept, Jobs!PoolOutlivesWorkers,
     JobCore, Jobs!JobsOrderly
<1> QED BY <1>5, <1>6, <1>7, <1>8 DEF JobCore, Jobs!JobsOrderly

LEMMA PoolFreed ==
  ASSUME JobTypes, JobCore, Jobs!FreePool
  PROVE  JobCore'
<1>1. scan.at = "join" /\ pool.on /\ ~asleep /\ Jobs!WorkersJoined
  BY DEF Jobs!FreePool, JobCore, Phases
<1>2. /\ ~pool'.on /\ ~pool'.stop /\ pool'.next = pool.next /\ pool'.error = 0
      /\ wk' = wk /\ asleep' = asleep /\ done' = done /\ failed' = failed
      /\ scan'.at = IF pool.serial THEN "fetch" ELSE "finish"
  BY DEF Jobs!FreePool, Jobs!NoPool, JobTypes, ScanRec
<1>3. (\A w \in Jobs!Workers : ~Busy(w)) /\ done = 1 .. pool.next
  BY <1>1, NobodyHolds
<1>4. pool.serial => failed = {}
  <2>1. pool.serial => pool.next = 0
    BY <1>1 DEF JobCore, Phases
  <2> QED BY <1>3, <2>1 DEF JobTypes
<1>5. Phases'
  BY <1>1, <1>2, <1>4 DEF Phases
<1>6. WorkersHold'
  BY <1>2, <1>3 DEF JobCore, WorkersHold, Busy
<1>7. Jobs!EachJobOnce'
  BY <1>2, <1>3, IdlePool DEF Busy
<1>8. Jobs!BatchesFenced' /\ Jobs!FirstErrorKept' /\ Jobs!PoolOutlivesWorkers'
  BY <1>1, <1>2 DEF Jobs!BatchesFenced, Jobs!FirstErrorKept, Jobs!PoolOutlivesWorkers,
     Jobs!WorkersJoined
<1> QED BY <1>5, <1>6, <1>7, <1>8 DEF JobCore, Jobs!JobsOrderly

LEMMA ChainFinishes ==
  ASSUME JobTypes, JobCore, Jobs!Finish
  PROVE  JobCore'
<1>1. scan.at = "finish" /\ ~pool.on /\ ~asleep
  BY DEF Jobs!Finish, JobCore, Phases
<1>2. UNCHANGED <<pool, wk, done, failed, asleep>> /\ scan'.at = "off"
  BY DEF Jobs!Finish, Jobs!poolVars, Jobs!OffScan
<1>3. \A w \in Jobs!Workers : ~Busy(w)
  BY <1>1, NobodyHolds
<1>4. Phases'
  BY <1>1, <1>2 DEF JobCore, Phases
<1>5. WorkersHold'
  BY <1>2, <1>3 DEF JobCore, WorkersHold, Busy
<1>6. Jobs!EachJobOnce' /\ Jobs!BatchesFenced' /\ Jobs!FirstErrorKept' /\ Jobs!PoolOutlivesWorkers'
  BY <1>1, <1>2 DEF JobCore, Jobs!JobsOrderly, Jobs!EachJobOnce, Jobs!BatchesFenced,
     Jobs!FirstErrorKept, Jobs!PoolOutlivesWorkers
<1> QED BY <1>4, <1>5, <1>6 DEF JobCore, Jobs!JobsOrderly

-----------------------------------------------------------------------------
(* Jobs *)

LEMMA JobHandedOut ==
  ASSUME JobTypes, JobCore, NEW w \in Jobs!Workers, Jobs!Submit(w)
  PROVE  JobCore'
<1> DEFINE n == pool.next + 1
<1>1. /\ scan.at = "submit" /\ pool.on /\ ~asleep /\ pool.error = 0 /\ ~Busy(w)
      /\ scan'.at \in {"submit", "fetch"}
  BY TakenTypes DEF Jobs!Submit, Jobs!FreeWorker, Busy
<1>2. /\ pool'.on /\ pool'.serial = pool.serial /\ pool'.stop = pool.stop
      /\ pool'.error = 0 /\ pool'.next = n
      /\ asleep' = asleep /\ done' = done /\ failed' = failed
  BY <1>1 DEF Jobs!Submit, JobTypes, PoolRec
<1>3. /\ wk'[w].busy /\ wk'[w].seq = n /\ wk'[w].at \in {wk[w].at, "look"}
      /\ \A v \in Jobs!Workers \ {w} : /\ wk'[v].busy = wk[v].busy /\ wk'[v].seq = wk[v].seq
                                       /\ wk'[v].at \in {wk[v].at, "look"}
  <2> DEFINE ws == [wk EXCEPT ![w] = [@ EXCEPT !.busy = TRUE, !.seq = n]]
  <2>1. ws \in [Jobs!Workers -> WorkRec] /\ wk' = Jobs!Woken(ws)
    <3>1. wk \in [Jobs!Workers -> WorkRec] /\ n \in Nat
      BY DEF JobTypes, PoolRec
    <3>2. [wk[w] EXCEPT !.busy = TRUE, !.seq = n] \in WorkRec
      BY <3>1 DEF WorkRec
    <3> QED BY <3>1, <3>2 DEF Jobs!Submit
  <2>2. /\ ws[w].busy /\ ws[w].seq = n /\ ws[w].at = wk[w].at
        /\ \A v \in Jobs!Workers \ {w} : ws[v] = wk[v]
    BY DEF JobTypes, WorkRec
  <2> HIDE DEF ws
  <2> QED BY <2>1, <2>2, WokenTypes
<1>4. ~pool.stop /\ ~pool.serial /\ pool.next \in Nat
  BY <1>1 DEF JobCore, Phases, JobTypes, PoolRec
<1>5. Phases'
  BY <1>1, <1>2, <1>4 DEF JobCore, Phases
<1>6. WorkersHold'
  <2>1. \A v \in Jobs!Workers : wk[v].at # "over"
    BY <1>1, <1>4 DEF JobCore, WorkersHold
  <2>2. \A v \in Jobs!Workers : wk'[v].at \in {wk[v].at, "look"} /\ (Busy(v) => Busy(v)')
    BY <1>3 DEF Busy
  <2>3. \A v \in Jobs!Workers : wk'[v].at = "run" => Busy(v)'
    BY <2>2 DEF JobCore, WorkersHold
  <2> QED BY <1>1, <1>2, <2>1, <2>2, <2>3 DEF WorkersHold, Decided
<1>7. Jobs!EachJobOnce'
  <2>1. \A v \in Jobs!Workers : Busy(v) => wk[v].seq \in 1 .. pool.next /\ wk[v].seq \notin done
    BY DrainedDid DEF JobCore, Jobs!JobsOrderly
  <2>2. done \subseteq 1 .. pool.next
    BY DrainedDid DEF JobCore, Jobs!JobsOrderly
  <2>3. \A v \in Jobs!Workers : wk'[v].busy <=> v = w \/ wk[v].busy
    BY <1>3
  <2>4. \A u, v \in Jobs!Workers : wk'[u].busy /\ wk'[v].busy /\ u # v => wk'[u].seq # wk'[v].seq
    BY <1>1, <1>3, <1>4, <2>1 DEF Busy, JobCore, Jobs!JobsOrderly, Jobs!EachJobOnce
  <2>5. \A v \in Jobs!Workers : wk'[v].busy => wk'[v].seq \notin done
    BY <1>1, <1>3, <1>4, <2>1, <2>2 DEF Busy
  <2>6. {wk'[v].seq : v \in {u \in Jobs!Workers : wk'[u].busy}}
           = {wk[v].seq : v \in {u \in Jobs!Workers : wk[u].busy}} \cup {n}
    BY <1>1, <1>3, <2>3 DEF Busy
  <2>7. {wk[v].seq : v \in {u \in Jobs!Workers : wk[u].busy}} \cup done = 1 .. pool.next
    BY DEF JobCore, Jobs!JobsOrderly, Jobs!EachJobOnce
  <2>8. 1 .. n = (1 .. pool.next) \cup {n}
    BY <1>4
  <2> QED BY <1>2, <2>4, <2>5, <2>6, <2>7, <2>8 DEF Jobs!EachJobOnce
<1>8. Jobs!BatchesFenced' /\ Jobs!FirstErrorKept' /\ Jobs!PoolOutlivesWorkers'
  BY <1>1, <1>2 DEF Jobs!BatchesFenced, Jobs!FirstErrorKept, Jobs!PoolOutlivesWorkers, JobCore,
     Jobs!JobsOrderly
<1> QED BY <1>5, <1>6, <1>7, <1>8 DEF JobCore, Jobs!JobsOrderly

LEMMA JobRunByScanner ==
  ASSUME JobTypes, JobCore, NEW b \in BOOLEAN, Jobs!RunSerial(b)
  PROVE  JobCore'
<1> DEFINE n == pool.next + 1
<1>1. scan.at = "submit" /\ ~pool.on /\ ~asleep /\ failed = {} /\ pool.next \in Nat
  BY DEF Jobs!RunSerial, JobCore, Phases, JobTypes, PoolRec
<1>2. /\ ~pool'.on /\ pool'.stop = pool.stop /\ pool'.next = n
      /\ pool'.error = pool.error /\ pool'.errSeq = pool.errSeq
      /\ wk' = wk /\ asleep' = asleep /\ done' = done \cup {n}
  BY <1>1 DEF Jobs!RunSerial, JobTypes, PoolRec
<1>3. scan'.at = "finish" \/ (scan'.at \in {"submit", "fetch"} /\ failed' = {})
  <2>1. CASE b
    <3>1. pool.next + 1 \in Int /\ Jobs!Returns(pool.next + 1)
      BY <1>1, <2>1 DEF Jobs!RunSerial
    <3>2. scan'.at = "finish"
      BY <1>1, <3>1, ReturnTypes
    <3> QED BY <3>2
  <2>2. CASE ~b
    BY <1>1, <2>2, TakenTypes DEF Jobs!RunSerial
  <2> QED BY <2>1, <2>2
<1>4. (\A w \in Jobs!Workers : ~Busy(w)) /\ done = 1 .. pool.next
  BY <1>1, NobodyHolds
<1>5. Phases'
  BY <1>1, <1>2, <1>3 DEF JobCore, Phases
<1>6. WorkersHold'
  BY <1>2, <1>4 DEF JobCore, WorkersHold, Busy
<1>7. Jobs!EachJobOnce'
  <2>1. done' = 1 .. n
    BY <1>1, <1>2, <1>4
  <2> QED BY <1>2, <1>4, <2>1, IdlePool DEF Busy
<1>8. Jobs!BatchesFenced' /\ Jobs!FirstErrorKept' /\ Jobs!PoolOutlivesWorkers'
  BY <1>1, <1>2, <1>3 DEF Jobs!BatchesFenced, Jobs!FirstErrorKept, Jobs!PoolOutlivesWorkers,
     JobCore, Jobs!JobsOrderly
<1> QED BY <1>5, <1>6, <1>7, <1>8 DEF JobCore, Jobs!JobsOrderly

LEMMA WorkerMoves ==
  ASSUME JobTypes, JobCore, NEW w \in Jobs!Workers, Jobs!WorkerLooks(w)
  PROVE  JobCore'
<1>1. /\ UNCHANGED <<run, cur, calls, scan, asleep, pool, done, failed, Jobs!guestVars>>
      /\ wk[w].at = "look"
      /\ wk'[w].at = IF pool.stop THEN "over" ELSE IF Busy(w) THEN "run" ELSE "asleep"
      /\ \A v \in Jobs!Workers : /\ wk'[v].busy = wk[v].busy /\ wk'[v].seq = wk[v].seq
                                 /\ v # w => wk'[v] = wk[v]
  BY DEF Jobs!WorkerLooks, JobTypes, WorkRec, Busy
<1>2. pool.on /\ (pool.stop => scan.at = "join")
  BY <1>1 DEF JobCore, Jobs!JobsOrderly, Jobs!PoolOutlivesWorkers, Phases
<1>3. Phases'
  BY <1>1 DEF JobCore, Phases
<1>4. WorkersHold'
  BY <1>1, <1>2 DEF JobCore, WorkersHold, Busy
<1>5. Jobs!EachJobOnce'
  BY <1>1 DEF JobCore, Jobs!JobsOrderly, Jobs!EachJobOnce
<1>6. Jobs!BatchesFenced' /\ Jobs!FirstErrorKept' /\ Jobs!PoolOutlivesWorkers'
  BY <1>1, <1>2 DEF Jobs!BatchesFenced, Jobs!FirstErrorKept, Jobs!PoolOutlivesWorkers, JobCore,
     Jobs!JobsOrderly
<1> QED BY <1>3, <1>4, <1>5, <1>6 DEF JobCore, Jobs!JobsOrderly

LEMMA JobDone ==
  ASSUME JobTypes, JobCore, NEW w \in Jobs!Workers, NEW b \in BOOLEAN, Jobs!WorkerEnds(w, b)
  PROVE  JobCore'
<1> DEFINE n == wk[w].seq
<1>1. /\ Busy(w) /\ pool.on /\ scan.at \notin Decided \cup {"stop", "join"}
      /\ n \in 1 .. pool.next /\ n \notin done /\ pool.next \in Nat
  BY DrainedDid DEF Jobs!WorkerEnds, JobCore, Jobs!JobsOrderly, WorkersHold, JobTypes, PoolRec
<1>2. /\ pool'.on = pool.on /\ pool'.serial = pool.serial /\ pool'.stop = pool.stop
      /\ pool'.next = pool.next
      /\ IF b /\ Jobs!Keeps(n) THEN pool'.error = n /\ pool'.errSeq = n ELSE pool' = pool
      /\ done' = done \cup {n} /\ failed' = (IF b THEN failed \cup {n} ELSE failed)
      /\ ~asleep' /\ scan' = scan
  BY DEF Jobs!WorkerEnds, JobTypes, PoolRec
<1>3. /\ ~wk'[w].busy /\ wk'[w].at = "look"
      /\ \A v \in Jobs!Workers \ {w} : /\ wk'[v].busy = wk[v].busy /\ wk'[v].seq = wk[v].seq
                                       /\ wk'[v].at \in {wk[v].at, "look"}
  <2> DEFINE ws == [wk EXCEPT ![w] = [at |-> "look", busy |-> FALSE, seq |-> n]]
  <2>1. ws \in [Jobs!Workers -> WorkRec] /\ wk' = Jobs!Woken(ws)
    BY DEF Jobs!WorkerEnds, JobTypes, WorkRec
  <2>2. /\ ~ws[w].busy /\ ws[w].at = "look" /\ \A v \in Jobs!Workers \ {w} : ws[v] = wk[v]
    BY DEF JobTypes, WorkRec
  <2> HIDE DEF ws
  <2> QED BY <2>1, <2>2, WokenTypes
<1>4. Phases'
  BY <1>1, <1>2 DEF JobCore, Phases
<1>5. WorkersHold'
  BY <1>1, <1>2, <1>3 DEF JobCore, WorkersHold, Busy
<1>6. Jobs!EachJobOnce'
  <2>1. \A u, v \in Jobs!Workers : wk[u].busy /\ wk[v].busy /\ u # v => wk[u].seq # wk[v].seq
    BY DEF JobCore, Jobs!JobsOrderly, Jobs!EachJobOnce
  <2>2. \A v \in Jobs!Workers : wk[v].busy => wk[v].seq \notin done
    BY DrainedDid DEF JobCore, Jobs!JobsOrderly, Busy
  <2>3. \A v \in Jobs!Workers : wk'[v].busy <=> v # w /\ wk[v].busy
    BY <1>3
  <2>4. \A u, v \in Jobs!Workers : wk'[u].busy /\ wk'[v].busy /\ u # v => wk'[u].seq # wk'[v].seq
    BY <1>3, <2>1
  <2>5. \A v \in Jobs!Workers : wk'[v].busy => wk'[v].seq \notin done /\ wk'[v].seq # n
    BY <1>1, <1>3, <2>1, <2>2 DEF Busy
  <2>6. {wk'[v].seq : v \in {u \in Jobs!Workers : wk'[u].busy}} \cup {n}
           = {wk[v].seq : v \in {u \in Jobs!Workers : wk[u].busy}}
    BY <1>1, <1>3, <2>3 DEF Busy
  <2>7. {wk[v].seq : v \in {u \in Jobs!Workers : wk[u].busy}} \cup done = 1 .. pool.next
    BY DEF JobCore, Jobs!JobsOrderly, Jobs!EachJobOnce
  <2> QED BY <1>2, <2>4, <2>5, <2>6, <2>7 DEF Jobs!EachJobOnce
<1>7. Jobs!FirstErrorKept'
  <2>1. IF failed = {} THEN pool.error = 0
        ELSE pool.error \in failed /\ \A m \in failed : pool.error <= m
    BY <1>1 DEF JobCore, Jobs!JobsOrderly, Jobs!FirstErrorKept
  <2>2. failed \subseteq Nat /\ n \in Nat /\ n # 0 /\ pool.error \in Nat
        /\ (pool.error # 0 => pool.errSeq = pool.error)
    BY <1>1 DEF JobTypes, PoolRec, JobCore, Phases
  <2>3. CASE b /\ Jobs!Keeps(n)
    <3>1. pool.error = 0 \/ n < pool.error
      BY <2>2, <2>3 DEF Jobs!Keeps
    <3>2. \A m \in failed : n <= m
      <4>1. 0 \notin failed
        <5>1. done \subseteq 1 .. pool.next
          BY DrainedDid DEF JobCore, Jobs!JobsOrderly
        <5> QED BY <5>1 DEF JobTypes
      <4> QED BY <2>1, <2>2, <3>1, <4>1
    <3>3. pool'.error = n /\ failed' = failed \cup {n}
      BY <1>2, <2>3
    <3> QED BY <2>2, <3>2, <3>3 DEF Jobs!FirstErrorKept
  <2>4. CASE b /\ ~Jobs!Keeps(n)
    <3>1. pool.error # 0 /\ pool.error <= n
      BY <2>2, <2>4 DEF Jobs!Keeps, JobTypes, PoolRec
    <3>2. pool'.error = pool.error /\ failed' = failed \cup {n}
      BY <1>2, <2>4
    <3> QED BY <2>1, <3>1, <3>2 DEF Jobs!FirstErrorKept
  <2>5. CASE ~b
    <3>1. pool' = pool /\ failed' = failed
      BY <1>2, <2>5
    <3> QED BY <2>1, <3>1 DEF Jobs!FirstErrorKept
  <2> QED BY <2>3, <2>4, <2>5
<1>8. Jobs!BatchesFenced' /\ Jobs!PoolOutlivesWorkers'
  BY <1>1, <1>2 DEF Jobs!BatchesFenced, Jobs!PoolOutlivesWorkers, Decided
<1> QED BY <1>4, <1>5, <1>6, <1>7, <1>8 DEF JobCore, Jobs!JobsOrderly

-----------------------------------------------------------------------------

LEMMA JobNextInv == ASSUME JobSizes, JobInv, [Jobs!Next]_(Jobs!jobVars) PROVE JobInv'
<1>1. JobTypes /\ JobCore /\ JobTypes'
  BY JobTyping DEF JobInv, JobCore
<1> SUFFICES JobCore'
  BY <1>1 DEF JobInv, JobCore
<1>2. ASSUME UNCHANGED <<scan, Jobs!poolVars>> PROVE JobCore'
  BY <1>1, <1>2 DEF Jobs!poolVars, JobCore, Phases, WorkersHold, Busy, Jobs!JobsOrderly,
     Jobs!EachJobOnce, Jobs!BatchesFenced,
     Jobs!FirstErrorKept, Jobs!PoolOutlivesWorkers
<1>3. CASE UNCHANGED Jobs!jobVars
  BY <1>2, <1>3 DEF Jobs!jobVars, Jobs!poolVars
<1>4. CASE Jobs!Scanner
  BY <1>1, <1>4, ControlSteps, PoolCreated, JobHandedOut, JobRunByScanner, PoolStopped, PoolFreed,
     ChainFinishes DEF Jobs!Scanner
<1>5. CASE \E w \in Jobs!Workers : Jobs!Worker(w)
  BY <1>1, <1>5, WorkerMoves, JobDone DEF Jobs!Worker
<1>6. CASE \E c \in Guests : Jobs!Joiner(c)
  <2>1. UNCHANGED <<scan, Jobs!poolVars>>
    BY <1>6 DEF Jobs!Joiner, Jobs!JoinWaits, Jobs!JoinEnds
  <2> QED BY <1>2, <2>1
<1>7. CASE Jobs!Guest
  <2>1. \/ \E c \in Guests, b \in BOOLEAN : Jobs!RunChain(c, b)
        \/ UNCHANGED <<scan, Jobs!poolVars>>
    BY <1>7 DEF Jobs!Guest, Jobs!Shutdown, Jobs!JoinCall, Jobs!Notify, Jobs!GuardReset,
       Jobs!SpuNotifies, Jobs!Publish
  <2> QED BY <1>1, <1>2, <2>1, ChainRuns
<1> QED BY <1>3, <1>4, <1>5, <1>6, <1>7 DEF Jobs!Next

LEMMA JobFollows == JobInv => Jobs!TypeOK /\ Jobs!JobsOrderly
<1> SUFFICES ASSUME JobInv PROVE Jobs!TypeOK
  BY DEF JobInv
<1>1. scan.at \in Places /\ scan.left \in Nat /\ scan.rc \in Int
  BY DEF JobInv, JobTypes, ScanRec
<1>2. pool.error \in Nat /\ pool.next \in Nat
  BY DEF JobInv, JobTypes, PoolRec
<1>3. \A w \in Jobs!Workers : /\ wk[w].at \in {"none", "look", "asleep", "run", "over"}
                              /\ wk[w].busy \in BOOLEAN
  BY DEF JobInv, JobTypes, WorkRec
<1>4. asleep => scan.at \in {"drain", "submit", "drainEnd"}
  BY DEF JobInv, Phases
<1> QED BY <1>1, <1>2, <1>3, <1>4 DEF JobInv, JobTypes, Jobs!TypeOK, Places

(* Job chains, for every set of guest threads, every set of programs and every
   count of their guard: of the jobs that were handed out each runs once, no
   command that follows a batch runs beside it or after a failure in it, the
   earliest error is the one that is kept, and no worker outlives its pool.   *)
THEOREM ChainsAreOrderly == JobSizes => (Jobs!Spec => [](Jobs!TypeOK /\ Jobs!JobsOrderly))
<1> SUFFICES ASSUME JobSizes PROVE Jobs!Spec => [](Jobs!TypeOK /\ Jobs!JobsOrderly)
  OBVIOUS
<1>1. Jobs!Init => JobInv
  BY JobInitInv
<1>2. JobInv /\ [Jobs!Next]_(Jobs!jobVars) => JobInv'
  BY JobNextInv
<1>3. JobInv => Jobs!TypeOK /\ Jobs!JobsOrderly
  BY JobFollows
<1> QED BY <1>1, <1>2, <1>3, PTL DEF Jobs!Spec

-----------------------------------------------------------------------------
(* Audio ports *)

\* Rings of some blocks, blocks of some frames, and keys that are names.
AudioSizes ==
    /\ NumPorts \in Nat \ {0} /\ Window \in Nat /\ FreeMax \in Nat /\ NumNotify \in Nat \ {0}
    /\ BlockCounts \subseteq Nat \ {0} /\ Movies \subseteq Nat /\ BlockFrames \in Nat \ {0}
    /\ "" \notin Keys

PortRec   == [inUse : BOOLEAN, running : BOOLEAN, blocks : Nat \ {0}, read : Nat,
              buf : 0..Window, idx : 0..Window]
FreeTable == [1..FreeMax -> [addr : 0..Window, size : Nat]]
StreamRec == [present : BOOLEAN, finished : BOOLEAN, mute : BOOLEAN, cursor : Nat, frames : Nat]
RingRec   == [full : SUBSET Nat, fed : Nat, played : Nat]

AudioTypes ==
    /\ ports \in [Audio!Ports -> PortRec] /\ \A p \in Audio!Ports : ports[p].read < ports[p].blocks
    /\ bump \in 1 .. Window + 1 /\ free \in FreeTable
    /\ notify \in [Audio!Notifys -> Keys \cup {""}]
    /\ mixer \in [pc : {"off", "mix", "notify"}, slot : Audio!Notifys]
    /\ stream \in StreamRec /\ stream.cursor <= stream.frames
    /\ ring \in [Audio!Ports -> RingRec]
    /\ acall \in [Callers -> [pc : {"idle", "start", "stop"}, port : Audio!Ports]]

\* Who has which part of the window.
Claim(of, i, addr, size) == [of |-> of, nr |-> i, addr |-> addr, size |-> size]
RingClaim(P, p)  == Claim("ring", p, P[p].buf, P[p].blocks)
IndexClaim(P, p) == Claim("index", p, P[p].idx, 1)
FreeClaim(table, i) == Claim("free", i, table[i].addr, table[i].size)

Open(P) == {p \in Audio!Ports : P[p].inUse}
Kept(table) == {i \in 1..FreeMax : table[i].size > 0}

PortClaims(P) == {RingClaim(P, p) : p \in Open(P)} \cup {IndexClaim(P, p) : p \in Open(P)}
FreeClaims(table) == {FreeClaim(table, i) : i \in Kept(table)}

Claims == [of : {"ring", "index", "free"}, nr : Nat, addr : Nat, size : Nat]

\* Parts that end below a bound and do not meet.
Apart(c, d) == c.addr + c.size <= d.addr \/ d.addr + d.size <= c.addr
Tidy(S, at) ==
    /\ S \subseteq Claims
    /\ \A c \in S : c.addr >= 1 /\ c.size >= 1 /\ c.addr + c.size <= at
    /\ \A c, d \in S : c # d => Apart(c, d)

\* What was fed to a ring is in it or was played.
RingTrue(r) == IsFiniteSet(r.full) /\ r.fed = r.played + Cardinality(r.full)

AudioInv ==
    /\ AudioTypes
    /\ Tidy(PortClaims(ports) \cup FreeClaims(free), bump)
    /\ \A p \in Audio!Ports : RingTrue(ring[p])
    /\ Audio!MovieClock /\ Audio!KeysOnce

\* The least element, which a CHOOSE over slots finds.
LEMMA LeastIsIn ==
    ASSUME NEW S \in SUBSET Nat, S # {}
    PROVE  Audio!Least(S) \in S
<1> DEFINE Less == {ss \in Nat \X Nat : ss[1] < ss[2]}
<1>1. IsWellFoundedOn(Less, Nat)
  BY NatLessThanWellFounded DEF OpToRel
<1>2. \E i \in S : \A j \in S : ~ (<<j, i>> \in Less)
  <2> HIDE DEF Less
  <2> QED BY <1>1, WFMin
<1>3. PICK i \in S : \A j \in S : ~ (<<j, i>> \in Less)
  BY <1>2
<1>4. ASSUME NEW j \in S PROVE i <= j
  <2>1. i \in Nat /\ j \in Nat /\ ~ (<<j, i>> \in Less)
    BY <1>3
  <2>2. ~ (j < i)
    BY <2>1
  <2> HIDE DEF Less
  <2> QED BY <2>1, <2>2
<1> QED BY <1>4 DEF Audio!Least

-----------------------------------------------------------------------------
(* The window *)

LEMMA TidyLess ==
  ASSUME NEW S, NEW at, NEW T, T \subseteq S, Tidy(S, at)
  PROVE  Tidy(T, at)
  BY DEF Tidy

\* A part changes its owner.
LEMMA TidyMoves ==
  ASSUME NEW S, NEW at \in Nat, Tidy(S, at), NEW c \in S,
         NEW d \in Claims, d.addr = c.addr, d.size = c.size
  PROVE  Tidy((S \ {c}) \cup {d}, at)
<1>1. (S \ {c}) \cup {d} \subseteq Claims
  BY DEF Tidy
<1>2. d.addr >= 1 /\ d.size >= 1 /\ d.addr + d.size <= at
  BY DEF Tidy
<1>3. \A e \in S \ {c} : Apart(e, d) /\ Apart(d, e)
  <2>1. \A e \in S \ {c} : Apart(e, c)
    BY DEF Tidy
  <2> QED BY <2>1 DEF Apart
<1> QED BY <1>1, <1>2, <1>3 DEF Tidy

\* A part is taken behind all others.
LEMMA TidyGrows ==
  ASSUME NEW S, NEW at \in Nat \ {0}, Tidy(S, at),
         NEW d \in Claims, d.addr = at, d.size >= 1
  PROVE  Tidy(S \cup {d}, at + d.size) /\ Tidy(S, at + d.size)
<1>1. S \cup {d} \subseteq Claims /\ d.size \in Nat
  BY DEF Tidy, Claims
<1>2. \A c \in S : c.addr \in Nat /\ c.size \in Nat /\ c.addr >= 1 /\ c.size >= 1 /\ c.addr + c.size <= at
  BY DEF Tidy, Claims
<1>3. \A c \in S : c.addr + c.size <= at + d.size
  BY <1>1, <1>2
<1>4. \A c \in S : Apart(c, d) /\ Apart(d, c)
  BY <1>2 DEF Apart
<1>5. Tidy(S, at + d.size)
  BY <1>2, <1>3 DEF Tidy
<1> QED BY <1>1, <1>2, <1>3, <1>4, <1>5 DEF Tidy

LEMMA ClaimFields ==
  ASSUME NEW of, NEW i, NEW addr, NEW size
  PROVE  /\ Claim(of, i, addr, size).of = of /\ Claim(of, i, addr, size).nr = i
         /\ Claim(of, i, addr, size).addr = addr /\ Claim(of, i, addr, size).size = size
         /\ of \in {"ring", "index", "free"} /\ i \in Nat /\ addr \in Nat /\ size \in Nat
               => Claim(of, i, addr, size) \in Claims
  BY DEF Claim, Claims

\* Nobody's part is given, or one behind the others.
LEMMA AllocTidy ==
  ASSUME AudioSizes, NEW at \in 1 .. Window + 1, NEW table \in FreeTable, NEW size \in Nat \ {0},
         NEW S, \A c \in S : c.of # "free", Tidy(S \cup FreeClaims(table), at),
         NEW a, a = Audio!Alloc(at, table, size),
         NEW of \in {"ring", "index"}, NEW p \in Nat
  PROVE  /\ a.addr \in 0 .. Window /\ a.bump \in 1 .. Window + 1 /\ a.free \in FreeTable
         /\ Tidy(S \cup FreeClaims(a.free), a.bump)
         /\ a.addr # 0 => Tidy(S \cup {Claim(of, p, a.addr, size)} \cup FreeClaims(a.free), a.bump)
<1>0. Window \in Nat /\ FreeMax \in Nat
  BY DEF AudioSizes
<1>1. CASE Audio!Fitting(table, size) # {}
  <2> DEFINE i == Audio!Least(Audio!Fitting(table, size))
             c == FreeClaim(table, i)
             d == Claim(of, p, table[i].addr, size)
  <2>1. i \in 1..FreeMax /\ table[i].size = size /\ table[i].addr \in 0 .. Window
    <3>1. Audio!Fitting(table, size) \in SUBSET Nat
      BY DEF Audio!Fitting
    <3>2. i \in Audio!Fitting(table, size)
      BY <1>1, <3>1, LeastIsIn
    <3> QED BY <3>2 DEF Audio!Fitting, FreeTable
  <2> HIDE DEF i
  <2>2. a = [addr |-> table[i].addr, bump |-> at, free |-> [table EXCEPT ![i] = Audio!NoFree]]
    BY <1>1 DEF Audio!Alloc, i
  <2>3. a.addr = table[i].addr /\ a.bump = at /\ a.free = [table EXCEPT ![i] = Audio!NoFree]
    BY <2>2
  <2>4. a.free \in FreeTable
    <3>1. Audio!NoFree \in [addr : 0 .. Window, size : Nat]
      BY <1>0 DEF Audio!NoFree
    <3> QED BY <2>3, <3>1 DEF FreeTable
  <2>5. c \in FreeClaims(table) /\ c.addr = table[i].addr /\ c.size = size /\ c.of = "free" /\ c.nr = i
    BY <2>1, ClaimFields DEF FreeClaims, FreeClaim, Kept
  <2>6. FreeClaims(a.free) \subseteq FreeClaims(table) \ {c}
    <3> SUFFICES ASSUME NEW j \in Kept(a.free)
                 PROVE  FreeClaim(a.free, j) \in FreeClaims(table) \ {c}
      BY DEF FreeClaims
    <3>1. j \in 1..FreeMax /\ a.free[j].size > 0
      BY DEF Kept
    <3>2. j # i /\ a.free[j] = table[j]
      BY <2>1, <2>3, <3>1 DEF FreeTable, Audio!NoFree
    <3>3. FreeClaim(a.free, j) = FreeClaim(table, j) /\ FreeClaim(table, j).nr = j /\ j \in Kept(table)
      BY <3>1, <3>2, ClaimFields DEF FreeClaim, Kept
    <3> QED BY <2>5, <3>2, <3>3 DEF FreeClaims
  <2>7. S \cup FreeClaims(a.free) \subseteq (S \cup FreeClaims(table)) \ {c}
    BY <2>5, <2>6
  <2>8. Tidy(S \cup FreeClaims(a.free), at)
    BY <2>7, TidyLess
  <2>9. d \in Claims /\ d.addr = table[i].addr /\ d.size = size
    BY <1>0, <2>1, ClaimFields
  <2>10. Tidy(((S \cup FreeClaims(table)) \ {c}) \cup {d}, at)
    <3> HIDE DEF c, d
    <3>1. at \in Nat /\ c \in S \cup FreeClaims(table) /\ d.addr = c.addr /\ d.size = c.size
      BY <1>0, <2>5, <2>9
    <3> QED BY <2>9, <3>1, TidyMoves
  <2>11. Tidy(S \cup {d} \cup FreeClaims(a.free), at)
    <3> HIDE DEF c, d
    <3>1. S \cup {d} \cup FreeClaims(a.free) \subseteq ((S \cup FreeClaims(table)) \ {c}) \cup {d}
      BY <2>7
    <3> QED BY <2>10, <3>1, TidyLess
  <2> QED BY <2>1, <2>3, <2>4, <2>8, <2>11
<1>2. CASE Audio!Fitting(table, size) = {} /\ at + size - 1 > Window
  <2>1. a.addr = 0 /\ a.bump = at /\ a.free = table
    BY <1>2 DEF Audio!Alloc
  <2> QED BY <1>0, <2>1
<1>3. CASE Audio!Fitting(table, size) = {} /\ ~(at + size - 1 > Window)
  <2> DEFINE d == Claim(of, p, at, size)
  <2>1. a.addr = at /\ a.bump = at + size /\ a.free = table
    BY <1>3 DEF Audio!Alloc
  <2>2. at \in Nat \ {0} /\ at <= Window /\ at + size \in 1 .. Window + 1
    BY <1>0, <1>3
  <2>3. d \in Claims /\ d.addr = at /\ d.size = size
    BY <2>2, ClaimFields
  <2>4. Tidy((S \cup FreeClaims(table)) \cup {d}, at + size) /\ Tidy(S \cup FreeClaims(table), at + size)
    <3> HIDE DEF d
    <3> QED BY <2>2, <2>3, TidyGrows
  <2>5. Tidy(S \cup {d} \cup FreeClaims(table), at + size)
    <3>1. S \cup {d} \cup FreeClaims(table) = (S \cup FreeClaims(table)) \cup {d}
      OBVIOUS
    <3> QED BY <2>4, <3>1
  <2>6. d = Claim(of, p, a.addr, size)
    BY <2>1
  <2> HIDE DEF d
  <2>7. Tidy(S \cup {Claim(of, p, a.addr, size)} \cup FreeClaims(a.free), a.bump)
    BY <2>1, <2>5, <2>6
  <2>8. a.addr \in 0 .. Window /\ a.bump \in 1 .. Window + 1 /\ a.free \in FreeTable
    BY <2>1, <2>2
  <2>9. Tidy(S \cup FreeClaims(a.free), a.bump)
    BY <2>1, <2>4
  <2> QED BY <2>7, <2>8, <2>9
<1> QED BY <1>1, <1>2, <1>3

\* A part is given back, or lost.
LEMMA FreedTidy ==
  ASSUME AudioSizes, NEW at \in Nat, NEW table \in FreeTable, NEW S,
         NEW of \in {"ring", "index"}, NEW p \in Nat, NEW addr \in 0 .. Window, NEW size \in Nat,
         Claim(of, p, addr, size) \notin S,
         Tidy(S \cup {Claim(of, p, addr, size)} \cup FreeClaims(table), at)
  PROVE  /\ Audio!Freed(table, addr, size) \in FreeTable
         /\ Tidy(S \cup FreeClaims(Audio!Freed(table, addr, size)), at)
<1>0. Window \in Nat /\ FreeMax \in Nat
  BY DEF AudioSizes
<1>1. CASE Audio!Freed(table, addr, size) = table
  BY <1>1, TidyLess
<1>2. CASE addr # 0 /\ Audio!Fitting(table, 0) # {}
  <2> DEFINE i == Audio!Least(Audio!Fitting(table, 0))
             t == Audio!Freed(table, addr, size)
             c == Claim(of, p, addr, size)
             d == Claim("free", i, addr, size)
  <2>1. i \in 1..FreeMax /\ table[i].size = 0
    <3>1. Audio!Fitting(table, 0) \in SUBSET Nat
      BY DEF Audio!Fitting
    <3>2. i \in Audio!Fitting(table, 0)
      BY <1>2, <3>1, LeastIsIn
    <3> QED BY <3>2 DEF Audio!Fitting
  <2> HIDE DEF i
  <2>2. t = [table EXCEPT ![i] = [addr |-> addr, size |-> size]]
    BY <1>2 DEF Audio!Freed, i
  <2> HIDE DEF t
  <2>3. t \in FreeTable
    BY <2>2 DEF FreeTable
  <2>4. FreeClaims(t) \subseteq FreeClaims(table) \cup {d}
    <3> SUFFICES ASSUME NEW j \in Kept(t) PROVE FreeClaim(t, j) \in FreeClaims(table) \cup {d}
      BY DEF FreeClaims
    <3>1. j \in 1..FreeMax /\ t[j].size > 0
      BY DEF Kept
    <3>2. CASE j = i
      BY <2>1, <2>2, <3>2 DEF FreeClaim, FreeTable
    <3>3. CASE j # i
      <4>1. t[j] = table[j]
        BY <2>2, <3>1, <3>3 DEF FreeTable
      <4> QED BY <3>1, <4>1 DEF FreeClaim, FreeClaims, Kept
    <3> QED BY <3>2, <3>3
  <2>5. /\ d \in Claims /\ d.addr = addr /\ d.size = size
        /\ c.addr = addr /\ c.size = size /\ c.of # "free"
    BY <1>0, <2>1, ClaimFields
  <2>6. c \notin FreeClaims(table)
    BY <2>5, ClaimFields DEF FreeClaims, FreeClaim
  <2>7. Tidy(((S \cup {c} \cup FreeClaims(table)) \ {c}) \cup {d}, at)
    <3> HIDE DEF c, d
    <3>1. c \in S \cup {c} \cup FreeClaims(table) /\ d.addr = c.addr /\ d.size = c.size
      BY <2>5
    <3>2. Tidy(S \cup {c} \cup FreeClaims(table), at)
      BY DEF c
    <3> QED BY <2>5, <3>1, <3>2, TidyMoves
  <2>8. S \cup FreeClaims(t) \subseteq ((S \cup {c} \cup FreeClaims(table)) \ {c}) \cup {d}
    <3>1. c \notin S
      OBVIOUS
    <3> HIDE DEF c, d
    <3> QED BY <2>4, <2>6, <3>1
  <2>9. Tidy(S \cup FreeClaims(t), at)
    <3> HIDE DEF c, d
    <3> QED BY <2>7, <2>8, TidyLess
  <2> QED BY <2>3, <2>9 DEF t
<1> QED BY <1>1, <1>2 DEF Audio!Freed

-----------------------------------------------------------------------------
(* Ports *)

\* The claims of the ports when one of them opens or closes.
LEMMA ClaimsOfPorts ==
  ASSUME NEW P \in [Audio!Ports -> PortRec], NEW Q \in [Audio!Ports -> PortRec],
         NEW p \in Audio!Ports,
         \A q \in Audio!Ports \ {p} : /\ Q[q].inUse = P[q].inUse /\ Q[q].buf = P[q].buf
                                      /\ Q[q].idx = P[q].idx /\ Q[q].blocks = P[q].blocks
  PROVE  /\ ~P[p].inUse /\ Q[p].inUse =>
              PortClaims(Q) = PortClaims(P) \cup {RingClaim(Q, p)} \cup {IndexClaim(Q, p)}
         /\ P[p].inUse /\ ~Q[p].inUse =>
              /\ PortClaims(P) = PortClaims(Q) \cup {RingClaim(P, p)} \cup {IndexClaim(P, p)}
              /\ RingClaim(P, p) \notin PortClaims(Q) \cup {IndexClaim(P, p)}
              /\ IndexClaim(P, p) \notin PortClaims(Q)
<1>1. \A q \in Audio!Ports \ {p} : RingClaim(Q, q) = RingClaim(P, q) /\ IndexClaim(Q, q) = IndexClaim(P, q)
  BY DEF RingClaim, IndexClaim
<1>2. \A q \in Audio!Ports : /\ RingClaim(P, q).of = "ring" /\ RingClaim(P, q).nr = q
                             /\ IndexClaim(P, q).of = "index" /\ IndexClaim(P, q).nr = q
  BY ClaimFields DEF RingClaim, IndexClaim
<1>3. CASE ~P[p].inUse /\ Q[p].inUse
  <2>1. Open(Q) = Open(P) \cup {p} /\ p \notin Open(P) /\ Open(P) \subseteq Audio!Ports
    BY <1>3 DEF Open
  <2> QED BY <1>1, <1>3, <2>1 DEF PortClaims
<1>4. CASE P[p].inUse /\ ~Q[p].inUse
  <2>1. Open(P) = Open(Q) \cup {p} /\ p \notin Open(Q) /\ Open(Q) \subseteq Audio!Ports
    BY <1>4 DEF Open
  <2>2. PortClaims(P) = PortClaims(Q) \cup {RingClaim(P, p)} \cup {IndexClaim(P, p)}
    BY <1>1, <2>1 DEF PortClaims
  <2>3. \A c \in PortClaims(Q) : c.nr # p
    BY <1>1, <1>2, <2>1 DEF PortClaims
  <2>4. RingClaim(P, p).nr = p /\ IndexClaim(P, p).nr = p /\ RingClaim(P, p) # IndexClaim(P, p)
    BY <1>2
  <2> QED BY <1>4, <2>2, <2>3, <2>4
<1> QED BY <1>3, <1>4

LEMMA PortClaimsAreNotFree == \A P : \A c \in PortClaims(P) : c.of # "free"
  BY ClaimFields DEF PortClaims, RingClaim, IndexClaim

\* Ports that keep what they have.
LEMMA SameClaims ==
  ASSUME NEW P, NEW Q,
         \A q \in Audio!Ports : Q[q].inUse = P[q].inUse
                          /\ (P[q].inUse => /\ Q[q].buf = P[q].buf /\ Q[q].idx = P[q].idx
                                            /\ Q[q].blocks = P[q].blocks)
  PROVE  PortClaims(Q) = PortClaims(P)
<1>1. Open(P) = Open(Q)
  BY DEF Open
<1>2. \A q \in Open(P) : RingClaim(P, q) = RingClaim(Q, q) /\ IndexClaim(P, q) = IndexClaim(Q, q)
  BY DEF Open, RingClaim, IndexClaim
<1> QED BY <1>1, <1>2 DEF PortClaims

\* Ports of which none is open.
LEMMA NoClaims == ASSUME NEW P, \A q \in Audio!Ports : ~P[q].inUse PROVE PortClaims(P) = {}
  BY DEF PortClaims, Open

\* The records of Init are of their types.
LEMMA NothingIsTyped ==
  ASSUME AudioSizes
  PROVE  /\ Audio!NoPort \in PortRec /\ Audio!NoPort.read < Audio!NoPort.blocks /\ ~Audio!NoPort.inUse
         /\ Audio!NoFree \in [addr : 0 .. Window, size : Nat] /\ ~(Audio!NoFree.size > 0)
         /\ Audio!NoStream \in StreamRec /\ Audio!NoStream.cursor <= Audio!NoStream.frames /\ ~Audio!NoStream.finished
         /\ Audio!NoRing \in RingRec /\ RingTrue(Audio!NoRing)
         /\ Audio!NoCall \in [pc : {"idle", "start", "stop"}, port : Audio!Ports]
         /\ 1 \in Audio!Notifys
<1>0. Window \in Nat /\ 0 \in 0 .. Window /\ 1 \in Audio!Ports /\ 1 \in Audio!Notifys
  <2>1. Window \in Nat /\ NumPorts \in Nat \ {0} /\ NumNotify \in Nat \ {0}
    BY DEF AudioSizes
  <2> QED BY <2>1 DEF Audio!Ports, Audio!Notifys
<1>1. Audio!NoPort \in PortRec /\ Audio!NoPort.read < Audio!NoPort.blocks /\ ~Audio!NoPort.inUse
  BY <1>0 DEF Audio!NoPort, PortRec
<1>2. Audio!NoFree \in [addr : 0 .. Window, size : Nat] /\ ~(Audio!NoFree.size > 0)
  BY <1>0 DEF Audio!NoFree
<1>3. Audio!NoStream \in StreamRec /\ Audio!NoStream.cursor <= Audio!NoStream.frames /\ ~Audio!NoStream.finished
  BY DEF Audio!NoStream, StreamRec
<1>4. Audio!NoRing \in RingRec /\ RingTrue(Audio!NoRing)
  BY FS_EmptySet DEF Audio!NoRing, RingRec, RingTrue
<1>5. Audio!NoCall \in [pc : {"idle", "start", "stop"}, port : Audio!Ports]
  BY <1>0 DEF Audio!NoCall
<1> QED BY <1>0, <1>1, <1>2, <1>3, <1>4, <1>5

LEMMA AudioInitInv == ASSUME AudioSizes, Audio!Init PROVE AudioInv
<1>1. AudioTypes
  <2>1. ports \in [Audio!Ports -> PortRec] /\ \A p \in Audio!Ports : ports[p].read < ports[p].blocks
    BY NothingIsTyped DEF Audio!Init
  <2>2. free \in FreeTable
    BY NothingIsTyped DEF Audio!Init, FreeTable
  <2>3. bump \in 1 .. Window + 1 /\ notify \in [Audio!Notifys -> Keys \cup {""}]
    <3>1. Window \in Nat
      BY DEF AudioSizes
    <3>2. bump \in 1 .. Window + 1
      <4>1. bump = 1
        BY DEF Audio!Init
      <4> QED BY <3>1, <4>1
    <3>3. notify \in [Audio!Notifys -> Keys \cup {""}]
      BY DEF Audio!Init
    <3> QED BY <3>2, <3>3
  <2>4. mixer \in [pc : {"off", "mix", "notify"}, slot : Audio!Notifys]
    BY NothingIsTyped DEF Audio!Init
  <2>5. stream \in StreamRec /\ stream.cursor <= stream.frames
    BY NothingIsTyped DEF Audio!Init
  <2>6. ring \in [Audio!Ports -> RingRec] /\ acall \in [Callers -> [pc : {"idle", "start", "stop"}, port : Audio!Ports]]
    BY NothingIsTyped DEF Audio!Init
  <2> QED BY <2>1, <2>2, <2>3, <2>4, <2>5, <2>6 DEF AudioTypes
<1>2. PortClaims(ports) = {} /\ FreeClaims(free) = {}
  <2>1. PortClaims(ports) = {}
    <3>1. \A p \in Audio!Ports : ~ports[p].inUse
      BY NothingIsTyped DEF Audio!Init
    <3> QED BY <3>1, NoClaims
  <2>2. Kept(free) = {}
    BY NothingIsTyped DEF Audio!Init, Kept
  <2> QED BY <2>1, <2>2 DEF FreeClaims
<1>3. Tidy(PortClaims(ports) \cup FreeClaims(free), bump)
  BY <1>2 DEF Tidy
<1>4. \A p \in Audio!Ports : RingTrue(ring[p])
  BY NothingIsTyped DEF Audio!Init
<1>5. Audio!MovieClock /\ Audio!KeysOnce
  BY NothingIsTyped DEF Audio!Init, Audio!MovieClock, Audio!KeysOnce
<1> QED BY <1>1, <1>3, <1>4, <1>5 DEF AudioInv

LEMMA PortOpens ==
  ASSUME AudioSizes, AudioInv, NEW c \in Callers, NEW n \in BlockCounts, Audio!PortOpen(c, n)
  PROVE  AudioInv'
<1> DEFINE unused == {p \in Audio!Ports : ~ports[p].inUse}
           p == Audio!Least(unused)
           buf == Audio!Alloc(bump, free, n)
           idx == Audio!Alloc(buf.bump, buf.free, 1)
           S == PortClaims(ports)
<1>1. /\ UNCHANGED <<audio, notify, mixer, stream, acall>>
      /\ unused # {} /\ bump' = idx.bump /\ free' = idx.free
      /\ IF buf.addr = 0 \/ idx.addr = 0
         THEN /\ ports' = [ports EXCEPT ![p].running = FALSE, ![p].blocks = n, ![p].read = 0]
              /\ UNCHANGED ring
         ELSE /\ ports' = [ports EXCEPT ![p] = [inUse |-> TRUE, running |-> FALSE, blocks |-> n,
                                                read |-> 0, buf |-> buf.addr, idx |-> idx.addr]]
              /\ ring' = [ring EXCEPT ![p] = Audio!NoRing]
  BY DEF Audio!PortOpen
<1>2. p \in Audio!Ports /\ ~ports[p].inUse /\ p \in Nat
  <2>1. unused \in SUBSET Nat
    BY DEF Audio!Ports
  <2>2. p \in unused
    BY <1>1, <2>1, LeastIsIn
  <2> QED BY <2>1, <2>2
<1> HIDE DEF p
<1>3. /\ ports \in [Audio!Ports -> PortRec] /\ bump \in 1 .. Window + 1 /\ free \in FreeTable
      /\ ring \in [Audio!Ports -> RingRec] /\ n \in Nat \ {0}
      /\ Tidy(S \cup FreeClaims(free), bump)
  BY DEF AudioInv, AudioTypes, AudioSizes
<1>4. /\ buf.addr \in 0 .. Window /\ buf.bump \in 1 .. Window + 1 /\ buf.free \in FreeTable
      /\ Tidy(S \cup FreeClaims(buf.free), buf.bump)
      /\ buf.addr # 0 => Tidy(S \cup {Claim("ring", p, buf.addr, n)} \cup FreeClaims(buf.free), buf.bump)
  <2>1. \A e \in S : e.of # "free"
    BY PortClaimsAreNotFree
  <2> HIDE DEF S, buf
  <2>2. buf = Audio!Alloc(bump, free, n)
    BY DEF buf
  <2> QED BY <1>2, <1>3, <2>1, <2>2, AllocTidy
<1>5. /\ idx.addr \in 0 .. Window /\ idx.bump \in 1 .. Window + 1 /\ idx.free \in FreeTable
      /\ Tidy(S \cup FreeClaims(idx.free), idx.bump)
  <2>1. \A e \in S : e.of # "free"
    BY PortClaimsAreNotFree
  <2> HIDE DEF S, buf, idx
  <2>2. idx = Audio!Alloc(buf.bump, buf.free, 1) /\ 1 \in Nat \ {0}
    BY DEF idx
  <2> QED BY <1>2, <1>4, <2>1, <2>2, AllocTidy
<1>6. CASE buf.addr = 0 \/ idx.addr = 0
  <2>1. /\ ports' = [ports EXCEPT ![p].running = FALSE, ![p].blocks = n, ![p].read = 0]
        /\ ring' = ring
    BY <1>1, <1>6
  <2> HIDE DEF buf, idx
  <2>2. ports' \in [Audio!Ports -> PortRec] /\ (\A q \in Audio!Ports : ports'[q].read < ports'[q].blocks)
    <3> DEFINE new == [ports[p] EXCEPT !.running = FALSE, !.blocks = n, !.read = 0]
    <3>1. ports[p] \in PortRec
      BY <1>2, <1>3
    <3>2. new \in PortRec
      BY <1>3, <3>1 DEF PortRec
    <3>2a. new.read = 0 /\ new.blocks = n
      BY <3>1 DEF PortRec
    <3>3. ports' = [ports EXCEPT ![p] = new]
      BY <2>1
    <3>4. \A q \in Audio!Ports : ports[q].read < ports[q].blocks
      BY DEF AudioInv, AudioTypes
    <3> HIDE DEF new
    <3> QED BY <1>2, <1>3, <3>2, <3>2a, <3>3, <3>4
  <2>3. PortClaims(ports') = S
    <3>1. \A q \in Audio!Ports : ports'[q].inUse = ports[q].inUse
                   /\ (ports[q].inUse => /\ ports'[q].buf = ports[q].buf /\ ports'[q].idx = ports[q].idx
                                         /\ ports'[q].blocks = ports[q].blocks)
      BY <1>2, <1>3, <2>1 DEF PortRec
    <3> QED BY <3>1, SameClaims
  <2>4. AudioTypes'
    BY <1>1, <1>5, <2>1, <2>2 DEF AudioInv, AudioTypes
  <2>5. Tidy(PortClaims(ports) \cup FreeClaims(free), bump)'
    BY <1>1, <1>5, <2>3
  <2> QED BY <1>1, <2>1, <2>4, <2>5 DEF AudioInv, Audio!MovieClock, Audio!KeysOnce
<1>7. CASE buf.addr # 0 /\ idx.addr # 0
  <2> DEFINE d == Claim("ring", p, buf.addr, n)
             e == Claim("index", p, idx.addr, 1)
  <2>1. /\ ports' = [ports EXCEPT ![p] = [inUse |-> TRUE, running |-> FALSE, blocks |-> n,
                                          read |-> 0, buf |-> buf.addr, idx |-> idx.addr]]
        /\ ring' = [ring EXCEPT ![p] = Audio!NoRing]
    BY <1>1, <1>7
  <2>2. Tidy(S \cup {d} \cup {e} \cup FreeClaims(idx.free), idx.bump)
    <3>1. Tidy(S \cup {d} \cup FreeClaims(buf.free), buf.bump)
      BY <1>4, <1>7
    <3>2. \A f \in S \cup {d} : f.of # "free"
      BY PortClaimsAreNotFree, ClaimFields
    <3> HIDE DEF S, buf, idx, d
    <3>3. idx = Audio!Alloc(buf.bump, buf.free, 1) /\ 1 \in Nat \ {0}
      BY DEF idx
    <3> QED BY <1>2, <1>4, <1>7, <3>1, <3>2, <3>3, AllocTidy
  <2> HIDE DEF buf, idx, S
  <2>3. [inUse |-> TRUE, running |-> FALSE, blocks |-> n, read |-> 0, buf |-> buf.addr,
         idx |-> idx.addr] \in PortRec
    BY <1>3, <1>4, <1>5 DEF PortRec
  <2>4. ports' \in [Audio!Ports -> PortRec]
    BY <1>3, <2>1, <2>3
  <2>5. \A q \in Audio!Ports : ports'[q].read < ports'[q].blocks
    <3>1. \A q \in Audio!Ports : ports[q].read < ports[q].blocks
      BY DEF AudioInv, AudioTypes
    <3>2. ports'[p].read < ports'[p].blocks
      BY <1>2, <1>3, <2>1
    <3> QED BY <1>2, <1>3, <2>1, <3>1, <3>2
  <2>6. PortClaims(ports') = S \cup {d} \cup {e}
    <3>1. RingClaim(ports', p) = d /\ IndexClaim(ports', p) = e
      BY <1>2, <1>3, <2>1 DEF RingClaim, IndexClaim
    <3>2. ports'[p].inUse /\ \A q \in Audio!Ports \ {p} : ports'[q] = ports[q]
      BY <1>2, <1>3, <2>1
    <3>3. PortClaims(ports') = PortClaims(ports) \cup {RingClaim(ports', p)} \cup {IndexClaim(ports', p)}
      BY <1>2, <1>3, <2>4, <3>2, ClaimsOfPorts
    <3> QED BY <3>1, <3>3 DEF S
  <2>7. ring' \in [Audio!Ports -> RingRec] /\ \A q \in Audio!Ports : RingTrue(ring'[q])
    <3>1. Audio!NoRing \in RingRec /\ RingTrue(Audio!NoRing)
      BY FS_EmptySet DEF RingRec, Audio!NoRing, RingTrue
    <3> QED BY <1>3, <2>1, <3>1 DEF AudioInv
  <2>8. AudioTypes'
    BY <1>1, <1>5, <2>4, <2>5, <2>7 DEF AudioInv, AudioTypes
  <2>9. Tidy(PortClaims(ports) \cup FreeClaims(free), bump)'
    BY <1>1, <2>2, <2>6
  <2> QED BY <1>1, <2>7, <2>8, <2>9 DEF AudioInv, Audio!MovieClock, Audio!KeysOnce
<1> QED BY <1>6, <1>7

LEMMA PortCloses ==
  ASSUME AudioSizes, AudioInv, NEW c \in Callers, NEW p \in Audio!Ports, Audio!PortClose(c, p)
  PROVE  AudioInv'
<1> DEFINE r == RingClaim(ports, p)
           x == IndexClaim(ports, p)
           T == PortClaims(ports')
           once == Audio!Freed(free, ports[p].buf, ports[p].blocks)
<1>1. /\ UNCHANGED <<audio, bump, notify, mixer, stream, ring, acall>> /\ ports[p].inUse
      /\ free' = Audio!Freed(once, ports[p].idx, 1)
      /\ ports' = [ports EXCEPT ![p].inUse = FALSE, ![p].running = FALSE, ![p].buf = 0, ![p].idx = 0]
  BY DEF Audio!PortClose
<1>2. /\ ports \in [Audio!Ports -> PortRec] /\ bump \in Nat /\ free \in FreeTable /\ p \in Nat
      /\ ports[p].buf \in 0 .. Window /\ ports[p].idx \in 0 .. Window /\ ports[p].blocks \in Nat
      /\ Tidy(PortClaims(ports) \cup FreeClaims(free), bump)
  <2>1. /\ ports \in [Audio!Ports -> PortRec] /\ bump \in 1 .. Window + 1 /\ free \in FreeTable
        /\ Tidy(PortClaims(ports) \cup FreeClaims(free), bump)
    BY DEF AudioInv, AudioTypes
  <2>2. ports[p] \in PortRec
    BY <2>1
  <2>3. ports[p].buf \in 0 .. Window /\ ports[p].idx \in 0 .. Window /\ ports[p].blocks \in Nat
    BY <2>2 DEF PortRec
  <2>4. bump \in Nat /\ p \in Nat
    <3>1. Window \in Nat
      BY DEF AudioSizes
    <3> QED BY <2>1, <3>1 DEF Audio!Ports
  <2> QED BY <2>1, <2>3, <2>4
<1>3. /\ ports' \in [Audio!Ports -> PortRec] /\ ~ports'[p].inUse
      /\ \A q \in Audio!Ports \ {p} : ports'[q] = ports[q]
      /\ \A q \in Audio!Ports : ports'[q].read < ports'[q].blocks
  <2> DEFINE new == [ports[p] EXCEPT !.inUse = FALSE, !.running = FALSE, !.buf = 0, !.idx = 0]
  <2>1. ports[p] \in PortRec /\ 0 \in 0 .. Window
    <3>1. Window \in Nat
      BY DEF AudioSizes
    <3> QED BY <1>2, <3>1
  <2>2. \A q \in Audio!Ports : ports[q].read < ports[q].blocks
    BY DEF AudioInv, AudioTypes
  <2>3. new \in PortRec /\ ~new.inUse /\ new.read = ports[p].read /\ new.blocks = ports[p].blocks
    BY <2>1 DEF PortRec
  <2>4. ports' = [ports EXCEPT ![p] = new]
    BY <1>1
  <2> HIDE DEF new
  <2> QED BY <1>2, <2>2, <2>3, <2>4
<1>4. PortClaims(ports) = T \cup {r} \cup {x} /\ r \notin T \cup {x} /\ x \notin T
  <2>1. \A q \in Audio!Ports \ {p} :
          /\ ports'[q].inUse = ports[q].inUse /\ ports'[q].buf = ports[q].buf
          /\ ports'[q].idx = ports[q].idx /\ ports'[q].blocks = ports[q].blocks
    BY <1>3
  <2>2. /\ PortClaims(ports) = PortClaims(ports') \cup {RingClaim(ports, p)} \cup {IndexClaim(ports, p)}
        /\ RingClaim(ports, p) \notin PortClaims(ports') \cup {IndexClaim(ports, p)}
        /\ IndexClaim(ports, p) \notin PortClaims(ports')
    <3>1. ports[p].inUse /\ ~ports'[p].inUse /\ ports \in [Audio!Ports -> PortRec] /\ ports' \in [Audio!Ports -> PortRec]
      BY <1>1, <1>2, <1>3
    <3> HIDE DEF r, x, T, once
    <3> QED BY <2>1, <3>1, ClaimsOfPorts
  <2> QED BY <2>2
<1>5. once \in FreeTable /\ Tidy(T \cup {x} \cup FreeClaims(once), bump)
  <2>1. r = Claim("ring", p, ports[p].buf, ports[p].blocks)
    BY DEF RingClaim
  <2> DEFINE S == T \cup {x}
  <2>2. Tidy(S \cup {r} \cup FreeClaims(free), bump)
    <3>1. S \cup {r} \cup FreeClaims(free) = PortClaims(ports) \cup FreeClaims(free)
      BY <1>4
    <3> QED BY <1>2, <3>1
  <2>3. r \notin S
    BY <1>4
  <2> HIDE DEF S, r
  <2>4. once \in FreeTable /\ Tidy(S \cup FreeClaims(once), bump)
    BY <1>2, <2>1, <2>2, <2>3, FreedTidy
  <2> QED BY <2>4 DEF S
<1>6. free' \in FreeTable /\ Tidy(T \cup FreeClaims(free'), bump)
  <2>1. x = Claim("index", p, ports[p].idx, 1) /\ 1 \in Nat
    BY DEF IndexClaim
  <2> HIDE DEF T, x, once
  <2> QED BY <1>1, <1>2, <1>4, <1>5, <2>1, FreedTidy
<1>7. AudioTypes'
  BY <1>1, <1>3, <1>6 DEF AudioInv, AudioTypes
<1> QED BY <1>1, <1>6, <1>7 DEF AudioInv, Audio!MovieClock, Audio!KeysOnce

\* Steps of the same ports, window, rings and stream.
LEMMA AudioCalls ==
  ASSUME AudioInv, UNCHANGED <<ports, bump, free, ring, stream>>,
         notify' \in [Audio!Notifys -> Keys \cup {""}], Audio!KeysOnce',
         mixer' \in [pc : {"off", "mix", "notify"}, slot : Audio!Notifys],
         acall' \in [Callers -> [pc : {"idle", "start", "stop"}, port : Audio!Ports]]
  PROVE  AudioInv'
<1>1. AudioTypes'
  BY DEF AudioInv, AudioTypes
<1>2. Tidy(PortClaims(ports) \cup FreeClaims(free), bump)'
  <2>1. Tidy(PortClaims(ports) \cup FreeClaims(free), bump)
    BY DEF AudioInv
  <2> QED BY <2>1
<1>3. (\A p \in Audio!Ports : RingTrue(ring'[p])) /\ Audio!MovieClock'
  BY DEF AudioInv, Audio!MovieClock
<1> QED BY <1>1, <1>2, <1>3 DEF AudioInv

LEMMA AudioIdles == ASSUME AudioInv, UNCHANGED Audio!audioVars PROVE AudioInv'
<1>1. /\ UNCHANGED <<ports, bump, free, ring, stream>> /\ notify' = notify
      /\ mixer' = mixer /\ acall' = acall
  BY DEF Audio!audioVars
<1>2. /\ notify' \in [Audio!Notifys -> Keys \cup {""}]
      /\ mixer' \in [pc : {"off", "mix", "notify"}, slot : Audio!Notifys]
      /\ acall' \in [Callers -> [pc : {"idle", "start", "stop"}, port : Audio!Ports]]
  BY <1>1 DEF AudioInv, AudioTypes
<1>3. Audio!KeysOnce'
  BY <1>1 DEF AudioInv, Audio!KeysOnce
<1> QED BY <1>1, <1>2, <1>3, AudioCalls

LEMMA AudioStarts == ASSUME AudioSizes, AudioInv, Audio!InitAudio PROVE AudioInv'
<1>1. /\ ports' = [p \in Audio!Ports |-> Audio!NoPort] /\ ring' = [p \in Audio!Ports |-> Audio!NoRing]
      /\ notify' = [i \in Audio!Notifys |-> ""] /\ mixer' = [pc |-> "mix", slot |-> 1]
      /\ bump' = bump /\ free' = free /\ stream' = stream /\ acall' = acall
  BY DEF Audio!InitAudio
<1>2. ports' \in [Audio!Ports -> PortRec] /\ \A p \in Audio!Ports : ports'[p].read < ports'[p].blocks
  BY <1>1, NothingIsTyped
<1>3. /\ ring' \in [Audio!Ports -> RingRec] /\ notify' \in [Audio!Notifys -> Keys \cup {""}]
      /\ mixer' \in [pc : {"off", "mix", "notify"}, slot : Audio!Notifys]
  BY <1>1, NothingIsTyped
<1>4. AudioTypes'
  BY <1>1, <1>2, <1>3 DEF AudioInv, AudioTypes
<1>5. Tidy(PortClaims(ports) \cup FreeClaims(free), bump)'
  <2>1. Tidy(PortClaims(ports) \cup FreeClaims(free), bump)
    BY DEF AudioInv
  <2>2. \A p \in Audio!Ports : ~ports'[p].inUse
    BY <1>1, NothingIsTyped
  <2>3. PortClaims(ports') = {}
    BY <2>2, NoClaims
  <2>4. PortClaims(ports') \cup FreeClaims(free') \subseteq PortClaims(ports) \cup FreeClaims(free)
    BY <1>1, <2>3
  <2> QED BY <1>1, <2>1, <2>4, TidyLess
<1>6. \A p \in Audio!Ports : RingTrue(ring'[p])
  BY <1>1, NothingIsTyped
<1>7. Audio!MovieClock' /\ Audio!KeysOnce'
  BY <1>1 DEF AudioInv, Audio!MovieClock, Audio!KeysOnce
<1> QED BY <1>4, <1>5, <1>6, <1>7 DEF AudioInv

LEMMA AudioQuits == ASSUME AudioSizes, AudioInv, Audio!QuitFrees PROVE AudioInv'
<1>1. /\ ports' = [p \in Audio!Ports |-> [ports[p] EXCEPT !.inUse = FALSE, !.running = FALSE]]
      /\ stream' = Audio!NoStream
      /\ bump' = bump /\ free' = free /\ ring' = ring /\ notify' = notify /\ mixer' = mixer
      /\ acall' = acall
  BY DEF Audio!QuitFrees
<1>2. ports' \in [Audio!Ports -> PortRec] /\ \A p \in Audio!Ports : ~ports'[p].inUse /\ ports'[p].read < ports'[p].blocks
  <2> SUFFICES ASSUME NEW p \in Audio!Ports
               PROVE  /\ [ports[p] EXCEPT !.inUse = FALSE, !.running = FALSE] \in PortRec
                      /\ ~ports'[p].inUse /\ ports'[p].read < ports'[p].blocks
    BY <1>1
  <2>1. ports[p] \in PortRec /\ ports[p].read < ports[p].blocks
    BY DEF AudioInv, AudioTypes
  <2>2. ports'[p] = [ports[p] EXCEPT !.inUse = FALSE, !.running = FALSE]
    BY <1>1
  <2>3. [ports[p] EXCEPT !.inUse = FALSE, !.running = FALSE] \in PortRec
    BY <2>1 DEF PortRec
  <2>4. ~ports'[p].inUse /\ ports'[p].read = ports[p].read /\ ports'[p].blocks = ports[p].blocks
    BY <2>1, <2>2 DEF PortRec
  <2> QED BY <2>1, <2>3, <2>4
<1>3. AudioTypes'
  <2>1. stream' \in StreamRec /\ stream'.cursor <= stream'.frames
    BY <1>1, NothingIsTyped
  <2> QED BY <1>1, <1>2, <2>1 DEF AudioInv, AudioTypes
<1>4. Tidy(PortClaims(ports) \cup FreeClaims(free), bump)'
  <2>1. Tidy(PortClaims(ports) \cup FreeClaims(free), bump)
    BY DEF AudioInv
  <2>2. PortClaims(ports') = {}
    BY <1>2, NoClaims
  <2>3. PortClaims(ports') \cup FreeClaims(free') \subseteq PortClaims(ports) \cup FreeClaims(free)
    BY <1>1, <2>2
  <2> QED BY <1>1, <2>1, <2>3, TidyLess
<1>5. Audio!MovieClock' /\ Audio!KeysOnce' /\ \A p \in Audio!Ports : RingTrue(ring'[p])
  BY <1>1, NothingIsTyped DEF AudioInv, Audio!MovieClock, Audio!KeysOnce
<1> QED BY <1>3, <1>4, <1>5 DEF AudioInv

\* Ports that only run or stop, or read on.
LEMMA PortsPlayOn ==
  ASSUME AudioInv, ports' \in [Audio!Ports -> PortRec],
         \A q \in Audio!Ports : /\ ports'[q].inUse = ports[q].inUse /\ ports'[q].buf = ports[q].buf
                                /\ ports'[q].idx = ports[q].idx /\ ports'[q].blocks = ports[q].blocks
                                /\ ports'[q].read < ports'[q].blocks,
         ring' \in [Audio!Ports -> RingRec], \A q \in Audio!Ports : RingTrue(ring'[q]),
         stream' \in StreamRec, stream'.cursor <= stream'.frames, Audio!MovieClock',
         mixer' \in [pc : {"off", "mix", "notify"}, slot : Audio!Notifys],
         acall' \in [Callers -> [pc : {"idle", "start", "stop"}, port : Audio!Ports]],
         UNCHANGED <<bump, free, notify>>
  PROVE  AudioInv'
<1>1. PortClaims(ports') = PortClaims(ports)
  BY SameClaims
<1>2. AudioTypes'
  BY DEF AudioInv, AudioTypes
<1>3. Tidy(PortClaims(ports) \cup FreeClaims(free), bump)'
  <2>1. Tidy(PortClaims(ports) \cup FreeClaims(free), bump)
    BY DEF AudioInv
  <2> QED BY <1>1, <2>1
<1>4. Audio!KeysOnce'
  BY DEF AudioInv, Audio!KeysOnce
<1> QED BY <1>2, <1>3, <1>4 DEF AudioInv

LEMMA PortSets == ASSUME AudioSizes, AudioInv, NEW c \in Callers, Audio!Sets(c) PROVE AudioInv'
<1> DEFINE p == acall[c].port
           now == acall[c].pc = "start"
<1>1. /\ ports' = [ports EXCEPT ![p].running = now] /\ acall' = [acall EXCEPT ![c] = Audio!NoCall]
      /\ ring' = ring /\ stream' = stream /\ mixer' = mixer /\ UNCHANGED <<bump, free, notify>>
  BY DEF Audio!Sets
<1>2. /\ p \in Audio!Ports /\ ports \in [Audio!Ports -> PortRec]
      /\ \A q \in Audio!Ports : ports[q].read < ports[q].blocks
  BY DEF AudioInv, AudioTypes
<1> DEFINE new == [ports[p] EXCEPT !.running = now]
<1>3. /\ new \in PortRec /\ new.inUse = ports[p].inUse /\ new.buf = ports[p].buf
      /\ new.idx = ports[p].idx /\ new.blocks = ports[p].blocks /\ new.read = ports[p].read
  <2>1. ports[p] \in PortRec
    BY <1>2
  <2>2. now \in BOOLEAN
    OBVIOUS
  <2> HIDE DEF now, p
  <2> QED BY <2>1, <2>2 DEF PortRec
<1>4. ports' = [ports EXCEPT ![p] = new]
  BY <1>1
<1>5. /\ ports' \in [Audio!Ports -> PortRec]
      /\ \A q \in Audio!Ports : /\ ports'[q].inUse = ports[q].inUse /\ ports'[q].buf = ports[q].buf
                                /\ ports'[q].idx = ports[q].idx /\ ports'[q].blocks = ports[q].blocks
                                /\ ports'[q].read < ports'[q].blocks
  <2> HIDE DEF new, p
  <2> QED BY <1>2, <1>3, <1>4
<1>6. acall' \in [Callers -> [pc : {"idle", "start", "stop"}, port : Audio!Ports]]
  BY <1>1, NothingIsTyped DEF AudioInv, AudioTypes
<1>7. /\ ring' \in [Audio!Ports -> RingRec] /\ (\A q \in Audio!Ports : RingTrue(ring'[q]))
      /\ stream' \in StreamRec /\ stream'.cursor <= stream'.frames /\ Audio!MovieClock'
      /\ mixer' \in [pc : {"off", "mix", "notify"}, slot : Audio!Notifys]
  BY <1>1 DEF AudioInv, AudioTypes, Audio!MovieClock
<1> QED BY <1>1, <1>5, <1>6, <1>7, PortsPlayOn

LEMMA PortFeeds ==
  ASSUME AudioSizes, AudioInv, NEW c \in Callers, NEW p \in Audio!Ports, NEW b \in Nat,
         Audio!Feed(c, p, b)
  PROVE  AudioInv'
<1> DEFINE new == [ring[p] EXCEPT !.full = @ \cup {b}, !.fed = @ + 1]
<1>1. /\ ring' = [ring EXCEPT ![p] = new] /\ b \notin ring[p].full
      /\ ports' = ports /\ stream' = stream /\ mixer' = mixer /\ acall' = acall
      /\ UNCHANGED <<bump, free, notify>>
  BY DEF Audio!Feed
<1>2. ring \in [Audio!Ports -> RingRec] /\ (\A q \in Audio!Ports : RingTrue(ring[q])) /\ ring[p] \in RingRec
  BY DEF AudioInv, AudioTypes
<1>3. new \in RingRec /\ RingTrue(new)
  <2>1. new.full = ring[p].full \cup {b} /\ new.fed = ring[p].fed + 1 /\ new.played = ring[p].played
    BY <1>2 DEF RingRec
  <2>2. ring[p].full \in SUBSET Nat /\ ring[p].fed \in Nat /\ ring[p].played \in Nat
    BY <1>2 DEF RingRec
  <2>3. IsFiniteSet(ring[p].full) /\ ring[p].fed = ring[p].played + Cardinality(ring[p].full)
    BY <1>2 DEF RingTrue
  <2>4. /\ IsFiniteSet(ring[p].full \cup {b})
        /\ Cardinality(ring[p].full \cup {b}) = Cardinality(ring[p].full) + 1
        /\ Cardinality(ring[p].full) \in Nat
    BY <1>1, <2>3, FS_AddElement, FS_CardinalityType
  <2>5. new \in RingRec
    <3>1. ring[p].full \cup {b} \in SUBSET Nat /\ ring[p].fed + 1 \in Nat
      BY <2>2
    <3> QED BY <1>2, <3>1 DEF RingRec
  <2> HIDE DEF new
  <2> QED BY <2>1, <2>2, <2>3, <2>4, <2>5 DEF RingTrue
<1>4. ring' \in [Audio!Ports -> RingRec] /\ \A q \in Audio!Ports : RingTrue(ring'[q])
  <2> HIDE DEF new
  <2> QED BY <1>1, <1>2, <1>3
<1>5. /\ ports' \in [Audio!Ports -> PortRec]
      /\ \A q \in Audio!Ports : /\ ports'[q].inUse = ports[q].inUse /\ ports'[q].buf = ports[q].buf
                                /\ ports'[q].idx = ports[q].idx /\ ports'[q].blocks = ports[q].blocks
                                /\ ports'[q].read < ports'[q].blocks
  BY <1>1 DEF AudioInv, AudioTypes
<1>6. /\ stream' \in StreamRec /\ stream'.cursor <= stream'.frames /\ Audio!MovieClock'
      /\ mixer' \in [pc : {"off", "mix", "notify"}, slot : Audio!Notifys]
      /\ acall' \in [Callers -> [pc : {"idle", "start", "stop"}, port : Audio!Ports]]
  BY <1>1 DEF AudioInv, AudioTypes, Audio!MovieClock
<1> QED BY <1>1, <1>4, <1>5, <1>6, PortsPlayOn

LEMMA PortAsks ==
  ASSUME AudioInv, NEW c \in Callers, NEW p \in Audio!Ports, NEW running \in BOOLEAN, Audio!Asks(c, p, running)
  PROVE  AudioInv'
<1>1. /\ UNCHANGED <<ports, bump, free, ring, stream>> /\ notify' = notify /\ mixer' = mixer
      /\ acall' = [acall EXCEPT ![c] = [pc |-> IF running THEN "start" ELSE "stop", port |-> p]]
  BY DEF Audio!Asks
<1>2. [pc |-> IF running THEN "start" ELSE "stop", port |-> p]
        \in [pc : {"idle", "start", "stop"}, port : Audio!Ports]
  OBVIOUS
<1>3. /\ acall' \in [Callers -> [pc : {"idle", "start", "stop"}, port : Audio!Ports]]
      /\ mixer' \in [pc : {"off", "mix", "notify"}, slot : Audio!Notifys]
      /\ notify' \in [Audio!Notifys -> Keys \cup {""}]
  BY <1>1, <1>2 DEF AudioInv, AudioTypes
<1>4. Audio!KeysOnce'
  BY <1>1 DEF AudioInv, Audio!KeysOnce
<1> QED BY <1>1, <1>3, <1>4, AudioCalls

LEMMA NotifySets ==
  ASSUME AudioSizes, AudioInv, NEW c \in Callers, NEW k \in Keys, Audio!SetNotify(c, k)
  PROVE  AudioInv'
<1> DEFINE empty == {i \in Audio!Notifys : notify[i] = ""}
           i == Audio!Least(empty)
<1>1. /\ UNCHANGED <<ports, bump, free, ring, stream>> /\ mixer' = mixer /\ acall' = acall
      /\ (\A j \in Audio!Notifys : notify[j] # k) /\ empty # {} /\ notify' = [notify EXCEPT ![i] = k]
  BY DEF Audio!SetNotify
<1>2. i \in Audio!Notifys /\ notify[i] = ""
  <2>1. empty \in SUBSET Nat
    <3>1. Audio!Notifys \subseteq Nat
      BY DEF Audio!Notifys
    <3>2. empty \subseteq Audio!Notifys
      OBVIOUS
    <3> HIDE DEF empty
    <3> QED BY <3>1, <3>2
  <2>2. i \in empty
    BY <1>1, <2>1, LeastIsIn
  <2> QED BY <2>2
<1> HIDE DEF i
<1>3. notify \in [Audio!Notifys -> Keys \cup {""}]
  BY DEF AudioInv, AudioTypes
<1>4. /\ acall' \in [Callers -> [pc : {"idle", "start", "stop"}, port : Audio!Ports]]
      /\ mixer' \in [pc : {"off", "mix", "notify"}, slot : Audio!Notifys]
      /\ notify' \in [Audio!Notifys -> Keys \cup {""}]
  BY <1>1, <1>3 DEF AudioInv, AudioTypes
<1>5. Audio!KeysOnce'
  BY <1>1, <1>2, <1>3 DEF AudioInv, Audio!KeysOnce
<1> QED BY <1>1, <1>4, <1>5, AudioCalls

LEMMA NotifyRemoves ==
  ASSUME AudioSizes, AudioInv, NEW c \in Callers, NEW k \in Keys, Audio!RemoveNotify(c, k)
  PROVE  AudioInv'
<1> DEFINE same == {i \in Audio!Notifys : notify[i] = k}
           i == Audio!Least(same)
<1>1. /\ UNCHANGED <<ports, bump, free, ring, stream>> /\ mixer' = mixer /\ acall' = acall
      /\ notify' = [notify EXCEPT ![i] = ""]
  BY DEF Audio!RemoveNotify
<1> HIDE DEF i
<1>2. notify \in [Audio!Notifys -> Keys \cup {""}]
  BY DEF AudioInv, AudioTypes
<1>3. /\ acall' \in [Callers -> [pc : {"idle", "start", "stop"}, port : Audio!Ports]]
      /\ mixer' \in [pc : {"off", "mix", "notify"}, slot : Audio!Notifys]
      /\ notify' \in [Audio!Notifys -> Keys \cup {""}]
  BY <1>1, <1>2 DEF AudioInv, AudioTypes
<1>4. Audio!KeysOnce'
  BY <1>1, <1>2 DEF AudioInv, Audio!KeysOnce
<1> QED BY <1>1, <1>3, <1>4, AudioCalls

LEMMA MixerMoves ==
  ASSUME AudioSizes, AudioInv, Audio!NotifySlot \/ Audio!MixerEnds
  PROVE  AudioInv'
<1>1. /\ UNCHANGED <<ports, bump, free, ring, stream>> /\ notify' = notify /\ acall' = acall
      /\ \/ mixer' = [mixer EXCEPT !.slot = @ + 1] /\ mixer.slot < NumNotify
         \/ mixer' = [pc |-> "mix", slot |-> 1]
         \/ mixer' = [mixer EXCEPT !.pc = "off"]
  BY DEF Audio!NotifySlot, Audio!MixerEnds
<1>2. mixer \in [pc : {"off", "mix", "notify"}, slot : Audio!Notifys] /\ NumNotify \in Nat
  BY DEF AudioInv, AudioTypes, AudioSizes
<1>3. mixer' \in [pc : {"off", "mix", "notify"}, slot : Audio!Notifys]
  <2>1. CASE mixer' = [mixer EXCEPT !.slot = @ + 1] /\ mixer.slot < NumNotify
    <3>1. mixer.slot + 1 \in Audio!Notifys
      BY <1>2, <2>1 DEF Audio!Notifys
    <3> QED BY <1>2, <2>1, <3>1
  <2>2. CASE mixer' = [pc |-> "mix", slot |-> 1]
    BY <2>2, NothingIsTyped
  <2>3. CASE mixer' = [mixer EXCEPT !.pc = "off"]
    BY <1>2, <2>3
  <2> QED BY <1>1, <2>1, <2>2, <2>3
<1>4. /\ acall' \in [Callers -> [pc : {"idle", "start", "stop"}, port : Audio!Ports]]
      /\ notify' \in [Audio!Notifys -> Keys \cup {""}]
  BY <1>1 DEF AudioInv, AudioTypes
<1>5. Audio!KeysOnce'
  BY <1>1 DEF AudioInv, Audio!KeysOnce
<1> QED BY <1>1, <1>3, <1>4, <1>5, AudioCalls

\* The stream starts and stops.
LEMMA StreamMoves ==
  ASSUME AudioSizes, AudioInv,
         (\E n \in Movies, mute \in BOOLEAN : Audio!StreamStart(n, mute)) \/ Audio!StreamStop
  PROVE  AudioInv'
<1>1. /\ ports' = ports /\ ring' = ring /\ mixer' = mixer /\ acall' = acall
      /\ UNCHANGED <<bump, free, notify>>
  BY DEF Audio!StreamStart, Audio!StreamStop
<1>2. stream' \in StreamRec /\ stream'.cursor <= stream'.frames /\ ~stream'.finished
  <2>1. ASSUME NEW n \in Movies, NEW mute \in BOOLEAN, Audio!StreamStart(n, mute)
        PROVE  stream' \in StreamRec /\ stream'.cursor <= stream'.frames /\ ~stream'.finished
    <3>1. stream' = [present |-> TRUE, finished |-> FALSE, mute |-> mute, cursor |-> 0, frames |-> n]
      BY <2>1 DEF Audio!StreamStart
    <3>2. n \in Nat
      BY DEF AudioSizes
    <3> QED BY <3>1, <3>2 DEF StreamRec
  <2>2. ASSUME Audio!StreamStop
        PROVE  stream' \in StreamRec /\ stream'.cursor <= stream'.frames /\ ~stream'.finished
    BY <2>2, NothingIsTyped DEF Audio!StreamStop
  <2> QED BY <2>1, <2>2
<1>3. Audio!MovieClock'
  BY <1>2 DEF Audio!MovieClock
<1>4. /\ ports' \in [Audio!Ports -> PortRec]
      /\ \A q \in Audio!Ports : /\ ports'[q].inUse = ports[q].inUse /\ ports'[q].buf = ports[q].buf
                                /\ ports'[q].idx = ports[q].idx /\ ports'[q].blocks = ports[q].blocks
                                /\ ports'[q].read < ports'[q].blocks
  BY <1>1 DEF AudioInv, AudioTypes
<1>5. /\ ring' \in [Audio!Ports -> RingRec] /\ (\A q \in Audio!Ports : RingTrue(ring'[q]))
      /\ mixer' \in [pc : {"off", "mix", "notify"}, slot : Audio!Notifys]
      /\ acall' \in [Callers -> [pc : {"idle", "start", "stop"}, port : Audio!Ports]]
  BY <1>1 DEF AudioInv, AudioTypes
<1> QED BY <1>1, <1>2, <1>3, <1>4, <1>5, PortsPlayOn

\* The block that is played is silent afterwards.
LEMMA RingPlays ==
  ASSUME AudioInv, NEW p \in Audio!Ports
  PROVE  Audio!RingPlayed(p) \in RingRec /\ RingTrue(Audio!RingPlayed(p))
<1> DEFINE b == Audio!Block(p)
           r == ring[p]
           new == Audio!RingPlayed(p)
<1>1. r \in RingRec /\ RingTrue(r)
  BY DEF AudioInv, AudioTypes
<1>2. /\ r.full \in SUBSET Nat /\ r.fed \in Nat /\ r.played \in Nat
      /\ IsFiniteSet(r.full) /\ r.fed = r.played + Cardinality(r.full)
  BY <1>1 DEF RingRec, RingTrue
<1>3. /\ new.full = r.full \ {b} /\ new.fed = r.fed
      /\ new.played = IF b \in r.full THEN r.played + 1 ELSE r.played
  BY <1>1 DEF Audio!RingPlayed, RingRec
<1>4. new \in RingRec
  <2>1. r.full \ {b} \in SUBSET Nat /\ (IF b \in r.full THEN r.played + 1 ELSE r.played) \in Nat
    BY <1>2
  <2> HIDE DEF b
  <2> QED BY <1>1, <2>1 DEF Audio!RingPlayed, RingRec, b
<1>5. /\ IsFiniteSet(r.full \ {b}) /\ Cardinality(r.full) \in Nat
      /\ Cardinality(r.full \ {b}) = IF b \in r.full THEN Cardinality(r.full) - 1 ELSE Cardinality(r.full)
  BY <1>2, FS_RemoveElement, FS_CardinalityType
<1> HIDE DEF b, r, new
<1>6. RingTrue(new)
  BY <1>2, <1>3, <1>5 DEF RingTrue
<1> QED BY <1>4, <1>6 DEF new

\* The stream is finished when a frame was missing, and then all were played.
LEMMA StreamPlays ==
  ASSUME AudioSizes, AudioInv
  PROVE  /\ Audio!StreamPlayed \in StreamRec /\ Audio!StreamPlayed.cursor <= Audio!StreamPlayed.frames
         /\ Audio!StreamPlayed.finished => Audio!StreamPlayed.present /\ Audio!StreamPlayed.cursor = Audio!StreamPlayed.frames
<1> DEFINE next == stream.cursor + BlockFrames
           cursor == IF next > stream.frames THEN stream.frames ELSE next
           finished == stream.finished \/ next > stream.frames
           new == [stream EXCEPT !.cursor = cursor, !.finished = finished]
<1>1. /\ stream \in StreamRec /\ stream.cursor <= stream.frames
      /\ stream.finished => stream.present /\ stream.cursor = stream.frames
  BY DEF AudioInv, AudioTypes, Audio!MovieClock
<1>2. CASE ~stream.present
  BY <1>1, <1>2 DEF Audio!StreamPlayed
<1>3. CASE stream.present
  <2>1. stream.cursor \in Nat /\ stream.frames \in Nat /\ BlockFrames \in Nat \ {0}
    BY <1>1 DEF StreamRec, AudioSizes
  <2>2. cursor \in Nat /\ cursor <= stream.frames /\ (finished => cursor = stream.frames)
    BY <1>1, <2>1
  <2>3. finished \in BOOLEAN
    OBVIOUS
  <2>4. Audio!StreamPlayed = new
    BY <1>3 DEF Audio!StreamPlayed
  <2> HIDE DEF cursor, finished, next
  <2>5. new \in StreamRec
    BY <1>1, <2>2, <2>3 DEF StreamRec
  <2>6. /\ new.cursor = cursor /\ new.frames = stream.frames /\ new.present = stream.present
        /\ new.finished = finished
    BY <1>1 DEF StreamRec
  <2> HIDE DEF new
  <2> QED BY <1>3, <2>2, <2>4, <2>5, <2>6
<1> QED BY <1>2, <1>3

LEMMA MixerMixes == ASSUME AudioSizes, AudioInv, Audio!MixBlock PROVE AudioInv'
<1>1. /\ ring' = [p \in Audio!Ports |-> IF Audio!Plays(p) THEN Audio!RingPlayed(p) ELSE ring[p]]
      /\ ports' = [p \in Audio!Ports |->
                     IF Audio!Plays(p) THEN [ports[p] EXCEPT !.read = (@ + 1) % ports[p].blocks]
                     ELSE ports[p]]
      /\ stream' = Audio!StreamPlayed /\ mixer' = [pc |-> "notify", slot |-> 1]
      /\ UNCHANGED <<bump, free, notify>> /\ acall' = acall
  BY DEF Audio!MixBlock
<1>2. ring' \in [Audio!Ports -> RingRec] /\ \A q \in Audio!Ports : RingTrue(ring'[q])
  <2>1. ring \in [Audio!Ports -> RingRec] /\ \A q \in Audio!Ports : RingTrue(ring[q])
    BY DEF AudioInv, AudioTypes
  <2>2. \A q \in Audio!Ports : Audio!RingPlayed(q) \in RingRec /\ RingTrue(Audio!RingPlayed(q))
    BY RingPlays
  <2> QED BY <1>1, <2>1, <2>2
<1>3. ASSUME NEW q \in Audio!Ports
      PROVE  LET new == [ports[q] EXCEPT !.read = (@ + 1) % ports[q].blocks] IN
             /\ new \in PortRec /\ new.inUse = ports[q].inUse /\ new.buf = ports[q].buf
             /\ new.idx = ports[q].idx /\ new.blocks = ports[q].blocks /\ new.read < new.blocks
  <2> DEFINE new == [ports[q] EXCEPT !.read = (@ + 1) % ports[q].blocks]
             at == (ports[q].read + 1) % ports[q].blocks
  <2>1. ports[q] \in PortRec
    BY DEF AudioInv, AudioTypes
  <2>2. ports[q].read \in Nat /\ ports[q].blocks \in Nat \ {0}
    BY <2>1 DEF PortRec
  <2>3. at \in Nat /\ at < ports[q].blocks
    BY <2>2
  <2> HIDE DEF at
  <2>4. new = [ports[q] EXCEPT !.read = at]
    BY DEF at
  <2> HIDE DEF new
  <2>5. new \in PortRec
    BY <2>1, <2>3, <2>4 DEF PortRec
  <2>6. /\ new.inUse = ports[q].inUse /\ new.buf = ports[q].buf
        /\ new.idx = ports[q].idx /\ new.blocks = ports[q].blocks /\ new.read = at
    BY <2>1, <2>4 DEF PortRec
  <2>7. /\ new \in PortRec /\ new.inUse = ports[q].inUse /\ new.buf = ports[q].buf
        /\ new.idx = ports[q].idx /\ new.blocks = ports[q].blocks /\ new.read < new.blocks
    BY <2>3, <2>5, <2>6
  <2> QED BY <2>7 DEF new
<1>4. /\ ports' \in [Audio!Ports -> PortRec]
      /\ \A q \in Audio!Ports : /\ ports'[q].inUse = ports[q].inUse /\ ports'[q].buf = ports[q].buf
                                /\ ports'[q].idx = ports[q].idx /\ ports'[q].blocks = ports[q].blocks
                                /\ ports'[q].read < ports'[q].blocks
  <2>1. ports \in [Audio!Ports -> PortRec] /\ \A q \in Audio!Ports : ports[q].read < ports[q].blocks
    BY DEF AudioInv, AudioTypes
  <2>2. ASSUME NEW q \in Audio!Ports
        PROVE  /\ ports'[q] \in PortRec /\ ports'[q].inUse = ports[q].inUse /\ ports'[q].buf = ports[q].buf
               /\ ports'[q].idx = ports[q].idx /\ ports'[q].blocks = ports[q].blocks
               /\ ports'[q].read < ports'[q].blocks
    <3>1. CASE Audio!Plays(q)
      <4>1. ports'[q] = [ports[q] EXCEPT !.read = (@ + 1) % ports[q].blocks]
        BY <1>1, <3>1
      <4> QED BY <1>3, <4>1
    <3>2. CASE ~Audio!Plays(q)
      BY <1>1, <2>1, <3>2
    <3> QED BY <3>1, <3>2
  <2>3. ports' \in [Audio!Ports -> PortRec]
    <3>1. \A q \in Audio!Ports : ports'[q] \in PortRec
      BY <2>2
    <3> DEFINE F(q) == IF Audio!Plays(q) THEN [ports[q] EXCEPT !.read = (@ + 1) % ports[q].blocks] ELSE ports[q]
    <3>2. ports' = [q \in Audio!Ports |-> F(q)]
      BY <1>1
    <3> HIDE DEF F
    <3> QED BY <3>1, <3>2
  <2> QED BY <2>2, <2>3
<1>5. stream' \in StreamRec /\ stream'.cursor <= stream'.frames /\ Audio!MovieClock'
  <2>1. stream' = Audio!StreamPlayed
    BY <1>1
  <2>2. Audio!MovieClock' <=> (stream'.finished => stream'.present /\ stream'.cursor = stream'.frames)
    BY DEF Audio!MovieClock
  <2> QED BY <2>1, <2>2, StreamPlays
<1>6. /\ mixer' \in [pc : {"off", "mix", "notify"}, slot : Audio!Notifys]
      /\ acall' \in [Callers -> [pc : {"idle", "start", "stop"}, port : Audio!Ports]]
  BY <1>1, NothingIsTyped DEF AudioInv, AudioTypes
<1> QED BY <1>1, <1>2, <1>4, <1>5, <1>6, PortsPlayOn

LEMMA AudioNextInv == ASSUME AudioSizes, AudioInv, Audio!Next PROVE AudioInv'
<1>1. ASSUME Audio!InitAudio PROVE AudioInv'
  BY <1>1, AudioStarts
<1>2. ASSUME Audio!QuitStops PROVE AudioInv'
  <2>1. /\ UNCHANGED <<ports, bump, free, ring, stream>> /\ notify' = notify /\ mixer' = mixer
        /\ acall' = acall
    BY <1>2 DEF Audio!QuitStops
  <2>2. Audio!KeysOnce' /\ /\ notify' \in [Audio!Notifys -> Keys \cup {""}]
                         /\ mixer' \in [pc : {"off", "mix", "notify"}, slot : Audio!Notifys]
                         /\ acall' \in [Callers -> [pc : {"idle", "start", "stop"}, port : Audio!Ports]]
    BY <2>1 DEF AudioInv, AudioTypes, Audio!KeysOnce
  <2> QED BY <2>1, <2>2, AudioCalls
<1>3. ASSUME Audio!QuitFrees PROVE AudioInv'
  BY <1>3, AudioQuits
<1>4. ASSUME (\E n \in Movies, mute \in BOOLEAN : Audio!StreamStart(n, mute)) \/ Audio!StreamStop
      PROVE AudioInv'
  BY <1>4, StreamMoves
<1>5. ASSUME NEW c \in Callers, NEW n \in BlockCounts, Audio!PortOpen(c, n) PROVE AudioInv'
  BY <1>5, PortOpens
<1>6. ASSUME NEW c \in Callers, NEW p \in Audio!Ports, Audio!PortClose(c, p) PROVE AudioInv'
  BY <1>6, PortCloses
<1>7. ASSUME NEW c \in Callers, NEW p \in Audio!Ports, NEW running \in BOOLEAN, Audio!Asks(c, p, running)
      PROVE  AudioInv'
  BY <1>7, PortAsks
<1>8. ASSUME NEW c \in Callers, NEW p \in Audio!Ports, NEW b \in 0 .. 3, Audio!Feed(c, p, b)
      PROVE AudioInv'
  <2>1. b \in Nat
    OBVIOUS
  <2> QED BY <1>8, <2>1, PortFeeds
<1>9. ASSUME NEW c \in Callers, Audio!Sets(c) PROVE AudioInv'
  BY <1>9, PortSets
<1>10. ASSUME NEW c \in Callers, NEW k \in Keys, Audio!SetNotify(c, k) PROVE AudioInv'
  BY <1>10, NotifySets
<1>11. ASSUME NEW c \in Callers, NEW k \in Keys, Audio!RemoveNotify(c, k) PROVE AudioInv'
  BY <1>11, NotifyRemoves
<1>12. ASSUME Audio!MixBlock PROVE AudioInv'
  BY <1>12, MixerMixes
<1>13. ASSUME Audio!NotifySlot \/ Audio!MixerEnds PROVE AudioInv'
  BY <1>13, MixerMoves
<1> QED
  BY <1>1, <1>2, <1>3, <1>4, <1>5, <1>6, <1>7, <1>8, <1>9, <1>10, <1>11, <1>12, <1>13
     DEF Audio!Next

-----------------------------------------------------------------------------
(* What the invariant says *)

\* A set and what a function makes of it, when it makes different things of different members.
LEMMA AsManyImages ==
  ASSUME NEW S, IsFiniteSet(S), NEW f, f = [x \in S |-> f[x]],
         \A x, y \in S : f[x] = f[y] => x = y
  PROVE  /\ IsFiniteSet({f[x] : x \in S})
         /\ Cardinality({f[x] : x \in S}) = Cardinality(S)
<1> DEFINE T == {f[x] : x \in S}
<1>1. f \in Bijection(S, T)
  BY DEF Bijection, Injection, Surjection, IsInjective
<1>2. ExistsBijection(S, T)
  BY <1>1 DEF ExistsBijection
<1> HIDE DEF T
<1>3. IsFiniteSet(T) /\ Cardinality(T) = Cardinality(S)
  BY <1>2, FS_Bijection
<1> QED BY <1>3 DEF T

\* The units of a claim, and that tidy claims have their own.
ClaimUnits(c) == Audio!Units(c.addr, c.size)

LEMMA TidyUnits ==
  ASSUME NEW S, NEW at \in Nat, Tidy(S, at)
  PROVE  /\ \A c, d \in S : c # d => ClaimUnits(c) \cap ClaimUnits(d) = {}
         /\ \A c \in S : ClaimUnits(c) # {} /\ ClaimUnits(c) \subseteq 1 .. at - 1
<1>1. ASSUME NEW c \in S
      PROVE  /\ c.addr \in Nat /\ c.size \in Nat /\ c.addr >= 1 /\ c.size >= 1
             /\ c.addr + c.size <= at /\ ClaimUnits(c) = c.addr .. c.addr + c.size - 1
  BY DEF Tidy, Claims, ClaimUnits, Audio!Units
<1>2. ASSUME NEW c \in S, NEW d \in S, c # d
      PROVE  ClaimUnits(c) \cap ClaimUnits(d) = {}
  <2>1. /\ c.addr \in Nat /\ c.size \in Nat /\ ClaimUnits(c) = c.addr .. c.addr + c.size - 1
        /\ d.addr \in Nat /\ d.size \in Nat /\ ClaimUnits(d) = d.addr .. d.addr + d.size - 1
    BY <1>1
  <2>2. c.addr + c.size <= d.addr \/ d.addr + d.size <= c.addr
    BY <1>2 DEF Tidy, Apart
  <2> QED BY <2>1, <2>2
<1>3. ASSUME NEW c \in S
      PROVE  ClaimUnits(c) # {} /\ ClaimUnits(c) \subseteq 1 .. at - 1
  <2>1. c.addr \in ClaimUnits(c)
    BY <1>1
  <2> QED BY <1>1, <2>1
<1> QED BY <1>2, <1>3

\* The parts of the window are the units of the claims.
LEMMA PartsAreClaimed ==
  Audio!Parts = {ClaimUnits(c) : c \in PortClaims(ports) \cup FreeClaims(free)}
<1>1. \A p \in Open(ports) : /\ ClaimUnits(RingClaim(ports, p)) = Audio!Units(ports[p].buf, ports[p].blocks)
                            /\ ClaimUnits(IndexClaim(ports, p)) = Audio!Units(ports[p].idx, 1)
  BY ClaimFields DEF ClaimUnits, RingClaim, IndexClaim
<1>2. \A i \in Kept(free) : ClaimUnits(FreeClaim(free, i)) = Audio!Units(free[i].addr, free[i].size)
  BY ClaimFields DEF ClaimUnits, FreeClaim
<1>3. Audio!Parts = {Audio!Units(ports[p].buf, ports[p].blocks) : p \in Open(ports)}
              \cup {Audio!Units(ports[p].idx, 1) : p \in Open(ports)}
              \cup {Audio!Units(free[i].addr, free[i].size) : i \in Kept(free)}
  BY DEF Audio!Parts, Open, Kept
<1> HIDE DEF Audio!Parts
<1> QED BY <1>1, <1>2, <1>3 DEF PortClaims, FreeClaims

\* Two claims for each open port, one for each freed block.
LEMMA ClaimsAreCounted ==
  ASSUME AudioSizes, NEW P, NEW table
  PROVE  /\ IsFiniteSet(PortClaims(P) \cup FreeClaims(table))
         /\ Cardinality(PortClaims(P) \cup FreeClaims(table)) =
               2 * Cardinality(Open(P)) + Cardinality(Kept(table))
<1> DEFINE f == [p \in Open(P) |-> RingClaim(P, p)]
           g == [p \in Open(P) |-> IndexClaim(P, p)]
           h == [i \in Kept(table) |-> FreeClaim(table, i)]
           R == {f[p] : p \in Open(P)}
           X == {g[p] : p \in Open(P)}
           F == {h[i] : i \in Kept(table)}
<1>1. IsFiniteSet(Open(P)) /\ IsFiniteSet(Kept(table))
  <2>1. NumPorts \in Nat /\ FreeMax \in Nat
    BY DEF AudioSizes
  <2>2. IsFiniteSet(1 .. NumPorts) /\ IsFiniteSet(1 .. FreeMax)
    BY <2>1, FS_Interval
  <2>3. Open(P) \subseteq 1 .. NumPorts /\ Kept(table) \subseteq 1 .. FreeMax
    BY DEF Open, Kept, Audio!Ports
  <2> QED BY <2>2, <2>3, FS_Subset
<1>2. /\ \A p \in Open(P) : f[p] = RingClaim(P, p) /\ g[p] = IndexClaim(P, p)
      /\ \A i \in Kept(table) : h[i] = FreeClaim(table, i)
  OBVIOUS
<1>3. /\ \A p \in Open(P) : f[p].nr = p /\ f[p].of = "ring" /\ g[p].nr = p /\ g[p].of = "index"
      /\ \A i \in Kept(table) : h[i].nr = i /\ h[i].of = "free"
  BY <1>2, ClaimFields DEF RingClaim, IndexClaim, FreeClaim
<1>4. IsFiniteSet(R) /\ Cardinality(R) = Cardinality(Open(P))
  <2>1. f = [p \in Open(P) |-> f[p]] /\ \A p, q \in Open(P) : f[p] = f[q] => p = q
    BY <1>3
  <2> HIDE DEF f
  <2> QED BY <1>1, <2>1, AsManyImages
<1>5. IsFiniteSet(X) /\ Cardinality(X) = Cardinality(Open(P))
  <2>1. g = [p \in Open(P) |-> g[p]] /\ \A p, q \in Open(P) : g[p] = g[q] => p = q
    BY <1>3
  <2> HIDE DEF g
  <2> QED BY <1>1, <2>1, AsManyImages
<1>6. IsFiniteSet(F) /\ Cardinality(F) = Cardinality(Kept(table))
  <2>1. h = [i \in Kept(table) |-> h[i]] /\ \A i, j \in Kept(table) : h[i] = h[j] => i = j
    BY <1>3
  <2> HIDE DEF h
  <2> QED BY <1>1, <2>1, AsManyImages
<1>7. R \cap X = {} /\ (R \cup X) \cap F = {}
  <2>1. (\A c \in R : c.of = "ring") /\ (\A c \in X : c.of = "index") /\ (\A c \in F : c.of = "free")
    BY <1>3
  <2> HIDE DEF R, X, F
  <2> QED BY <2>1
<1>8. PortClaims(P) = R \cup X /\ FreeClaims(table) = F
  BY <1>2 DEF PortClaims, FreeClaims
<1> HIDE DEF R, X, F, f, g, h
<1>9. IsFiniteSet(R \cup X) /\ Cardinality(R \cup X) = 2 * Cardinality(Open(P))
  <2>1. /\ IsFiniteSet(R \cup X)
        /\ Cardinality(R \cup X) = Cardinality(R) + Cardinality(X) - Cardinality(R \cap X)
    BY <1>4, <1>5, FS_Union
  <2>2. Cardinality(R \cap X) = 0 /\ Cardinality(Open(P)) \in Nat
    BY <1>1, <1>7, FS_EmptySet, FS_CardinalityType
  <2> QED BY <1>4, <1>5, <2>1, <2>2
<1>10. /\ IsFiniteSet((R \cup X) \cup F)
       /\ Cardinality((R \cup X) \cup F) = 2 * Cardinality(Open(P)) + Cardinality(Kept(table))
  <2>1. /\ IsFiniteSet((R \cup X) \cup F)
        /\ Cardinality((R \cup X) \cup F)
             = Cardinality(R \cup X) + Cardinality(F) - Cardinality((R \cup X) \cap F)
    BY <1>6, <1>9, FS_Union
  <2>2. /\ Cardinality((R \cup X) \cap F) = 0 /\ Cardinality(Open(P)) \in Nat
        /\ Cardinality(Kept(table)) \in Nat
    BY <1>1, <1>7, FS_EmptySet, FS_CardinalityType
  <2> QED BY <1>6, <1>9, <2>1, <2>2
<1> QED BY <1>8, <1>10

LEMMA PortsAreApart == ASSUME AudioSizes, AudioInv PROVE Audio!PortsApart
<1> DEFINE C == PortClaims(ports) \cup FreeClaims(free)
           f == [c \in C |-> ClaimUnits(c)]
<1>1. Tidy(C, bump) /\ bump \in Nat
  <2>1. Window \in Nat /\ bump \in 1 .. Window + 1
    BY DEF AudioSizes, AudioInv, AudioTypes
  <2> QED BY <2>1 DEF AudioInv
<1>2. Audio!Parts = {f[c] : c \in C}
  BY PartsAreClaimed
<1>3. \A c, d \in C : f[c] = f[d] => c = d
  <2> HIDE DEF C
  <2>1. /\ \A c, d \in C : c # d => ClaimUnits(c) \cap ClaimUnits(d) = {}
        /\ \A c \in C : ClaimUnits(c) # {}
    BY <1>1, TidyUnits
  <2> QED BY <2>1
<1>4. Cardinality(Audio!Parts) = Cardinality(C)
  <2>1. IsFiniteSet(C)
    BY ClaimsAreCounted
  <2>2. f = [c \in C |-> f[c]]
    OBVIOUS
  <2> HIDE DEF f, C
  <2> QED BY <1>2, <1>3, <2>1, <2>2, AsManyImages
<1>5. Cardinality(Audio!Parts) = 2 * Cardinality({p \in Audio!Ports : ports[p].inUse})
                            + Cardinality({i \in 1..FreeMax : free[i].size > 0})
  <2>1. Cardinality(C) = 2 * Cardinality(Open(ports)) + Cardinality(Kept(free))
    BY ClaimsAreCounted
  <2> HIDE DEF C
  <2> QED BY <1>4, <2>1 DEF Open, Kept
<1>6. (\A a, b \in Audio!Parts : a # b => a \cap b = {}) /\ (\A a \in Audio!Parts : a \subseteq 1 .. bump - 1)
  <2> HIDE DEF C
  <2>1. /\ \A c, d \in C : c # d => ClaimUnits(c) \cap ClaimUnits(d) = {}
        /\ \A c \in C : ClaimUnits(c) \subseteq 1 .. bump - 1
    BY <1>1, TidyUnits
  <2>2. \A a \in Audio!Parts : \E c \in C : a = ClaimUnits(c)
    BY <1>2
  <2> QED BY <2>1, <2>2
<1> QED BY <1>5, <1>6, SameCardinality DEF Audio!PortsApart

LEMMA AudioFollows == ASSUME AudioSizes, AudioInv PROVE Audio!TypeOK /\ Audio!AudioSound
<1>1. Audio!TypeOK
  <2>1. \A p \in Audio!Ports : ports[p].read \in 0 .. ports[p].blocks - 1 /\ ports[p].buf \in 0 .. Window
    <3> SUFFICES ASSUME NEW p \in Audio!Ports
                 PROVE  ports[p].read \in 0 .. ports[p].blocks - 1 /\ ports[p].buf \in 0 .. Window
      OBVIOUS
    <3>1. ports[p] \in PortRec /\ ports[p].read < ports[p].blocks
      BY DEF AudioInv, AudioTypes
    <3>2. ports[p].read \in Nat /\ ports[p].blocks \in Nat /\ ports[p].buf \in 0 .. Window
      BY <3>1 DEF PortRec
    <3> QED BY <3>1, <3>2
  <2>2. \A i \in 1..FreeMax : free[i].addr \in 0 .. Window
    BY DEF AudioInv, AudioTypes, FreeTable
  <2>3. mixer.pc \in {"off", "mix", "notify"} /\ mixer.slot \in Audio!Notifys
    BY DEF AudioInv, AudioTypes
  <2>4. stream.cursor \in 0 .. stream.frames
    <3>1. stream.cursor \in Nat /\ stream.frames \in Nat /\ stream.cursor <= stream.frames
      BY DEF AudioInv, AudioTypes, StreamRec
    <3> QED BY <3>1
  <2>5. bump \in 1 .. Window + 1 /\ \A i \in Audio!Notifys : notify[i] \in Keys \cup {""}
    BY DEF AudioInv, AudioTypes
  <2> QED BY <2>1, <2>2, <2>3, <2>4, <2>5 DEF Audio!TypeOK
<1>2. Audio!PortsApart
  BY PortsAreApart
<1>3. Audio!PlayedOnce
  BY SameCardinality DEF AudioInv, RingTrue, Audio!PlayedOnce
<1> QED BY <1>1, <1>2, <1>3 DEF AudioInv, Audio!AudioSound

(* No unit of the window is in two rings, two indexes or two freed blocks,
   whatever was opened, closed, refused and restarted; each block that was fed
   is played or still there; a movie is over when all its frames were played;
   and no key has two slots.                                                 *)
THEOREM SoundsHaveTheirPlace ==
  ASSUME AudioSizes
  PROVE  Audio!Spec => [](Audio!TypeOK /\ Audio!AudioSound)
<1>1. Audio!Init => AudioInv
  BY AudioInitInv
<1>2. AudioInv /\ [Audio!Next]_(Audio!audioVars) => AudioInv'
  BY AudioNextInv, AudioIdles
<1>3. AudioInv => Audio!TypeOK /\ Audio!AudioSound
  BY AudioFollows
<1> QED BY <1>1, <1>2, <1>3, PTL DEF Audio!Spec

-----------------------------------------------------------------------------
(* The memory of the guest *)

\* The regions follow one another, and the address space has room behind the first for
\* what passes the budget and for a reservation.
Top == Memory!Up(WindowEnd, MB)
MemSizes ==
    /\ AddressSpace \in Nat /\ Base \in Nat \ {0} /\ WindowEnd \in Nat /\ MB \in Nat \ {0}
    /\ Sizes \subseteq Nat /\ PSizes \subseteq Nat /\ Slots \in Nat /\ VmSlots \in Nat
    /\ Budget \in Nat /\ Footprint \in Nat
    /\ VmBase \in Nat /\ VmEnd \in Nat /\ VSize \in Nat /\ StackBase \in Nat /\ StackEnd \in Nat
    /\ Base <= WindowEnd /\ WindowEnd <= VmBase /\ VmBase <= VmEnd /\ VmEnd < StackBase
    /\ Top + Base + MB < AddressSpace /\ Top + Budget < AddressSpace

RegRec == [lo : Nat, n : Nat, p : Nat]
Steps  == {"idle", "free", "query", "map"}
MemCall == [at : Steps, reg : RegRec, slot : Nat, read : Int]

MemTypes ==
    /\ heapBump \in Nat /\ vmBump \in Nat /\ stacks \in Nat
    /\ total \in Int /\ external \in Int /\ billed \in Nat /\ charged \in BOOLEAN
    /\ allocs \in [1..Slots -> RegRec] /\ vms \in [1..VmSlots -> RegRec]
    /\ mpc \in [Allocators -> MemCall]
    /\ given \subseteq RegRec

\* The bump pointers.
BumpsTrue ==
    /\ heapBump = 0 \/ (heapBump >= Base /\ heapBump <= Top)
    /\ vmBump >= VmBase /\ vmBump <= VmEnd
    /\ stacks >= StackBase

\* Where a region lies: behind nothing that was handed out later.
InWin(r)   == r.lo >= Base /\ r.lo + r.n <= WindowEnd /\ r.lo + r.n <= heapBump
InVm(r)    == r.lo >= VmBase /\ r.lo + r.n <= vmBump
InStack(r) == r.lo > StackBase /\ r.lo + r.n <= stacks /\ r.lo + r.n <= StackEnd
GivenTrue  == \A r \in given : InWin(r) \/ InVm(r) \/ InStack(r)

RegionsApart(r, q) == r.lo + r.n <= q.lo \/ q.lo + q.n <= r.lo
GivenApart  == \A r, q \in given : r # q => RegionsApart(r, q)
Guarded(r, q) == r.lo > StackBase /\ q.lo > StackBase => q.lo + q.n <= r.lo - 1 \/ q.lo >= r.lo
GivenGuarded == \A r, q \in given : Guarded(r, q)

\* The slots.
HeldTrue  == \A s \in Memory!Held(allocs) : InWin(allocs[s]) /\ allocs[s].n > 0
HeldApart == \A s, t \in Memory!Held(allocs) : s # t => RegionsApart(allocs[s], allocs[t])

\* What a caller has read.
MemCallsTrue ==
    \A c \in Allocators :
        /\ mpc[c].at = "free" => mpc[c].slot \in 1..Slots /\ mpc[c].reg # Memory!NoRegion
        /\ mpc[c].at = "map" => /\ mpc[c].reg.lo >= VmBase /\ mpc[c].reg.n = VSize
                                /\ mpc[c].reg.lo + VSize <= VmEnd

BooksTrue ==
    /\ IsFiniteSet(Memory!PagesHeld)
    /\ total = Cardinality(Memory!PagesHeld)
    /\ total <= Budget
    /\ external = billed + (IF charged THEN Footprint ELSE 0)

MemIs ==
    /\ MemTypes /\ BumpsTrue /\ GivenTrue /\ GivenApart /\ GivenGuarded
    /\ HeldTrue /\ HeldApart /\ MemCallsTrue /\ BooksTrue
MemInv == ~raced => MemIs

-----------------------------------------------------------------------------
(* Rounding and wrapping *)

LEMMA Products ==
  ASSUME NEW u \in Int, NEW v \in Int, NEW a \in Nat
  PROVE  (u >= v => u * a >= v * a) /\ ((v + 1) * a = v * a + a)
<1>1. (v + 1) * a = v * a + a
  OBVIOUS
<1>2. ASSUME u >= v PROVE u * a >= v * a
  <2>1. PICK d \in Nat : u = v + d
    BY <1>2
  <2>2. u * a = v * a + d * a
    BY <2>1
  <2>3. d * a \in Nat
    OBVIOUS
  <2>4. PICK x \in Int : x = u * a
    OBVIOUS
  <2>5. PICK y \in Int : y = v * a
    OBVIOUS
  <2>6. PICK z \in Nat : z = d * a
    BY <2>3
  <2> QED BY <2>2, <2>4, <2>5, <2>6
<1> QED BY <1>1, <1>2

LEMMA Quotients ==
  ASSUME NEW n \in Nat, NEW a \in Nat \ {0}
  PROVE  n \div a \in Nat /\ (n \div a) * a <= n /\ n < (n \div a) * a + a
OBVIOUS

\* Rounding up goes no further than to the next multiple.
LEMMA UpIs ==
  ASSUME NEW n \in Nat, NEW a \in Nat \ {0}
  PROVE  Memory!Up(n, a) \in Nat /\ Memory!Up(n, a) >= n /\ Memory!Up(n, a) < n + a
<1>1. n + a - 1 \in Nat
  OBVIOUS
<1>2. PICK q \in Nat : q = (n + a - 1) \div a
  BY <1>1, Quotients
<1>3. q * a <= n + a - 1 /\ n + a - 1 < q * a + a
  BY <1>1, <1>2, Quotients
<1>4. PICK m \in Nat : m = q * a
  OBVIOUS
<1>5. Memory!Up(n, a) = m
  BY <1>2, <1>4 DEF Memory!Up
<1> QED BY <1>3, <1>4, <1>5

LEMMA UpOne ==
  ASSUME NEW n \in Nat
  PROVE  Memory!Up(n, 1) = n
<1>1. 1 \in Nat \ {0}
  OBVIOUS
<1>2. Memory!Up(n, 1) \in Nat /\ Memory!Up(n, 1) >= n /\ Memory!Up(n, 1) < n + 1
  BY <1>1, UpIs
<1> QED BY <1>2

LEMMA UpStays ==
  ASSUME NEW n \in Nat, NEW w \in Nat, NEW a \in Nat \ {0}, n <= Memory!Up(w, a)
  PROVE  Memory!Up(n, a) <= Memory!Up(w, a)
<1>1. n + a - 1 \in Nat /\ w + a - 1 \in Nat
  OBVIOUS
<1>2. PICK q \in Nat : q = (n + a - 1) \div a
  BY <1>1, Quotients
<1>3. PICK h \in Nat : h = (w + a - 1) \div a
  BY <1>1, Quotients
<1>4. q * a <= n + a - 1
  BY <1>1, <1>2, Quotients
<1>5. Memory!Up(n, a) = q * a /\ Memory!Up(w, a) = h * a
  BY <1>2, <1>3 DEF Memory!Up
<1>6. PICK x \in Nat : x = q * a
  OBVIOUS
<1>7. PICK y \in Nat : y = h * a
  OBVIOUS
<1>8. x < y + a
  BY <1>4, <1>5, <1>6, <1>7
<1>9. q <= h
  <2>1. SUFFICES ASSUME q >= h + 1 PROVE FALSE
    OBVIOUS
  <2>2. q * a >= (h + 1) * a /\ (h + 1) * a = h * a + a
    BY <2>1, Products
  <2> QED BY <1>6, <1>7, <1>8, <2>2
<1>10. h * a >= q * a
  BY <1>9, Products
<1> QED BY <1>5, <1>10

LEMMA WrapIs ==
  ASSUME MemSizes, NEW n \in Nat
  PROVE  Memory!Wrap(n) \in Nat /\ (n < AddressSpace => Memory!Wrap(n) = n)
<1>1. AddressSpace \in Nat /\ AddressSpace > 0
  BY UpIs DEF MemSizes, Top
<1> QED BY <1>1 DEF Memory!Wrap

-----------------------------------------------------------------------------
(* Pages *)

LEMMA PagesOf ==
  ASSUME NEW r \in RegRec
  PROVE  IsFiniteSet(Memory!Pages(r)) /\ Cardinality(Memory!Pages(r)) = r.n
<1>1. r.lo \in Nat /\ r.n \in Nat
  BY DEF RegRec
<1>2. PICK a \in Int : a = r.lo
  BY <1>1
<1>3. PICK b \in Int : b = r.lo + r.n - 1
  BY <1>1
<1>4. IsFiniteSet(a..b) /\ Cardinality(a..b) = IF a > b THEN 0 ELSE b - a + 1
  BY FS_Interval
<1>5. (IF a > b THEN 0 ELSE b - a + 1) = r.n
  BY <1>1, <1>2, <1>3
<1> QED BY <1>2, <1>3, <1>4, <1>5 DEF Memory!Pages

LEMMA ApartPages ==
  ASSUME NEW r \in RegRec, NEW q \in RegRec, RegionsApart(r, q)
  PROVE  Memory!Pages(r) \cap Memory!Pages(q) = {}
<1>1. r.lo \in Nat /\ r.n \in Nat /\ q.lo \in Nat /\ q.n \in Nat
  BY DEF RegRec
<1> QED BY <1>1 DEF RegionsApart, Memory!Pages

LEMMA Joined ==
  ASSUME NEW S, NEW T, IsFiniteSet(S), IsFiniteSet(T), S \cap T = {}
  PROVE  /\ IsFiniteSet(S \cup T) /\ Cardinality(S) \in Nat /\ Cardinality(T) \in Nat
         /\ Cardinality(S \cup T) = Cardinality(S) + Cardinality(T)
<1>1. Cardinality(S) \in Nat /\ Cardinality(T) \in Nat
  BY FS_CardinalityType
<1>2. /\ IsFiniteSet(S \cup T)
      /\ Cardinality(S \cup T) = Cardinality(S) + Cardinality(T) - Cardinality(S \cap T)
  BY FS_Union
<1>3. Cardinality(S \cap T) = 0
  BY FS_EmptySet
<1> QED BY <1>1, <1>2, <1>3

LEMMA LeastIs ==
  ASSUME NEW S \in SUBSET Nat, S # {}
  PROVE  Memory!Min(S) \in S /\ \A y \in S : Memory!Min(S) <= y
BY LeastExists DEF Memory!Min

-----------------------------------------------------------------------------
(* Regions that are handed out *)

\* Where the next region of the window begins.
LEMMA FromIs ==
  ASSUME MemSizes, MemIs, NEW align \in {1, MB}
  PROVE  Memory!From(align) \in Nat /\ Memory!From(align) >= Base /\ Memory!From(align) >= heapBump /\ Memory!From(align) <= Top
<1>1. /\ Base \in Nat /\ WindowEnd \in Nat /\ MB \in Nat \ {0} /\ 1 \in Nat \ {0} /\ Base <= WindowEnd
      /\ heapBump \in Nat /\ (heapBump = 0 \/ (heapBump >= Base /\ heapBump <= Top))
  BY DEF MemSizes, MemIs, MemTypes, BumpsTrue
<1>2. Top \in Nat /\ Top >= WindowEnd
  BY <1>1, UpIs DEF Top
<1>3. PICK b \in Nat : b = IF heapBump = 0 THEN Base ELSE heapBump
  BY <1>1
<1>4. b >= Base /\ b >= heapBump /\ b <= Top
  BY <1>1, <1>2, <1>3
<1>5. Memory!Up(b, align) \in Nat /\ Memory!Up(b, align) >= b
  BY <1>1, UpIs
<1>6. Memory!Up(b, align) <= Top
  <2>1. CASE align = 1
    BY <1>4, <2>1, UpOne
  <2>2. CASE align = MB
    BY <1>1, <1>4, <2>2, UpStays DEF Top
  <2> QED BY <2>1, <2>2
<1>7. Memory!From(align) = Memory!Up(b, align)
  BY <1>3 DEF Memory!From
<1> QED BY <1>1, <1>2, <1>4, <1>5, <1>6, <1>7

\* A region that lies behind all others of its sort is apart from all.
LEMMA Handed ==
  ASSUME MemSizes, MemIs, NEW r \in RegRec, given' = given \cup {r},
         heapBump' \in Nat, vmBump' \in Nat, stacks' \in Nat,
         heapBump' >= heapBump, vmBump' >= vmBump, stacks' >= stacks,
         vmBump' <= VmEnd,
         \/ InWin(r)' /\ r.lo >= heapBump
         \/ InVm(r)' /\ r.lo >= vmBump
         \/ InStack(r)' /\ r.lo > stacks
  PROVE  GivenTrue' /\ GivenApart' /\ GivenGuarded'
<1>0. given' \subseteq RegRec /\ given \subseteq RegRec
  BY DEF MemIs, MemTypes
<1>1. /\ Base \in Nat /\ WindowEnd \in Nat /\ VmBase \in Nat /\ VmEnd \in Nat /\ StackBase \in Nat /\ StackEnd \in Nat
      /\ WindowEnd <= VmBase /\ VmBase <= VmEnd /\ VmEnd < StackBase
      /\ heapBump \in Nat /\ vmBump \in Nat /\ stacks \in Nat /\ vmBump <= VmEnd /\ stacks >= StackBase
  BY DEF MemSizes, MemIs, MemTypes, BumpsTrue
<1>2. \A q \in RegRec : q.lo \in Nat /\ q.n \in Nat
  BY DEF RegRec
<1>3. ASSUME NEW q \in given PROVE (InWin(q) \/ InVm(q) \/ InStack(q))
  BY DEF MemIs, GivenTrue
<1>4. GivenTrue'
  <2>1. ASSUME NEW q \in given PROVE (InWin(q) \/ InVm(q) \/ InStack(q))'
    BY <1>0, <1>1, <1>2, <1>3 DEF InWin, InVm, InStack
  <2> QED BY <2>1 DEF GivenTrue
<1>5. ASSUME NEW q \in given PROVE RegionsApart(q, r) /\ Guarded(q, r) /\ Guarded(r, q)
  <2>0. q.lo \in Nat /\ q.n \in Nat /\ r.lo \in Nat /\ r.n \in Nat
    BY <1>0, <1>2
  <2>1. CASE InWin(q)
    BY <1>1, <2>0, <2>1 DEF InWin, InVm, InStack, RegionsApart, Guarded
  <2>2. CASE InVm(q)
    BY <1>1, <2>0, <2>2 DEF InWin, InVm, InStack, RegionsApart, Guarded
  <2>3. CASE InStack(q)
    BY <1>1, <2>0, <2>3 DEF InWin, InVm, InStack, RegionsApart, Guarded
  <2> QED BY <1>3, <2>1, <2>2, <2>3
<1>6. GivenApart'
  <2>1. \A q, s \in given : q # s => RegionsApart(q, s)
    BY DEF MemIs, GivenApart
  <2>2. \A q \in given : RegionsApart(q, r) /\ RegionsApart(r, q)
    BY <1>5 DEF RegionsApart
  <2> QED BY <2>1, <2>2 DEF GivenApart
<1>7. GivenGuarded'
  <2>1. \A q, s \in given : Guarded(q, s)
    BY DEF MemIs, GivenGuarded
  <2>2. Guarded(r, r)
    BY <1>2 DEF Guarded
  <2> QED BY <1>5, <2>1, <2>2 DEF GivenGuarded
<1> QED BY <1>4, <1>6, <1>7

\* Nothing is handed out.
LEMMA NotHanded ==
  ASSUME MemIs, UNCHANGED <<given, vmBump, stacks>>, heapBump' \in Nat, heapBump' >= heapBump
  PROVE  GivenTrue' /\ GivenApart' /\ GivenGuarded'
<1>1. /\ heapBump \in Nat /\ given \subseteq RegRec /\ \A q \in RegRec : q.lo \in Nat /\ q.n \in Nat
  BY DEF MemIs, MemTypes, RegRec
<1>2. WindowEnd = WindowEnd
  OBVIOUS
<1>3. ASSUME NEW q \in given PROVE (InWin(q) \/ InVm(q) \/ InStack(q))'
  BY <1>1 DEF MemIs, GivenTrue, InWin, InVm, InStack
<1> QED BY <1>3 DEF MemIs, GivenTrue, GivenApart, GivenGuarded

\* The slots stay.
LEMMA SlotsKept ==
  ASSUME MemIs, UNCHANGED allocs, heapBump' \in Nat, heapBump' >= heapBump
  PROVE  HeldTrue' /\ HeldApart' /\ Memory!PagesHeld' = Memory!PagesHeld
<1>1. /\ heapBump \in Nat /\ \A q \in RegRec : q.lo \in Nat /\ q.n \in Nat
      /\ \A s \in Memory!Held(allocs) : allocs[s] \in RegRec
  BY DEF MemIs, MemTypes, RegRec, Memory!Held, Memory!Unused
<1>2. HeldTrue'
  BY <1>1 DEF MemIs, HeldTrue, InWin
<1> QED BY <1>2 DEF MemIs, HeldApart, Memory!PagesHeld

-----------------------------------------------------------------------------
(* The actions *)

\* What a step that hands nothing out leaves true when it leaves the books.
LEMMA AllocateInv ==
  ASSUME MemSizes, MemIs, NEW c \in Allocators, NEW size \in Sizes, NEW align \in {1, MB},
         Memory!Allocate(c, size, align)
  PROVE  MemIs'
<1>1. /\ MemTypes /\ BumpsTrue /\ GivenTrue /\ HeldTrue /\ HeldApart /\ MemCallsTrue /\ BooksTrue
  BY DEF MemIs
<1>2. /\ size \in Nat /\ align \in Nat \ {0} /\ AddressSpace \in Nat /\ WindowEnd \in Nat /\ Budget \in Nat
      /\ Base \in Nat /\ Footprint \in Nat /\ Top + Budget < AddressSpace /\ WindowEnd <= VmBase
  BY DEF MemSizes
<1>3. PICK n \in Nat : n = Memory!Wrap(Memory!Up(size, align))
  BY <1>2, UpIs, WrapIs
<1>4. PICK lo \in Nat : lo = Memory!From(align) /\ lo >= Base /\ lo >= heapBump /\ lo <= Top
  BY FromIs
<1>5. UNCHANGED <<external, charged, vms, vmBump, stacks, mpc, billed, raced>>
  BY DEF Memory!Allocate
<1>6. MemCallsTrue'
  BY <1>1, <1>5 DEF MemCallsTrue
<1>7. Top \in Nat /\ heapBump \in Nat /\ total \in Int /\ external \in Int
  BY <1>1, <1>2, UpIs DEF MemTypes, Top, MemSizes
<1>8. CASE Memory!InWindow(lo, n) /\ Memory!InBudget(n) /\ Memory!Unused(allocs) # {}
  <2> DEFINE r == Memory!Region(lo, n, align)
             s == Memory!Min(Memory!Unused(allocs))
  <2>1. /\ heapBump' = Memory!Wrap(lo + n) /\ total' = total + n /\ n # 0
        /\ allocs' = [allocs EXCEPT ![s] = r] /\ given' = given \cup {r}
    BY <1>3, <1>4, <1>8 DEF Memory!Allocate
  <2>2. total >= 0 /\ external >= 0
    <3>1. Cardinality(Memory!PagesHeld) \in Nat
      BY <1>1, FS_CardinalityType DEF BooksTrue
    <3>2. billed \in Nat /\ charged \in BOOLEAN /\ total = Cardinality(Memory!PagesHeld)
          /\ external = billed + (IF charged THEN Footprint ELSE 0)
      BY <1>1 DEF BooksTrue, MemTypes
    <3> QED BY <1>2, <3>1, <3>2
  <2>3. n <= Budget /\ total + n <= Budget
    BY <1>7, <1>8, <2>2, <1>2 DEF Memory!InBudget
  <2>4. lo + n < AddressSpace
    BY <1>2, <1>4, <1>7, <2>3
  <2>5. Memory!Wrap(lo + n) = lo + n
    BY <2>4, WrapIs
  <2>6. heapBump' = lo + n /\ lo + n <= WindowEnd
    BY <1>8, <2>1, <2>5 DEF Memory!InWindow
  <2>7. r \in RegRec /\ r.lo = lo /\ r.n = n
    BY <1>2 DEF Memory!Region, RegRec
  <2>8. s \in Memory!Unused(allocs) /\ s \in 1..Slots
    <3>1. Memory!Unused(allocs) \subseteq 1..Slots
      BY <1>1 DEF MemTypes, Memory!Unused
    <3>2. Memory!Unused(allocs) \in SUBSET Nat
      BY <3>1 DEF MemSizes
    <3> QED BY <1>8, <3>1, <3>2, LeastIs
  <2>9. r # Memory!NoRegion
    BY <2>1, <2>7 DEF Memory!NoRegion
  <2> HIDE DEF r, s
  <2>10. /\ allocs' \in [1..Slots -> RegRec] /\ Memory!Held(allocs') = Memory!Held(allocs) \cup {s} /\ s \notin Memory!Held(allocs)
         /\ allocs'[s] = r /\ \A t \in Memory!Held(allocs) : t # s /\ allocs'[t] = allocs[t]
    <3>1. allocs \in [1..Slots -> RegRec]
      BY <1>1 DEF MemTypes
    <3>2. s \in 1..Slots /\ allocs[s] = Memory!NoRegion
      BY <2>8 DEF Memory!Unused
    <3> QED BY <2>1, <2>7, <2>9, <3>1, <3>2 DEF Memory!Held, Memory!Unused
  <2>11. MemTypes'
    <3>1. heapBump' \in Nat /\ total' \in Int /\ given' \subseteq RegRec
      BY <1>1, <1>7, <2>1, <2>6, <2>7 DEF MemTypes
    <3> QED BY <1>1, <1>5, <2>10, <3>1 DEF MemTypes
  <2>12. BumpsTrue'
    <3>1. lo + n <= Top
      <4>1. Top >= WindowEnd
        BY <1>2, UpIs DEF MemSizes, Top
      <4> QED BY <1>2, <1>7, <2>6, <4>1
    <3> QED BY <1>1, <1>2, <1>4, <1>5, <2>6, <3>1 DEF BumpsTrue
  <2>13. InWin(r)' /\ r.lo >= heapBump
    BY <1>2, <1>4, <2>6, <2>7 DEF InWin
  <2>14. GivenTrue' /\ GivenApart' /\ GivenGuarded'
    <3>1. /\ heapBump' \in Nat /\ vmBump' \in Nat /\ stacks' \in Nat
          /\ heapBump' >= heapBump /\ vmBump' >= vmBump /\ stacks' >= stacks /\ vmBump' <= VmEnd
      BY <1>1, <1>4, <1>5, <1>7, <2>6 DEF MemTypes, BumpsTrue
    <3> QED BY <2>1, <2>7, <2>13, <3>1, Handed
  <2>15. \A t \in Memory!Held(allocs) : allocs[t] \in RegRec /\ allocs[t].lo \in Nat /\ allocs[t].n \in Nat
    BY <1>1 DEF MemTypes, Memory!Held, Memory!Unused, RegRec
  <2>16. ASSUME NEW t \in Memory!Held(allocs) PROVE RegionsApart(allocs[t], r) /\ InWin(allocs[t])' /\ allocs[t].n > 0
    <3>1. PICK q \in RegRec : q = allocs[t] /\ q.lo \in Nat /\ q.n \in Nat
      BY <2>15
    <3>2. q.lo >= Base /\ q.lo + q.n <= WindowEnd /\ q.lo + q.n <= heapBump /\ q.n > 0
      BY <1>1, <3>1 DEF HeldTrue, InWin
    <3>3. q.lo + q.n <= r.lo /\ q.lo + q.n <= heapBump'
      BY <1>4, <1>7, <2>6, <2>7, <3>1, <3>2
    <3>4. allocs'[t] = q
      BY <2>10, <3>1
    <3> QED BY <3>1, <3>2, <3>3, <3>4 DEF InWin, RegionsApart
  <2>17. HeldTrue'
    BY <2>1, <2>7, <2>10, <2>13, <2>16 DEF HeldTrue
  <2>18. HeldApart'
    <3>1. \A t \in Memory!Held(allocs) : RegionsApart(allocs[t], r) /\ RegionsApart(r, allocs[t])
      BY <2>16 DEF RegionsApart
    <3> QED BY <1>1, <2>10, <3>1 DEF HeldApart
  <2>19. Memory!PagesHeld' = Memory!PagesHeld \cup Memory!Pages(r)
    BY <2>10 DEF Memory!PagesHeld
  <2>20. Memory!PagesHeld \cap Memory!Pages(r) = {}
    <3>1. \A t \in Memory!Held(allocs) : Memory!Pages(allocs[t]) \cap Memory!Pages(r) = {}
      BY <2>7, <2>15, <2>16, ApartPages
    <3> QED BY <3>1 DEF Memory!PagesHeld
  <2>21. BooksTrue'
    <3>1. IsFiniteSet(Memory!Pages(r)) /\ Cardinality(Memory!Pages(r)) = n
      BY <2>7, PagesOf
    <3>2. IsFiniteSet(Memory!PagesHeld) /\ total = Cardinality(Memory!PagesHeld)
      BY <1>1 DEF BooksTrue
    <3>3. IsFiniteSet(Memory!PagesHeld \cup Memory!Pages(r)) /\ Cardinality(Memory!PagesHeld \cup Memory!Pages(r)) = total + n
      BY <2>20, <3>1, <3>2, Joined
    <3> QED BY <1>1, <1>5, <2>1, <2>3, <2>19, <3>3 DEF BooksTrue
  <2> QED BY <1>6, <2>11, <2>12, <2>14, <2>17, <2>18, <2>21 DEF MemIs
<1>9. CASE ~(Memory!InWindow(lo, n) /\ Memory!InBudget(n) /\ Memory!Unused(allocs) # {})
  <2>1. heapBump' = lo /\ UNCHANGED <<total, allocs, given>>
    BY <1>3, <1>4, <1>9 DEF Memory!Allocate
  <2>2. heapBump' \in Nat /\ heapBump' >= heapBump
    BY <1>4, <2>1
  <2>3. GivenTrue' /\ GivenApart' /\ GivenGuarded'
    BY <1>5, <2>1, <2>2, NotHanded
  <2>4. HeldTrue' /\ HeldApart' /\ Memory!PagesHeld' = Memory!PagesHeld
    BY <2>1, <2>2, SlotsKept
  <2>5. MemTypes'
    BY <1>1, <1>5, <2>1, <2>2 DEF MemTypes
  <2>6. BumpsTrue'
    BY <1>1, <1>2, <1>4, <1>5, <2>1 DEF BumpsTrue
  <2>7. BooksTrue'
    BY <1>1, <1>5, <2>1, <2>4 DEF BooksTrue
  <2> QED BY <1>6, <2>3, <2>4, <2>5, <2>6, <2>7 DEF MemIs
<1> QED BY <1>8, <1>9

LEMMA AllocateAddressInv ==
  ASSUME MemSizes, MemIs, NEW c \in Allocators, NEW size \in Sizes, NEW align \in {1, MB},
         Memory!AllocateAddress(c, size, align)
  PROVE  MemIs'
<1>1. /\ MemTypes /\ BumpsTrue /\ GivenTrue /\ HeldTrue /\ HeldApart /\ MemCallsTrue /\ BooksTrue
  BY DEF MemIs
<1>2. /\ size \in Nat /\ align \in Nat \ {0} /\ AddressSpace \in Nat /\ WindowEnd \in Nat /\ MB \in Nat \ {0}
      /\ Base \in Nat \ {0} /\ Top + Base + MB < AddressSpace /\ size < Base
  BY DEF MemSizes, Memory!AllocateAddress
<1>3. PICK n \in Nat : n = Memory!Wrap(Memory!Up(size, align)) /\ n < Base + MB
  <2>1. PICK u \in Nat : u = Memory!Up(size, align) /\ u < size + align
    BY <1>2, UpIs
  <2>2. align <= MB
    BY <1>2
  <2>3. u < Base + MB
    BY <1>2, <2>1, <2>2
  <2>4. u < AddressSpace
    <3>1. Top \in Nat
      BY <1>2, UpIs DEF Top
    <3> QED BY <1>2, <2>3, <3>1
  <2> QED BY <2>1, <2>3, <2>4, WrapIs
<1>4. PICK lo \in Nat : lo = Memory!From(align) /\ lo >= Base /\ lo >= heapBump /\ lo <= Top
  BY FromIs
<1>5. UNCHANGED <<allocs, total, external, charged, vms, vmBump, stacks, mpc, billed, raced>>
  BY DEF Memory!AllocateAddress
<1>6. MemCallsTrue'
  BY <1>1, <1>5 DEF MemCallsTrue
<1>7. Top \in Nat /\ heapBump \in Nat /\ Top >= WindowEnd
  BY <1>1, <1>2, UpIs DEF MemTypes, Top
<1>8. /\ heapBump' \in Nat /\ heapBump' >= Base /\ heapBump' >= heapBump /\ heapBump' <= Top
      /\ GivenTrue' /\ GivenApart' /\ GivenGuarded' /\ given' \subseteq RegRec
  <2>1. CASE Memory!InWindow(lo, n)
    <3> DEFINE r == Memory!Region(lo, n, 0)
    <3>1. heapBump' = lo + n /\ given' = given \cup {r}
      BY <1>3, <1>4, <2>1 DEF Memory!AllocateAddress
    <3>2. lo + n < AddressSpace
      BY <1>2, <1>3, <1>4, <1>7
    <3>3. Memory!Wrap(lo + n) = lo + n
      BY <3>2, WrapIs
    <3>4. lo + n <= WindowEnd
      BY <2>1, <3>3 DEF Memory!InWindow
    <3>5. r \in RegRec /\ r.lo = lo /\ r.n = n
      BY DEF Memory!Region, RegRec
    <3> HIDE DEF r
    <3>6. InWin(r)' /\ r.lo >= heapBump
      BY <1>2, <1>4, <3>1, <3>4, <3>5 DEF InWin
    <3>7. /\ heapBump' \in Nat /\ vmBump' \in Nat /\ stacks' \in Nat
          /\ heapBump' >= heapBump /\ vmBump' >= vmBump /\ stacks' >= stacks /\ vmBump' <= VmEnd
      BY <1>1, <1>4, <1>5, <1>7, <3>1 DEF MemTypes, BumpsTrue
    <3>8. GivenTrue' /\ GivenApart' /\ GivenGuarded'
      BY <3>1, <3>5, <3>6, <3>7, Handed
    <3>9. heapBump' >= Base /\ heapBump' <= Top
      BY <1>2, <1>4, <1>7, <3>1, <3>4
    <3>10. given' \subseteq RegRec
      BY <1>1, <3>1, <3>5 DEF MemTypes
    <3> QED BY <3>7, <3>8, <3>9, <3>10
  <2>2. CASE ~Memory!InWindow(lo, n)
    <3>1. heapBump' = lo /\ UNCHANGED given
      BY <1>3, <1>4, <2>2 DEF Memory!AllocateAddress
    <3>2. heapBump' \in Nat /\ heapBump' >= heapBump
      BY <1>4, <3>1
    <3>3. GivenTrue' /\ GivenApart' /\ GivenGuarded'
      BY <1>5, <3>1, <3>2, NotHanded
    <3>4. given' \subseteq RegRec
      BY <1>1, <3>1 DEF MemTypes
    <3> QED BY <1>4, <3>1, <3>3, <3>4
  <2> QED BY <2>1, <2>2
<1>9. HeldTrue' /\ HeldApart' /\ Memory!PagesHeld' = Memory!PagesHeld
  BY <1>5, <1>8, SlotsKept
<1>10. MemTypes'
  BY <1>1, <1>5, <1>8 DEF MemTypes
<1>11. BumpsTrue'
  BY <1>1, <1>5, <1>8 DEF BumpsTrue
<1>12. BooksTrue'
  BY <1>1, <1>5, <1>9 DEF BooksTrue
<1> QED BY <1>6, <1>8, <1>9, <1>10, <1>11, <1>12 DEF MemIs

\* A step that changes what a caller has read, or the mappings, and nothing of the books.
LEMMA NothingMoves ==
  ASSUME MemIs, UNCHANGED <<heapBump, allocs, total, external, charged, vmBump, stacks, given, billed>>,
         vms' \in [1..VmSlots -> RegRec], mpc' \in [Allocators -> MemCall], MemCallsTrue'
  PROVE  MemIs'
<1>1. heapBump' \in Nat /\ heapBump' >= heapBump
  BY DEF MemIs, MemTypes
<1>2. GivenTrue' /\ GivenApart' /\ GivenGuarded'
  BY <1>1, NotHanded
<1>3. HeldTrue' /\ HeldApart' /\ Memory!PagesHeld' = Memory!PagesHeld
  BY <1>1, SlotsKept
<1>4. MemTypes'
  BY DEF MemIs, MemTypes
<1>5. BumpsTrue'
  BY DEF MemIs, BumpsTrue
<1>6. BooksTrue'
  BY <1>3 DEF MemIs, BooksTrue
<1> QED BY <1>2, <1>3, <1>4, <1>5, <1>6 DEF MemIs

LEMMA IdleIs == Memory!NoRegion \in RegRec /\ Memory!Idle \in MemCall /\ Memory!Idle.at = "idle"
<1>1. Memory!NoRegion \in RegRec
  BY DEF Memory!NoRegion, RegRec
<1>2. Memory!Idle.at = "idle" /\ Memory!Idle.reg = Memory!NoRegion /\ Memory!Idle.slot = 0 /\ Memory!Idle.read = 0
  BY DEF Memory!Idle
<1>3. PICK z : z = Memory!NoRegion
  OBVIOUS
<1>4. [at |-> "idle", reg |-> z, slot |-> 0, read |-> 0] \in [at : Steps, reg : RegRec, slot : Nat, read : Int]
  <2>1. \A a \in Steps, b \in RegRec, c \in Nat, e \in Int :
          [at |-> a, reg |-> b, slot |-> c, read |-> e] \in [at : Steps, reg : RegRec, slot : Nat, read : Int]
    OBVIOUS
  <2>2. "idle" \in Steps /\ 0 \in Nat /\ 0 \in Int /\ z \in RegRec
    BY <1>1, <1>3 DEF Steps
  <2> QED BY <2>1, <2>2
<1> QED BY <1>1, <1>2, <1>3, <1>4 DEF Memory!Idle, MemCall

\* A caller begins, or returns.
LEMMA MemCallMoves ==
  ASSUME MemIs, NEW c \in Allocators, NEW r \in MemCall, mpc' = [mpc EXCEPT ![c] = r],
         r.at = "free" => r.slot \in 1..Slots /\ r.reg # Memory!NoRegion,
         r.at = "map" => r.reg.lo >= VmBase /\ r.reg.n = VSize /\ r.reg.lo + VSize <= VmEnd
  PROVE  mpc' \in [Allocators -> MemCall] /\ MemCallsTrue'
<1>1. mpc \in [Allocators -> MemCall]
  BY DEF MemIs, MemTypes
<1>2. mpc' \in [Allocators -> MemCall] /\ mpc'[c] = r /\ \A d \in Allocators : d # c => mpc'[d] = mpc[d]
  BY <1>1
<1> QED BY <1>2 DEF MemIs, MemCallsTrue

LEMMA Returns ==
  ASSUME MemIs, NEW c \in Allocators, mpc' = [mpc EXCEPT ![c] = Memory!Idle]
  PROVE  mpc' \in [Allocators -> MemCall] /\ MemCallsTrue'
<1>1. PICK r \in MemCall : r = Memory!Idle /\ r.at = "idle"
  BY IdleIs
<1>2. mpc' = [mpc EXCEPT ![c] = r]
  BY <1>1
<1> QED BY <1>1, <1>2, MemCallMoves

LEMMA FreeInv ==
  ASSUME MemIs, NEW c \in Allocators, Memory!Free(c)
  PROVE  MemIs'
<1>1. PICK s \in Memory!Held(allocs) :
        mpc' = [mpc EXCEPT ![c] = [at |-> "free", reg |-> allocs[s], slot |-> s, read |-> total]]
  BY DEF Memory!Free
<1>2. UNCHANGED <<heapBump, allocs, total, external, charged, vms, vmBump, stacks, given, billed>>
  BY DEF Memory!Free
<1>3. s \in 1..Slots /\ allocs[s] \in RegRec /\ allocs[s] # Memory!NoRegion /\ total \in Int
      /\ vms \in [1..VmSlots -> RegRec]
  BY DEF MemIs, MemTypes, Memory!Held, Memory!Unused
<1>4. PICK q \in RegRec : q = allocs[s]
  BY <1>3
<1>5. PICK r : r = [at |-> "free", reg |-> q, slot |-> s, read |-> total]
  OBVIOUS
<1>6. r \in MemCall /\ r.at = "free" /\ r.slot = s /\ r.reg = q
  <2>1. s \in Nat
    BY <1>3
  <2> QED BY <1>3, <1>5, <2>1 DEF MemCall, Steps
<1>7. mpc' = [mpc EXCEPT ![c] = r]
  BY <1>1, <1>4, <1>5
<1>8. mpc' \in [Allocators -> MemCall] /\ MemCallsTrue'
  BY <1>3, <1>4, <1>6, <1>7, MemCallMoves
<1> QED BY <1>2, <1>3, <1>8, NothingMoves

LEMMA QueryInv ==
  ASSUME MemIs, NEW c \in Allocators, Memory!Query(c)
  PROVE  MemIs'
<1>1. UNCHANGED <<heapBump, allocs, total, external, charged, vms, vmBump, stacks, given, billed>>
  BY DEF Memory!Query
<1>2. vms \in [1..VmSlots -> RegRec]
  BY DEF MemIs, MemTypes
<1>3. PICK r : r = [Memory!Idle EXCEPT !.at = "query"]
  OBVIOUS
<1>4. r \in MemCall /\ r.at = "query"
  BY <1>3, IdleIs DEF MemCall, Steps
<1>5. mpc' = [mpc EXCEPT ![c] = r]
  BY <1>3 DEF Memory!Query
<1>6. mpc' \in [Allocators -> MemCall] /\ MemCallsTrue'
  BY <1>4, <1>5, MemCallMoves
<1> QED BY <1>1, <1>2, <1>6, NothingMoves

LEMMA MapLookInv ==
  ASSUME MemSizes, MemIs, NEW c \in Allocators, NEW p \in PSizes, Memory!MapLook(c, p)
  PROVE  MemIs'
<1>1. UNCHANGED <<heapBump, allocs, total, external, charged, vms, vmBump, stacks, given, billed>>
  BY DEF Memory!MapLook
<1>2. vms \in [1..VmSlots -> RegRec] /\ vmBump \in Nat /\ vmBump >= VmBase
  BY DEF MemIs, MemTypes, BumpsTrue
<1>3. p \in Nat /\ VSize \in Nat
  BY DEF MemSizes
<1>4. vmBump + VSize <= VmEnd /\ Memory!Unused(vms) # {}
  BY DEF Memory!MapLook
<1>5. PICK s \in Nat : s = Memory!Min(Memory!Unused(vms))
  <2>1. Memory!Unused(vms) \in SUBSET Nat
    BY <1>2 DEF Memory!Unused, MemSizes
  <2> QED BY <1>4, <2>1, LeastIs
<1>6. PICK q : q = Memory!Region(vmBump, VSize, p)
  OBVIOUS
<1>7. q \in RegRec /\ q.lo = vmBump /\ q.n = VSize
  BY <1>2, <1>3, <1>6 DEF Memory!Region, RegRec
<1>8. PICK r : r = [at |-> "map", reg |-> q, slot |-> s, read |-> 0]
  OBVIOUS
<1>9. r \in MemCall /\ r.at = "map" /\ r.reg = q
  <2>1. \A a \in Steps, b \in RegRec, x \in Nat, e \in Int :
          [at |-> a, reg |-> b, slot |-> x, read |-> e] \in MemCall
    BY DEF MemCall
  <2>2. "map" \in Steps /\ 0 \in Int
    BY DEF Steps
  <2>3. r \in MemCall
    BY <1>7, <1>8, <2>1, <2>2
  <2> QED BY <1>8, <2>3
<1>10. mpc' = [mpc EXCEPT ![c] = r]
  BY <1>5, <1>6, <1>8 DEF Memory!MapLook
<1>11. mpc' \in [Allocators -> MemCall] /\ MemCallsTrue'
  BY <1>2, <1>4, <1>7, <1>9, <1>10, MemCallMoves
<1> QED BY <1>1, <1>2, <1>11, NothingMoves

LEMMA UnmapInv ==
  ASSUME MemIs, NEW c \in Allocators, Memory!Unmap(c) \/ Memory!Resize(c), MemSizes
  PROVE  MemIs'
<1>1. UNCHANGED <<heapBump, allocs, total, external, charged, vmBump, stacks, mpc, given, billed>>
  BY DEF Memory!Unmap, Memory!Resize
<1>2. vms \in [1..VmSlots -> RegRec] /\ mpc \in [Allocators -> MemCall] /\ MemCallsTrue
  BY DEF MemIs, MemTypes
<1>3. mpc' \in [Allocators -> MemCall] /\ MemCallsTrue'
  BY <1>1, <1>2 DEF MemCallsTrue
<1>4. vms' \in [1..VmSlots -> RegRec]
  <2>1. CASE Memory!Unmap(c)
    BY <1>2, <2>1, IdleIs DEF Memory!Unmap
  <2>2. CASE Memory!Resize(c)
    <3>1. PICK s \in Memory!Held(vms), p \in PSizes :
            \/ vms' = [vms EXCEPT ![s].p = @ + p]
            \/ p <= vms[s].p /\ vms' = [vms EXCEPT ![s].p = @ - p]
      BY <2>2 DEF Memory!Resize
    <3>2. s \in 1..VmSlots /\ vms[s] \in RegRec /\ p \in Nat /\ vms[s].p \in Nat
      BY <1>2 DEF Memory!Held, Memory!Unused, RegRec, MemSizes
    <3>3. PICK x \in Nat : vms' = [vms EXCEPT ![s].p = x]
      <4>1. CASE vms' = [vms EXCEPT ![s].p = @ + p]
        <5>1. vms[s].p + p \in Nat
          BY <3>2
        <5> QED BY <4>1, <5>1
      <4>2. CASE p <= vms[s].p /\ vms' = [vms EXCEPT ![s].p = @ - p]
        <5>1. vms[s].p - p \in Nat
          BY <3>2, <4>2
        <5> QED BY <4>2, <5>1
      <4> QED BY <3>1, <4>1, <4>2
    <3>4. [vms[s] EXCEPT !.p = x] \in RegRec
      BY <3>2, <3>3 DEF RegRec
    <3> QED BY <1>2, <3>2, <3>3, <3>4
  <2> QED BY <2>1, <2>2
<1> QED BY <1>1, <1>3, <1>4, NothingMoves

LEMMA FreeEndsInv ==
  ASSUME MemSizes, MemIs, NEW c \in Allocators, Memory!FreeEnds(c), ~raced'
  PROVE  MemIs'
<1>1. /\ MemTypes /\ BumpsTrue /\ HeldTrue /\ HeldApart /\ MemCallsTrue /\ BooksTrue
  BY DEF MemIs
<1>2. PICK s : s = mpc[c].slot
  OBVIOUS
<1>3. total = mpc[c].read /\ allocs[s] = mpc[c].reg /\ mpc[c].at = "free"
  BY <1>2 DEF Memory!FreeEnds
<1>4. /\ total' = total - allocs[s].n /\ allocs' = [allocs EXCEPT ![s] = Memory!NoRegion]
      /\ mpc' = [mpc EXCEPT ![c] = Memory!Idle]
      /\ UNCHANGED <<heapBump, external, charged, vms, vmBump, stacks, given, billed>>
  BY <1>2, <1>3 DEF Memory!FreeEnds
<1>5. s \in 1..Slots /\ allocs[s] # Memory!NoRegion /\ s \in Memory!Held(allocs)
  BY <1>1, <1>2, <1>3 DEF MemCallsTrue, Memory!Held, Memory!Unused, MemTypes
<1>6. allocs \in [1..Slots -> RegRec] /\ heapBump \in Nat /\ total \in Int
  BY <1>1 DEF MemTypes
<1>7. PICK q \in RegRec : q = allocs[s] /\ q.n \in Nat
  BY <1>5, <1>6 DEF RegRec
<1>8. /\ allocs' \in [1..Slots -> RegRec] /\ Memory!Held(allocs') = Memory!Held(allocs) \ {s}
      /\ \A t \in Memory!Held(allocs') : allocs'[t] = allocs[t]
  <2>1. Memory!NoRegion \in RegRec
    BY IdleIs
  <2> QED BY <1>4, <1>5, <1>6, <2>1 DEF Memory!Held, Memory!Unused
<1>9. mpc' \in [Allocators -> MemCall] /\ MemCallsTrue'
  BY <1>4, Returns
<1>10. GivenTrue' /\ GivenApart' /\ GivenGuarded'
  BY <1>4, <1>6, NotHanded
<1>11. HeldTrue' /\ HeldApart'
  BY <1>1, <1>4, <1>8 DEF HeldTrue, HeldApart, InWin
<1>12. BumpsTrue'
  BY <1>1, <1>4 DEF BumpsTrue
<1>13. total' \in Int /\ total' = total - q.n
  BY <1>4, <1>6, <1>7
<1>14. MemTypes'
  BY <1>1, <1>4, <1>8, <1>9, <1>13 DEF MemTypes
<1>15. BooksTrue'
  <2>1. Memory!PagesHeld = Memory!PagesHeld' \cup Memory!Pages(q)
    BY <1>5, <1>7, <1>8 DEF Memory!PagesHeld
  <2>2. Memory!PagesHeld' \cap Memory!Pages(q) = {}
    <3>1. ASSUME NEW t \in Memory!Held(allocs') PROVE Memory!Pages(allocs[t]) \cap Memory!Pages(q) = {}
      <4>1. t \in Memory!Held(allocs) /\ t # s /\ allocs[t] \in RegRec
        BY <1>6, <1>8 DEF Memory!Held, Memory!Unused
      <4>2. RegionsApart(allocs[t], q)
        BY <1>1, <1>5, <1>7, <4>1 DEF HeldApart
      <4> QED BY <4>1, <4>2, ApartPages
    <3> QED BY <1>8, <3>1 DEF Memory!PagesHeld
  <2>3. IsFiniteSet(Memory!PagesHeld) /\ total = Cardinality(Memory!PagesHeld) /\ total <= Budget
    BY <1>1 DEF BooksTrue
  <2>4. PICK H : H = Memory!PagesHeld'
    OBVIOUS
  <2>5. Memory!PagesHeld = H \cup Memory!Pages(q) /\ H \cap Memory!Pages(q) = {} /\ H \subseteq Memory!PagesHeld
    BY <2>1, <2>2, <2>4
  <2>6. IsFiniteSet(H)
    BY <2>3, <2>5, FS_Subset
  <2>7. IsFiniteSet(Memory!Pages(q)) /\ Cardinality(Memory!Pages(q)) = q.n
    BY PagesOf
  <2>8. Cardinality(Memory!PagesHeld) = Cardinality(H) + q.n /\ Cardinality(H) \in Nat
    BY <2>5, <2>6, <2>7, Joined
  <2>9. Cardinality(H) = total' /\ total' <= Budget
    <3>1. Budget \in Nat
      BY DEF MemSizes
    <3>2. PICK h \in Nat : h = Cardinality(H)
      BY <2>8
    <3>3. total = h + q.n
      BY <2>3, <2>8, <3>2
    <3> QED BY <1>7, <1>13, <2>3, <3>1, <3>2, <3>3
  <2> QED BY <1>1, <1>4, <2>4, <2>6, <2>9 DEF BooksTrue
<1> QED BY <1>9, <1>10, <1>11, <1>12, <1>14, <1>15 DEF MemIs

LEMMA QueryEndsInv ==
  ASSUME MemSizes, MemIs, NEW c \in Allocators, Memory!QueryEnds(c), ~raced'
  PROVE  MemIs'
<1>1. MemTypes /\ BumpsTrue /\ BooksTrue
  BY DEF MemIs
<1>2. /\ charged = FALSE /\ charged' = TRUE /\ external' = external + Footprint
      /\ mpc' = [mpc EXCEPT ![c] = Memory!Idle]
      /\ UNCHANGED <<heapBump, allocs, total, vms, vmBump, stacks, given, billed>>
  BY <1>1 DEF Memory!QueryEnds, Memory!Charged, MemTypes
<1>3. mpc' \in [Allocators -> MemCall] /\ MemCallsTrue'
  BY <1>2, Returns
<1>4. heapBump' \in Nat /\ heapBump' >= heapBump
  BY <1>1, <1>2 DEF MemTypes
<1>5. GivenTrue' /\ GivenApart' /\ GivenGuarded'
  BY <1>2, <1>4, NotHanded
<1>6. HeldTrue' /\ HeldApart' /\ Memory!PagesHeld' = Memory!PagesHeld
  BY <1>2, <1>4, SlotsKept
<1>7. external \in Int /\ billed \in Nat /\ Footprint \in Nat /\ external = billed
  BY <1>1, <1>2 DEF MemTypes, BooksTrue, MemSizes
<1>8. MemTypes'
  <2>1. external' \in Int /\ charged' \in BOOLEAN
    BY <1>2, <1>7
  <2> QED BY <1>1, <1>2, <1>3, <2>1 DEF MemTypes
<1>9. BumpsTrue'
  BY <1>1, <1>2 DEF BumpsTrue
<1>10. BooksTrue'
  <2>1. external' = billed' + (IF charged' THEN Footprint ELSE 0)
    BY <1>2, <1>7
  <2> QED BY <1>1, <1>2, <1>6, <2>1 DEF BooksTrue
<1> QED BY <1>3, <1>5, <1>6, <1>8, <1>9, <1>10 DEF MemIs

LEMMA MapInv ==
  ASSUME MemSizes, MemIs, NEW c \in Allocators, Memory!Map(c), ~raced'
  PROVE  MemIs'
<1>1. MemTypes /\ BumpsTrue /\ BooksTrue /\ MemCallsTrue
  BY DEF MemIs
<1>2. mpc[c] \in MemCall /\ mpc[c].at = "map"
  BY <1>1 DEF Memory!Map, MemTypes
<1>3. PICK q \in RegRec : q = mpc[c].reg
  BY <1>2 DEF MemCall
<1>4. q.lo \in Nat /\ q.n \in Nat /\ q.p \in Nat
  BY DEF RegRec
<1>5. q.lo >= VmBase /\ q.n = VSize /\ q.lo + VSize <= VmEnd
  BY <1>1, <1>2, <1>3 DEF MemCallsTrue
<1>6. vmBump = q.lo
  BY <1>3 DEF Memory!Map
<1>7. /\ vmBump' = vmBump + q.n /\ vms' = [vms EXCEPT ![mpc[c].slot] = q]
      /\ given' = given \cup {[q EXCEPT !.p = 0]}
      /\ external' = external + q.p /\ billed' = billed + q.p
      /\ mpc' = [mpc EXCEPT ![c] = Memory!Idle]
      /\ UNCHANGED <<heapBump, allocs, total, charged, stacks>>
  BY <1>3 DEF Memory!Map, Memory!Advance
<1>8. PICK r : r = [q EXCEPT !.p = 0]
  OBVIOUS
<1>9. r \in RegRec /\ r.lo = q.lo /\ r.n = q.n
  BY <1>8 DEF RegRec
<1>10. mpc' \in [Allocators -> MemCall] /\ MemCallsTrue'
  BY <1>7, Returns
<1>11. /\ VmBase \in Nat /\ VmEnd \in Nat /\ VSize \in Nat /\ heapBump \in Nat /\ vmBump \in Nat /\ stacks \in Nat
       /\ external \in Int /\ billed \in Nat /\ charged \in BOOLEAN /\ Footprint \in Nat
  BY <1>1 DEF MemSizes, MemTypes
<1>12. /\ heapBump' \in Nat /\ vmBump' \in Nat /\ stacks' \in Nat
       /\ heapBump' >= heapBump /\ vmBump' >= vmBump /\ stacks' >= stacks
       /\ vmBump' <= VmEnd /\ vmBump' >= VmBase
  BY <1>4, <1>5, <1>6, <1>7, <1>11
<1>13. InVm(r)' /\ r.lo >= vmBump
  BY <1>4, <1>5, <1>6, <1>7, <1>9, <1>11 DEF InVm
<1>14. given' = given \cup {r}
  BY <1>7, <1>8
<1>15. GivenTrue' /\ GivenApart' /\ GivenGuarded'
  BY <1>9, <1>12, <1>13, <1>14, Handed
<1>16. HeldTrue' /\ HeldApart' /\ Memory!PagesHeld' = Memory!PagesHeld
  BY <1>7, <1>12, SlotsKept
<1>17. MemTypes'
  <2>1. external' \in Int /\ billed' \in Nat
    BY <1>4, <1>7, <1>11
  <2>2. vms' \in [1..VmSlots -> RegRec] /\ given' \subseteq RegRec
    BY <1>1, <1>7, <1>9, <1>14 DEF MemTypes
  <2> QED BY <1>1, <1>7, <1>10, <1>12, <2>1, <2>2 DEF MemTypes
<1>18. BumpsTrue'
  BY <1>1, <1>7, <1>12 DEF BumpsTrue
<1>19. BooksTrue'
  <2>1. PICK k \in Nat : k = IF charged THEN Footprint ELSE 0
    BY <1>11
  <2>2. external = billed + k
    BY <1>1, <2>1 DEF BooksTrue
  <2>3. external' = billed' + k
    BY <1>4, <1>7, <1>11, <2>2
  <2>4. external' = billed' + (IF charged' THEN Footprint ELSE 0)
    BY <1>7, <2>1, <2>3
  <2> QED BY <1>1, <1>7, <1>16, <2>4 DEF BooksTrue
<1> QED BY <1>10, <1>15, <1>16, <1>17, <1>18, <1>19 DEF MemIs

LEMMA AllocateStackInv ==
  ASSUME MemSizes, MemIs, NEW c \in Allocators, NEW n \in Sizes, Memory!AllocateStack(c, n)
  PROVE  MemIs'
<1>1. MemTypes /\ BumpsTrue /\ BooksTrue /\ MemCallsTrue
  BY DEF MemIs
<1>2. n \in Nat /\ StackBase \in Nat /\ StackEnd \in Nat /\ heapBump \in Nat /\ vmBump \in Nat /\ stacks \in Nat
      /\ vmBump <= VmEnd /\ stacks >= StackBase
  BY <1>1 DEF MemSizes, MemTypes, BumpsTrue
<1>3. PICK r : r = Memory!Region(stacks + 1, n, 0)
  OBVIOUS
<1>4. r \in RegRec /\ r.lo = stacks + 1 /\ r.n = n
  BY <1>2, <1>3 DEF Memory!Region, RegRec
<1>5. /\ stacks + n + 1 <= StackEnd /\ stacks' = stacks + n + 1 /\ given' = given \cup {r}
      /\ UNCHANGED <<heapBump, allocs, total, external, charged, vms, vmBump, mpc, billed>>
  BY <1>3 DEF Memory!AllocateStack, Memory!Guard
<1>6. /\ heapBump' \in Nat /\ vmBump' \in Nat /\ stacks' \in Nat
      /\ heapBump' >= heapBump /\ vmBump' >= vmBump /\ stacks' >= stacks /\ vmBump' <= VmEnd
  BY <1>2, <1>5
<1>7. InStack(r)' /\ r.lo > stacks
  BY <1>2, <1>4, <1>5 DEF InStack
<1>8. GivenTrue' /\ GivenApart' /\ GivenGuarded'
  BY <1>4, <1>5, <1>6, <1>7, Handed
<1>9. HeldTrue' /\ HeldApart' /\ Memory!PagesHeld' = Memory!PagesHeld
  BY <1>5, <1>6, SlotsKept
<1>10. MemTypes'
  <2>1. given' \subseteq RegRec
    BY <1>1, <1>4, <1>5 DEF MemTypes
  <2> QED BY <1>1, <1>5, <1>6, <2>1 DEF MemTypes
<1>11. BumpsTrue'
  <2>1. stacks' >= StackBase
    BY <1>2, <1>5
  <2> QED BY <1>1, <1>5, <2>1 DEF BumpsTrue
<1>12. BooksTrue'
  BY <1>1, <1>5, <1>9 DEF BooksTrue
<1>13. MemCallsTrue'
  BY <1>1, <1>5 DEF MemCallsTrue
<1> QED BY <1>8, <1>9, <1>10, <1>11, <1>12, <1>13 DEF MemIs

-----------------------------------------------------------------------------
(* The whole *)

LEMMA MemInitInv == MemSizes /\ Memory!Init => MemInv
<1> SUFFICES ASSUME MemSizes, Memory!Init PROVE MemIs
  BY DEF MemInv
<1>1. /\ heapBump = 0 /\ total = 0 /\ external = 0 /\ charged = FALSE /\ vmBump = VmBase /\ stacks = StackBase
      /\ given = {} /\ billed = 0
      /\ allocs = [s \in 1 .. Slots |-> Memory!NoRegion] /\ vms = [s \in 1 .. VmSlots |-> Memory!NoRegion]
      /\ mpc = [c \in Allocators |-> Memory!Idle]
  BY DEF Memory!Init
<1>2. VmBase \in Nat /\ StackBase \in Nat /\ VmBase <= VmEnd /\ Budget \in Nat
  BY DEF MemSizes
<1>3. Memory!Held(allocs) = {} /\ Memory!PagesHeld = {}
  BY <1>1 DEF Memory!Held, Memory!Unused, Memory!PagesHeld
<1>4. MemTypes
  <2>1. heapBump \in Nat /\ vmBump \in Nat /\ stacks \in Nat
    BY <1>1, <1>2
  <2>2. total \in Int /\ external \in Int
    BY DEF Memory!Init
  <2>5. billed \in Nat /\ charged \in BOOLEAN
    BY DEF Memory!Init
  <2>3. allocs \in [1..Slots -> RegRec] /\ vms \in [1..VmSlots -> RegRec] /\ mpc \in [Allocators -> MemCall]
    BY <1>1, IdleIs
  <2>4. given \subseteq RegRec
    BY <1>1
  <2> QED BY <2>1, <2>2, <2>3, <2>4, <2>5 DEF MemTypes
<1>5. BumpsTrue
  <2>1. heapBump = 0 \/ (heapBump >= Base /\ heapBump <= Top)
    <3>1. heapBump = 0
      BY DEF Memory!Init
    <3> QED BY <3>1
  <2>2. vmBump >= VmBase /\ vmBump <= VmEnd /\ stacks >= StackBase
    BY <1>1, <1>2
  <2> QED BY <2>1, <2>2 DEF BumpsTrue
<1>6. GivenTrue /\ GivenApart /\ GivenGuarded
  BY <1>1 DEF GivenTrue, GivenApart, GivenGuarded
<1>7. HeldTrue /\ HeldApart
  BY <1>3 DEF HeldTrue, HeldApart
<1>8. MemCallsTrue
  BY <1>1, IdleIs DEF MemCallsTrue
<1>9. BooksTrue
  <2>1. IsFiniteSet(Memory!PagesHeld) /\ Cardinality(Memory!PagesHeld) = 0
    BY <1>3, FS_EmptySet
  <2> QED BY <1>1, <1>2, <2>1 DEF BooksTrue
<1> QED BY <1>4, <1>5, <1>6, <1>7, <1>8, <1>9 DEF MemIs

LEMMA MemNextInv == MemSizes /\ MemInv /\ [Memory!Next]_(Memory!memVars) => MemInv'
<1> SUFFICES ASSUME MemSizes, MemInv, [Memory!Next]_(Memory!memVars), ~raced' PROVE MemIs'
  BY DEF MemInv
<1>1. CASE Memory!Next
  <2>0. MemIs
    BY <1>1 DEF Memory!Next, MemInv
  <2>1. PICK c \in Allocators :
          \/ \E size \in Sizes, align \in {1, MB} : Memory!Allocate(c, size, align)
          \/ \E size \in Sizes, align \in {1, MB} : Memory!AllocateAddress(c, size, align)
          \/ Memory!Free(c) \/ Memory!FreeEnds(c) \/ Memory!Query(c) \/ Memory!QueryEnds(c)
          \/ \E p \in PSizes : Memory!MapLook(c, p)
          \/ Memory!Map(c) \/ Memory!Unmap(c) \/ Memory!Resize(c)
          \/ \E n \in Sizes : n < MB /\ Memory!AllocateStack(c, n)
    BY <1>1 DEF Memory!Next
  <2>2. ASSUME NEW size \in Sizes, NEW align \in {1, MB}, Memory!Allocate(c, size, align) PROVE MemIs'
    BY <2>0, <2>2, AllocateInv
  <2>3. ASSUME NEW size \in Sizes, NEW align \in {1, MB}, Memory!AllocateAddress(c, size, align) PROVE MemIs'
    BY <2>0, <2>3, AllocateAddressInv
  <2>4. CASE Memory!Free(c)
    BY <2>0, <2>4, FreeInv
  <2>5. CASE Memory!FreeEnds(c)
    BY <2>0, <2>5, FreeEndsInv
  <2>6. CASE Memory!Query(c)
    BY <2>0, <2>6, QueryInv
  <2>7. CASE Memory!QueryEnds(c)
    BY <2>0, <2>7, QueryEndsInv
  <2>8. ASSUME NEW p \in PSizes, Memory!MapLook(c, p) PROVE MemIs'
    BY <2>0, <2>8, MapLookInv
  <2>9. CASE Memory!Map(c)
    BY <2>0, <2>9, MapInv
  <2>10. CASE Memory!Unmap(c) \/ Memory!Resize(c)
    BY <2>0, <2>10, UnmapInv
  <2>11. ASSUME NEW n \in Sizes, Memory!AllocateStack(c, n) PROVE MemIs'
    BY <2>0, <2>11, AllocateStackInv
  <2> QED BY <2>1, <2>2, <2>3, <2>4, <2>5, <2>6, <2>7, <2>8, <2>9, <2>10, <2>11
<1>2. CASE UNCHANGED Memory!memVars
  <2>1. UNCHANGED <<heapBump, allocs, total, external, charged, vms, vmBump, stacks, mpc, given, billed, raced>>
    BY <1>2 DEF Memory!memVars
  <2>2. MemIs
    BY <2>1 DEF MemInv
  <2>3. vms' \in [1..VmSlots -> RegRec] /\ mpc' \in [Allocators -> MemCall] /\ MemCallsTrue'
    BY <2>1, <2>2 DEF MemIs, MemTypes, MemCallsTrue
  <2> QED BY <2>1, <2>2, <2>3, NothingMoves
<1> QED BY <1>1, <1>2

LEMMA MemFollows == MemSizes /\ MemInv => Memory!MemorySound
<1> SUFFICES ASSUME MemSizes, MemIs PROVE Memory!RegionsApart /\ Memory!Accounted
  BY DEF MemInv, Memory!MemorySound
<1>1. /\ MemTypes /\ BumpsTrue /\ GivenTrue /\ GivenApart /\ GivenGuarded /\ HeldTrue /\ HeldApart /\ BooksTrue
  BY DEF MemIs
<1>2. Memory!Accounted
  <2>1. Memory!Cardinality(Memory!PagesHeld) = Cardinality(Memory!PagesHeld)
    BY SameCardinality
  <2> QED BY <1>1, <2>1 DEF BooksTrue, Memory!Accounted
<1>3. \A r \in given : r \in RegRec /\ r.lo \in Nat /\ r.n \in Nat
  BY <1>1 DEF MemTypes, RegRec
<1>4. \A r, q \in given : r # q => Memory!Pages(r) \cap Memory!Pages(q) = {}
  BY <1>1, <1>3, ApartPages DEF GivenApart
<1>5. /\ Base \in Nat /\ WindowEnd \in Nat /\ VmBase \in Nat /\ VmEnd \in Nat /\ StackBase \in Nat /\ StackEnd \in Nat
      /\ WindowEnd <= VmBase /\ VmBase <= VmEnd /\ VmEnd < StackBase
      /\ heapBump \in Nat /\ vmBump \in Nat /\ stacks \in Nat /\ vmBump <= VmEnd
  BY <1>1 DEF MemSizes, MemTypes, BumpsTrue
<1>6. ASSUME NEW r \in given
      PROVE  \/ Memory!Pages(r) \subseteq Memory!Window
             \/ Memory!Pages(r) \subseteq VmBase .. VmEnd - 1
             \/ Memory!Pages(r) \subseteq StackBase .. StackEnd - 1
  <2>1. InWin(r) => Memory!Pages(r) \subseteq Memory!Window
    BY <1>3, <1>5 DEF InWin, Memory!Pages, Memory!Window
  <2>2. InVm(r) => Memory!Pages(r) \subseteq VmBase .. VmEnd - 1
    BY <1>3, <1>5 DEF InVm, Memory!Pages
  <2>3. InStack(r) => Memory!Pages(r) \subseteq StackBase .. StackEnd - 1
    BY <1>3, <1>5 DEF InStack, Memory!Pages
  <2> QED BY <1>1, <2>1, <2>2, <2>3 DEF GivenTrue
<1>7. ASSUME NEW s \in Memory!Held(allocs), NEW a \in Memory!Pages(allocs[s])
      PROVE  Memory!PageSize(a) = allocs[s].p
  <2> DEFINE holds == {t \in Memory!Held(allocs) : a >= allocs[t].lo /\ a < allocs[t].lo + allocs[t].n}
  <2>1. \A t \in Memory!Held(allocs) : allocs[t] \in RegRec /\ allocs[t].lo \in Nat /\ allocs[t].n \in Nat /\ t \in 1..Slots
    BY <1>1 DEF MemTypes, Memory!Held, Memory!Unused, RegRec
  <2>2. a \in Int /\ a >= allocs[s].lo /\ a < allocs[s].lo + allocs[s].n
    BY <2>1 DEF Memory!Pages
  <2>3. ASSUME NEW t \in holds PROVE t = s
    <3>1. t \in Memory!Held(allocs) /\ a >= allocs[t].lo /\ a < allocs[t].lo + allocs[t].n
      OBVIOUS
    <3>2. t # s => RegionsApart(allocs[t], allocs[s])
      BY <1>1, <3>1 DEF HeldApart
    <3> QED BY <2>1, <2>2, <3>1, <3>2 DEF RegionsApart
  <2>4. holds = {s}
    BY <2>2, <2>3
  <2>5. Memory!Min({s}) = s
    <3>1. {s} \in SUBSET Nat
      BY <2>1
    <3> QED BY <3>1, LeastIs
  <2>6. Memory!PageSize(a) = IF holds = {} THEN 1 ELSE allocs[Memory!Min(holds)].p
    BY DEF Memory!PageSize
  <2> HIDE DEF holds
  <2> QED BY <2>4, <2>5, <2>6
<1>8. ASSUME NEW r \in given, r.lo >= StackBase, NEW q \in given
      PROVE  r.lo - 1 \notin Memory!Pages(q)
  <2>1. r.lo \in Nat /\ r.n \in Nat /\ q.lo \in Nat /\ q.n \in Nat
    BY <1>3
  <2>2. SUFFICES ASSUME q.lo <= r.lo - 1, r.lo - 1 <= q.lo + q.n - 1 PROVE FALSE
    BY <2>1 DEF Memory!Pages
  <2>3. InWin(q) \/ InVm(q) \/ InStack(q)
    BY <1>1 DEF GivenTrue
  <2>4. InWin(r) \/ InVm(r) \/ InStack(r)
    BY <1>1 DEF GivenTrue
  <2>5. Guarded(r, q)
    BY <1>1 DEF GivenGuarded
  <2>6. r.lo > StackBase
    BY <1>5, <1>8, <2>1, <2>4 DEF InWin, InVm, InStack
  <2>7. CASE InStack(q)
    BY <1>5, <2>1, <2>2, <2>5, <2>6, <2>7 DEF Guarded, InStack
  <2>8. CASE InWin(q) \/ InVm(q)
    BY <1>5, <2>1, <2>2, <2>6, <2>8 DEF InWin, InVm
  <2> QED BY <2>3, <2>7, <2>8
<1> QED BY <1>2, <1>4, <1>6, <1>7, <1>8 DEF Memory!RegionsApart

(* As long as no unlocked code raced, no page is handed out twice, whatever is
   allocated, reserved, mapped or freed and whatever wraps; a page is reported
   with the page size of its own region; the page below a stack is nobody's;
   and the total is what the slots hold, and within the budget.              *)
THEOREM RegionsStayApart ==
  ASSUME MemSizes
  PROVE  Memory!Init /\ [][Memory!Next]_(Memory!memVars) => []Memory!MemorySound
<1>1. Memory!Init => MemInv
  BY MemInitInv
<1>2. MemInv /\ [Memory!Next]_(Memory!memVars) => MemInv'
  BY MemNextInv
<1>3. MemInv => Memory!MemorySound
  BY MemFollows
<1> QED BY <1>1, <1>2, <1>3, PTL

-----------------------------------------------------------------------------
(* Files *)

FileSizes ==
    /\ Fds \subseteq Nat /\ "closed" \notin Names /\ Flags \subseteq Fs!Every
    /\ Len(Entries) \in Nat /\ Entries = [i \in 1..Len(Entries) |-> Entries[i]]

FileContents  == {"none", "empty", "data"}
HostStream == [name : Names \cup {"closed"}, writes : BOOLEAN, open : BOOLEAN]
OpenRec   == [at : {"outside", "find", "open", "set"}, name : Names \cup {""},
              flags : SUBSET Flags, stream : Nat, fd : Fds \cup {Fs!NoFd}]

FileTypes ==
    /\ api \in {"cell", "sys"}
    /\ host \in [Names -> FileContents]
    /\ fds \in [Fds -> Nat] /\ held = fds
    /\ streams \in Seq(HostStream)
    /\ fpc \in [Openers -> OpenRec]

\* A caller has a stream from its open to the end of the call, and a place from its search.
OpensTrue ==
    \A c \in Openers :
        /\ fpc[c].at \in {"outside", "open"} => fpc[c].stream = 0
        /\ fpc[c].at \in {"find", "set"} => fpc[c].stream \in 1..Len(streams)
        /\ fpc[c].at \in {"open", "set"} => fpc[c].fd \in Fds
        /\ fpc[c].at = "open" => fpc[c].name \in Names

\* An open stream is in one place.
StreamsTrue ==
    /\ \A fd \in Fds : fds[fd] \in 0..Len(streams)
    /\ \A s \in 1..Len(streams) :
          /\ streams[s].open => streams[s].name \in Names /\ host[streams[s].name] # "none"
          /\ streams[s].open <=> (\E fd \in Fds : fds[fd] = s) \/ (\E c \in Openers : fpc[c].stream = s)
    /\ \A fd, gd \in Fds : fds[fd] = fds[gd] /\ fds[fd] # 0 => fd = gd
    /\ \A c, d \in Openers : fpc[c].stream = fpc[d].stream /\ fpc[c].stream # 0 => c = d
    /\ \A c \in Openers, fd \in Fds : fpc[c].stream = fds[fd] => fds[fd] = 0

\* Where the search is, and what it has reported.
DirTrue ==
    /\ dir.used \in BOOLEAN /\ dir.first \in BOOLEAN /\ dir.done \in BOOLEAN
    /\ dir = [used |-> dir.used, next |-> dir.next, first |-> dir.first, done |-> dir.done]
    /\ Len(got) <= Len(Entries) /\ got = SubSeq(Entries, 1, Len(got)) /\ Len(got) \in Nat
    /\ dir.used => /\ dir.first => dir.next = 1 /\ Len(got) = 0 /\ Len(Entries) > 0
                   /\ ~dir.first => dir.next = Len(got)
                   /\ dir.done => ~dir.first /\ dir.next = Len(Entries)

FileInv == fileRaced \/ (FileTypes /\ OpensTrue /\ StreamsTrue /\ DirTrue)

-----------------------------------------------------------------------------

LEMMA LowestIsIn ==
  ASSUME FileSizes, Fs!Unused # {}
  PROVE  Fs!Min(Fs!Unused) \in Fds /\ fds[Fs!Min(Fs!Unused)] = 0
<1>1. Fs!Unused \in SUBSET Nat
  BY DEF Fs!Unused, FileSizes
<1>2. \E i \in Fs!Unused : \A j \in Fs!Unused : i <= j
  BY <1>1, LeastExists
<1>3. Fs!Min(Fs!Unused) \in Fs!Unused
  BY <1>2 DEF Fs!Min
<1> QED BY <1>3 DEF Fs!Unused, Fs!NoStream

\* A file that was opened is there.
Sane(o) ==
    /\ o.ok \in BOOLEAN /\ o.writes \in BOOLEAN /\ o.content \in FileContents
    /\ o.ok => o.content # "none"

LEMMA OpenMakes ==
  ASSUME NEW a \in {"cell", "sys"}, NEW f \in Fs!Every, NEW x \in FileContents
  PROVE  Sane(Fs!Opened(a, f, x))
<1> DEFINE m == Fs!ModeOf(a, f)
<1>1. m.base \in {"r", "w", "a"} /\ m.plus \in BOOLEAN
  BY DEF Fs!ModeOf, Fs!CellMode, Fs!SysMode, Fs!Mode, Fs!Every, Fs!Access
<1>2. ASSUME NEW q, q.base \in {"r", "w", "a"}, q.plus \in BOOLEAN
      PROVE  Sane(Fs!FOpen(q, x))
  BY <1>2 DEF Fs!FOpen, FileContents, Sane
<1>3. PICK w : w = Fs!Mode("w", TRUE)
  OBVIOUS
<1>4. Fs!Opened(a, f, x) = Fs!FOpen(m, x) \/ Fs!Opened(a, f, x) = Fs!FOpen(w, x)
  BY <1>3 DEF Fs!Opened
<1>5. w.base = "w" /\ w.plus \in BOOLEAN
  BY <1>3 DEF Fs!Mode
<1> HIDE DEF m
<1>6. Sane(Fs!FOpen(m, x))
  BY <1>1, <1>2
<1>7. Sane(Fs!FOpen(w, x))
  BY <1>2, <1>5
<1> QED BY <1>4, <1>6, <1>7

LEMMA FlagsAgree ==
  ASSUME api \in {"cell", "sys"}
  PROVE  Fs!OpensAgree
<1> SUFFICES ASSUME NEW f \in Fs!Every, NEW x \in {"none", "data"},
                    ~(IF api = "cell" THEN Fs!CellDiffers(f) ELSE Fs!SysDiffers(f))
             PROVE  Fs!Agree(Fs!Opened(api, f, x), Fs!Wanted(f, x))
  BY DEF Fs!OpensAgree
<1>1. f.acc \in Fs!Access /\ f.creat \in BOOLEAN /\ f.trunc \in BOOLEAN /\ f.append \in BOOLEAN
  BY DEF Fs!Every
<1>2. CASE api = "cell"
  <2>1. ~Fs!CellDiffers(f)
    BY <1>2
  <2> QED BY <1>1, <1>2, <2>1 DEF Fs!CellDiffers, Fs!Creates, Fs!Agree, Fs!Opened, Fs!Wanted,
            Fs!ModeOf, Fs!CellMode, Fs!FOpen, Fs!Mode, Fs!Access
<1>3. CASE api = "sys"
  <2>1. ~Fs!SysDiffers(f)
    BY <1>3
  <2> QED BY <1>1, <1>3, <2>1 DEF Fs!SysDiffers, Fs!Creates, Fs!Agree, Fs!Opened, Fs!Wanted,
            Fs!ModeOf, Fs!SysMode, Fs!FOpen, Fs!Mode, Fs!Access
<1> QED BY <1>2, <1>3

-----------------------------------------------------------------------------

\* A stream is opened by a caller that had none.
LEMMA StreamOpens ==
  ASSUME FileSizes, FileTypes, OpensTrue, StreamsTrue, DirTrue, NEW c \in Openers, NEW name \in Names,
         NEW f \in Flags, NEW at, \/ at = "find" /\ fpc[c].at = "outside"
                                  \/ at = "set" /\ fpc[c].at = "open",
         Fs!FOpens(c, name, f, at), UNCHANGED <<api, fds, dir, got, held, fileRaced>>
  PROVE  FileInv'
<1> DEFINE o == Fs!Opened(api, f, host[name])
           s == Len(streams) + 1
           x == [name |-> name, writes |-> o.writes, open |-> TRUE]
<1>1. Sane(o)
  <2>1. api \in {"cell", "sys"} /\ f \in Fs!Every /\ host[name] \in FileContents
    BY DEF FileTypes, FileSizes
  <2> QED BY <2>1, OpenMakes
<1>2. fpc[c] \in OpenRec /\ fpc[c].stream = 0 /\ Len(streams) \in Nat
  BY DEF FileTypes, OpensTrue
<1>3. DirTrue'
  BY DEF DirTrue
<1>4. CASE ~o.ok
  <2>1. UNCHANGED <<host, streams>> /\ fpc' = [fpc EXCEPT ![c] = Fs!Outside]
    BY <1>4 DEF Fs!FOpens, Fs!Leaves
  <2>2. Fs!Outside \in OpenRec /\ Fs!Outside.stream = 0 /\ Fs!Outside.at = "outside"
    BY DEF Fs!Outside, OpenRec, Fs!NoStream
  <2>3. FileTypes'
    BY <2>1, <2>2 DEF FileTypes
  <2>4. OpensTrue'
    BY <1>2, <2>1, <2>2 DEF FileTypes, OpensTrue
  <2>5. \A d \in Openers : fpc'[d].stream = fpc[d].stream
    BY <1>2, <2>1, <2>2 DEF FileTypes
  <2>6. StreamsTrue'
    BY <2>1, <2>5 DEF StreamsTrue
  <2> QED BY <1>3, <2>3, <2>4, <2>6 DEF FileInv
<1>5. CASE o.ok
  <2>0. /\ host' = [host EXCEPT ![name] = o.content] /\ streams' = Append(streams, x)
        /\ fpc' = [fpc EXCEPT ![c] = [fpc[c] EXCEPT !.at = at, !.stream = s]]
    BY <1>5 DEF Fs!FOpens, FileTypes
  <2>1. x \in HostStream /\ x.open /\ x.name = name
    BY <1>1 DEF Sane, HostStream
  <2>2. /\ streams' \in Seq(HostStream) /\ Len(streams') = s /\ streams'[s] = x
        /\ \A i \in 1..Len(streams) : streams'[i] = streams[i]
    <3> HIDE DEF x
    <3> QED BY <2>0, <2>1 DEF FileTypes
  <2>3. PICK y : y = [fpc[c] EXCEPT !.at = at, !.stream = s]
    OBVIOUS
  <2>4. y \in OpenRec /\ y.at = at /\ y.stream = s /\ y.fd = fpc[c].fd /\ y.name = fpc[c].name
    <3>1. s \in Nat /\ at \in {"find", "set"}
      BY <1>2
    <3> HIDE DEF s
    <3> QED BY <1>2, <2>3, <3>1 DEF OpenRec
  <2>5. fpc' = [fpc EXCEPT ![c] = y] /\ fpc' \in [Openers -> OpenRec]
    BY <2>0, <2>3, <2>4 DEF FileTypes
  <2>6. /\ host' \in [Names -> FileContents] /\ host'[name] # "none"
        /\ \A n \in Names : host[n] # "none" => host'[n] # "none"
    BY <1>1, <1>5, <2>0 DEF FileTypes, Sane
  <2>7. FileTypes'
    BY <2>2, <2>5, <2>6 DEF FileTypes
  <2>8. fpc'[c] = y /\ \A d \in Openers \ {c} : fpc'[d] = fpc[d]
    BY <2>5 DEF FileTypes
  <2>9. OpensTrue'
    BY <1>2, <2>2, <2>4, <2>8 DEF OpensTrue
  <2>10. \A i \in 1..s : i = s \/ i \in 1..Len(streams)
    BY <1>2
  <2>11. StreamsTrue'
    <3>1. \A fd \in Fds : fds'[fd] \in 0..Len(streams')
      BY <1>2, <2>2 DEF StreamsTrue
    <3>2. \A i \in 1..Len(streams') : streams'[i].open =>
             streams'[i].name \in Names /\ host'[streams'[i].name] # "none"
      <4> TAKE i \in 1..Len(streams')
      <4>1. CASE i = s
        BY <2>1, <2>2, <2>6, <4>1
      <4>2. CASE i \in 1..Len(streams)
        BY <2>2, <2>6, <4>2 DEF StreamsTrue
      <4> QED BY <2>2, <2>10, <4>1, <4>2
    <3>3. ASSUME NEW i \in 1..Len(streams')
          PROVE  streams'[i].open <=> (\E fd \in Fds : fds'[fd] = i) \/ (\E d \in Openers : fpc'[d].stream = i)
      <4>1. CASE i = s
        BY <2>1, <2>2, <2>4, <2>8, <4>1
      <4>2. CASE i \in 1..Len(streams)
        <5>1. i # s /\ i # 0
          BY <1>2, <4>2
        <5>2. \A d \in Openers : fpc'[d].stream = i <=> fpc[d].stream = i
          BY <1>2, <2>4, <2>8, <5>1
        <5> QED BY <2>2, <4>2, <5>2 DEF StreamsTrue
      <4> QED BY <2>2, <2>10, <4>1, <4>2
    <3>4. \A d \in Openers : fpc[d].stream \in 0..Len(streams)
      <4> TAKE d \in Openers
      <4>1. fpc[d].at \in {"outside", "find", "open", "set"}
        BY DEF FileTypes, OpenRec
      <4> QED BY <1>2, <4>1 DEF OpensTrue
    <3>5. \A d, g \in Openers : fpc'[d].stream = fpc'[g].stream /\ fpc'[d].stream # 0 => d = g
      BY <1>2, <2>4, <2>8, <3>4 DEF StreamsTrue
    <3>6. \A d \in Openers, fd \in Fds : fpc'[d].stream = fds'[fd] => fds'[fd] = 0
      BY <1>2, <2>4, <2>8 DEF StreamsTrue
    <3> QED BY <3>1, <3>2, <3>3, <3>5, <3>6 DEF StreamsTrue
  <2> QED BY <1>3, <2>7, <2>9, <2>11 DEF FileInv
<1> QED BY <1>1, <1>4, <1>5 DEF Sane

\* A caller is given a place and has its stream before and after, or goes on without one.
LEMMA OpenMoves ==
  ASSUME FileTypes, OpensTrue, StreamsTrue, DirTrue, NEW c \in Openers, NEW y \in OpenRec,
         fpc' = [fpc EXCEPT ![c] = y], y.stream = fpc[c].stream,
         y.at \in {"find", "set"} => fpc[c].stream \in 1..Len(streams),
         y.at \in {"outside", "open"} => fpc[c].stream = 0,
         y.at \in {"open", "set"} => y.fd \in Fds,
         y.at = "open" => y.name \in Names,
         UNCHANGED <<api, host, fds, streams, dir, got, held, fileRaced>>
  PROVE  FileInv'
<1>1. fpc' \in [Openers -> OpenRec] /\ fpc'[c] = y /\ \A d \in Openers \ {c} : fpc'[d] = fpc[d]
  BY DEF FileTypes
<1>2. FileTypes' /\ DirTrue'
  BY <1>1 DEF FileTypes, DirTrue
<1>3. OpensTrue'
  BY <1>1 DEF OpensTrue
<1>4. \A d \in Openers : fpc'[d].stream = fpc[d].stream
  BY <1>1
<1>5. StreamsTrue'
  BY <1>4 DEF StreamsTrue
<1> QED BY <1>2, <1>3, <1>5 DEF FileInv

LEMMA ClosedIs ==
  ASSUME NEW x \in HostStream
  PROVE  Fs!Closed(x) \in HostStream /\ ~Fs!Closed(x).open
  BY DEF Fs!Closed, HostStream

\* A stream is closed by the one place it was in.
LEMMA StreamCloses ==
  ASSUME FileTypes, StreamsTrue, NEW s \in 1..Len(streams),
         streams' = [streams EXCEPT ![s] = Fs!Closed(streams[s])], UNCHANGED <<host>>,
         \A fd \in Fds : fds'[fd] = IF fds[fd] = s THEN 0 ELSE fds[fd],
         \A d \in Openers : fpc'[d].stream = IF fpc[d].stream = s THEN 0 ELSE fpc[d].stream
  PROVE  StreamsTrue' /\ streams' \in Seq(HostStream) /\ Len(streams') = Len(streams)
<1>1. streams[s] \in HostStream /\ Len(streams) \in Nat /\ s # 0
  BY DEF FileTypes
<1>2. PICK x : x = Fs!Closed(streams[s])
  OBVIOUS
<1>3. x \in HostStream /\ ~x.open
  BY <1>1, <1>2, ClosedIs
<1>4. /\ streams' \in Seq(HostStream) /\ Len(streams') = Len(streams) /\ streams'[s] = x
      /\ \A i \in 1..Len(streams) : i # s => streams'[i] = streams[i]
  BY <1>2, <1>3 DEF FileTypes
<1>5. \A fd \in Fds : fds'[fd] \in 0..Len(streams')
  BY <1>1, <1>4 DEF StreamsTrue
<1>6. \A i \in 1..Len(streams') : streams'[i].open =>
         streams'[i].name \in Names /\ host'[streams'[i].name] # "none"
  BY <1>3, <1>4 DEF StreamsTrue
<1>7. ASSUME NEW i \in 1..Len(streams')
      PROVE  streams'[i].open <=> (\E fd \in Fds : fds'[fd] = i) \/ (\E d \in Openers : fpc'[d].stream = i)
  <2>1. CASE i = s
    BY <1>1, <1>3, <1>4, <2>1
  <2>2. CASE i # s
    <3>1. i # 0 /\ i \in 1..Len(streams)
      BY <1>1, <1>4
    <3>2. \A fd \in Fds : fds'[fd] = i <=> fds[fd] = i
      BY <2>2, <3>1
    <3>3. \A d \in Openers : fpc'[d].stream = i <=> fpc[d].stream = i
      BY <2>2, <3>1
    <3> QED BY <1>4, <2>2, <3>1, <3>2, <3>3 DEF StreamsTrue
  <2> QED BY <2>1, <2>2
<1>8. \A fd, gd \in Fds : fds'[fd] = fds'[gd] /\ fds'[fd] # 0 => fd = gd
  BY DEF StreamsTrue
<1>9. \A c, d \in Openers : fpc'[c].stream = fpc'[d].stream /\ fpc'[c].stream # 0 => c = d
  BY DEF StreamsTrue
<1>10. \A c \in Openers, fd \in Fds : fpc'[c].stream = fds'[fd] => fds'[fd] = 0
  BY DEF StreamsTrue
<1> QED BY <1>4, <1>5, <1>6, <1>7, <1>8, <1>9, <1>10 DEF StreamsTrue

LEMMA OutsideIs == Fs!Outside \in OpenRec /\ Fs!Outside.at = "outside" /\ Fs!Outside.stream = 0
  BY DEF Fs!Outside, OpenRec, Fs!NoStream

LEMMA FindKeeps ==
  ASSUME FileSizes, FileTypes, OpensTrue, StreamsTrue, DirTrue, NEW c \in Openers, Fs!CellFind(c)
  PROVE  FileInv'
<1> DEFINE s == fpc[c].stream
<1>1. fpc[c] \in OpenRec /\ fpc[c].at = "find" /\ s \in 1..Len(streams)
  BY DEF Fs!CellFind, FileTypes, OpensTrue
<1>2. CASE Fs!Unused = {}
  <2>1. /\ fpc' = [fpc EXCEPT ![c] = Fs!Outside] /\ UNCHANGED <<api, host, fds, dir, got, held, fileRaced>>
        /\ streams' = [streams EXCEPT ![s] = Fs!Closed(streams[s])]
    BY <1>1, <1>2 DEF Fs!CellFind, Fs!Leaves, FileTypes
  <2>2. /\ fpc' \in [Openers -> OpenRec] /\ fpc'[c] = Fs!Outside
        /\ \A d \in Openers \ {c} : fpc'[d] = fpc[d]
    BY <2>1, OutsideIs DEF FileTypes
  <2>3. \A fd \in Fds : fds[fd] # s
    BY <1>1 DEF StreamsTrue
  <2>4. \A d \in Openers \ {c} : fpc[d].stream # s
    BY <1>1 DEF StreamsTrue
  <2>5. \A d \in Openers : fpc'[d].stream = IF fpc[d].stream = s THEN 0 ELSE fpc[d].stream
    BY <2>2, <2>4, OutsideIs
  <2>6. StreamsTrue' /\ streams' \in Seq(HostStream) /\ Len(streams') = Len(streams)
    <3> HIDE DEF s
    <3> QED BY <1>1, <2>1, <2>3, <2>5, StreamCloses
  <2>7. OpensTrue'
    BY <2>2, <2>6, OutsideIs DEF OpensTrue
  <2>8. FileTypes' /\ DirTrue'
    BY <2>1, <2>2, <2>6 DEF FileTypes, DirTrue
  <2> QED BY <2>6, <2>7, <2>8 DEF FileInv
<1>3. CASE Fs!Unused # {}
  <2>1. PICK fd : fd = Fs!Min(Fs!Unused)
    OBVIOUS
  <2>2. fd \in Fds
    BY <1>3, <2>1, LowestIsIn
  <2>3. PICK y : y = [fpc[c] EXCEPT !.at = "set", !.fd = fd]
    OBVIOUS
  <2>4. y \in OpenRec /\ y.at = "set" /\ y.fd = fd /\ y.stream = fpc[c].stream
    BY <1>1, <2>2, <2>3 DEF OpenRec
  <2>5. fpc' = [fpc EXCEPT ![c] = y] /\ UNCHANGED <<api, host, fds, streams, dir, got, held, fileRaced>>
    BY <1>3, <2>1, <2>3 DEF Fs!CellFind, FileTypes
  <2> QED BY <1>1, <2>2, <2>4, <2>5, OpenMoves
<1> QED BY <1>2, <1>3

LEMMA SysFindKeeps ==
  ASSUME FileSizes, FileTypes, OpensTrue, StreamsTrue, DirTrue, NEW c \in Openers,
         NEW name \in Names, NEW f \in Flags, Fs!SysFind(c, name, f)
  PROVE  FileInv'
<1>1. PICK fd : fd = Fs!Min(Fs!Unused)
  OBVIOUS
<1>2. fd \in Fds /\ fpc[c].at = "outside"
  BY <1>1, LowestIsIn DEF Fs!SysFind, Fs!Beyond
<1>3. PICK y : y = [at |-> "open", name |-> name, flags |-> {f}, stream |-> Fs!NoStream, fd |-> fd]
  OBVIOUS
<1>4. y \in OpenRec /\ y.at = "open" /\ y.fd = fd /\ y.stream = 0 /\ y.name = name
  BY <1>2, <1>3 DEF OpenRec, Fs!NoStream
<1>5. fpc' = [fpc EXCEPT ![c] = y] /\ UNCHANGED <<api, host, fds, streams, dir, got, held, fileRaced>>
  BY <1>1, <1>3 DEF Fs!SysFind
<1>6. fpc[c].stream = 0
  BY <1>2 DEF OpensTrue
<1> QED BY <1>2, <1>4, <1>5, <1>6, OpenMoves

\* The stream of a call goes to the descriptor the call found, if that is still free.
LEMMA SetKeeps ==
  ASSUME FileTypes, OpensTrue, StreamsTrue, DirTrue, NEW c \in Openers, Fs!Set(c)
  PROVE  FileInv'
<1> DEFINE s == fpc[c].stream
           fd == fpc[c].fd
<1>1. fpc[c] \in OpenRec /\ s \in 1..Len(streams) /\ fd \in Fds /\ Len(streams) \in Nat
  BY DEF Fs!Set, FileTypes, OpensTrue
<1>2. SUFFICES ASSUME fds[fd] = 0 PROVE FileInv'
  BY DEF Fs!Set, FileInv, Fs!NoStream
<1>3. /\ fds' = [fds EXCEPT ![fd] = s] /\ held' = [held EXCEPT ![fd] = s]
      /\ fpc' = [fpc EXCEPT ![c] = Fs!Outside] /\ UNCHANGED <<api, host, streams, dir, got>>
  BY DEF Fs!Set, Fs!Leaves
<1>4. /\ fpc' \in [Openers -> OpenRec] /\ fpc'[c] = Fs!Outside
      /\ \A d \in Openers \ {c} : fpc'[d] = fpc[d]
  BY <1>3, OutsideIs DEF FileTypes
<1>5. fds' \in [Fds -> Nat] /\ fds'[fd] = s /\ \A gd \in Fds \ {fd} : fds'[gd] = fds[gd]
  BY <1>1, <1>3 DEF FileTypes
<1>6. FileTypes' /\ DirTrue'
  BY <1>3, <1>4, <1>5 DEF FileTypes, DirTrue
<1>7. OpensTrue'
  BY <1>3, <1>4, OutsideIs DEF OpensTrue
<1>8. \A d \in Openers \ {c} : fpc[d].stream # s
  BY <1>1 DEF StreamsTrue
<1>9. \A gd \in Fds : fds[gd] # s
  BY <1>1 DEF StreamsTrue
<1>10. StreamsTrue'
  <2>1. \A gd \in Fds : fds'[gd] \in 0..Len(streams')
    BY <1>1, <1>3, <1>5 DEF StreamsTrue
  <2>2. ASSUME NEW i \in 1..Len(streams)
        PROVE  (\E gd \in Fds : fds'[gd] = i) \/ (\E d \in Openers : fpc'[d].stream = i)
               <=> (\E gd \in Fds : fds[gd] = i) \/ (\E d \in Openers : fpc[d].stream = i)
    <3>1. CASE i = s
      BY <1>1, <1>5, <3>1
    <3>2. CASE i # s
      <4>1. i # 0
        BY <1>1
      <4>2. \A gd \in Fds : fds'[gd] = i <=> fds[gd] = i
        BY <1>2, <1>5, <3>2, <4>1
      <4>3. \A d \in Openers : fpc'[d].stream = i <=> fpc[d].stream = i
        BY <1>4, <3>2, <4>1, OutsideIs
      <4> QED BY <4>2, <4>3
    <3> QED BY <3>1, <3>2
  <2>3. \A i \in 1..Len(streams') :
           /\ streams'[i].open => streams'[i].name \in Names /\ host'[streams'[i].name] # "none"
           /\ streams'[i].open <=> (\E gd \in Fds : fds'[gd] = i) \/ (\E d \in Openers : fpc'[d].stream = i)
    BY <1>3, <2>2 DEF StreamsTrue
  <2>4. \A gd, hd \in Fds : fds'[gd] = fds'[hd] /\ fds'[gd] # 0 => gd = hd
    BY <1>5, <1>9 DEF StreamsTrue
  <2>5. \A d, e \in Openers : fpc'[d].stream = fpc'[e].stream /\ fpc'[d].stream # 0 => d = e
    BY <1>4, OutsideIs DEF StreamsTrue
  <2>6. \A d \in Openers, gd \in Fds : fpc'[d].stream = fds'[gd] => fds'[gd] = 0
    <3>1. \A d \in Openers, gd \in Fds : d # c /\ gd # fd /\ fpc'[d].stream = fds'[gd] => fds'[gd] = 0
      BY <1>4, <1>5 DEF StreamsTrue
    <3>2. \A gd \in Fds : fpc'[c].stream = fds'[gd] => fds'[gd] = 0
      BY <1>4, OutsideIs
    <3>3. \A d \in Openers : d # c => fpc'[d].stream # fds'[fd]
      BY <1>4, <1>5, <1>8
    <3> QED BY <3>1, <3>2, <3>3
  <2> QED BY <2>1, <2>3, <2>4, <2>5, <2>6 DEF StreamsTrue
<1> QED BY <1>6, <1>7, <1>10 DEF FileInv

LEMMA CloseKeeps ==
  ASSUME FileTypes, OpensTrue, StreamsTrue, DirTrue, NEW fd \in Fds, Fs!Close(fd)
  PROVE  FileInv'
<1> DEFINE s == fds[fd]
<1>1. s \in 1..Len(streams) /\ Len(streams) \in Nat
  BY DEF Fs!Close, StreamsTrue, Fs!NoStream, FileTypes
<1>2. /\ fds' = [fds EXCEPT ![fd] = 0] /\ held' = [held EXCEPT ![fd] = 0]
      /\ streams' = [streams EXCEPT ![s] = Fs!Closed(streams[s])]
      /\ UNCHANGED <<api, host, dir, got, fpc>>
  BY <1>1 DEF Fs!Close, Fs!NoStream, FileTypes
<1>3. fds' \in [Fds -> Nat] /\ fds'[fd] = 0 /\ \A gd \in Fds \ {fd} : fds'[gd] = fds[gd]
  BY <1>2 DEF FileTypes
<1>4. \A gd \in Fds : fds'[gd] = IF fds[gd] = s THEN 0 ELSE fds[gd]
  BY <1>1, <1>3 DEF StreamsTrue
<1>5. \A d \in Openers : fpc[d].stream # s
  BY <1>1 DEF StreamsTrue
<1>6. \A d \in Openers : fpc'[d].stream = IF fpc[d].stream = s THEN 0 ELSE fpc[d].stream
  BY <1>2, <1>5
<1>7. StreamsTrue' /\ streams' \in Seq(HostStream) /\ Len(streams') = Len(streams)
  <2> HIDE DEF s
  <2> QED BY <1>1, <1>2, <1>4, <1>6, StreamCloses
<1>8. FileTypes' /\ DirTrue'
  BY <1>2, <1>3, <1>7 DEF FileTypes, DirTrue
<1>9. OpensTrue'
  BY <1>2, <1>7 DEF OpensTrue
<1> QED BY <1>7, <1>8, <1>9 DEF FileInv

\* Files change, and those that are open stay.
LEMMA HostChanges ==
  ASSUME FileTypes, OpensTrue, StreamsTrue, DirTrue, host' \in [Names -> FileContents],
         \A n \in Names : Fs!OpenOn(n) /\ host[n] # "none" => host'[n] # "none",
         UNCHANGED <<api, fds, streams, dir, got, fpc, held, fileRaced>>
  PROVE  FileInv'
<1>1. FileTypes' /\ DirTrue' /\ OpensTrue'
  BY DEF FileTypes, DirTrue, OpensTrue
<1>2. \A s \in 1..Len(streams) : streams[s].open =>
         streams[s].name \in Names /\ host'[streams[s].name] # "none"
  <2> TAKE s \in 1..Len(streams)
  <2> HAVE streams[s].open
  <2>1. streams[s].name \in Names /\ host[streams[s].name] # "none"
    BY DEF StreamsTrue
  <2>2. Fs!OpenOn(streams[s].name)
    BY DEF Fs!OpenOn, FileTypes
  <2> QED BY <2>1, <2>2
<1>3. StreamsTrue'
  BY <1>2 DEF StreamsTrue
<1> QED BY <1>1, <1>3 DEF FileInv

LEMMA ChangeKeeps ==
  ASSUME FileTypes, OpensTrue, StreamsTrue, DirTrue, NEW fd \in Fds,
         NEW content \in {"empty", "data"}, Fs!Change(fd, content)
  PROVE  FileInv'
<1>1. /\ host' = [host EXCEPT ![streams[fds[fd]].name] = content]
      /\ UNCHANGED <<api, fds, streams, dir, got, fpc, held, fileRaced>>
  BY DEF Fs!Change
<1>2. /\ host' \in [Names -> FileContents]
      /\ \A n \in Names : host[n] # "none" => host'[n] # "none"
  BY <1>1 DEF FileTypes, FileContents
<1> QED BY <1>1, <1>2, HostChanges

LEMMA NamesKeep ==
  ASSUME FileTypes, OpensTrue, StreamsTrue, DirTrue, NEW name \in Names,
         Fs!Unlink(name) \/ Fs!CellTruncate(name) \/ \E to \in Names : Fs!Rename(name, to)
  PROVE  FileInv'
<1>1. ~Fs!OpenOn(name) /\ UNCHANGED <<api, fds, streams, dir, got, fpc, held, fileRaced>>
  BY DEF Fs!Unlink, Fs!CellTruncate, Fs!Rename
<1>2. host' \in [Names -> FileContents]
  BY DEF Fs!Unlink, Fs!CellTruncate, Fs!Rename, FileTypes, FileContents
<1>3. \A n \in Names : n # name /\ host[n] # "none" => host'[n] # "none"
  BY DEF Fs!Unlink, Fs!CellTruncate, Fs!Rename, FileTypes
<1> QED BY <1>1, <1>2, <1>3, HostChanges

-----------------------------------------------------------------------------
(* A directory *)

LEMMA DirMoves ==
  ASSUME FileTypes, OpensTrue, StreamsTrue, DirTrue', UNCHANGED <<api, host, fds, streams, fpc, held>>
  PROVE  FileInv'
<1>1. FileTypes' /\ OpensTrue'
  BY DEF FileTypes, OpensTrue
<1>2. StreamsTrue'
  BY DEF StreamsTrue
<1> QED BY <1>1, <1>2 DEF FileInv

LEMMA EntriesOfNames ==
  ASSUME FileSizes
  PROVE  Entries \in Seq({Entries[i] : i \in 1..Len(Entries)})
  BY DEF FileSizes

LEMMA OpenDirKeeps ==
  ASSUME FileSizes, FileTypes, OpensTrue, StreamsTrue, DirTrue, Fs!OpenDir
  PROVE  FileInv'
<1>1. /\ dir' = [used |-> TRUE, next |-> 1, first |-> TRUE, done |-> FALSE] /\ got' = <<>>
      /\ Entries # <<>> /\ UNCHANGED <<api, host, fds, streams, fpc, held>>
  BY DEF Fs!OpenDir
<1>2. Len(Entries) \in Nat /\ Len(Entries) > 0
  BY <1>1, EntriesOfNames
<1>3. SubSeq(Entries, 1, 0) = <<>>
  BY EntriesOfNames
<1>4. DirTrue'
  BY <1>1, <1>2, <1>3 DEF DirTrue
<1> QED BY <1>1, <1>4, DirMoves

LEMMA CloseDirKeeps ==
  ASSUME FileTypes, OpensTrue, StreamsTrue, DirTrue, Fs!CloseDir
  PROVE  FileInv'
<1>1. dir' = Fs!NoDir /\ UNCHANGED <<api, host, fds, streams, fpc, held, got>>
  BY DEF Fs!CloseDir
<1>2. DirTrue'
  BY <1>1 DEF DirTrue, Fs!NoDir
<1> QED BY <1>1, <1>2, DirMoves

LEMMA EntryKeeps ==
  ASSUME FileSizes, FileTypes, OpensTrue, StreamsTrue, DirTrue, dir.used, ~Fs!AtEnd, ~dir.done, Fs!Entry,
         UNCHANGED <<api, host, fds, streams, fpc, held>>
  PROVE  FileInv'
<1> DEFINE S == {Entries[i] : i \in 1..Len(Entries)}
           n == IF dir.first THEN dir.next ELSE dir.next + 1
<1>1. Entries \in Seq(S) /\ Len(Entries) \in Nat
  BY EntriesOfNames
<1>2. n = Len(got) + 1 /\ n \in 1..Len(Entries) /\ Len(got) \in Nat
  BY <1>1 DEF DirTrue, Fs!AtEnd
<1>3. dir' = [dir EXCEPT !.next = n, !.first = FALSE] /\ got' = Append(got, Entries[n])
  BY DEF Fs!Entry, Fs!PastFirst
<1>4. got \in Seq(S) /\ got = SubSeq(Entries, 1, Len(got))
  <2> HIDE DEF S
  <2>1. PICK k : k = Len(got)
    OBVIOUS
  <2>2. k \in Nat /\ k <= Len(Entries) /\ got = SubSeq(Entries, 1, k)
    BY <2>1 DEF DirTrue
  <2>3. SubSeq(Entries, 1, k) \in Seq(S)
    BY <1>1, <2>2
  <2> QED BY <2>1, <2>2, <2>3
<1>5. Len(got') = n /\ got' = SubSeq(Entries, 1, n)
  <2> HIDE DEF S, n
  <2>1. Entries[n] \in S
    BY <1>1, <1>2
  <2>2. Len(got') = n
    BY <1>2, <1>3, <1>4, <2>1
  <2>3. \A i \in 1..n : got'[i] = Entries[i]
    BY <1>1, <1>2, <1>3, <1>4, <2>1
  <2>4. got' \in Seq(S) /\ SubSeq(Entries, 1, n) \in Seq(S) /\ Len(SubSeq(Entries, 1, n)) = n
    BY <1>1, <1>2, <1>3, <1>4, <2>1
  <2>5. \A i \in 1..n : SubSeq(Entries, 1, n)[i] = Entries[i]
    BY <1>1, <1>2
  <2> QED BY <2>2, <2>3, <2>4, <2>5, SeqEqual
<1>6. /\ dir'.used = TRUE /\ dir'.first = FALSE /\ dir'.done = FALSE /\ dir'.next = n
      /\ dir' = [used |-> dir'.used, next |-> dir'.next, first |-> dir'.first, done |-> dir'.done]
  BY <1>3 DEF DirTrue
<1>7. DirTrue'
  <2> HIDE DEF n
  <2>1. Len(got') \in Nat /\ Len(got') <= Len(Entries) /\ got' = SubSeq(Entries, 1, Len(got'))
    BY <1>1, <1>2, <1>5
  <2> QED BY <1>5, <1>6, <2>1 DEF DirTrue
<1> QED BY <1>7, DirMoves

LEMMA NoEntryKeeps ==
  ASSUME FileSizes, FileTypes, OpensTrue, StreamsTrue, DirTrue, dir.used, Fs!AtEnd \/ dir.done, Fs!NoEntry,
         UNCHANGED <<api, host, fds, streams, fpc, held>>
  PROVE  FileInv'
<1>1. dir' = [dir EXCEPT !.done = TRUE] /\ got' = got
  BY DEF Fs!NoEntry
<1>2. ~dir.first /\ dir.next = Len(Entries)
  BY DEF Fs!AtEnd, DirTrue
<1>3. DirTrue'
  BY <1>1, <1>2 DEF DirTrue
<1> QED BY <1>3, DirMoves

-----------------------------------------------------------------------------

LEMMA FileInitInv == ASSUME FileSizes, Fs!Init PROVE FileInv
<1>1. FileTypes
  BY OutsideIs DEF Fs!Init, FileTypes, Fs!NoStream, FileContents
<1>2. OpensTrue /\ StreamsTrue
  BY OutsideIs DEF Fs!Init, OpensTrue, StreamsTrue, Fs!NoStream
<1>3. DirTrue
  <2>1. SubSeq(Entries, 1, 0) = <<>> /\ Len(Entries) \in Nat
    BY EntriesOfNames
  <2> QED BY <2>1 DEF Fs!Init, DirTrue, Fs!NoDir
<1> QED BY <1>1, <1>2, <1>3 DEF FileInv

LEMMA FileNextInv == ASSUME FileSizes, FileInv, [Fs!Next]_(Fs!fileVars) PROVE FileInv'
<1>1. CASE UNCHANGED Fs!fileVars
  BY <1>1 DEF Fs!fileVars, FileInv, FileTypes, OpensTrue, StreamsTrue, DirTrue
<1> SUFFICES ASSUME Fs!Next PROVE FileInv'
  BY <1>1
<1>2. FileTypes /\ OpensTrue /\ StreamsTrue /\ DirTrue
  BY DEF FileInv, Fs!Next
<1>3. ASSUME NEW c \in Openers, NEW name \in Names, NEW f \in Flags, Fs!CellOpen(c, name, f)
      PROVE  FileInv'
  <2>1. fpc[c].at = "outside" /\ Fs!FOpens(c, name, f, "find") /\ UNCHANGED <<api, fds, dir, got, held, fileRaced>>
    BY <1>3 DEF Fs!CellOpen, Fs!Beyond
  <2> QED BY <1>2, <2>1, StreamOpens
<1>4. ASSUME NEW c \in Openers, NEW name \in Names, NEW f \in Flags, Fs!SysFind(c, name, f)
      PROVE  FileInv'
  BY <1>2, <1>4, SysFindKeeps
<1>5. ASSUME NEW c \in Openers, Fs!CellFind(c) PROVE FileInv'
  BY <1>2, <1>5, FindKeeps
<1>6. ASSUME NEW c \in Openers, Fs!SysOpen(c) PROVE FileInv'
  <2>1. PICK f \in fpc[c].flags : Fs!FOpens(c, fpc[c].name, f, "set")
    BY <1>6 DEF Fs!SysOpen
  <2>2. fpc[c].at = "open" /\ UNCHANGED <<api, fds, dir, got, held, fileRaced>>
    BY <1>6 DEF Fs!SysOpen
  <2>3. f \in Flags /\ fpc[c].name \in Names
    <3>1. fpc[c].flags \subseteq Flags
      BY <1>2 DEF FileTypes, OpenRec
    <3> QED BY <1>2, <2>2, <3>1 DEF OpensTrue
  <2> QED BY <1>2, <2>1, <2>2, <2>3, StreamOpens
<1>7. ASSUME NEW c \in Openers, Fs!Set(c) PROVE FileInv'
  BY <1>2, <1>7, SetKeeps
<1>8. ASSUME NEW fd \in Fds, Fs!CellClose(fd) \/ Fs!SysClose(fd) PROVE FileInv'
  BY <1>2, <1>8, CloseKeeps DEF Fs!CellClose, Fs!SysClose
<1>9. ASSUME NEW fd \in Fds, Fs!CellWrite(fd) \/ Fs!SysWrite(fd) \/ Fs!CellFtruncate(fd) \/ Fs!SysFtruncate(fd)
      PROVE  FileInv'
  <2>1. Fs!Change(fd, "data") \/ Fs!Change(fd, "empty")
    BY <1>9 DEF Fs!CellWrite, Fs!SysWrite, Fs!CellFtruncate, Fs!SysFtruncate
  <2> QED BY <1>2, <2>1, ChangeKeeps
<1>10. ASSUME NEW name \in Names, Fs!CellUnlink(name) \/ Fs!SysUnlink(name) \/ Fs!CellTruncate(name)
       PROVE  FileInv'
  BY <1>2, <1>10, NamesKeep DEF Fs!CellUnlink, Fs!SysUnlink
<1>11. ASSUME NEW from \in Names, NEW to \in Names, Fs!CellRename(from, to) \/ Fs!SysRename(from, to)
       PROVE  FileInv'
  BY <1>2, <1>11, NamesKeep DEF Fs!CellRename, Fs!SysRename
<1>12. ASSUME Fs!CellOpendir \/ Fs!SysOpendir PROVE FileInv'
  BY <1>2, <1>12, OpenDirKeeps DEF Fs!CellOpendir, Fs!SysOpendir
<1>13. ASSUME Fs!CellReaddir \/ Fs!SysReaddir PROVE FileInv'
  <2>1. dir.used /\ UNCHANGED <<api, host, fds, streams, fpc, held>>
    BY <1>13 DEF Fs!CellReaddir, Fs!SysReaddir
  <2>2. dir.done => Fs!AtEnd
    BY <1>2, <2>1 DEF DirTrue, Fs!AtEnd
  <2>3. ((Fs!AtEnd \/ dir.done) /\ Fs!NoEntry) \/ (~Fs!AtEnd /\ ~dir.done /\ Fs!Entry)
    BY <1>13, <2>2 DEF Fs!CellReaddir, Fs!SysReaddir
  <2> QED BY <1>2, <2>1, <2>3, EntryKeeps, NoEntryKeeps
<1>14. ASSUME Fs!CellClosedir \/ Fs!SysClosedir PROVE FileInv'
  BY <1>2, <1>14, CloseDirKeeps DEF Fs!CellClosedir, Fs!SysClosedir
<1> QED BY <1>3, <1>4, <1>5, <1>6, <1>7, <1>8, <1>9, <1>10, <1>11, <1>12, <1>13, <1>14 DEF Fs!Next

LEMMA FileFollows == ASSUME FileSizes, FileInv PROVE Fs!FilesSound
<1> SUFFICES ASSUME ~fileRaced PROVE Fs!OpensAgree /\ Fs!FdsExact /\ Fs!EntriesOnce
  BY DEF Fs!FilesSound
<1>1. FileTypes /\ OpensTrue /\ StreamsTrue /\ DirTrue
  BY DEF FileInv
<1>2. Fs!OpensAgree
  BY <1>1, FlagsAgree DEF FileTypes
<1>3. Fs!FdsExact
  <2>1. DOMAIN streams = 1..Len(streams)
    BY <1>1 DEF FileTypes
  <2>2. \A fd \in Fds : held[fd] = fds[fd]
    BY <1>1 DEF FileTypes
  <2>3. \A fd \in Fds : fds[fd] # Fs!NoStream => streams[fds[fd]].open
    <3> TAKE fd \in Fds
    <3> HAVE fds[fd] # Fs!NoStream
    <3>1. fds[fd] \in 1..Len(streams)
      BY <1>1 DEF StreamsTrue, Fs!NoStream, FileTypes
    <3> QED BY <1>1, <3>1 DEF StreamsTrue
  <2>4. \A s \in DOMAIN streams :
           /\ streams[s].open <=> (\E fd \in Fds : fds[fd] = s) \/ (\E c \in Openers : fpc[c].stream = s)
           /\ streams[s].open => host[streams[s].name] # "none"
    BY <1>1, <2>1 DEF StreamsTrue
  <2> QED BY <2>2, <2>3, <2>4 DEF Fs!FdsExact
<1>4. Fs!EntriesOnce
  <2>1. SubSeq(Entries, 1, Len(Entries)) = Entries
    BY EntriesOfNames
  <2>2. dir.used /\ dir.done => got = Entries
    BY <1>1, <2>1 DEF DirTrue
  <2> QED BY <1>1, <2>2 DEF Fs!EntriesOnce, DirTrue
<1> QED BY <1>2, <1>3, <1>4

(* As long as no two opens took one place, a descriptor of the guest stands for
   the open stream its open made and no stream is left open without one; the
   file of an open stream is there; and a directory reports each entry once,
   in order, and all of them before its end.                                 *)
THEOREM DescriptorsAreExact ==
  ASSUME FileSizes
  PROVE  Fs!Init /\ [][Fs!Next]_(Fs!fileVars) => []Fs!FilesSound
<1>1. Fs!Init => FileInv
  BY FileInitInv
<1>2. FileInv /\ [Fs!Next]_(Fs!fileVars) => FileInv'
  BY FileNextInv
<1>3. FileInv => Fs!FilesSound
  BY FileFollows
<1> QED BY <1>1, <1>2, <1>3, PTL

-----------------------------------------------------------------------------
(* Saves *)

SaveSizes ==
    /\ "" \notin Dirs /\ IsFiniteSet(Files) /\ MaxSecure \in Nat
    /\ Spans \subseteq Nat \X Nat /\ MaxOps \in Int

SfoRec  == [ver : Int, secure : SUBSET Files]
Content == Seq(Nat) \cup {Saves!None}
DirRec  == [there : BOOLEAN, files : [Files -> Content], sfo : SfoRec, tmp : SfoRec]
Ask     == [content : Content, secure : BOOLEAN]
Within  == {"stat", "file", "write", "sfo", "tmp", "rename"}
OpRec   == [pc : {"idle", "select"} \cup Within, dir : Dirs \cup {""}, saving : BOOLEAN,
            meta : SfoRec, left : Int, fileOp : Saves!FileOps \cup {Saves!NoFileOp}]

SaveTypes ==
    /\ disk \in [Dirs -> DirRec]
    /\ op \in OpRec /\ saves \in Nat
    /\ wanted \in [Dirs -> [Files -> Ask]]
    /\ shown \in [Dirs -> Int]
    /\ upset \subseteq Dirs

\* PARAM.SFO is that of the last completed save, and its directory is there.
SfosTrue ==
    \A d \in Dirs :
        /\ disk[d].sfo.ver = shown[d]
        /\ disk[d].sfo = Saves!NoSfo \/ (disk[d].sfo.ver > 0 /\ disk[d].there)

\* What the operation has of its directory.
OpTrue ==
    /\ op.pc \in {"idle", "select"} => op.dir = ""
    /\ op.pc # "idle" => saves > 0
    /\ op.pc = "idle" => op = Saves!Idle
    /\ op.pc \in Within =>
          /\ op.dir \in Dirs
          /\ op.meta.ver > 0 => disk[op.dir].there
          /\ op.saving /\ op.meta.ver <= 0 => disk[op.dir].sfo = Saves!NoSfo
    /\ op.pc = "stat" => op.meta = IF disk[op.dir].there THEN disk[op.dir].sfo ELSE Saves!NoSfo
    /\ op.pc = "write" =>
          op.fileOp \in Saves!FileOps /\ disk[op.dir].files[op.fileOp.file] \in Seq(Nat)
    /\ op.pc \in {"sfo", "tmp", "rename"} => op.saving /\ op.meta.ver > 0
    /\ op.pc = "rename" => disk[op.dir].tmp = op.meta

\* What the host makes of a file.
Put(v, cells, fop) == Saves!Trimmed(Saves!Patch(cells, Saves!From(fop), fop.span[2], v), fop.do, Saves!To(fop))

\* A file is what the guest asked for, or will be at the end of the write.
FileTrue(d, f) ==
    IF op.pc = "write" /\ op.dir = d /\ op.fileOp.file = f
    THEN Put(saves, disk[d].files[f], op.fileOp) = wanted[d][f].content
    ELSE disk[d].files[f] = wanted[d][f].content

FilesTrue == \A d \in Dirs \ upset : \A f \in Files : FileTrue(d, f)

\* The marks are in PARAM.SFO, or in the parameters of the save that is under way.
Asked(d) == {f \in Files : wanted[d][f].secure}
InHand(d) == op.pc \in Within \ {"stat"} /\ op.dir = d /\ op.saving
MarksTrue ==
    MaxSecure >= Cardinality(Files) =>
        \A d \in Dirs \ upset : Asked(d) = IF InHand(d) THEN op.meta.secure ELSE disk[d].sfo.secure

SaveInv == SaveTypes /\ SfosTrue /\ OpTrue /\ FilesTrue /\ MarksTrue

-----------------------------------------------------------------------------
(* Contents *)

LEMMA NoneIs == Saves!None \notin Seq(Nat) /\ Saves!Cells(Saves!None) = <<>> /\ \A x \in Seq(Nat) : Saves!Cells(x) = x
<1>1. Saves!None \notin Seq(Nat)
  BY DEF Saves!None
<1> QED BY <1>1 DEF Saves!Cells

LEMMA Greater ==
  ASSUME NEW a \in Nat, NEW b \in Nat
  PROVE  Saves!Max({a, b}) = IF a >= b THEN a ELSE b
<1>1. Saves!Max({a, b}) = CHOOSE x \in {a, b} : \A y \in {a, b} : x >= y
  BY DEF Saves!Max
<1>2. (IF a >= b THEN a ELSE b) \in {a, b} /\ \A y \in {a, b} : (IF a >= b THEN a ELSE b) >= y
  OBVIOUS
<1>3. \A x, z \in {a, b} : (\A y \in {a, b} : x >= y) /\ (\A y \in {a, b} : z >= y) => x = z
  OBVIOUS
<1> QED BY <1>1, <1>2, <1>3

LEMMA SpanIs ==
  ASSUME SaveSizes, NEW fop \in Saves!FileOps
  PROVE  /\ Saves!From(fop) \in Nat /\ fop.span[2] \in Nat /\ Saves!To(fop) = Saves!From(fop) + fop.span[2]
         /\ Saves!To(fop) \in Nat /\ fop.file \in Files /\ fop.do \in {"write", "notrunc"}
         /\ fop.secure \in BOOLEAN
<1>1. fop.span \in Nat \X Nat /\ fop.file \in Files /\ fop.do \in {"write", "notrunc"} /\ fop.secure \in BOOLEAN
  BY DEF Saves!FileOps, SaveSizes
<1> QED BY <1>1 DEF Saves!From, Saves!To

LEMMA Prefix ==
  ASSUME NEW p \in Seq(Nat), NEW b \in Nat, b <= Len(p)
  PROVE  /\ SubSeq(p, 1, b) \in Seq(Nat) /\ Len(SubSeq(p, 1, b)) = b
         /\ \A i \in 1..b : SubSeq(p, 1, b)[i] = p[i]
<1>1. /\ 1 \in Int /\ b \in Int /\ \A i \in 1..b : p[i] \in Nat
      /\ (IF 1 <= b THEN b - 1 + 1 ELSE 0) = b /\ b - 1 + 1 = b
  OBVIOUS
<1>2. SubSeq(p, 1, b) \in Seq(Nat) /\ Len(SubSeq(p, 1, b)) = b
  BY <1>1, SubSeqProperties
<1>3. \A i \in 1..b : SubSeq(p, 1, b)[i] = p[1 + i - 1]
  BY <1>1, SubSeqProperties
<1>4. \A i \in 1..b : 1 + i - 1 = i
  OBVIOUS
<1> QED BY <1>2, <1>3, <1>4

LEMMA WrittenIs ==
  ASSUME SaveSizes, saves \in Nat, NEW fop \in Saves!FileOps, NEW c \in Seq(Nat)
  PROVE  Saves!Written(c, fop) \in Seq(Nat)
<1> DEFINE m == IF Saves!To(fop) >= Len(c) THEN Saves!To(fop) ELSE Len(c)
           p == [i \in 1..m |-> IF i > Saves!From(fop) /\ i <= Saves!To(fop) THEN saves
                                ELSE IF i <= Len(c) THEN c[i] ELSE 0]
<1>1. Saves!From(fop) \in Nat /\ Saves!To(fop) \in Nat /\ Saves!To(fop) = Saves!From(fop) + fop.span[2] /\ Len(c) \in Nat /\ m \in Nat
  BY SpanIs
<1>2. Saves!Patch(c, Saves!From(fop), fop.span[2], saves) = p
  <2>1. Saves!Max({Saves!To(fop), Len(c)}) = m
    BY <1>1, Greater
  <2>2. Saves!Patch(c, Saves!From(fop), fop.span[2], saves) =
          [i \in 1..m |-> IF i > Saves!From(fop) /\ i <= Saves!From(fop) + fop.span[2] THEN saves
                           ELSE IF i <= Len(c) THEN c[i] ELSE 0]
    BY <1>1, <2>1 DEF Saves!Patch
  <2> QED BY <1>1, <2>2
<1>3. p \in Seq(Nat) /\ Len(p) = m
  <2>1. \A i \in 1..m : p[i] \in Nat
    BY <1>1
  <2> HIDE DEF m
  <2> QED BY <1>1, <2>1
<1>4. Saves!To(fop) <= m
  BY <1>1
<1> HIDE DEF p, m
<1>5. SubSeq(p, 1, Saves!To(fop)) \in Seq(Nat)
  BY <1>1, <1>3, <1>4, Prefix
<1> QED BY <1>2, <1>3, <1>5 DEF Saves!Written, Saves!Trimmed

\* The host's file operations make what the guest asked for of every content.
LEMMA WritesAsAsked ==
  ASSUME SaveSizes, saves \in Nat, NEW fop \in Saves!FileOps, NEW x \in Content
  PROVE  /\ Put(saves, Saves!Opened(x, fop), fop) = Saves!Reference(Saves!Cells(x), fop)
         /\ Saves!Reference(Saves!Cells(x), fop) \in Seq(Nat)
         /\ Saves!Opened(x, fop) \in Seq(Nat)
<1> DEFINE c == Saves!Cells(x)
           o == Saves!Opened(x, fop)
           a == Saves!From(fop)
           b == Saves!To(fop)
           m == IF b >= Len(o) THEN b ELSE Len(o)
           l == IF fop.do = "write" THEN b ELSE m
           p == [i \in 1..m |-> IF i > a /\ i <= b THEN saves ELSE IF i <= Len(o) THEN o[i] ELSE 0]
           r == [i \in 1..l |-> IF i \in a + 1..b THEN saves ELSE IF i <= Len(c) THEN c[i] ELSE 0]
<1>1. a \in Nat /\ b \in Nat /\ a <= b /\ b = a + fop.span[2] /\ fop.do \in {"write", "notrunc"}
  BY SpanIs
<1>2. c \in Seq(Nat)
  <2>1. x = Saves!None => c = <<>>
    BY NoneIs
  <2>2. x \in Seq(Nat) => c = x
    BY NoneIs
  <2>3. x \in Seq(Nat) \/ x = Saves!None
    BY DEF Content
  <2>4. CASE x = Saves!None
    <3>1. << >> \in Seq(Nat)
      OBVIOUS
    <3> HIDE DEF c
    <3> QED BY <2>1, <2>4, <3>1
  <2>5. CASE x \in Seq(Nat)
    BY <2>2, <2>5
  <2> QED BY <2>3, <2>4, <2>5
<1>3. o \in Seq(Nat) /\ (o = c \/ (fop.do = "write" /\ a = 0 /\ o = <<>>))
  BY <1>2 DEF Saves!Opened
<1>4. Len(o) \in Nat /\ Len(c) \in Nat /\ m \in Nat /\ l \in Nat /\ l <= m
  BY <1>1, <1>2, <1>3
<1>5. Saves!Patch(o, Saves!From(fop), fop.span[2], saves) = p
  BY <1>1, <1>4, Greater DEF Saves!Patch
<1>6. Saves!Reference(c, fop) = r
  <2>1. fop.do # "write" => o = c
    BY <1>3
  <2>2. Saves!Max({Len(c), b}) = IF Len(c) >= b THEN Len(c) ELSE b
    BY <1>1, <1>4, Greater
  <2>3. (IF fop.do = "write" THEN Saves!To(fop) ELSE Saves!Max({Len(c), Saves!To(fop)})) = l
    BY <1>1, <1>4, <2>1, <2>2
  <2> QED BY <2>3 DEF Saves!Reference
<1>7. p \in Seq(Nat) /\ Len(p) = m /\ r \in Seq(Nat) /\ Len(r) = l
  <2>1. \A i \in 1..m : p[i] \in Nat
    BY <1>1, <1>3, <1>4
  <2>2. \A i \in 1..l : r[i] \in Nat
    BY <1>1, <1>2, <1>4
  <2> HIDE DEF m, l
  <2> QED BY <1>4, <2>1, <2>2
<1>8. Put(saves, o, fop) = IF fop.do = "write" THEN SubSeq(p, 1, b) ELSE p
  BY <1>5 DEF Put, Saves!Trimmed
<1>9. \A i \in 1..l : p[i] = r[i]
  BY <1>1, <1>3, <1>4
<1>10. Put(saves, o, fop) = r
  <2>1. CASE fop.do = "write"
    <3>1. l = b /\ b <= m
      BY <1>1, <1>4, <2>1
    <3> HIDE DEF p, r, l, m
    <3>2. SubSeq(p, 1, b) \in Seq(Nat) /\ Len(SubSeq(p, 1, b)) = b /\ \A i \in 1..b : SubSeq(p, 1, b)[i] = p[i]
      BY <1>1, <1>4, <1>7, <3>1, Prefix
    <3>3. SubSeq(p, 1, b) = r
      BY <1>7, <1>9, <3>1, <3>2, SeqEqual
    <3> QED BY <1>8, <2>1, <3>3
  <2>2. CASE fop.do # "write"
    <3>1. l = m
      BY <2>2
    <3> HIDE DEF p, r, l, m
    <3>2. p = r
      BY <1>7, <1>9, <3>1, SeqEqual
    <3> QED BY <1>8, <2>2, <3>2
  <2> QED BY <2>1, <2>2
<1> HIDE DEF r, p
<1> QED BY <1>3, <1>6, <1>7, <1>10

-----------------------------------------------------------------------------
(* Marks *)

LEMMA MarkedIs ==
  ASSUME SaveSizes, MaxSecure >= Cardinality(Files), NEW s \in SUBSET Files, NEW f \in Files,
         NEW on \in BOOLEAN
  PROVE  Saves!Marked(s, f, on) = IF on THEN s \cup {f} ELSE s \ {f}
<1>0. IsFiniteSet(Files) /\ MaxSecure \in Nat
  BY DEF SaveSizes
<1>1. IsFiniteSet(s) /\ Cardinality(s) <= Cardinality(Files) /\ (Cardinality(Files) = Cardinality(s) => Files = s)
  BY <1>0, FS_Subset
<1>2. Cardinality(s) \in Nat /\ Cardinality(Files) \in Nat
  BY <1>0, <1>1, FS_CardinalityType
<1>3. s = Files => s \cup {f} = s
  OBVIOUS
<1>4. s # Files => Cardinality(s) < MaxSecure
  BY <1>0, <1>1, <1>2
<1>5. Saves!Cardinality(s) = Cardinality(s)
  BY SameCardinality
<1> QED BY <1>3, <1>4, <1>5 DEF Saves!Marked

LEMMA MarkedType ==
  ASSUME NEW s \in SUBSET Files, NEW f \in Files, NEW on \in BOOLEAN
  PROVE  Saves!Marked(s, f, on) \in SUBSET Files
BY DEF Saves!Marked

-----------------------------------------------------------------------------
(* The operation that is in flight *)

LEMMA NoSfoIs == Saves!NoSfo.ver = 0 /\ ~(Saves!NoSfo.ver > 0) /\ Saves!NoSfo.secure = {}
<1>1. Saves!NoSfo.ver = 0 /\ Saves!NoSfo.secure = {}
  BY DEF Saves!NoSfo
<1> QED BY <1>1

LEMMA InitialRecords ==
  /\ Saves!NoSfo \in SfoRec /\ Saves!NoSfo.ver = 0 /\ Saves!NoSfo.secure = {}
  /\ Saves!TornSfo \in SfoRec
  /\ Saves!NoDir \in DirRec /\ Saves!NoDir.sfo = Saves!NoSfo
  /\ Saves!Idle \in OpRec /\ Saves!Idle.pc = "idle" /\ Saves!Idle.dir = ""
  /\ Saves!NoFileOp \in Saves!FileOps \cup {Saves!NoFileOp}
<1>1. Saves!NoSfo \in SfoRec /\ Saves!TornSfo \in SfoRec /\ Saves!NoSfo.ver = 0 /\ Saves!NoSfo.secure = {}
  BY DEF Saves!NoSfo, Saves!TornSfo, SfoRec
<1>2. Saves!NoDir \in DirRec /\ Saves!NoDir.sfo = Saves!NoSfo
  BY <1>1 DEF Saves!NoDir, DirRec, Content
<1>3. Saves!Idle.pc = "idle" /\ Saves!Idle.dir = ""
  BY DEF Saves!Idle
<1>4. Saves!Idle \in OpRec
  <2>1. PICK m : m = Saves!NoSfo
    OBVIOUS
  <2>2. PICK n : n = Saves!NoFileOp
    OBVIOUS
  <2>3. PICK F : F = Saves!FileOps \cup {Saves!NoFileOp}
    OBVIOUS
  <2>4. PICK P : P = {"idle", "select"} \cup Within
    OBVIOUS
  <2>5. PICK D : D = Dirs \cup {""}
    OBVIOUS
  <2>6. PICK S : S = SfoRec
    OBVIOUS
  <2>7. m \in S /\ n \in F /\ "idle" \in P /\ "" \in D
    BY <1>1, <2>1, <2>2, <2>3, <2>4, <2>5, <2>6
  <2>8. [pc |-> "idle", dir |-> "", saving |-> FALSE, meta |-> m, left |-> 0, fileOp |-> n]
          \in [pc : P, dir : D, saving : BOOLEAN, meta : S, left : Int, fileOp : F]
    <3>1. \A a \in P, b \in D, c \in BOOLEAN, e \in S, g \in Int, h \in F :
            [pc |-> a, dir |-> b, saving |-> c, meta |-> e, left |-> g, fileOp |-> h]
              \in [pc : P, dir : D, saving : BOOLEAN, meta : S, left : Int, fileOp : F]
      OBVIOUS
    <3>2. FALSE \in BOOLEAN /\ 0 \in Int
      OBVIOUS
    <3> QED BY <2>7, <3>1, <3>2
  <2>9. OpRec = [pc : P, dir : D, saving : BOOLEAN, meta : S, left : Int, fileOp : F]
    BY <2>3, <2>4, <2>5, <2>6 DEF OpRec
  <2> QED BY <2>1, <2>2, <2>8, <2>9 DEF Saves!Idle
<1> QED BY <1>1, <1>2, <1>3, <1>4

\* What of the invariant stays when the disk and the histories do.
LEMMA OpOnly ==
  ASSUME SaveInv, UNCHANGED <<disk, wanted, shown>>, upset \subseteq upset', upset' \subseteq Dirs,
         op.pc # "write" \/ op.dir \in upset', op'.pc # "write"
  PROVE  SfosTrue' /\ FilesTrue'
<1>1. SfosTrue'
  BY DEF SaveInv, SfosTrue
<1>2. ASSUME NEW d \in Dirs \ upset', NEW f \in Files
      PROVE  FileTrue(d, f)'
  <2>1. FileTrue(d, f)
    BY DEF SaveInv, FilesTrue
  <2>2. disk[d].files[f] = wanted[d][f].content
    BY <2>1 DEF FileTrue
  <2> QED BY <2>2 DEF FileTrue
<1> QED BY <1>1, <1>2 DEF FilesTrue

LEMMA BeginInv ==
  ASSUME SaveSizes, SaveInv, NEW b \in BOOLEAN, Saves!Begin(b)
  PROVE  SaveInv'
<1>0. SaveTypes /\ OpTrue /\ MarksTrue
  BY DEF SaveInv
<1>1. op' \in OpRec /\ op'.pc = "select" /\ op'.dir = "" /\ op.pc = "idle" /\ op.dir = ""
  <2>1. op' = [Saves!Idle EXCEPT !.pc = "select", !.saving = b, !.left = MaxOps] /\ op = Saves!Idle
    BY DEF Saves!Begin
  <2> HIDE DEF Saves!Idle
  <2>2. MaxOps \in Int
    BY DEF SaveSizes
  <2> QED BY <2>1, <2>2, InitialRecords DEF OpRec, Within
<1>2. UNCHANGED <<disk, wanted, shown, upset>> /\ saves' = saves + 1
  BY DEF Saves!Begin
<1>3. SaveTypes'
  <2>1. saves' \in Nat
    BY <1>0, <1>2 DEF SaveTypes
  <2> QED BY <1>0, <1>1, <1>2, <2>1 DEF SaveTypes
<1>4. SfosTrue' /\ FilesTrue'
  <2>1. upset \subseteq upset' /\ upset' \subseteq Dirs
    BY <1>0, <1>2 DEF SaveTypes
  <2> QED BY <1>1, <1>2, <2>1, OpOnly
<1>5. OpTrue'
  <2>1. saves' > 0
    BY <1>0, <1>2 DEF SaveTypes
  <2>2. op'.pc \notin Within
    BY <1>1 DEF Within
  <2> QED BY <1>1, <2>1, <2>2 DEF OpTrue
<1>6. MarksTrue'
  BY <1>0, <1>1, <1>2 DEF MarksTrue, InHand, Asked, Within
<1> QED BY <1>3, <1>4, <1>5, <1>6 DEF SaveInv

LEMMA SelectInv ==
  ASSUME SaveSizes, SaveInv, NEW d \in Dirs, Saves!Select(d)
  PROVE  SaveInv'
<1>0. SaveTypes /\ SfosTrue /\ OpTrue /\ MarksTrue
  BY DEF SaveInv
<1> DEFINE m == IF disk[d].there THEN disk[d].sfo ELSE Saves!NoSfo
<1>1. m \in SfoRec /\ disk[d].there \in BOOLEAN /\ disk[d].sfo \in SfoRec
  BY <1>0, InitialRecords DEF SaveTypes, DirRec
<1>2. op' = [op EXCEPT !.pc = "stat", !.dir = d, !.meta = m] /\ op.pc = "select"
  BY DEF Saves!Select
<1>3. op' \in OpRec /\ op'.pc = "stat" /\ op'.dir = d /\ op'.meta = m
  <2> HIDE DEF m
  <2> QED BY <1>0, <1>1, <1>2 DEF SaveTypes, OpRec, Within
<1>4. UNCHANGED <<disk, wanted, shown, upset, saves>>
  BY DEF Saves!Select
<1>5. SaveTypes'
  BY <1>0, <1>3, <1>4 DEF SaveTypes
<1>6. SfosTrue' /\ FilesTrue'
  <2>1. upset \subseteq upset' /\ upset' \subseteq Dirs
    BY <1>0, <1>4 DEF SaveTypes
  <2> QED BY <1>2, <1>3, <1>4, <2>1, OpOnly
<1>7. OpTrue'
  <2>1. m.ver > 0 => disk[d].there
    BY NoSfoIs
  <2>2. m.ver <= 0 => disk[d].sfo = Saves!NoSfo
    <3>1. disk[d].sfo = Saves!NoSfo \/ (disk[d].sfo.ver > 0 /\ disk[d].there)
      BY <1>0 DEF SfosTrue
    <3>2. disk[d].sfo.ver \in Int
      BY <1>1 DEF SfoRec
    <3> QED BY <3>1, <3>2
  <2> HIDE DEF m
  <2>3. saves > 0
    BY <1>0, <1>2 DEF OpTrue
  <2>4. op'.meta = IF disk'[op'.dir].there THEN disk'[op'.dir].sfo ELSE Saves!NoSfo
    BY <1>3, <1>4 DEF m
  <2>5. op'.pc \in Within
    BY <1>3 DEF Within
  <2>6. op'.pc \notin {"idle", "select", "write", "sfo", "tmp", "rename"} /\ op'.dir \in Dirs
    BY <1>3
  <2>7. (op'.meta.ver > 0 => disk'[op'.dir].there) /\ (op'.saving /\ op'.meta.ver <= 0 => disk'[op'.dir].sfo = Saves!NoSfo)
    BY <1>3, <1>4, <2>1, <2>2
  <2>8. saves' > 0
    BY <2>3, <1>4
  <2> QED BY <2>4, <2>5, <2>6, <2>7, <2>8 DEF OpTrue
<1>8. MarksTrue'
  BY <1>0, <1>2, <1>3, <1>4 DEF MarksTrue, InHand, Asked, Within
<1> QED BY <1>5, <1>6, <1>7, <1>8 DEF SaveInv

\* An operation that ends where nothing is begun, or that ends badly.
LEMMA EndsInv ==
  ASSUME SaveSizes, SaveInv, op' = Saves!Idle, UNCHANGED <<disk, wanted, shown, saves>>,
         \/ upset' = upset /\ op.pc \in {"idle", "select", "stat"}
         \/ upset' = upset /\ op.pc = "file" /\ ~op.saving
         \/ upset' = upset \cup {op.dir} /\ op.pc \in Within
  PROVE  SaveInv'
<1>0. SaveTypes /\ SfosTrue /\ OpTrue /\ MarksTrue
  BY DEF SaveInv
<1>1. op' \in OpRec /\ op'.pc = "idle" /\ op'.dir = ""
  BY InitialRecords
<1>2. upset \subseteq upset' /\ upset' \subseteq Dirs
  BY <1>0 DEF SaveTypes, OpTrue
<1>3. op.pc = "write" => op.dir \in upset'
  OBVIOUS
<1>4. SaveTypes'
  BY <1>0, <1>1, <1>2 DEF SaveTypes
<1>5. SfosTrue' /\ FilesTrue'
  BY <1>1, <1>2, <1>3, OpOnly
<1>6. OpTrue'
  BY <1>1 DEF OpTrue, Within
<1>7. MarksTrue'
  <2>1. ASSUME NEW d \in Dirs \ upset' PROVE ~InHand(d)
    BY DEF InHand, Within
  <2>2. \A d : ~InHand(d)' /\ Asked(d)' = Asked(d)
    BY <1>1 DEF InHand, Within, Asked
  <2> QED BY <1>0, <1>2, <2>1, <2>2 DEF MarksTrue
<1> QED BY <1>4, <1>5, <1>6, <1>7 DEF SaveInv

LEMMA StatGivenInv ==
  ASSUME SaveSizes, SaveInv, Saves!StatGiven
  PROVE  SaveInv'
<1>0. SaveTypes /\ SfosTrue /\ OpTrue /\ MarksTrue /\ FilesTrue
  BY DEF SaveInv
<1>1. op.pc = "stat" /\ op.saving = TRUE /\ op.dir \in Dirs /\ saves > 0 /\ op \in OpRec /\ saves \in Nat
  BY <1>0 DEF Saves!StatGiven, OpTrue, Within, SaveTypes, OpRec
<1>2. op' = [op EXCEPT !.pc = "file", !.meta.ver = saves] /\ UNCHANGED <<wanted, shown, upset, saves>>
  BY DEF Saves!StatGiven
<1>3. op.meta \in SfoRec
  BY <1>1 DEF OpRec
<1>4. op' \in OpRec /\ op'.pc = "file" /\ op'.dir = op.dir /\ op'.meta.ver = saves
      /\ op'.meta.secure = op.meta.secure /\ op'.saving = op.saving
  <2>1. [op.meta EXCEPT !.ver = saves] \in SfoRec
    BY <1>1, <1>3 DEF SfoRec
  <2> QED BY <1>1, <1>2, <1>3, <2>1 DEF OpRec, Within, SfoRec
<1>5. disk' = [disk EXCEPT ![op.dir].there = TRUE] /\ disk \in [Dirs -> DirRec]
  BY <1>0 DEF Saves!StatGiven, SaveTypes
<1>6. /\ disk' \in [Dirs -> DirRec]
      /\ \A d \in Dirs : /\ disk'[d].sfo = disk[d].sfo /\ disk'[d].files = disk[d].files
                         /\ (disk[d].there => disk'[d].there)
      /\ disk'[op.dir].there
  BY <1>1, <1>5 DEF DirRec
<1>7. SaveTypes'
  BY <1>0, <1>2, <1>4, <1>6 DEF SaveTypes
<1>8. SfosTrue'
  BY <1>0, <1>2, <1>6 DEF SfosTrue
<1>9. OpTrue'
  BY <1>1, <1>2, <1>4, <1>6 DEF OpTrue, Within
<1>10. FilesTrue'
  <2>1. ASSUME NEW d \in Dirs \ upset', NEW f \in Files
        PROVE  FileTrue(d, f)'
    <3>1. FileTrue(d, f)
      BY <1>0, <1>2 DEF FilesTrue
    <3> QED BY <1>1, <1>2, <1>4, <1>6, <3>1 DEF FileTrue
  <2> QED BY <2>1 DEF FilesTrue
<1>11. MarksTrue'
  <2>1. op.meta.secure = disk[op.dir].sfo.secure
    BY <1>0, <1>1, InitialRecords DEF OpTrue, SfosTrue
  <2>2. ASSUME MaxSecure >= Cardinality(Files), NEW d \in Dirs \ upset
        PROVE  Asked(d) = disk[d].sfo.secure
    BY <1>0, <1>1, <2>2 DEF MarksTrue, InHand
  <2>3. \A d : Asked(d)' = Asked(d)
    BY <1>2 DEF Asked
  <2>4. \A d : InHand(d)' <=> op.dir = d
    BY <1>1, <1>4 DEF InHand, Within
  <2> QED BY <1>2, <1>4, <1>6, <2>1, <2>2, <2>3, <2>4 DEF MarksTrue
<1> QED BY <1>7, <1>8, <1>9, <1>10, <1>11 DEF SaveInv

LEMMA StatNextInv ==
  ASSUME SaveSizes, SaveInv, Saves!StatNext
  PROVE  SaveInv'
<1>0. SaveTypes /\ SfosTrue /\ OpTrue /\ MarksTrue
  BY DEF SaveInv
<1>1. op.pc = "stat" /\ op.dir \in Dirs /\ saves > 0 /\ op \in OpRec
  BY <1>0 DEF Saves!StatNext, OpTrue, Within, SaveTypes
<1>2. op' = [op EXCEPT !.pc = "file"] /\ UNCHANGED <<disk, wanted, shown, upset, saves>>
  BY DEF Saves!StatNext
<1>3. op' \in OpRec /\ op'.pc = "file" /\ op'.dir = op.dir /\ op'.meta = op.meta /\ op'.saving = op.saving
  BY <1>1, <1>2 DEF OpRec, Within
<1>4. SaveTypes'
  BY <1>0, <1>2, <1>3 DEF SaveTypes
<1>5. SfosTrue' /\ FilesTrue'
  <2>1. upset \subseteq upset' /\ upset' \subseteq Dirs
    BY <1>0, <1>2 DEF SaveTypes
  <2> QED BY <1>1, <1>2, <1>3, <2>1, OpOnly
<1>6. OpTrue'
  BY <1>0, <1>1, <1>2, <1>3 DEF OpTrue, Within
<1>7. MarksTrue'
  <2>1. op.meta.secure = disk[op.dir].sfo.secure
    BY <1>0, <1>1, InitialRecords DEF OpTrue, SfosTrue
  <2>2. ASSUME MaxSecure >= Cardinality(Files), NEW d \in Dirs \ upset
        PROVE  Asked(d) = disk[d].sfo.secure
    BY <1>0, <1>1, <2>2 DEF MarksTrue, InHand
  <2>3. \A d : Asked(d)' = Asked(d)
    BY <1>2 DEF Asked
  <2>4. \A d : InHand(d)' <=> op.dir = d /\ op.saving
    BY <1>1, <1>3 DEF InHand, Within
  <2> QED BY <1>2, <1>3, <2>1, <2>2, <2>3, <2>4 DEF MarksTrue
<1> QED BY <1>4, <1>5, <1>6, <1>7 DEF SaveInv

\* A change of a directory that leaves its PARAM.SFO and its files.
LEMMA OpAndTmp ==
  ASSUME SaveInv, NEW r \in SfoRec, disk' = [disk EXCEPT ![op.dir].tmp = r], op.dir \in Dirs,
         UNCHANGED <<wanted, shown>>, upset \subseteq upset',
         op.pc # "write", op'.pc # "write"
  PROVE  /\ disk' \in [Dirs -> DirRec] /\ SfosTrue' /\ FilesTrue'
         /\ \A d \in Dirs : disk'[d].sfo = disk[d].sfo /\ disk'[d].there = disk[d].there
         /\ disk'[op.dir].tmp = r
<1>1. disk \in [Dirs -> DirRec]
  BY DEF SaveInv, SaveTypes
<1>2. /\ disk' \in [Dirs -> DirRec] /\ disk'[op.dir].tmp = r
      /\ \A d \in Dirs : /\ disk'[d].sfo = disk[d].sfo /\ disk'[d].there = disk[d].there
                         /\ disk'[d].files = disk[d].files
  BY <1>1 DEF DirRec
<1>3. SfosTrue'
  BY <1>2 DEF SaveInv, SfosTrue
<1>4. ASSUME NEW d \in Dirs \ upset', NEW f \in Files
      PROVE  FileTrue(d, f)'
  <2>1. disk[d].files[f] = wanted[d][f].content
    BY DEF SaveInv, FilesTrue, FileTrue
  <2> QED BY <1>2, <2>1 DEF FileTrue
<1> QED BY <1>2, <1>3, <1>4 DEF FilesTrue

\* While PARAM.SFO is written, the invariant moves with the step of the operation.
LEMMA SfoStepInv ==
  ASSUME SaveInv, NEW r \in SfoRec, disk' = [disk EXCEPT ![op.dir].tmp = r],
         op.pc \in {"sfo", "tmp"}, NEW x \in {"tmp", "rename"}, op' = [op EXCEPT !.pc = x],
         x = "rename" => r = op.meta, UNCHANGED <<wanted, shown, saves, upset>>
  PROVE  SaveInv'
<1>0. SaveTypes /\ OpTrue /\ MarksTrue
  BY DEF SaveInv
<1>1. op.pc \in Within /\ op.dir \in Dirs /\ op.saving /\ op.meta.ver > 0 /\ saves > 0 /\ op \in OpRec
  BY <1>0 DEF OpTrue, Within, SaveTypes
<1>2. op' \in OpRec /\ op'.pc = x /\ op'.dir = op.dir /\ op'.meta = op.meta /\ op'.saving = op.saving
  BY <1>1 DEF OpRec, Within
<1>3. /\ disk' \in [Dirs -> DirRec] /\ SfosTrue' /\ FilesTrue' /\ disk'[op.dir].tmp = r
      /\ \A d \in Dirs : disk'[d].sfo = disk[d].sfo /\ disk'[d].there = disk[d].there
  <2>1. upset \subseteq upset' /\ op.pc # "write" /\ op'.pc # "write"
    BY <1>2
  <2> QED BY <1>1, <2>1, OpAndTmp
<1>4. SaveTypes'
  BY <1>0, <1>2, <1>3 DEF SaveTypes
<1>5. OpTrue'
  <2>1. op'.pc \in Within \ {"stat", "write"} /\ op'.pc # "idle" /\ op'.pc # "select"
    BY <1>2 DEF Within
  <2>2. /\ disk'[op'.dir].there = disk[op.dir].there /\ disk'[op'.dir].sfo = disk[op.dir].sfo
        /\ disk'[op'.dir].tmp = r
    BY <1>1, <1>2, <1>3
  <2>3. op'.meta.ver > 0 => disk'[op'.dir].there
    BY <1>0, <1>1, <1>2, <2>2 DEF OpTrue
  <2>4. op'.meta.ver > 0
    BY <1>1, <1>2
  <2>5. op'.saving /\ op'.meta.ver <= 0 => disk'[op'.dir].sfo = Saves!NoSfo
    BY <1>0, <1>1, <1>2, <2>2 DEF OpTrue
  <2>6. op'.pc = "rename" => disk'[op'.dir].tmp = op'.meta
    BY <1>2, <2>2
  <2> QED BY <1>1, <1>2, <2>1, <2>3, <2>4, <2>5, <2>6 DEF OpTrue
<1>6. MarksTrue'
  <2>1. \A d \in Dirs : Asked(d)' = Asked(d) /\ (InHand(d)' <=> InHand(d))
    BY <1>1, <1>2 DEF Asked, InHand, Within
  <2> QED BY <1>0, <1>2, <1>3, <2>1 DEF MarksTrue
<1> QED BY <1>3, <1>4, <1>5, <1>6 DEF SaveInv

LEMMA SfoOpenInv ==
  ASSUME SaveInv, Saves!SfoOpen
  PROVE  SaveInv'
<1>1. op.dir \in Dirs /\ op.pc = "sfo" /\ disk \in [Dirs -> DirRec]
  BY DEF SaveInv, OpTrue, Within, Saves!SfoOpen, SaveTypes
<1>2. disk' = [disk EXCEPT ![op.dir].tmp = Saves!TornSfo]
  BY <1>1 DEF Saves!SfoOpen, Saves!Torn
<1>3. op' = [op EXCEPT !.pc = "tmp"] /\ UNCHANGED <<wanted, shown, saves, upset>>
  BY DEF Saves!SfoOpen
<1>4. Saves!TornSfo \in SfoRec
  BY InitialRecords
<1> QED BY <1>1, <1>2, <1>3, <1>4, SfoStepInv

LEMMA SfoWrittenInv ==
  ASSUME SaveInv, Saves!SfoWritten
  PROVE  SaveInv'
<1>1. op.pc = "tmp" /\ op.meta \in SfoRec
  BY DEF SaveInv, Saves!SfoWritten, SaveTypes, OpRec
<1>2. disk' = [disk EXCEPT ![op.dir].tmp = op.meta]
  BY DEF Saves!SfoWritten
<1>3. op' = [op EXCEPT !.pc = "rename"] /\ UNCHANGED <<wanted, shown, saves, upset>>
  BY DEF Saves!SfoWritten
<1> QED BY <1>1, <1>2, <1>3, SfoStepInv

LEMMA SfoFailsInv ==
  ASSUME SaveInv, Saves!SfoFails
  PROVE  SaveInv'
<1>0. SaveTypes /\ OpTrue /\ MarksTrue
  BY DEF SaveInv
<1>1. op.pc \in {"sfo", "tmp", "rename"} /\ op.pc \in Within /\ op.dir \in Dirs
  BY <1>0 DEF OpTrue, Within, Saves!SfoFails
<1>2. /\ op' = Saves!Idle /\ upset' = upset \cup {op.dir} /\ UNCHANGED <<wanted, shown, saves>>
      /\ disk' = [disk EXCEPT ![op.dir].tmp = Saves!NoSfo]
  BY DEF Saves!SfoFails, Saves!Fails
<1>3. op' \in OpRec /\ op'.pc = "idle" /\ op'.dir = "" /\ Saves!NoSfo \in SfoRec
  BY <1>2, InitialRecords
<1>4. /\ disk' \in [Dirs -> DirRec] /\ SfosTrue' /\ FilesTrue'
      /\ \A d \in Dirs : disk'[d].sfo = disk[d].sfo
  <2>1. upset \subseteq upset' /\ op.pc # "write" /\ op'.pc # "write"
    BY <1>1, <1>2, <1>3
  <2> QED BY <1>1, <1>2, <1>3, <2>1, OpAndTmp
<1>5. SaveTypes'
  <2>1. upset' \subseteq Dirs
    BY <1>0, <1>1, <1>2 DEF SaveTypes
  <2> QED BY <1>0, <1>2, <1>3, <1>4, <2>1 DEF SaveTypes
<1>6. OpTrue'
  BY <1>2, <1>3 DEF OpTrue, Within
<1>7. MarksTrue'
  <2>1. ASSUME NEW d \in Dirs \ upset' PROVE ~InHand(d)
    BY <1>2 DEF InHand
  <2>2. \A d : ~InHand(d)' /\ Asked(d)' = Asked(d)
    BY <1>2, <1>3 DEF InHand, Within, Asked
  <2> QED BY <1>0, <1>2, <1>4, <2>1, <2>2 DEF MarksTrue
<1> QED BY <1>4, <1>5, <1>6, <1>7 DEF SaveInv

LEMMA SfoRenameInv ==
  ASSUME SaveInv, Saves!SfoRename
  PROVE  SaveInv'
<1>0. SaveTypes /\ SfosTrue /\ OpTrue /\ MarksTrue /\ FilesTrue
  BY DEF SaveInv
<1>1. /\ op.pc = "rename" /\ op.dir \in Dirs /\ op.saving /\ op.meta.ver > 0 /\ disk[op.dir].there
      /\ disk[op.dir].tmp = op.meta /\ op \in OpRec /\ disk \in [Dirs -> DirRec]
  BY <1>0 DEF OpTrue, Within, Saves!SfoRename, SaveTypes
<1>2. op' = Saves!Idle /\ UNCHANGED <<wanted, saves, upset>> /\ shown' = [shown EXCEPT ![op.dir] = op.meta.ver]
  BY DEF Saves!SfoRename, Saves!Ends
<1>3. disk' = [disk EXCEPT ![op.dir].sfo = disk[op.dir].tmp, ![op.dir].tmp = Saves!NoSfo]
  BY DEF Saves!SfoRename
<1>4. op' \in OpRec /\ op'.pc = "idle" /\ op'.dir = "" /\ Saves!NoSfo \in SfoRec
  BY <1>2, InitialRecords
<1>5. op.meta \in SfoRec /\ op.meta.ver \in Int
  BY <1>1 DEF OpRec, SfoRec
<1>6. /\ disk' \in [Dirs -> DirRec] /\ disk'[op.dir].sfo = op.meta
      /\ \A d \in Dirs : /\ disk'[d].there = disk[d].there /\ disk'[d].files = disk[d].files
                         /\ d # op.dir => disk'[d].sfo = disk[d].sfo
  BY <1>1, <1>3, <1>4, <1>5 DEF DirRec
<1>7. SaveTypes'
  <2>1. shown' \in [Dirs -> Int]
    BY <1>0, <1>2, <1>5 DEF SaveTypes
  <2> QED BY <1>0, <1>2, <1>4, <1>6, <2>1 DEF SaveTypes
<1>8. SfosTrue'
  <2>1. shown \in [Dirs -> Int]
    BY <1>0 DEF SaveTypes
  <2> QED BY <1>0, <1>1, <1>2, <1>6, <2>1 DEF SfosTrue
<1>9. OpTrue'
  BY <1>2, <1>4 DEF OpTrue, Within
<1>10. FilesTrue'
  <2>1. ASSUME NEW d \in Dirs \ upset', NEW f \in Files
        PROVE  FileTrue(d, f)'
    <3>1. disk[d].files[f] = wanted[d][f].content
      BY <1>0, <1>1, <1>2 DEF FilesTrue, FileTrue
    <3> QED BY <1>2, <1>4, <1>6, <3>1 DEF FileTrue
  <2> QED BY <2>1 DEF FilesTrue
<1>11. MarksTrue'
  <2>1. \A d : Asked(d)' = Asked(d) /\ ~InHand(d)'
    BY <1>2, <1>4 DEF Asked, InHand, Within
  <2>2. \A d \in Dirs : InHand(d) <=> d = op.dir
    BY <1>1 DEF InHand, Within
  <2> QED BY <1>0, <1>2, <1>6, <2>1, <2>2 DEF MarksTrue
<1> QED BY <1>7, <1>8, <1>9, <1>10, <1>11 DEF SaveInv

\* How a mark that the guest asks for gets into the parameters.
LEMMA MarksMove ==
  ASSUME SaveSizes, SaveInv, op.pc = "file", op'.dir = op.dir, op'.saving = op.saving,
         op'.pc \in {"file", "write"},
         NEW f \in Files, NEW on \in BOOLEAN, NEW change \in BOOLEAN, change => op.saving,
         op'.meta.secure = IF change THEN Saves!Marked(op.meta.secure, f, on) ELSE op.meta.secure,
         \A d \in Dirs, g \in Files : wanted'[d][g].secure =
            IF d = op.dir /\ g = f /\ change THEN on ELSE wanted[d][g].secure,
         \A d \in Dirs : disk'[d].sfo = disk[d].sfo, upset' = upset
  PROVE  MarksTrue'
<1>0. SaveTypes /\ OpTrue /\ MarksTrue
  BY DEF SaveInv
<1>1. op.dir \in Dirs /\ op.meta \in SfoRec /\ op.meta.secure \in SUBSET Files
  BY <1>0 DEF OpTrue, Within, SaveTypes, OpRec, SfoRec
<1>2. SUFFICES ASSUME MaxSecure >= Cardinality(Files), NEW d \in Dirs \ upset
               PROVE  Asked(d)' = IF InHand(d)' THEN op'.meta.secure ELSE disk'[d].sfo.secure
  BY DEF MarksTrue
<1>3. Asked(d) = IF InHand(d) THEN op.meta.secure ELSE disk[d].sfo.secure
  BY <1>0, <1>2 DEF MarksTrue
<1>4. (InHand(d)' <=> InHand(d)) /\ (InHand(d) <=> op.dir = d /\ op.saving)
  BY DEF InHand, Within
<1>5. CASE d = op.dir /\ change
  <2>1. InHand(d) /\ op.meta.secure = Asked(d)
    BY <1>3, <1>4, <1>5
  <2>2. op'.meta.secure = IF on THEN Asked(d) \cup {f} ELSE Asked(d) \ {f}
    <3>1. Saves!Marked(op.meta.secure, f, on) = IF on THEN op.meta.secure \cup {f} ELSE op.meta.secure \ {f}
      BY <1>1, <1>2, MarkedIs
    <3> QED BY <1>5, <2>1, <3>1
  <2>3. Asked(d)' = IF on THEN Asked(d) \cup {f} ELSE Asked(d) \ {f}
    BY <1>5 DEF Asked
  <2> QED BY <1>4, <2>1, <2>2, <2>3
<1>6. CASE ~(d = op.dir /\ change)
  <2>1. Asked(d)' = Asked(d)
    BY <1>6 DEF Asked
  <2>2. InHand(d) => op'.meta.secure = op.meta.secure
    BY <1>4, <1>6
  <2> QED BY <1>3, <1>4, <2>1, <2>2
<1> QED BY <1>5, <1>6

LEMMA WriteBeginInv ==
  ASSUME SaveSizes, SaveInv, NEW fop \in Saves!FileOps, Saves!WriteBegin(fop)
  PROVE  SaveInv'
<1>0. SaveTypes /\ SfosTrue /\ OpTrue /\ FilesTrue
  BY DEF SaveInv
<1> DEFINE D == op.dir
           f == fop.file
           change == (op.saving /\ f \notin Contents) = TRUE
           sec == IF change THEN Saves!Marked(op.meta.secure, f, fop.secure) ELSE op.meta.secure
           file == Saves!Opened(disk[D].files[f], fop)
           ask == [content |-> Saves!Reference(Saves!Cells(wanted[D][f].content), fop),
                   secure |-> IF change THEN fop.secure ELSE wanted[D][f].secure]
<1>1. /\ op.pc = "file" /\ op \in OpRec /\ D \in Dirs /\ saves > 0 /\ saves \in Nat
      /\ op.meta \in SfoRec /\ op.meta.secure \in SUBSET Files /\ op.saving \in BOOLEAN /\ op.left \in Int
  BY <1>0 DEF Saves!WriteBegin, OpTrue, Within, SaveTypes, OpRec, SfoRec
<1>2. f \in Files /\ fop.secure \in BOOLEAN
  BY SpanIs
<1>3. UNCHANGED <<saves, shown, upset>>
  BY DEF Saves!WriteBegin
<1>4. /\ disk \in [Dirs -> DirRec] /\ wanted \in [Dirs -> [Files -> Ask]]
      /\ disk[D].files[f] \in Content /\ wanted[D][f].content \in Content /\ wanted[D][f].secure \in BOOLEAN
  BY <1>0, <1>1, <1>2 DEF SaveTypes, DirRec, Ask
<1>5. /\ file \in Seq(Nat) /\ ask.content \in Seq(Nat)
      /\ Put(saves, Saves!Opened(wanted[D][f].content, fop), fop) = ask.content
  BY <1>1, <1>4, WritesAsAsked
<1>6. op' = [op EXCEPT !.pc = "write", !.fileOp = fop, !.left = @ - 1, !.meta.secure = sec]
  BY DEF Saves!WriteBegin
<1>7. disk' = [disk EXCEPT ![D].there = TRUE, ![D].files[f] = file]
  BY DEF Saves!WriteBegin
<1>8. wanted' = [wanted EXCEPT ![D][f] = ask]
  BY <1>4 DEF Saves!WriteBegin
<1>9. ask \in Ask /\ ask.secure = (IF change THEN fop.secure ELSE wanted[D][f].secure)
  <2>1. ask.secure \in BOOLEAN /\ ask.secure = (IF change THEN fop.secure ELSE wanted[D][f].secure)
    BY <1>2, <1>4
  <2> QED BY <1>5, <2>1 DEF Ask, Content
<1>10. sec \in SUBSET Files
  BY <1>1, <1>2, MarkedType
<1> HIDE DEF sec, file, ask, change
<1>11. /\ op' \in OpRec /\ op'.pc = "write" /\ op'.dir = D /\ op'.saving = op.saving
       /\ op'.meta.secure = sec /\ op'.meta.ver = op.meta.ver /\ op'.fileOp = fop
  <2>1. [op.meta EXCEPT !.secure = sec] \in SfoRec /\ op.left - 1 \in Int
    BY <1>1, <1>10 DEF SfoRec
  <2>2. "write" \in {"idle", "select"} \cup Within /\ fop \in Saves!FileOps \cup {Saves!NoFileOp}
    BY DEF Within
  <2>3. op' = [op EXCEPT !.pc = "write", !.fileOp = fop, !.left = op.left - 1,
                         !.meta = [op.meta EXCEPT !.secure = sec]]
    BY <1>1, <1>6 DEF OpRec
  <2> HIDE DEF D, f
  <2> QED BY <1>1, <2>1, <2>2, <2>3 DEF OpRec, SfoRec, D
<1>12. /\ disk' \in [Dirs -> DirRec] /\ disk'[D].there /\ disk'[D].files[f] = file
       /\ \A d \in Dirs : /\ disk'[d].sfo = disk[d].sfo /\ (disk[d].there => disk'[d].there)
                          /\ \A g \in Files : (d # D \/ g # f) => disk'[d].files[g] = disk[d].files[g]
  <2>1. file \in Content
    BY <1>5 DEF Content
  <2>2. PICK r : r = [disk[D] EXCEPT !.there = TRUE, !.files = [disk[D].files EXCEPT ![f] = file]]
    OBVIOUS
  <2>3. /\ r \in DirRec /\ r.there /\ r.sfo = disk[D].sfo /\ r.files[f] = file
        /\ \A g \in Files : g # f => r.files[g] = disk[D].files[g]
    <3>1. disk[D] \in DirRec
      BY <1>1, <1>4
    <3>2. PICK x : x = disk[D]
      OBVIOUS
    <3>3. PICK h : h = [x.files EXCEPT ![f] = file]
      OBVIOUS
    <3>4. h \in [Files -> Content] /\ h[f] = file /\ \A g \in Files : g # f => h[g] = x.files[g]
      BY <1>2, <2>1, <3>1, <3>2, <3>3 DEF DirRec
    <3>5. r = [x EXCEPT !.there = TRUE, !.files = h]
      BY <2>2, <3>2, <3>3
    <3> QED BY <3>1, <3>2, <3>4, <3>5 DEF DirRec
  <2>4. disk' = [disk EXCEPT ![D] = r]
    BY <1>1, <1>4, <1>7, <2>2 DEF DirRec
  <2> HIDE DEF D, f
  <2> QED BY <1>1, <1>2, <1>4, <2>3, <2>4
<1>13. /\ wanted' \in [Dirs -> [Files -> Ask]] /\ wanted'[D][f] = ask
       /\ \A d \in Dirs, g \in Files : (d # D \/ g # f) => wanted'[d][g] = wanted[d][g]
  BY <1>1, <1>2, <1>4, <1>8, <1>9
<1>14. SaveTypes'
  BY <1>0, <1>1, <1>3, <1>11, <1>12, <1>13 DEF SaveTypes
<1>15. SfosTrue'
  BY <1>0, <1>3, <1>12 DEF SfosTrue
<1>16. OpTrue'
  <2>1. op'.pc \in Within /\ op'.fileOp \in Saves!FileOps
    BY <1>11 DEF Within
  <2>2. disk'[op'.dir].files[op'.fileOp.file] \in Seq(Nat) /\ disk'[op'.dir].there
    BY <1>5, <1>11, <1>12
  <2>3. op'.saving /\ op'.meta.ver <= 0 => disk'[op'.dir].sfo = Saves!NoSfo
    <3>1. op.saving /\ op.meta.ver <= 0 => disk[op.dir].sfo = Saves!NoSfo
      BY <1>0, <1>1 DEF OpTrue, Within
    <3> QED BY <1>1, <1>11, <1>12, <3>1
  <2> QED BY <1>1, <1>3, <1>11, <2>1, <2>2, <2>3 DEF OpTrue
<1>17. FilesTrue'
  <2>1. ASSUME NEW d \in Dirs \ upset', NEW g \in Files
        PROVE  FileTrue(d, g)'
    <3>1. disk[d].files[g] = wanted[d][g].content
      BY <1>0, <1>1, <1>3 DEF FilesTrue, FileTrue
    <3>2. CASE d = D /\ g = f
      <4>1. file = Saves!Opened(wanted[D][f].content, fop)
        BY <3>1, <3>2 DEF file
      <4>2. Put(saves, file, fop) = ask.content
        BY <1>5, <4>1
      <4>3. PICK X : X = file
        OBVIOUS
      <4>4. PICK Y : Y = ask
        OBVIOUS
      <4>5. disk'[d].files[g] = X /\ wanted'[d][g] = Y
        BY <1>12, <1>13, <3>2, <4>3, <4>4
      <4>6. Put(saves, X, fop) = Y.content
        BY <4>2, <4>3, <4>4
      <4> HIDE DEF D, f
      <4> QED BY <1>3, <1>11, <3>2, <4>5, <4>6 DEF FileTrue, D, f
    <3>3. CASE d # D \/ g # f
      BY <1>11, <1>12, <1>13, <3>1, <3>3 DEF FileTrue
    <3> QED BY <3>2, <3>3
  <2> QED BY <2>1 DEF FilesTrue
<1>18. MarksTrue'
  <2>1. change \in BOOLEAN /\ (change => op.saving)
    BY DEF change
  <2>2. op'.meta.secure = IF change THEN Saves!Marked(op.meta.secure, f, fop.secure) ELSE op.meta.secure
    BY <1>11 DEF sec
  <2>3. \A d \in Dirs, g \in Files : wanted'[d][g].secure =
            IF d = op.dir /\ g = f /\ change THEN fop.secure ELSE wanted[d][g].secure
    BY <1>9, <1>13
  <2>4. op'.pc \in {"file", "write"} /\ op'.dir = op.dir
    BY <1>11
  <2> HIDE DEF f, D
  <2> QED BY <1>1, <1>2, <1>3, <1>11, <1>12, <2>1, <2>2, <2>3, <2>4, MarksMove
<1> QED BY <1>14, <1>15, <1>16, <1>17, <1>18 DEF SaveInv

LEMMA WriteEndInv ==
  ASSUME SaveSizes, SaveInv, Saves!WriteEnd
  PROVE  SaveInv'
<1>0. SaveTypes /\ SfosTrue /\ OpTrue /\ FilesTrue /\ MarksTrue
  BY DEF SaveInv
<1> DEFINE D == op.dir
           f == op.fileOp.file
           file == Saves!Written(disk[D].files[f], op.fileOp)
<1>1. /\ op.pc = "write" /\ op \in OpRec /\ D \in Dirs /\ saves > 0 /\ saves \in Nat
      /\ op.fileOp \in Saves!FileOps /\ disk[D].files[f] \in Seq(Nat)
  BY <1>0 DEF Saves!WriteEnd, OpTrue, Within, SaveTypes
<1>2. f \in Files
  BY <1>1, SpanIs
<1>3. UNCHANGED <<saves, shown, upset, wanted>> /\ disk \in [Dirs -> DirRec]
  BY <1>0 DEF Saves!WriteEnd, SaveTypes
<1>4. file \in Seq(Nat) /\ file = Put(saves, disk[D].files[f], op.fileOp)
  BY <1>1, WrittenIs DEF Saves!Written, Put
<1>5. op' = [op EXCEPT !.pc = "file", !.fileOp = Saves!NoFileOp]
  BY DEF Saves!WriteEnd
<1>6. disk' = [disk EXCEPT ![D].files[f] = file]
  BY DEF Saves!WriteEnd
<1> HIDE DEF file
<1>7. op' \in OpRec /\ op'.pc = "file" /\ op'.dir = D /\ op'.saving = op.saving /\ op'.meta = op.meta
  <2>1. "file" \in {"idle", "select"} \cup Within /\ Saves!NoFileOp \in Saves!FileOps \cup {Saves!NoFileOp}
    BY DEF Within
  <2> HIDE DEF D, f
  <2> QED BY <1>1, <1>5, <2>1 DEF OpRec, D
<1>8. /\ disk' \in [Dirs -> DirRec] /\ disk'[D].files[f] = file
      /\ \A d \in Dirs : /\ disk'[d].sfo = disk[d].sfo /\ disk'[d].there = disk[d].there
                         /\ \A g \in Files : (d # D \/ g # f) => disk'[d].files[g] = disk[d].files[g]
  <2>1. file \in Content
    BY <1>4 DEF Content
  <2> QED BY <1>1, <1>2, <1>3, <1>6, <2>1 DEF DirRec
<1>9. SaveTypes'
  BY <1>0, <1>3, <1>7, <1>8 DEF SaveTypes
<1>10. SfosTrue'
  BY <1>0, <1>3, <1>8 DEF SfosTrue
<1>11. OpTrue'
  <2>1. op'.pc \in Within
    BY <1>7 DEF Within
  <2>2. /\ op.meta.ver > 0 => disk[D].there
        /\ op.saving /\ op.meta.ver <= 0 => disk[D].sfo = Saves!NoSfo
    BY <1>0, <1>1 DEF OpTrue, Within
  <2> HIDE DEF D, f
  <2> QED BY <1>1, <1>3, <1>7, <1>8, <2>1, <2>2 DEF OpTrue
<1>12. FilesTrue'
  <2>1. ASSUME NEW d \in Dirs \ upset', NEW g \in Files
        PROVE  FileTrue(d, g)'
    <3>1. FileTrue(d, g)
      BY <1>0, <1>3 DEF FilesTrue
    <3>2. disk'[d].files[g] = wanted[d][g].content
      BY <1>1, <1>2, <1>4, <1>8, <3>1 DEF FileTrue
    <3> QED BY <1>3, <1>7, <3>2 DEF FileTrue
  <2> QED BY <2>1 DEF FilesTrue
<1>13. MarksTrue'
  <2>1. \A d : Asked(d)' = Asked(d)
    BY <1>3 DEF Asked
  <2>2. \A d : InHand(d)' <=> InHand(d)
    BY <1>1, <1>7 DEF InHand, Within
  <2> QED BY <1>0, <1>3, <1>7, <1>8, <2>1, <2>2 DEF MarksTrue
<1> QED BY <1>9, <1>10, <1>11, <1>12, <1>13 DEF SaveInv

LEMMA DeleteFileInv ==
  ASSUME SaveSizes, SaveInv, NEW f \in Files, Saves!DeleteFile(f)
  PROVE  SaveInv'
<1>0. SaveTypes /\ SfosTrue /\ OpTrue /\ FilesTrue
  BY DEF SaveInv
<1> DEFINE D == op.dir
           sec == IF op.saving THEN Saves!Marked(op.meta.secure, f, FALSE) ELSE op.meta.secure
           ask == [content |-> Saves!None, secure |-> IF op.saving THEN FALSE ELSE wanted[D][f].secure]
<1>1. /\ op.pc = "file" /\ op \in OpRec /\ D \in Dirs /\ saves > 0
      /\ op.meta \in SfoRec /\ op.meta.secure \in SUBSET Files /\ op.saving \in BOOLEAN /\ op.left \in Int
  BY <1>0 DEF Saves!DeleteFile, OpTrue, Within, SaveTypes, OpRec, SfoRec
<1>2. UNCHANGED <<saves, shown, upset>>
  BY DEF Saves!DeleteFile
<1>3. /\ disk \in [Dirs -> DirRec] /\ wanted \in [Dirs -> [Files -> Ask]] /\ wanted[D][f].secure \in BOOLEAN
  BY <1>0, <1>1 DEF SaveTypes, Ask
<1>4. op' = [op EXCEPT !.left = @ - 1, !.meta.secure = sec]
  BY DEF Saves!DeleteFile
<1>5. disk' = [disk EXCEPT ![D].files[f] = Saves!None]
  BY DEF Saves!DeleteFile
<1>6. wanted' = [wanted EXCEPT ![D][f] = ask]
  <2>1. (wanted[D][f].secure /\ ~op.saving) = (IF op.saving THEN FALSE ELSE wanted[D][f].secure)
    BY <1>1, <1>3
  <2>2. wanted' = [wanted EXCEPT ![D][f] =
                     [content |-> Saves!None, secure |-> (wanted[D][f].secure /\ ~op.saving)]]
    BY <1>1, <1>3 DEF Saves!DeleteFile
  <2> QED BY <2>1, <2>2
<1>7. ask \in Ask /\ ask.content = Saves!None /\ ask.secure = (IF op.saving THEN FALSE ELSE wanted[D][f].secure)
  <2>1. ask.secure \in BOOLEAN /\ ask.content \in Content
    BY <1>1, <1>3 DEF Content
  <2> QED BY <2>1 DEF Ask
<1>8. sec \in SUBSET Files
  BY <1>1, MarkedType
<1> HIDE DEF sec, ask
<1>9. /\ op' \in OpRec /\ op'.pc = "file" /\ op'.dir = D /\ op'.saving = op.saving
      /\ op'.meta.secure = sec /\ op'.meta.ver = op.meta.ver
  <2>1. [op.meta EXCEPT !.secure = sec] \in SfoRec /\ op.left - 1 \in Int
    BY <1>1, <1>8 DEF SfoRec
  <2>2. op' = [op EXCEPT !.left = op.left - 1, !.meta = [op.meta EXCEPT !.secure = sec]]
    BY <1>1, <1>4 DEF OpRec
  <2> HIDE DEF D
  <2> QED BY <1>1, <2>1, <2>2 DEF OpRec, SfoRec, D
<1>10. /\ disk' \in [Dirs -> DirRec] /\ disk'[D].files[f] = Saves!None
       /\ \A d \in Dirs : /\ disk'[d].sfo = disk[d].sfo /\ disk'[d].there = disk[d].there
                          /\ \A g \in Files : (d # D \/ g # f) => disk'[d].files[g] = disk[d].files[g]
  <2>1. Saves!None \in Content
    BY DEF Content
  <2> QED BY <1>1, <1>3, <1>5, <2>1 DEF DirRec
<1>11. /\ wanted' \in [Dirs -> [Files -> Ask]] /\ wanted'[D][f] = ask
       /\ \A d \in Dirs, g \in Files : (d # D \/ g # f) => wanted'[d][g] = wanted[d][g]
  BY <1>1, <1>3, <1>6, <1>7
<1>12. SaveTypes'
  BY <1>0, <1>2, <1>9, <1>10, <1>11 DEF SaveTypes
<1>13. SfosTrue'
  BY <1>0, <1>2, <1>10 DEF SfosTrue
<1>14. OpTrue'
  <2>1. op'.pc \in Within
    BY <1>9 DEF Within
  <2>2. /\ op.meta.ver > 0 => disk[D].there
        /\ op.saving /\ op.meta.ver <= 0 => disk[D].sfo = Saves!NoSfo
    BY <1>0, <1>1 DEF OpTrue, Within
  <2> HIDE DEF D
  <2> QED BY <1>1, <1>2, <1>9, <1>10, <2>1, <2>2 DEF OpTrue
<1>15. FilesTrue'
  <2>1. ASSUME NEW d \in Dirs \ upset', NEW g \in Files
        PROVE  FileTrue(d, g)'
    <3>1. disk[d].files[g] = wanted[d][g].content
      BY <1>0, <1>1, <1>2 DEF FilesTrue, FileTrue
    <3>2. disk'[d].files[g] = wanted'[d][g].content
      BY <1>7, <1>10, <1>11, <3>1
    <3> QED BY <1>9, <3>2 DEF FileTrue
  <2> QED BY <2>1 DEF FilesTrue
<1>16. MarksTrue'
  <2>1. PICK change \in BOOLEAN : change = op.saving
    BY <1>1
  <2>2. op'.meta.secure = IF change THEN Saves!Marked(op.meta.secure, f, FALSE) ELSE op.meta.secure
    BY <1>9, <2>1 DEF sec
  <2>3. \A d \in Dirs, g \in Files : wanted'[d][g].secure =
            IF d = op.dir /\ g = f /\ change THEN FALSE ELSE wanted[d][g].secure
    BY <1>7, <1>11, <2>1
  <2>4. op'.pc \in {"file", "write"} /\ op'.dir = op.dir
    BY <1>9
  <2>5. change => op.saving
    BY <2>1
  <2>6. FALSE \in BOOLEAN
    OBVIOUS
  <2> HIDE DEF D
  <2> QED BY <1>1, <1>2, <1>9, <1>10, <2>2, <2>3, <2>4, <2>5, <2>6, MarksMove
<1> QED BY <1>12, <1>13, <1>14, <1>15, <1>16 DEF SaveInv

LEMMA FileLastInv ==
  ASSUME SaveSizes, SaveInv, Saves!FileLast
  PROVE  SaveInv'
<1>0. SaveTypes /\ SfosTrue /\ OpTrue /\ FilesTrue /\ MarksTrue
  BY DEF SaveInv
<1>1. op.pc = "file" /\ op \in OpRec /\ op.dir \in Dirs /\ saves > 0 /\ op.saving \in BOOLEAN /\ op.meta.ver \in Int
  BY <1>0 DEF Saves!FileLast, OpTrue, Within, SaveTypes, OpRec, SfoRec
<1>2. UNCHANGED <<disk, saves, shown, upset>>
  BY DEF Saves!FileLast
<1>3. CASE op.saving /\ Saves!Valid(op.meta)
  <2>1. op' = [op EXCEPT !.pc = "sfo"] /\ UNCHANGED wanted
    BY <1>3 DEF Saves!FileLast
  <2>2. op' \in OpRec /\ op'.pc = "sfo" /\ op'.dir = op.dir /\ op'.meta = op.meta /\ op'.saving = op.saving
    BY <1>1, <2>1 DEF OpRec, Within
  <2>3. SaveTypes'
    BY <1>0, <1>2, <2>1, <2>2 DEF SaveTypes
  <2>4. SfosTrue' /\ FilesTrue'
    <3>1. upset \subseteq upset' /\ upset' \subseteq Dirs
      BY <1>0, <1>2 DEF SaveTypes
    <3> QED BY <1>1, <1>2, <2>1, <2>2, <3>1, OpOnly
  <2>5. OpTrue'
    <3>1. op'.pc \in Within
      BY <2>2 DEF Within
    <3>2. op.meta.ver > 0 /\ disk[op.dir].there
      BY <1>0, <1>1, <1>3 DEF OpTrue, Within, Saves!Valid
    <3> QED BY <1>1, <1>2, <1>3, <2>2, <3>1, <3>2 DEF OpTrue
  <2>6. MarksTrue'
    <3>1. \A d : Asked(d)' = Asked(d) /\ (InHand(d)' <=> InHand(d))
      BY <1>1, <2>1, <2>2 DEF Asked, InHand, Within
    <3> QED BY <1>0, <1>2, <2>2, <3>1 DEF MarksTrue
  <2> QED BY <2>3, <2>4, <2>5, <2>6 DEF SaveInv
<1>4. CASE ~(op.saving /\ Saves!Valid(op.meta))
  <2> DEFINE asks == [f \in Files |-> [wanted[op.dir][f] EXCEPT !.secure = FALSE]]
  <2>1. op' = Saves!Idle
    BY <1>4 DEF Saves!FileLast
  <2>2. op' \in OpRec /\ op'.pc = "idle" /\ op'.dir = ""
    BY <2>1, InitialRecords
  <2>3. wanted \in [Dirs -> [Files -> Ask]]
    BY <1>0 DEF SaveTypes
  <2>4. wanted' = IF Saves!Valid(disk[op.dir].sfo) THEN wanted ELSE [wanted EXCEPT ![op.dir] = asks]
    BY <1>1, <1>4, <2>3 DEF Saves!FileLast
  <2>5. /\ wanted' \in [Dirs -> [Files -> Ask]]
        /\ \A d \in Dirs, f \in Files :
            /\ wanted'[d][f].content = wanted[d][f].content
            /\ wanted'[d][f].secure = IF d = op.dir /\ ~Saves!Valid(disk[d].sfo) THEN FALSE
                                      ELSE wanted[d][f].secure
    <3>1. /\ asks \in [Files -> Ask]
          /\ \A f \in Files : asks[f].content = wanted[op.dir][f].content /\ asks[f].secure = FALSE
      <4>1. \A f \in Files : wanted[op.dir][f] \in Ask
        BY <1>1, <2>3
      <4>2. \A a \in Ask : /\ [a EXCEPT !.secure = FALSE] \in Ask
                           /\ [a EXCEPT !.secure = FALSE].content = a.content
                           /\ [a EXCEPT !.secure = FALSE].secure = FALSE
        BY DEF Ask
      <4> QED BY <4>1, <4>2
    <3> HIDE DEF asks
    <3> QED BY <1>1, <2>3, <2>4, <3>1
  <2>6. SaveTypes'
    BY <1>0, <1>2, <2>2, <2>5 DEF SaveTypes
  <2>7. SfosTrue'
    BY <1>0, <1>2 DEF SfosTrue
  <2>8. OpTrue'
    BY <2>1, <2>2 DEF OpTrue, Within
  <2>9. FilesTrue'
    <3>1. ASSUME NEW d \in Dirs \ upset', NEW f \in Files
          PROVE  FileTrue(d, f)'
      <4>1. disk[d].files[f] = wanted[d][f].content
        BY <1>0, <1>1, <1>2 DEF FilesTrue, FileTrue
      <4> QED BY <1>2, <2>2, <2>5, <4>1 DEF FileTrue
    <3> QED BY <3>1 DEF FilesTrue
  <2>10. MarksTrue'
    <3>1. SUFFICES ASSUME MaxSecure >= Cardinality(Files), NEW d \in Dirs \ upset
                   PROVE  Asked(d)' = disk[d].sfo.secure
      BY <1>2, <2>2 DEF MarksTrue, InHand, Within
    <3>2. Asked(d) = IF InHand(d) THEN op.meta.secure ELSE disk[d].sfo.secure
      BY <1>0, <3>1 DEF MarksTrue
    <3>3. disk[d].sfo = Saves!NoSfo \/ Saves!Valid(disk[d].sfo)
      BY <1>0 DEF SfosTrue, Saves!Valid
    <3>4. ~Saves!Valid(Saves!NoSfo)
      BY NoSfoIs DEF Saves!Valid
    <3>5. CASE d # op.dir \/ Saves!Valid(disk[d].sfo)
      <4>1. Asked(d)' = Asked(d)
        BY <2>5, <3>5 DEF Asked
      <4>2. ~InHand(d)
        <5>1. op.saving => disk[op.dir].sfo = Saves!NoSfo
          BY <1>0, <1>1, <1>4 DEF OpTrue, Within, Saves!Valid
        <5> QED BY <3>4, <3>5, <5>1 DEF InHand
      <4> QED BY <3>2, <4>1, <4>2
    <3>6. CASE d = op.dir /\ ~Saves!Valid(disk[d].sfo)
      <4>1. Asked(d)' = {}
        BY <2>5, <3>6 DEF Asked
      <4> QED BY <3>3, <3>6, <4>1, NoSfoIs
    <3> QED BY <3>5, <3>6
  <2> QED BY <2>6, <2>7, <2>8, <2>9, <2>10 DEF SaveInv
<1> QED BY <1>3, <1>4

-----------------------------------------------------------------------------
(* The whole *)

LEMMA SaveInitInv == SaveSizes /\ Saves!Init => SaveInv
<1> SUFFICES ASSUME SaveSizes, Saves!Init PROVE SaveInv
  OBVIOUS
<1>1. /\ op = Saves!Idle /\ op \in OpRec /\ op.pc = "idle" /\ op.dir = "" /\ saves = 0 /\ upset = {}
      /\ disk = [d \in Dirs |-> Saves!NoDir] /\ shown = [d \in Dirs |-> 0]
      /\ wanted = [d \in Dirs |-> [f \in Files |-> [content |-> Saves!None, secure |-> FALSE]]]
  BY InitialRecords DEF Saves!Init
<1>2. \A d \in Dirs : disk[d] = Saves!NoDir /\ disk[d].sfo = Saves!NoSfo
  BY <1>1, InitialRecords
<1>3. [content |-> Saves!None, secure |-> FALSE] \in Ask
  BY DEF Ask, Content
<1>4. SaveTypes
  <2>1. wanted \in [Dirs -> [Files -> Ask]]
    BY <1>1, <1>3
  <2>2. disk \in [Dirs -> DirRec]
    BY <1>1, InitialRecords
  <2>3. saves \in Nat /\ upset \subseteq Dirs
    BY DEF Saves!Init
  <2>4. shown \in [Dirs -> Int]
    BY DEF Saves!Init
  <2> QED BY <1>1, <2>1, <2>2, <2>3, <2>4 DEF SaveTypes
<1>5. SfosTrue
  BY <1>1, <1>2, NoSfoIs DEF SfosTrue
<1>6. OpTrue
  BY <1>1 DEF OpTrue, Within
<1>7. FilesTrue
  <2>1. \A d \in Dirs, f \in Files : disk[d].files[f] = Saves!None /\ wanted[d][f].content = Saves!None
    BY <1>1, <1>2 DEF Saves!NoDir
  <2> QED BY <1>1, <2>1 DEF FilesTrue, FileTrue
<1>8. MarksTrue
  <2>1. \A d \in Dirs : Asked(d) = {} /\ ~InHand(d)
    BY <1>1 DEF Asked, InHand, Within
  <2> QED BY <1>2, <2>1, NoSfoIs DEF MarksTrue
<1> QED BY <1>4, <1>5, <1>6, <1>7, <1>8 DEF SaveInv

LEMMA SaveNextInv == SaveSizes /\ SaveInv /\ [Saves!Next]_(Saves!saveVars) => SaveInv'
<1> SUFFICES ASSUME SaveSizes, SaveInv, [Saves!Next]_(Saves!saveVars) PROVE SaveInv'
  OBVIOUS
<1>0. op.pc = "idle" => op = Saves!Idle
  BY DEF SaveInv, OpTrue
<1>1. ASSUME NEW b \in BOOLEAN, Saves!Begin(b) PROVE SaveInv'
  BY <1>1, BeginInv
<1>2. ASSUME NEW d \in Dirs, Saves!Select(d) PROVE SaveInv'
  BY <1>2, SelectInv
<1>3. CASE Saves!SelectEnds
  BY <1>3, EndsInv DEF Saves!SelectEnds
<1>4. CASE Saves!StatGiven
  BY <1>4, StatGivenInv
<1>5. CASE Saves!StatNext
  BY <1>5, StatNextInv
<1>6. CASE Saves!StatEnds
  BY <1>6, EndsInv DEF Saves!StatEnds, Saves!Ends
<1>7. ASSUME NEW fop \in Saves!FileOps, Saves!WriteBegin(fop) PROVE SaveInv'
  BY <1>7, WriteBeginInv
<1>8. CASE Saves!WriteEnd
  BY <1>8, WriteEndInv
<1>9. ASSUME NEW f \in Files, Saves!DeleteFile(f) PROVE SaveInv'
  BY <1>9, DeleteFileInv
<1>10. ASSUME NEW f \in Files, Saves!ReadMissing(f) PROVE SaveInv'
  BY <1>10, EndsInv DEF Saves!ReadMissing, Saves!Fails, Within
<1>11. CASE Saves!FileFails
  BY <1>11, EndsInv DEF Saves!FileFails, Saves!Fails, Within
<1>12. CASE Saves!FileLast
  BY <1>12, FileLastInv
<1>13. CASE Saves!SfoOpen
  BY <1>13, SfoOpenInv
<1>14. CASE Saves!SfoWritten
  BY <1>14, SfoWrittenInv
<1>15. CASE Saves!SfoRename
  BY <1>15, SfoRenameInv
<1>16. CASE Saves!SfoFails
  BY <1>16, SfoFailsInv
<1>17. CASE Saves!Crash
  <2>1. op.pc \in {"idle", "select"} \cup Within /\ op.pc # "idle"
    BY <1>0, <1>17 DEF Saves!Crash, SaveInv, SaveTypes, OpRec
  <2>2. op' = Saves!Idle /\ UNCHANGED <<disk, wanted, shown, saves>>
    BY <1>17 DEF Saves!Crash
  <2>3. CASE op.pc = "select"
    BY <1>17, <2>2, <2>3, EndsInv DEF Saves!Crash
  <2>4. CASE op.pc \in Within
    BY <1>17, <2>2, <2>4, EndsInv DEF Saves!Crash, Within
  <2> QED BY <2>1, <2>3, <2>4
<1>18. CASE UNCHANGED Saves!saveVars
  <2>1. UNCHANGED <<disk, op, saves, crashes, wanted, shown, upset>>
    BY <1>18 DEF Saves!saveVars
  <2>2. SaveTypes' /\ SfosTrue'
    BY <2>1 DEF SaveInv, SaveTypes, SfosTrue
  <2>3. OpTrue'
    BY <2>1 DEF SaveInv, OpTrue
  <2>4. FilesTrue'
    BY <2>1 DEF SaveInv, FilesTrue, FileTrue
  <2>5. MarksTrue'
    BY <2>1 DEF SaveInv, MarksTrue, Asked, InHand
  <2> QED BY <2>2, <2>3, <2>4, <2>5 DEF SaveInv
<1> QED BY <1>1, <1>2, <1>3, <1>4, <1>5, <1>6, <1>7, <1>8, <1>9, <1>10, <1>11, <1>12, <1>13,
           <1>14,
           <1>15, <1>16, <1>17, <1>18 DEF Saves!Next

LEMMA SaveFollows == SaveSizes /\ SaveInv => Saves!SavesSound
<1> SUFFICES ASSUME SaveSizes, SaveInv PROVE Saves!SavesSound
  OBVIOUS
<1>0. SaveTypes /\ SfosTrue /\ OpTrue /\ FilesTrue /\ MarksTrue
  BY DEF SaveInv
<1>1. Saves!SfoOfLastSave
  BY <1>0 DEF SfosTrue, Saves!SfoOfLastSave
<1>2. Saves!CompletedListed
  <2>1. \A d \in Dirs : shown[d] > 0 => disk[d].sfo # Saves!NoSfo
    BY <1>0, NoSfoIs DEF SfosTrue
  <2> QED BY <1>0, <2>1 DEF SfosTrue, Saves!CompletedListed, Saves!Listed, Saves!Valid
<1>3. Saves!FilesAsAsked
  BY <1>0 DEF Saves!FilesAsAsked, Saves!Settled, FilesTrue, FileTrue
<1>4. Saves!SecureAsAsked
  <2>1. Saves!Cardinality(Files) = Cardinality(Files)
    BY SameCardinality
  <2> QED BY <1>0, <2>1 DEF Saves!SecureAsAsked, Saves!Settled, MarksTrue, Asked, InHand
<1> QED BY <1>1, <1>2, <1>3, <1>4 DEF Saves!SavesSound

(* Whatever fails and wherever the program ends, PARAM.SFO is that of the last
   save that was completed, which stays listed; and a directory nothing went
   wrong in has the files, and the marks of secure files, that the guest's
   operations made.                                                          *)
THEOREM SavesAreWhole == ASSUME SaveSizes PROVE Saves!Spec => []Saves!SavesSound
<1>1. Saves!Init => SaveInv
  BY SaveInitInv
<1>2. SaveInv /\ [Saves!Next]_(Saves!saveVars) => SaveInv'
  BY SaveNextInv
<1>3. SaveInv => Saves!SavesSound
  BY SaveFollows
<1> QED BY <1>1, <1>2, <1>3, PTL DEF Saves!Spec

=============================================================================
