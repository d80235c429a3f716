------------------------------ MODULE RsxChain ------------------------------
(***************************************************************************)
(* Where the consumer of the RSX ring resumes when a release went missing  *)
(* (yakuza/yz_rsx_stopper_repair.inc): the commands up to PUT are walked   *)
(* without executing them, and a start is taken whose flow reaches the     *)
(* user command the guest waits for, or a balanced run of draws that ends  *)
(* at a stopper.  Then the consumer executes from there.                   *)
(* Offsets count commands from the start of the scan; data words of the    *)
(* guest lie between them.                                                 *)
(***************************************************************************)
EXTENDS Integers

CONSTANTS
    Put,      \* the offset of PUT
    Scans,    \* the words from the start of the scan up to PUT, functions on 0 .. Put: "data",
              \* "nop", "ucmd", "prologue", "begin", "end", "draw", "self", "jump", "far", "call",
              \* "return"
    Links     \* where the jumps of a ring go

\* A display list outside the ring, which returns at once.
List == Put + 1
None == -1

VARIABLES
    mem,     \* the words from the start of the scan up to PUT
    link,    \* where a jump goes
    pick,    \* where the consumer resumes, or None
    get, ret, \* the consumer
    open     \* draws it has begun and not ended

chainVars == <<mem, link, pick, get, ret, open>>

Word(pc) == IF pc = List THEN "return" ELSE mem[pc]
\* A stopper jumps to itself; "far" is a jump to an address without a page.
Stops(pc) == Word(pc) = "self" \/ (Word(pc) = "jump" /\ link = pc)
Draws == {"begin", "end", "draw"}

-----------------------------------------------------------------------------
(* yz_a010_probe_chain: a walk ends with a reason *)

From(start) == [pc |-> start, ret |-> None, steps |-> 0, stop |-> "", reached |-> FALSE,
                clean |-> FALSE, calls |-> 0, returns |-> 0, begin |-> 0, end |-> 0, draw |-> 0]

StepLimit == 2 * Put + 2

\* The target is passed; is it outside a display list?
Passing(s, target) ==
    IF s.pc = target /\ ~s.reached THEN [s EXCEPT !.reached = TRUE, !.clean = s.ret = None] ELSE s

Ends(s, why) == [s EXCEPT !.stop = why]

\* One command of the walk.
Walk1(s) ==
    LET w == Word(s.pc)
        To(pc) == [s EXCEPT !.pc = pc, !.steps = @ + 1]
    IN  CASE Stops(s.pc) -> Ends(s, IF s.reached /\ s.ret = None THEN "complete" ELSE "self")
          [] w = "far" -> Ends(s, "bad jump")
          [] w = "jump" /\ ~Stops(s.pc) -> To(link)
          [] w = "call" -> IF s.ret # None THEN Ends(s, "nested call")
                           ELSE [To(List) EXCEPT !.ret = s.pc + 1, !.calls = @ + 1]
          [] w = "return" -> IF s.ret = None THEN Ends(s, "return without call")
                             ELSE [To(s.ret) EXCEPT !.ret = None, !.returns = @ + 1]
          [] w = "data" -> Ends(s, "malformed")
          [] w \in Draws -> [To(s.pc + 1) EXCEPT ![w] = @ + 1]
          [] OTHER -> To(s.pc + 1)

\* One round of the loop; a walk that has ended stays.
Round(s, target) ==
    LET t == Passing(s, target)
    IN  IF t.stop # "" THEN t
        ELSE IF t.pc = Put + 1 /\ t.ret = None THEN Ends(t, "outside")
        ELSE IF t.steps = StepLimit THEN Ends(t, "limit")
        ELSE Walk1(t)

\* The round after the last step that is allowed ends every walk.
Walk(s, target) ==
    LET after[n \in 0 .. StepLimit + 1] ==
            IF n = 0 THEN s ELSE Round(after[n - 1], target)
    IN  after[StepLimit + 1]

\* yz_a010_chain_complete, yz_a010_chain_reaches_completion, yz_a010_probe_is_safe_prefix
Complete(w) == w.stop = "complete"
Reaches(w)  == w.clean
\* A bug: a draw that is begun may be left open.
Unbalanced(w) == w.begin # 0 /\ w.draw # 0
Balanced(w)   == w.begin # 0 /\ w.begin = w.end /\ w.draw # 0
SafePrefix(w, start) ==
    /\ w.stop = "self" /\ ~w.reached /\ start < w.pc /\ w.pc <= Put
    /\ w.calls = w.returns
    /\ Balanced(w)

-----------------------------------------------------------------------------
(* yz_a010_find_pending_chain *)

Least(S) == CHOOSE x \in S : \A y \in S : x <= y

\* The packet with the next value of the label, whole before PUT.
Commands == {d \in 0 .. Put - 1 : mem[d] = "ucmd"}

Taken(start, target) ==
    LET w == Walk(From(start), target)
    IN  Complete(w) \/ Reaches(w) \/ (start # 0 /\ SafePrefix(w, start))

\* The start of the scan, or a generated prologue before the command.
Starts(target) == {0} \cup {d \in 1 .. target - 1 : mem[d] = "prologue"}

Resume ==
    IF Commands = {} THEN None
    ELSE LET target == Least(Commands)
             ok == {d \in Starts(target) : Taken(d, target)}
         IN  IF ok = {} THEN None ELSE Least(ok)

\* The newest stopper of the guest is at PUT (S[0x20]).
Init ==
    /\ mem \in Scans /\ mem[Put] = "self"
    /\ link \in Links
    /\ pick = None /\ get = None /\ ret = None /\ open = 0

Pick ==
    /\ pick = None /\ Resume # None
    /\ pick' = Resume /\ get' = Resume
    /\ UNCHANGED <<mem, link, ret, open>>

-----------------------------------------------------------------------------
(* the consumer: yz_rsx_fifo_step_impl *)

Runs == get # None /\ get # Put /\ get <= List /\ Commands # {}
Ucmd == Least(Commands)

\* The guest goes on when its command was executed, and a stopper holds the consumer.
Arrived == get = Ucmd \/ Stops(get)

Opens(w) == IF w = "begin" THEN 1 ELSE IF w = "end" THEN -1 ELSE 0

Consume ==
    /\ Runs /\ ~Arrived
    /\ open' = open + Opens(Word(get))
    /\ LET w == Word(get)
       IN  \/ w = "jump" /\ get' = link /\ ret' = ret
           \/ w = "call" /\ get' = List /\ ret' = get + 1
           \/ w = "return" /\ ret # None /\ get' = ret /\ ret' = None
           \/ w \in {"nop", "prologue"} \cup Draws /\ get' = get + 1 /\ ret' = ret
    /\ UNCHANGED <<mem, link, pick>>

Next == Pick \/ Consume

-----------------------------------------------------------------------------

TypeOK == pick \in {None} \cup 0 .. Put /\ get \in {None} \cup 0 .. List /\ ret \in {None} \cup 1 .. List
          /\ open \in -Put .. Put

\* From the word it resumes at, the consumer meets neither data nor an address without a
\* page nor a broken call, until the command is executed or a stopper holds it.
ResumeSound ==
    get # None =>
        /\ get <= List
        /\ Runs /\ ~Arrived => /\ Word(get) \notin {"data", "far"}
                               /\ Word(get) = "return" => ret # None
                               /\ Word(get) = "call" => ret = None

\* A stopper short of the command holds it between draws.
ResumeBalanced == get # None /\ Runs /\ get # Ucmd /\ Stops(get) => open = 0

\* It does not reach the end of what is published short of the command.
ResumeReaches == get # None => get # Put \/ Stops(get)

ChainSound == ResumeSound /\ ResumeBalanced /\ ResumeReaches

=============================================================================
