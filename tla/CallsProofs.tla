---------------------------- MODULE CallsProofs ----------------------------
(***************************************************************************)
(* What holds of one Job's spending for every set of requests, every pair  *)
(* of ceilings, and every number of tries, free retries and restarts: the  *)
(* rows account for all of it, the upstream ceiling is overrun by less     *)
(* than one turn's tries, and the ceilings end every loop.                 *)
(***************************************************************************)
EXTENDS Calls, FiniteSetTheorems, TLAPS

Stops == {"none", "tool_use", "end_turn", "refusal"}
LoopSteps == {"none", "seed", "ask", "meter", "open", "count", "decide"}
InTurn == {"meter", "open", "count", "decide"}
JobStates == {"queued", "running"} \cup Settled
Loops == [pc : LoopSteps, turns : Nat, calls : Nat, tokens : Nat,
          retries : 0..FreeRetries, stop : Stops, uses : SUBSET Requests, past : Nat]
Tools == [pc : ToolSteps, try : 0..MaxTries]

\* The bills the tools in flight can still write: one for each try that a tool
\* is making or may yet make.
Left(t) == {p \in Requests \X (1..MaxTries) : t[p[1]].pc # "none" /\ t[p[1]].try <= p[2]}

\* Those of the tools that were let past the ceiling.
Admitted(t) == {p \in Left(t) : t[p[1]].pc # "look"}

\* The calls of the turn that have a row and have not begun.
Opened == IF loop.pc \in {"count", "decide"} THEN loop.uses ELSE {}

BilledUpstream == usage.ok + usage.failed

-----------------------------------------------------------------------------
(* The inductive invariant, by parts.                                      *)

LoopTyped ==
    /\ job \in [state : JobStates, kind : Kinds] /\ starts \in 0..MaxStarts
    /\ loop \in Loops
    /\ job.state = "running" <=> loop.pc # "none"
    /\ loop.pc = "none" => loop = NoLoop
    /\ loop.pc \in InTurn => (loop.stop = "tool_use") = (loop.uses # {})

RowsTyped ==
    /\ trace \in [turns : Nat, calls : Nat]
    /\ usage \in [model : Nat, ok : Nat, failed : Nat]
    /\ ledger \in [calls : Nat, tokens : Nat]
    /\ cache \subseteq Requests

FatalTyped == fatal \in BOOLEAN

\* Tools run while the loop waits for them, and only for a turn that was paid for.
ToolsTyped ==
    /\ tools \in [Requests -> Tools]
    /\ \A q \in Requests : \/ tools[q] = NoTool
                           \/ /\ tools[q].pc # "none" /\ tools[q].try >= 1
                              /\ loop.pc = "ask" /\ usage.model >= 1

\* The counters in memory are those of the rows, but for the step in between.
Counters ==
    /\ loop.pc \in {"ask"} \cup InTurn => loop.calls = trace.calls
    /\ loop.pc \in {"ask", "meter", "count", "decide"} => loop.tokens = usage.model
    /\ loop.pc = "open" => loop.tokens + 1 = usage.model
    /\ loop.pc = "decide" => ledger = CountersSoFar
    /\ loop.pc \in {"open", "count", "decide"} => usage.model >= 1

\* Every turn but the last asks for a tool, so the calls keep up with the turns.
TurnsBehind ==
    /\ loop.turns <= job.kind.calls + 1
    /\ loop.pc = "ask" => loop.turns <= loop.calls /\ loop.turns <= job.kind.calls
    /\ loop.pc \in InTurn => loop.turns <= loop.calls + 1
    /\ loop.pc \in {"count", "decide"} /\ loop.uses # {} => loop.turns <= loop.calls

\* A turn past a ceiling costs a free retry, or ends the loop.
PastOnce ==
    /\ loop.past <= loop.retries + 1
    /\ loop.pc \in {"seed", "ask"} => loop.past <= loop.retries
    /\ loop.pc \in InTurn /\ loop.past = loop.retries + 1 => PastCeiling

\* What was billed, what can still be, and what is about to begin has its rows.
Covered ==
    BilledUpstream + Cardinality(Left(tools)) + MaxTries * Cardinality(Opened)
        <= MaxTries * trace.calls

\* What was billed and what can still be, of the tools the ceiling let past.
Bounded ==
    job.kind.calls > 0 /\ (BilledUpstream > 0 \/ Admitted(tools) # {}) =>
        BilledUpstream + Cardinality(Admitted(tools)) + 1
            < job.kind.calls + MaxTries * Cardinality(Requests)

CallsInv == /\ LoopTyped /\ RowsTyped /\ FatalTyped /\ ToolsTyped /\ Counters
            /\ TurnsBehind /\ PastOnce /\ Covered /\ Bounded

-----------------------------------------------------------------------------
(* Counting the bills that can still be written.                           *)

\* There are at most MaxTries of them for each request.
LEMMA LeftIsFinite ==
  ASSUME NEW t \in [Requests -> Tools]
  PROVE  /\ IsFiniteSet(Left(t)) /\ Cardinality(Left(t)) \in Nat
         /\ IsFiniteSet(Admitted(t)) /\ Cardinality(Admitted(t)) \in Nat
         /\ Cardinality(Left(t)) <= MaxTries * Cardinality(Requests)
         /\ Cardinality(Admitted(t)) <= MaxTries * Cardinality(Requests)
         /\ MaxTries * Cardinality(Requests) \in Nat
<1>1. IsFiniteSet(Requests) /\ MaxTries \in Nat /\ MaxTries > 0 /\ Cardinality(Requests) \in Nat
  BY CallBounds, FS_CardinalityType
<1>2. IsFiniteSet(1..MaxTries) /\ Cardinality(1..MaxTries) = MaxTries
  BY <1>1, FS_Interval
<1> DEFINE All == Requests \X (1..MaxTries)
<1>3. IsFiniteSet(All) /\ Cardinality(All) = Cardinality(Requests) * MaxTries
  BY <1>1, <1>2, FS_Product
<1>4. Left(t) \in SUBSET All /\ Admitted(t) \in SUBSET All
  BY DEF Left, Admitted
<1>5. Cardinality(Requests) * MaxTries = MaxTries * Cardinality(Requests)
      /\ MaxTries * Cardinality(Requests) \in Nat
  BY <1>1
<1> HIDE DEF All
<1>6. /\ IsFiniteSet(Left(t)) /\ Cardinality(Left(t)) <= Cardinality(All)
      /\ IsFiniteSet(Admitted(t)) /\ Cardinality(Admitted(t)) <= Cardinality(All)
  BY <1>3, <1>4, FS_Subset
<1> QED
  BY <1>3, <1>5, <1>6, FS_CardinalityType

\* A set that loses an element of another, and gains none, is smaller.
LEMMA Smaller ==
  ASSUME NEW S, IsFiniteSet(S), NEW x \in S, NEW T \in SUBSET (S \ {x})
  PROVE  Cardinality(T) + 1 <= Cardinality(S)
<1>1. IsFiniteSet(S \ {x}) /\ Cardinality(S \ {x}) = Cardinality(S) - 1
  BY FS_RemoveElement
<1>2. Cardinality(T) <= Cardinality(S \ {x}) /\ IsFiniteSet(T)
  BY <1>1, FS_Subset
<1> QED
  BY <1>1, <1>2, FS_CardinalityType

\* A tool that goes on with its try can still write what it could.
LEMMA TryGoesOn ==
  ASSUME tools \in [Requests -> Tools], NEW q \in Requests, NEW new \in Tools,
         tools[q].pc # "none", new.pc # "none", new.try = tools[q].try
  PROVE  LET t == [tools EXCEPT ![q] = new]
         IN  /\ Left(t) = Left(tools)
             /\ tools[q].pc # "look" /\ new.pc # "look" => Admitted(t) = Admitted(tools)
<1> DEFINE t == [tools EXCEPT ![q] = new]
<1>1. \A r \in Requests : t[r] = IF r = q THEN new ELSE tools[r]
  OBVIOUS
<1> HIDE DEF t
<1>2. Left(t) = Left(tools)
  BY <1>1 DEF Left
<1>3. tools[q].pc # "look" /\ new.pc # "look" => Admitted(t) = Admitted(tools)
  BY <1>1, <1>2 DEF Admitted, Left
<1> QED
  BY <1>2, <1>3 DEF t

\* A tool that is done with its try has one bill less to write.
LEMMA TryIsOver ==
  ASSUME tools \in [Requests -> Tools], NEW q \in Requests, NEW new \in Tools,
         tools[q].pc # "none", tools[q].try >= 1,
         new.pc = "none" \/ (new.pc # "look" /\ new.try = tools[q].try + 1)
  PROVE  LET t == [tools EXCEPT ![q] = new]
         IN  /\ Cardinality(Left(t)) + 1 <= Cardinality(Left(tools))
             /\ tools[q].pc # "look" =>
                   Cardinality(Admitted(t)) + 1 <= Cardinality(Admitted(tools))
             /\ new.pc = "none" => Admitted(t) \subseteq Admitted(tools)
<1> DEFINE t == [tools EXCEPT ![q] = new]
           p == <<q, tools[q].try>>
<1>1. \A r \in Requests : t[r] = IF r = q THEN new ELSE tools[r]
  OBVIOUS
<1>2. tools[q].try \in 1..MaxTries /\ new.try \in Nat
  BY CallBounds DEF Tools
<1> HIDE DEF t
<1>3. p \in Left(tools) /\ p \notin Left(t)
  BY <1>1, <1>2 DEF Left
<1>4. Left(t) \subseteq Left(tools)
  BY <1>1, <1>2 DEF Left
<1>5. tools[q].pc # "look" => p \in Admitted(tools) /\ p \notin Admitted(t)
  BY <1>3 DEF Admitted
<1>6. tools[q].pc # "look" \/ new.pc = "none" => Admitted(t) \subseteq Admitted(tools)
  BY <1>1, <1>4 DEF Admitted, Left
<1> HIDE DEF p
<1>7. Cardinality(Left(t)) + 1 <= Cardinality(Left(tools))
  BY <1>3, <1>4, LeftIsFinite, Smaller
<1>8. tools[q].pc # "look" =>
        Cardinality(Admitted(t)) + 1 <= Cardinality(Admitted(tools))
  BY <1>5, <1>6, LeftIsFinite, Smaller
<1> QED
  BY <1>6, <1>7, <1>8 DEF t

\* The tools of a turn begin with all their tries to come.
LEMMA ToolsBegin ==
  ASSUME NEW uses \in SUBSET Requests, NEW t,
         t = [q \in Requests |-> IF q \in uses THEN [pc |-> "look", try |-> 1] ELSE NoTool]
  PROVE  /\ t \in [Requests -> Tools]
         /\ Cardinality(Left(t)) <= MaxTries * Cardinality(uses)
         /\ Admitted(t) = {}
<1>1. t \in [Requests -> Tools]
  BY CallBounds DEF Tools, ToolSteps, NoTool
<1>2. IsFiniteSet(uses) /\ IsFiniteSet(1..MaxTries) /\ Cardinality(1..MaxTries) = MaxTries
      /\ Cardinality(uses) \in Nat /\ MaxTries \in Nat
  <2>1. MaxTries \in Nat /\ MaxTries > 0 /\ IsFiniteSet(Requests)
    BY CallBounds
  <2>2. IsFiniteSet(uses)
    BY <2>1, FS_Subset
  <2>3. IsFiniteSet(1..MaxTries) /\ Cardinality(1..MaxTries) = MaxTries
    BY <2>1, FS_Interval
  <2>4. Cardinality(uses) \in Nat
    BY <2>2, FS_CardinalityType
  <2> QED
    BY <2>1, <2>2, <2>3, <2>4
<1>3. IsFiniteSet(uses \X (1..MaxTries))
      /\ Cardinality(uses \X (1..MaxTries)) = Cardinality(uses) * MaxTries
  BY <1>2, FS_Product
<1>4. Left(t) \in SUBSET (uses \X (1..MaxTries))
  BY DEF Left, NoTool
<1>5. Cardinality(Left(t)) <= Cardinality(uses) * MaxTries
  BY <1>3, <1>4, FS_Subset
<1>6. Cardinality(uses) * MaxTries = MaxTries * Cardinality(uses)
  BY <1>2
<1>7. Admitted(t) = {}
  BY DEF Admitted, Left, NoTool
<1> QED
  BY <1>1, <1>5, <1>6, <1>7

\* Nothing is left to write where no tool runs.
LEMMA NothingLeft ==
  ASSUME NEW t, \A q \in Requests : t[q].pc = "none"
  PROVE  /\ Left(t) = {} /\ Admitted(t) = {}
         /\ Cardinality(Left(t)) = 0 /\ Cardinality(Admitted(t)) = 0
<1>1. Left(t) = {} /\ Admitted(t) = {}
  BY DEF Left, Admitted
<1> QED
  BY <1>1, FS_EmptySet

\* Every tool in flight can still write a bill.
LEMMA InFlightIsLeft ==
  ASSUME ToolsTyped
  PROVE  Cardinality(InFlight) <= Cardinality(Left(tools)) /\ Cardinality(InFlight) \in Nat
<1>1. IsFiniteSet(InFlight) /\ MaxTries \in 1..MaxTries
  BY CallBounds, FS_Subset DEF InFlight
<1>2. IsFiniteSet({MaxTries}) /\ Cardinality({MaxTries}) = 1
  BY FS_Singleton
<1>3. Cardinality(InFlight \X {MaxTries}) = Cardinality(InFlight) * 1
  BY <1>1, <1>2, FS_Product
<1>4. InFlight \X {MaxTries} \in SUBSET Left(tools)
  <2> SUFFICES ASSUME NEW q \in InFlight PROVE <<q, MaxTries>> \in Left(tools)
    OBVIOUS
  <2>1. q \in Requests /\ tools[q].pc # "none" /\ tools[q] \in Tools
    BY DEF InFlight, ToolsTyped
  <2> QED
    BY <1>1, <2>1 DEF Left, Tools
<1>5. Cardinality(InFlight \X {MaxTries}) <= Cardinality(Left(tools))
  BY <1>4, LeftIsFinite, FS_Subset DEF ToolsTyped
<1> QED
  BY <1>1, <1>3, <1>5, FS_CardinalityType

-----------------------------------------------------------------------------
(* What a step does, whichever action it is of.                            *)

\* A tool's step: it goes on with its try, is let past the ceiling, gives up
\* without a bill, or writes one and is done or tries again.
ToolKeeps(q, new) ==
    /\ tools[q].pc # "look" /\ new.pc \notin {"none", "look"} /\ new.try = tools[q].try
    /\ UNCHANGED usage
ToolAdmitted(q, new) ==
    /\ tools[q].pc = "look" /\ new.pc \notin {"none", "look"} /\ new.try = tools[q].try
    /\ job.kind.calls = 0 \/ Billed < job.kind.calls
    /\ UNCHANGED usage
ToolDropped(new) == new = NoTool /\ UNCHANGED usage
ToolBilled(q, new) ==
    /\ tools[q].pc # "look"
    /\ \/ new = NoTool
       \/ new.pc = "dial" /\ tools[q].try < MaxTries /\ new.try = tools[q].try + 1
    /\ usage'.model = usage.model /\ BilledUpstream' = BilledUpstream + 1

ToolMoves(q) ==
    /\ tools[q].pc # "none"
    /\ \E new \in Tools :
          /\ tools' = [tools EXCEPT ![q] = new]
          /\ \/ ToolKeeps(q, new) \/ ToolAdmitted(q, new) \/ ToolDropped(new)
             \/ ToolBilled(q, new)
    /\ UNCHANGED <<job, starts, loop, trace, ledger>>
    /\ cache' \subseteq cache \cup {q}
    /\ usage' \in [model : Nat, ok : Nat, failed : Nat]

\* No tool is in flight.
LEMMA NoToolTyped == NoTool \in Tools /\ NoTool.pc = "none" /\ NoTool.try = 0
  BY CallBounds DEF NoTool, Tools, ToolSteps

\* Every step of a tool is one of these moves.
LEMMA ToolStepMoves ==
  ASSUME ToolsTyped, RowsTyped, NEW q \in Requests, ToolStep(q)
  PROVE  ToolMoves(q)
<1>1. tools \in [Requests -> Tools] /\ tools[q] \in Tools
      /\ usage \in [model : Nat, ok : Nat, failed : Nat]
  BY DEF ToolsTyped, RowsTyped
<1>2. tools[q].pc \in ToolSteps /\ tools[q].try \in 0..MaxTries
  BY <1>1 DEF Tools
<1>3. ASSUME Return(q), UNCHANGED usage, tools[q].pc # "none",
             UNCHANGED <<job, starts, loop, trace, ledger>>, cache' \subseteq cache \cup {q}
      PROVE  ToolMoves(q)
  BY <1>1, <1>3, NoToolTyped DEF Return, ToolMoves, ToolDropped
<1>4. ASSUME NEW pc \in ToolSteps \ {"none", "look"}, Goto(q, pc), UNCHANGED usage,
             tools[q].pc # "none",
             tools[q].pc = "look" => job.kind.calls = 0 \/ Billed < job.kind.calls,
             UNCHANGED <<job, starts, loop, trace, ledger>>, cache' \subseteq cache \cup {q}
      PROVE  ToolMoves(q)
  <2> DEFINE new == [tools[q] EXCEPT !.pc = pc]
  <2>1. new \in Tools /\ new.pc = pc /\ new.try = tools[q].try
    BY <1>1 DEF Tools
  <2>2. tools' = [tools EXCEPT ![q] = new]
    BY <1>4 DEF Goto
  <2> HIDE DEF new
  <2>3. ToolKeeps(q, new) \/ ToolAdmitted(q, new)
    BY <1>4, <2>1 DEF ToolKeeps, ToolAdmitted
  <2> QED
    BY <1>1, <1>4, <2>1, <2>2, <2>3 DEF ToolMoves
<1>5. CASE CacheHit(q)
  BY <1>3, <1>5 DEF CacheHit, At, rows
<1>6. CASE CapExceeded(q)
  BY <1>3, <1>6 DEF CapExceeded, At, rows
<1>7. CASE Admit(q)
  <2>1. "dial" \in ToolSteps \ {"none", "look"}
    BY DEF ToolSteps
  <2> QED
    BY <1>4, <1>7, <2>1 DEF Admit, At, rows
<1>8. CASE Dial(q)
  <2>1. \E pc \in {"save", "raw", "again", "refused"} : Goto(q, pc)
    BY <1>8 DEF Dial
  <2>2. PICK pc \in ToolSteps \ {"none", "look"} : Goto(q, pc)
    BY <2>1 DEF ToolSteps
  <2> QED
    BY <1>4, <1>8, <2>2 DEF Dial, At, rows
<1>9. CASE BillFailure(q)
  <2>1. usage' = [usage EXCEPT !.failed = @ + 1] /\ tools[q].pc \in {"again", "refused"}
        /\ UNCHANGED <<job, starts, loop, trace, ledger, cache>>
    BY <1>9 DEF BillFailure, At
  <2>2. usage'.model = usage.model /\ BilledUpstream' = BilledUpstream + 1
        /\ usage' \in [model : Nat, ok : Nat, failed : Nat]
    BY <1>1, <2>1 DEF BilledUpstream
  <2>3. \E new \in Tools : /\ tools' = [tools EXCEPT ![q] = new]
                           /\ \/ new = NoTool
                              \/ /\ new.pc = "dial" /\ tools[q].try < MaxTries
                                 /\ new.try = tools[q].try + 1
    <3>1. CASE TryAgain(q)
      <4> DEFINE new == [pc |-> "dial", try |-> tools[q].try + 1]
      <4>1. tools' = [tools EXCEPT ![q] = new]
        BY <1>9, <3>1 DEF BillFailure
      <4>2. tools[q].try < MaxTries
        BY <3>1 DEF TryAgain
      <4>3. new \in Tools
        BY <1>2, <4>2, CallBounds DEF Tools, ToolSteps
      <4> QED
        BY <4>1, <4>2, <4>3
    <3>2. CASE ~TryAgain(q)
      BY <1>9, <3>2, NoToolTyped DEF BillFailure, Return
    <3> QED
      BY <3>1, <3>2
  <2> QED
    BY <2>1, <2>2, <2>3 DEF ToolMoves, ToolBilled
<1>10. CASE Save(q)
  <2>1. "bill" \in ToolSteps \ {"none", "look"}
    BY DEF ToolSteps
  <2> QED
    BY <1>4, <1>10, <2>1 DEF Save, At
<1>11. CASE BillAnswer(q)
  <2>1. usage' = [usage EXCEPT !.ok = @ + 1] /\ tools[q].pc = "bill" /\ Return(q)
        /\ UNCHANGED <<job, starts, loop, trace, ledger, cache>>
    BY <1>11 DEF BillAnswer, At
  <2>2. usage'.model = usage.model /\ BilledUpstream' = BilledUpstream + 1
        /\ usage' \in [model : Nat, ok : Nat, failed : Nat]
    BY <1>1, <2>1 DEF BilledUpstream
  <2> QED
    BY <2>1, <2>2, NoToolTyped DEF ToolMoves, ToolBilled, Return
<1>12. CASE PersistFails(q)
  BY <1>3, <1>12 DEF PersistFails, rows
<1> QED
  BY <1>5, <1>6, <1>7, <1>8, <1>9, <1>10, <1>11, <1>12 DEF ToolStep

\* How a loop ends: it is called again with a free retry less, or is over.
LEMMA LoopEnds ==
  ASSUME LoopTyped, loop.pc # "none", NEW outcome \in Settled, EndLoop(outcome)
  PROVE  /\ job' \in [state : JobStates, kind : Kinds] /\ job'.kind = job.kind
         /\ job'.state = "running" <=> loop'.pc # "none"
         /\ \/ /\ loop' \in Loops /\ loop'.pc = "seed" /\ loop'.turns = loop.turns
               /\ loop'.past = loop.past /\ loop'.retries = loop.retries + 1
            \/ loop' = NoLoop
<1>1. CASE outcome = "failed" /\ loop.retries < FreeRetries
  <2>1. loop' = [loop EXCEPT !.pc = "seed", !.retries = @ + 1, !.stop = "none", !.uses = {}]
        /\ job' = job
    BY <1>1 DEF EndLoop
  <2>2. loop.retries + 1 \in 0..FreeRetries
    BY <1>1, CallBounds DEF LoopTyped, Loops
  <2>3. loop' \in Loops /\ loop'.pc = "seed" /\ loop'.turns = loop.turns
        /\ loop'.past = loop.past /\ loop'.retries = loop.retries + 1
    BY <2>1, <2>2 DEF LoopTyped, Loops, LoopSteps, Stops
  <2> QED
    BY <2>1, <2>3, CallBounds DEF LoopTyped
<1>2. CASE ~(outcome = "failed" /\ loop.retries < FreeRetries)
  <2>1. loop' = NoLoop /\ job' = [job EXCEPT !.state = outcome]
    BY <1>2 DEF EndLoop
  <2> QED
    BY <2>1 DEF LoopTyped, JobStates, Settled, NoLoop
<1> QED
  BY <1>1, <1>2

\* Nothing runs and nothing is counted before a Job is taken.
LEMMA NoLoopIs ==
  NoLoop \in Loops /\ NoLoop.pc = "none" /\ NoLoop.turns = 0 /\ NoLoop.past = 0
  /\ NoLoop.retries = 0
  BY CallBounds DEF NoLoop, Loops, LoopSteps, Stops

\* A Job's ceilings are numbers, and its kind is one of the kinds.
LEMMA KindTyped ==
  ASSUME LoopTyped
  PROVE  job.kind \in Kinds /\ job.kind.calls \in Nat /\ job.kind.tokens \in Nat
         /\ Backstop > job.kind.calls + 1 /\ Backstop \in Nat
  BY KindsAreJobs, BackstopIsFar, CallBounds DEF LoopTyped

-----------------------------------------------------------------------------
(* Every step keeps the invariant.                                         *)

\* The calls that were opened are a number.
LEMMA OpenedTyped ==
  ASSUME LoopTyped
  PROVE  /\ Cardinality(Opened) \in Nat /\ MaxTries * Cardinality(Opened) \in Nat
         /\ Cardinality(loop.uses) \in Nat
         /\ loop.uses # {} => Cardinality(loop.uses) >= 1
         /\ \A n \in Nat : MaxTries * (n + Cardinality(loop.uses))
                              = MaxTries * n + MaxTries * Cardinality(loop.uses)
         /\ \A n \in Nat : MaxTries * n \in Nat
         /\ MaxTries * Cardinality({}) = 0
<1>1. IsFiniteSet(Requests) /\ MaxTries \in Nat
  BY CallBounds
<1>2. loop.uses \in SUBSET Requests /\ Opened \in SUBSET Requests
  BY DEF LoopTyped, Loops, Opened
<1>3. Cardinality(loop.uses) \in Nat /\ Cardinality(Opened) \in Nat
      /\ (loop.uses # {} => Cardinality(loop.uses) # 0)
  <2>1. IsFiniteSet(loop.uses) /\ IsFiniteSet(Opened)
    BY <1>1, <1>2, FS_Subset
  <2> QED
    BY <2>1, FS_CardinalityType, FS_EmptySet
<1>4. Cardinality({}) = 0
  BY FS_EmptySet
<1> QED
  BY <1>1, <1>3, <1>4

\* More calls cover more bills.
LEMMA MoreCalls ==
  ASSUME NEW m \in Nat, NEW n \in Nat, m <= n
  PROVE  MaxTries * m <= MaxTries * n /\ MaxTries * m \in Nat /\ MaxTries * n \in Nat
<1>1. MaxTries \in Nat /\ n - m \in Nat
  BY CallBounds
<1>2. MaxTries * (n - m) \in Nat /\ MaxTries * m \in Nat /\ MaxTries * n \in Nat
  BY <1>1
<1>3. MaxTries * n = MaxTries * m + MaxTries * (n - m)
  BY <1>1
<1> QED
  BY <1>2, <1>3

\* Nothing can be billed while the loop is not waiting for its tools.
LEMMA QuietIsNothingLeft ==
  ASSUME ToolsTyped, loop.pc # "ask" \/ InFlight = {}
  PROVE  /\ tools = [q \in Requests |-> NoTool]
         /\ Left(tools) = {} /\ Admitted(tools) = {}
         /\ Cardinality(Left(tools)) = 0 /\ Cardinality(Admitted(tools)) = 0
<1>1. \A q \in Requests : tools[q] = NoTool
  BY DEF ToolsTyped, InFlight
<1>2. tools = [q \in Requests |-> NoTool]
  BY <1>1 DEF ToolsTyped
<1>3. \A q \in Requests : tools[q].pc = "none"
  BY <1>1, NoToolTyped
<1> QED
  BY <1>2, <1>3, NothingLeft

\* The invariant holds at the start.
LEMMA CallsInit == Init => CallsInv
<1> SUFFICES ASSUME Init PROVE CallsInv
  OBVIOUS
<1>1. PICK k \in Kinds : job = [state |-> "queued", kind |-> k]
  BY DEF Init
<1>2. loop = NoLoop /\ starts = 0 /\ tools = [q \in Requests |-> NoTool]
      /\ trace = [turns |-> 0, calls |-> 0] /\ usage = [model |-> 0, ok |-> 0, failed |-> 0]
      /\ ledger = [calls |-> 0, tokens |-> 0] /\ cache = {} /\ fatal = FALSE
  BY DEF Init
<1>3. LoopTyped
  BY <1>1, <1>2, NoLoopIs, CallBounds DEF LoopTyped, JobStates, InTurn
<1>4. RowsTyped
  BY <1>2 DEF RowsTyped
<1>5. FatalTyped
  BY <1>2 DEF FatalTyped
<1>6. ToolsTyped
  BY <1>2, NoToolTyped DEF ToolsTyped
<1>7. Counters
  BY <1>2, NoLoopIs DEF Counters, InTurn
<1>8. TurnsBehind /\ PastOnce
  <2>1. loop.pc = "none" /\ loop.turns = 0 /\ loop.past = 0 /\ loop.retries = 0
    BY <1>2, NoLoopIs
  <2> QED
    BY <1>3, <2>1, KindTyped DEF TurnsBehind, PastOnce, InTurn
<1>9. Left(tools) = {} /\ Admitted(tools) = {} /\ Cardinality(Left(tools)) = 0
  BY <1>2, <1>6, NoLoopIs, QuietIsNothingLeft
<1>10. BilledUpstream = 0 /\ trace.calls = 0 /\ Opened = {}
  BY <1>2, NoLoopIs DEF BilledUpstream, Opened
<1>11. Covered
  BY <1>3, <1>9, <1>10, OpenedTyped, CallBounds DEF Covered
<1>12. Bounded
  BY <1>9, <1>10 DEF Bounded
<1> QED
  BY <1>3, <1>4, <1>5, <1>6, <1>7, <1>8, <1>11, <1>12 DEF CallsInv

\* The step of a tool.
LEMMA ToolInv ==
  ASSUME CallsInv, NEW q \in Requests, ToolMoves(q), fatal' \in BOOLEAN
  PROVE  CallsInv'
<1> USE DEF CallsInv
<1>0. tools \in [Requests -> Tools] /\ tools[q] \in Tools /\ tools[q].pc # "none"
      /\ tools[q].try >= 1 /\ loop.pc = "ask" /\ usage.model >= 1
      /\ usage \in [model : Nat, ok : Nat, failed : Nat]
      /\ usage' \in [model : Nat, ok : Nat, failed : Nat]
      /\ UNCHANGED <<job, starts, loop, trace, ledger>> /\ cache' \subseteq cache \cup {q}
  BY NoToolTyped DEF ToolMoves, ToolsTyped, RowsTyped
<1>1. PICK new \in Tools :
          /\ tools' = [tools EXCEPT ![q] = new]
          /\ \/ ToolKeeps(q, new) \/ ToolAdmitted(q, new) \/ ToolDropped(new)
             \/ ToolBilled(q, new)
  BY DEF ToolMoves
<1>2. usage'.model = usage.model /\ usage'.ok \in Nat /\ usage'.failed \in Nat
  BY <1>0, <1>1 DEF ToolKeeps, ToolAdmitted, ToolDropped, ToolBilled
<1>3. LoopTyped' /\ RowsTyped' /\ TurnsBehind'
  BY <1>0 DEF LoopTyped, RowsTyped, TurnsBehind
<1>4. FatalTyped'
  BY DEF FatalTyped
<1>5. new = NoTool \/ (new.pc # "none" /\ new.try >= 1)
  BY <1>0, <1>1 DEF ToolKeeps, ToolAdmitted, ToolDropped, ToolBilled, Tools
<1>6. ToolsTyped'
  BY <1>0, <1>1, <1>2, <1>5 DEF ToolsTyped
<1>7. Counters'
  BY <1>0, <1>2 DEF Counters, CountersSoFar, InTurn
<1>8. PastOnce'
  BY <1>0 DEF PastOnce, InTurn
<1>9. /\ BilledUpstream \in Nat /\ BilledUpstream' \in Nat
      /\ Cardinality(Left(tools)) \in Nat /\ Cardinality(Admitted(tools)) \in Nat
      /\ Cardinality(Left(tools')) \in Nat /\ Cardinality(Admitted(tools')) \in Nat
      /\ Cardinality(Admitted(tools')) <= MaxTries * Cardinality(Requests)
      /\ MaxTries * Cardinality(Requests) \in Nat
      /\ Cardinality(Opened) \in Nat /\ MaxTries * Cardinality(Opened) \in Nat
      /\ MaxTries * trace.calls \in Nat
      /\ job.kind.calls \in Nat
  <2>1. BilledUpstream \in Nat /\ BilledUpstream' \in Nat
    BY <1>0, <1>2 DEF BilledUpstream
  <2>2. tools' \in [Requests -> Tools]
    BY <1>0, <1>1
  <2>3. trace.calls \in Nat
    BY DEF RowsTyped
  <2> QED
    BY <1>0, <2>1, <2>2, <2>3, LeftIsFinite, OpenedTyped, KindTyped
<1>10. Opened' = Opened /\ trace' = trace /\ job' = job
  BY <1>0 DEF Opened
<1>11. CASE ToolKeeps(q, new)
  <2>1. Left(tools') = Left(tools) /\ Admitted(tools') = Admitted(tools)
    BY <1>0, <1>1, <1>11, TryGoesOn DEF ToolKeeps
  <2>2. BilledUpstream' = BilledUpstream
    BY <1>11 DEF ToolKeeps, BilledUpstream
  <2>3. Covered' /\ Bounded'
    BY <1>10, <2>1, <2>2 DEF Covered, Bounded
  <2> QED
    BY <1>3, <1>4, <1>6, <1>7, <1>8, <2>3
<1>12. CASE ToolAdmitted(q, new)
  <2>1. Left(tools') = Left(tools)
    BY <1>0, <1>1, <1>12, TryGoesOn DEF ToolAdmitted
  <2>2. BilledUpstream' = BilledUpstream
    BY <1>12 DEF ToolAdmitted, BilledUpstream
  <2>3. Covered'
    BY <1>10, <2>1, <2>2 DEF Covered
  <2>4. job.kind.calls > 0 => BilledUpstream + 1 < job.kind.calls
    BY <1>0, <1>9, <1>12 DEF ToolAdmitted, Billed, BilledUpstream
  <2>5. Bounded'
    BY <1>9, <1>10, <2>2, <2>4 DEF Bounded
  <2> QED
    BY <1>3, <1>4, <1>6, <1>7, <1>8, <2>3, <2>5
<1>13. CASE ToolDropped(new)
  <2>1. Cardinality(Left(tools')) + 1 <= Cardinality(Left(tools))
        /\ Admitted(tools') \subseteq Admitted(tools)
    <3>1. new.pc = "none"
      BY <1>13, NoToolTyped DEF ToolDropped
    <3> QED
      BY <1>0, <1>1, <3>1, TryIsOver
  <2>2. Cardinality(Admitted(tools')) <= Cardinality(Admitted(tools))
    BY <1>0, <2>1, LeftIsFinite, FS_Subset
  <2>3. BilledUpstream' = BilledUpstream
    BY <1>13 DEF ToolDropped, BilledUpstream
  <2>4. Covered'
    BY <1>9, <1>10, <2>1, <2>3 DEF Covered
  <2>5. Bounded'
    BY <1>9, <1>10, <2>1, <2>2, <2>3 DEF Bounded
  <2> QED
    BY <1>3, <1>4, <1>6, <1>7, <1>8, <2>4, <2>5
<1>14. CASE ToolBilled(q, new)
  <2>1. Cardinality(Left(tools')) + 1 <= Cardinality(Left(tools))
        /\ Cardinality(Admitted(tools')) + 1 <= Cardinality(Admitted(tools))
    <3>1. new.pc = "none" \/ (new.pc # "look" /\ new.try = tools[q].try + 1)
      BY <1>14, NoToolTyped DEF ToolBilled
    <3>2. tools[q].pc # "look"
      BY <1>14 DEF ToolBilled
    <3> QED
      BY <1>0, <1>1, <3>1, <3>2, TryIsOver
  <2>2. BilledUpstream' = BilledUpstream + 1
    BY <1>14 DEF ToolBilled
  <2>3. Covered'
    BY <1>9, <1>10, <2>1, <2>2 DEF Covered
  <2>4. Admitted(tools) # {}
    <3>1. Cardinality(Admitted(tools)) # 0
      BY <1>9, <2>1
    <3> QED
      BY <3>1, FS_EmptySet
  <2>5. Bounded'
    BY <1>9, <1>10, <2>1, <2>2, <2>4 DEF Bounded
  <2> QED
    BY <1>3, <1>4, <1>6, <1>7, <1>8, <2>3, <2>5
<1> QED
  BY <1>1, <1>11, <1>12, <1>13, <1>14

\* What Covered and Bounded need of a step that bills nothing upstream and
\* starts no tool.
LEMMA NothingBilled ==
  ASSUME CallsInv, LoopTyped', usage'.ok = usage.ok, usage'.failed = usage.failed,
         tools' = tools \/ tools' = [q \in Requests |-> NoTool],
         job'.kind = job.kind, trace'.calls \in Nat, trace'.calls >= trace.calls,
         Opened' = {} \/ (Opened' = Opened)
  PROVE  Covered' /\ Bounded'
<1> USE DEF CallsInv
<1>1. BilledUpstream' = BilledUpstream /\ BilledUpstream \in Nat
  BY DEF BilledUpstream, RowsTyped
<1>2. tools \in [Requests -> Tools] /\ [q \in Requests |-> NoTool] \in [Requests -> Tools]
  BY NoToolTyped DEF ToolsTyped
<1>3. /\ Cardinality(Left(tools)) \in Nat /\ Cardinality(Admitted(tools)) \in Nat
      /\ MaxTries * Cardinality(Requests) \in Nat
  BY <1>2, LeftIsFinite
<1>4. /\ MaxTries * Cardinality(Opened') <= MaxTries * Cardinality(Opened)
      /\ MaxTries * Cardinality(Opened') \in Nat /\ MaxTries * Cardinality(Opened) \in Nat
  <2>1. CASE Opened' = {}
    BY <2>1, OpenedTyped
  <2>2. CASE Opened' = Opened
    BY <2>2, OpenedTyped
  <2> QED
    BY <2>1, <2>2
<1>5. /\ MaxTries * trace.calls <= MaxTries * trace'.calls
      /\ MaxTries * trace.calls \in Nat /\ MaxTries * trace'.calls \in Nat
  <2>1. trace.calls \in Nat
    BY DEF RowsTyped
  <2> QED
    BY <2>1, MoreCalls
<1>6. ASSUME NEW n \in Nat, n <= Cardinality(Left(tools))
      PROVE  BilledUpstream' + n + MaxTries * Cardinality(Opened') <= MaxTries * trace'.calls
  BY <1>1, <1>3, <1>4, <1>5, <1>6 DEF Covered
<1>7. CASE tools' = tools
  <2>1. Left(tools') = Left(tools) /\ Admitted(tools') = Admitted(tools)
    BY <1>7
  <2>2. Bounded'
    BY <1>1, <2>1 DEF Bounded
  <2>3. Covered'
    BY <1>3, <1>6, <2>1 DEF Covered
  <2> QED
    BY <2>2, <2>3
<1>8. CASE tools' = [q \in Requests |-> NoTool]
  <2>1. \A q \in Requests : tools'[q].pc = "none"
    BY <1>8, NoToolTyped
  <2>2. Admitted(tools') = {} /\ Cardinality(Left(tools')) = 0 /\ Cardinality(Admitted(tools')) = 0
    BY <2>1, NothingLeft
  <2>3. Bounded'
    BY <1>1, <1>3, <2>2, KindTyped DEF Bounded
  <2>4. Covered'
    BY <1>3, <1>6, <2>2 DEF Covered
  <2> QED
    BY <2>3, <2>4
<1> QED
  BY <1>7, <1>8

\* A loop that ends takes nothing with it but its memory.
LEMMA EndInv ==
  ASSUME CallsInv, loop.pc \in {"ask"} \cup InTurn, InFlight = {},
         NEW outcome \in Settled, EndLoop(outcome),
         UNCHANGED <<starts, tools, rows>>, fatal' \in BOOLEAN
  PROVE  CallsInv'
<1> USE DEF CallsInv
<1>1. /\ job' \in [state : JobStates, kind : Kinds] /\ job'.kind = job.kind
      /\ job'.state = "running" <=> loop'.pc # "none"
      /\ \/ /\ loop' \in Loops /\ loop'.pc = "seed" /\ loop'.turns = loop.turns
            /\ loop'.past = loop.past /\ loop'.retries = loop.retries + 1
         \/ loop' = NoLoop
  BY LoopEnds DEF InTurn
<1>2. loop' \in Loops /\ loop'.pc \in {"seed", "none"}
  BY <1>1, NoLoopIs
<1>3. LoopTyped' /\ FatalTyped'
  BY <1>1, <1>2 DEF LoopTyped, FatalTyped, InTurn
<1>4. UNCHANGED <<trace, usage, ledger, cache>>
  BY DEF rows
<1>5. RowsTyped' /\ Counters'
  BY <1>2, <1>4 DEF RowsTyped, Counters, InTurn
<1>6. ToolsTyped'
  <2>1. \A q \in Requests : tools'[q] = NoTool
    BY DEF InFlight
  <2> QED
    BY <2>1 DEF ToolsTyped
<1>7. TurnsBehind' /\ PastOnce'
  <2>1. loop.turns \in Nat /\ loop.past \in Nat /\ loop.retries \in Nat /\ job.kind.calls \in Nat
    BY KindTyped, CallBounds DEF LoopTyped, Loops
  <2>2. loop.turns <= job.kind.calls + 1 /\ loop.past <= loop.retries + 1
    BY DEF TurnsBehind, PastOnce
  <2> QED
    BY <1>1, <1>2, <2>1, <2>2, NoLoopIs DEF TurnsBehind, PastOnce, InTurn
<1>8. Opened' = {}
  BY <1>2 DEF Opened
<1>9. Covered' /\ Bounded'
  BY <1>1, <1>3, <1>4, <1>8, NothingBilled DEF RowsTyped
<1> QED
  BY <1>3, <1>5, <1>6, <1>7, <1>9

\* The Job is taken, put back, or loses its worker.
LEMMA OutsideInv ==
  ASSUME CallsInv, Dequeue \/ Crash \/ Requeue
  PROVE  CallsInv'
<1> USE DEF CallsInv
<1>1. UNCHANGED <<trace, usage, ledger, cache>>
  BY DEF Dequeue, Crash, Requeue, rows
<1>2. RowsTyped'
  BY <1>1 DEF RowsTyped
<1>3. job'.kind = job.kind /\ job' \in [state : JobStates, kind : Kinds]
  BY DEF Dequeue, Crash, Requeue, LoopTyped, JobStates
<1>4. loop' \in Loops /\ loop'.pc \in {"seed", "none"} /\ loop'.turns = 0 /\ loop'.past = 0
      /\ loop'.retries = 0 /\ (job'.state = "running" <=> loop'.pc # "none")
      /\ (loop'.pc = "none" => loop' = NoLoop)
  <2>1. CASE Dequeue
    <3>1. loop' = [NoLoop EXCEPT !.pc = "seed"] /\ job' = [job EXCEPT !.state = "running"]
      BY <2>1 DEF Dequeue
    <3>2. NoLoop \in Loops /\ "seed" \in LoopSteps
      BY NoLoopIs DEF LoopSteps
    <3> QED
      BY <3>1, <3>2, NoLoopIs DEF Loops, LoopTyped
  <2>2. CASE Crash
    BY <2>2, NoLoopIs DEF Crash, LoopTyped
  <2>3. CASE Requeue
    <3>1. loop.pc = "none" /\ loop' = loop /\ job'.state = "queued"
      BY <2>3 DEF Requeue, LoopTyped, Settled
    <3>2. loop = NoLoop
      BY <3>1 DEF LoopTyped
    <3> QED
      BY <3>1, <3>2, NoLoopIs
  <2> QED
    BY <2>1, <2>2, <2>3
<1>5. starts' \in 0..MaxStarts /\ fatal' \in BOOLEAN
  <2>1. starts' \in 0..MaxStarts
    BY CallBounds DEF Dequeue, Crash, Requeue, LoopTyped
  <2>2. fatal' \in BOOLEAN
    BY DEF Dequeue, Crash, Requeue, FatalTyped
  <2> QED
    BY <2>1, <2>2
<1>6. LoopTyped' /\ FatalTyped'
  BY <1>3, <1>4, <1>5 DEF LoopTyped, FatalTyped, InTurn
<1>7. tools' = [q \in Requests |-> NoTool]
  <2>1. CASE Crash
    BY <2>1 DEF Crash
  <2>2. CASE Dequeue \/ Requeue
    <3>1. loop.pc # "ask" /\ tools' = tools
      BY <2>2 DEF Dequeue, Requeue, LoopTyped, Settled
    <3> QED
      BY <3>1, QuietIsNothingLeft
  <2> QED
    BY <2>1, <2>2
<1>8. ToolsTyped'
  BY <1>7, NoToolTyped DEF ToolsTyped
<1>9. Counters' /\ TurnsBehind' /\ PastOnce'
  <2>1. job'.kind.calls \in Nat
    BY <1>3, KindTyped
  <2>2. TurnsBehind' /\ PastOnce'
    BY <1>4, <2>1 DEF TurnsBehind, PastOnce, InTurn
  <2>3. Counters'
    BY <1>4 DEF Counters, InTurn
  <2> QED
    BY <2>2, <2>3
<1>10. Opened' = {}
  BY <1>4 DEF Opened
<1>11. Covered' /\ Bounded'
  BY <1>1, <1>2, <1>3, <1>6, <1>7, <1>10, NothingBilled DEF RowsTyped
<1> QED
  BY <1>2, <1>6, <1>8, <1>9, <1>11

\* The counters of a loop are read from the rows.
LEMMA SeedInv ==
  ASSUME CallsInv, Seed
  PROVE  CallsInv'
<1> USE DEF CallsInv
<1>1. /\ loop.pc = "seed" /\ UNCHANGED <<job, starts, tools, fatal>>
      /\ UNCHANGED <<trace, usage, ledger, cache>>
  BY DEF Seed, rows
<1>2. loop' = [loop EXCEPT !.pc = "ask", !.turns = 0, !.calls = trace.calls,
                           !.tokens = usage.model]
  BY DEF Seed, CountersSoFar
<1>3. trace.calls \in Nat /\ usage.model \in Nat
  BY DEF RowsTyped
<1>4. /\ loop' \in Loops /\ loop'.pc = "ask" /\ loop'.turns = 0 /\ loop'.calls = trace.calls
      /\ loop'.tokens = usage.model /\ loop'.past = loop.past /\ loop'.retries = loop.retries
  BY <1>2, <1>3 DEF LoopTyped, Loops, LoopSteps
<1>5. LoopTyped' /\ RowsTyped' /\ FatalTyped'
  BY <1>1, <1>4 DEF LoopTyped, RowsTyped, FatalTyped, InTurn
<1>6. ToolsTyped'
  BY <1>1, NoToolTyped, QuietIsNothingLeft DEF ToolsTyped
<1>7. Counters'
  BY <1>1, <1>4 DEF Counters, InTurn
<1>8. TurnsBehind' /\ PastOnce'
  <2>1. loop.past <= loop.retries /\ loop.retries \in Nat /\ loop.past \in Nat
    BY <1>1, CallBounds DEF PastOnce, LoopTyped, Loops
  <2> QED
    BY <1>1, <1>3, <1>4, <2>1, KindTyped DEF TurnsBehind, PastOnce, InTurn
<1>9. Covered' /\ Bounded'
  <2>1. Opened' = {}
    BY <1>4 DEF Opened
  <2> QED
    BY <1>1, <1>3, <1>5, <2>1, NothingBilled
<1> QED
  BY <1>5, <1>6, <1>7, <1>8, <1>9

\* A turn is asked for and written.
LEMMA AskInv ==
  ASSUME CallsInv, Ask
  PROVE  CallsInv'
<1> USE DEF CallsInv
<1>1. /\ loop.pc = "ask" /\ InFlight = {}
      /\ UNCHANGED <<job, starts, tools, usage, ledger, cache, fatal>>
      /\ trace' = [trace EXCEPT !.turns = @ + 1]
  BY DEF Ask
<1>2. PICK stop \in {"tool_use", "end_turn", "refusal"}, uses \in SUBSET Requests :
         /\ (stop = "tool_use") = (uses # {})
         /\ loop' = [loop EXCEPT !.pc = "meter", !.turns = @ + 1, !.stop = stop,
                                 !.uses = uses,
                                 !.past = IF PastCeiling THEN @ + 1 ELSE @]
  BY DEF Ask
<1>3. /\ loop \in Loops /\ loop.turns \in Nat /\ loop.past \in Nat /\ loop.retries \in Nat
      /\ loop.calls \in Nat /\ trace.calls \in Nat
  BY CallBounds DEF LoopTyped, Loops, RowsTyped
<1>4. /\ loop' \in Loops /\ loop'.pc = "meter" /\ loop'.turns = loop.turns + 1
      /\ loop'.calls = loop.calls /\ loop'.tokens = loop.tokens
      /\ loop'.retries = loop.retries
      /\ loop'.past = IF PastCeiling THEN loop.past + 1 ELSE loop.past
      /\ (loop'.stop = "tool_use") = (loop'.uses # {})
  <2> DEFINE past == IF PastCeiling THEN loop.past + 1 ELSE loop.past
             turns == loop.turns + 1
  <2>1. past \in Nat /\ turns \in Nat
    BY <1>3
  <2>2. loop' = [loop EXCEPT !.pc = "meter", !.turns = turns, !.stop = stop, !.uses = uses,
                             !.past = past]
    BY <1>2
  <2> HIDE DEF past, turns
  <2>3. /\ loop' \in Loops /\ loop'.pc = "meter" /\ loop'.turns = turns /\ loop'.past = past
        /\ loop'.calls = loop.calls /\ loop'.tokens = loop.tokens
        /\ loop'.retries = loop.retries /\ loop'.stop = stop /\ loop'.uses = uses
    BY <1>2, <1>3, <2>1, <2>2 DEF Loops, LoopSteps, Stops
  <2> QED
    BY <1>2, <2>3 DEF past, turns
<1>5. trace' \in [turns : Nat, calls : Nat] /\ trace'.calls = trace.calls
  BY <1>1 DEF RowsTyped
<1>6. LoopTyped' /\ RowsTyped' /\ FatalTyped'
  <2>1. LoopTyped'
    BY <1>1, <1>4 DEF LoopTyped, InTurn
  <2>2. RowsTyped' /\ FatalTyped'
    BY <1>1, <1>5 DEF RowsTyped, FatalTyped
  <2> QED
    BY <2>1, <2>2
<1>7. ToolsTyped'
  BY <1>1, NoToolTyped, QuietIsNothingLeft DEF ToolsTyped
<1>8. Counters'
  BY <1>1, <1>4, <1>5 DEF Counters, InTurn
<1>9. TurnsBehind'
  BY <1>1, <1>3, <1>4, KindTyped DEF TurnsBehind, InTurn
<1>10. PastOnce'
  <2>1. PastCeiling' = PastCeiling
    BY <1>1, <1>5 DEF PastCeiling
  <2>2. loop.past <= loop.retries
    BY <1>1 DEF PastOnce
  <2> QED
    BY <1>3, <1>4, <2>1, <2>2 DEF PastOnce, InTurn
<1>11. Covered' /\ Bounded'
  <2>1. Opened' = {}
    BY <1>4 DEF Opened
  <2>2. trace'.calls >= trace.calls /\ trace'.calls \in Nat
    BY <1>3, <1>5
  <2> QED
    BY <1>1, <1>6, <2>1, <2>2, NothingBilled
<1> QED
  BY <1>6, <1>7, <1>8, <1>9, <1>10, <1>11

\* The turn is billed.
LEMMA MeterInv ==
  ASSUME CallsInv, Meter
  PROVE  CallsInv'
<1> USE DEF CallsInv
<1>1. /\ loop.pc = "meter" /\ UNCHANGED <<job, starts, tools, trace, ledger, cache, fatal>>
      /\ usage' = [usage EXCEPT !.model = @ + 1] /\ loop' = [loop EXCEPT !.pc = "open"]
  BY DEF Meter
<1>2. /\ loop' \in Loops /\ loop'.pc = "open" /\ loop'.turns = loop.turns
      /\ loop'.calls = loop.calls /\ loop'.tokens = loop.tokens /\ loop'.past = loop.past
      /\ loop'.retries = loop.retries /\ loop'.stop = loop.stop /\ loop'.uses = loop.uses
  BY <1>1 DEF LoopTyped, Loops, LoopSteps
<1>3. /\ usage' \in [model : Nat, ok : Nat, failed : Nat] /\ usage'.model = usage.model + 1
      /\ usage'.ok = usage.ok /\ usage'.failed = usage.failed /\ usage.model \in Nat
  BY <1>1 DEF RowsTyped
<1>4. LoopTyped'
  BY <1>1, <1>2 DEF LoopTyped, InTurn
<1>5. RowsTyped' /\ FatalTyped'
  BY <1>1, <1>3 DEF RowsTyped, FatalTyped
<1>6. ToolsTyped'
  BY <1>1, NoToolTyped, QuietIsNothingLeft DEF ToolsTyped
<1>7. Counters'
  BY <1>1, <1>2, <1>3 DEF Counters, InTurn
<1>8. TurnsBehind'
  BY <1>1, <1>2 DEF TurnsBehind, InTurn
<1>9. PastOnce'
  <2>1. PastCeiling => PastCeiling'
    <3>1. job.kind.tokens \in Nat
      BY KindTyped
    <3> QED
      BY <1>1, <1>3, <3>1 DEF PastCeiling
  <2> QED
    BY <1>1, <1>2, <2>1 DEF PastOnce, InTurn
<1>10. Covered' /\ Bounded'
  <2>1. Opened' = {}
    BY <1>2 DEF Opened
  <2>2. trace'.calls >= trace.calls /\ trace'.calls \in Nat
    BY <1>1 DEF RowsTyped
  <2> QED
    BY <1>1, <1>3, <1>4, <2>1, <2>2, NothingBilled
<1> QED
  BY <1>4, <1>5, <1>6, <1>7, <1>8, <1>9, <1>10

\* Every call of the turn has its row before any of them runs.
LEMMA OpenInv ==
  ASSUME CallsInv, OpenCalls
  PROVE  CallsInv'
<1> USE DEF CallsInv
<1> DEFINE n == Cardinality(loop.uses)
<1>0. n \in Nat /\ (loop.uses # {} => n >= 1)
  BY OpenedTyped
<1> HIDE DEF n
<1>1. /\ loop.pc = "open" /\ UNCHANGED <<job, starts, tools, usage, ledger, cache, fatal>>
      /\ trace' = [trace EXCEPT !.calls = @ + n]
      /\ loop' = [loop EXCEPT !.pc = "count", !.tokens = @ + 1, !.calls = @ + n]
  BY DEF OpenCalls, n
<1>2. /\ loop' \in Loops /\ loop'.pc = "count" /\ loop'.turns = loop.turns
      /\ loop'.calls = loop.calls + n /\ loop'.tokens = loop.tokens + 1
      /\ loop'.past = loop.past /\ loop'.retries = loop.retries
      /\ loop'.stop = loop.stop /\ loop'.uses = loop.uses
      /\ loop.calls \in Nat /\ loop.tokens \in Nat /\ loop.turns \in Nat
  <2> DEFINE calls == loop.calls + n
             tokens == loop.tokens + 1
  <2>1. /\ loop \in Loops /\ loop.calls \in Nat /\ loop.tokens \in Nat /\ loop.turns \in Nat
        /\ calls \in Nat /\ tokens \in Nat
    BY <1>0 DEF LoopTyped, Loops
  <2>2. loop' = [loop EXCEPT !.pc = "count", !.tokens = tokens, !.calls = calls]
    BY <1>1
  <2> HIDE DEF calls, tokens
  <2>3. /\ loop' \in Loops /\ loop'.pc = "count" /\ loop'.turns = loop.turns
        /\ loop'.calls = calls /\ loop'.tokens = tokens
        /\ loop'.past = loop.past /\ loop'.retries = loop.retries
        /\ loop'.stop = loop.stop /\ loop'.uses = loop.uses
    BY <2>1, <2>2 DEF Loops, LoopSteps
  <2> QED
    BY <2>1, <2>3 DEF calls, tokens
<1>3. trace' \in [turns : Nat, calls : Nat] /\ trace'.calls = trace.calls + n
      /\ trace.calls \in Nat
  BY <1>0, <1>1 DEF RowsTyped
<1>4. LoopTyped'
  BY <1>1, <1>2 DEF LoopTyped, InTurn
<1>5. RowsTyped' /\ FatalTyped'
  BY <1>1, <1>3 DEF RowsTyped, FatalTyped
<1>6. ToolsTyped'
  BY <1>1, NoToolTyped, QuietIsNothingLeft DEF ToolsTyped
<1>7. Counters'
  BY <1>0, <1>1, <1>2, <1>3 DEF Counters, InTurn
<1>8. TurnsBehind'
  BY <1>0, <1>1, <1>2 DEF TurnsBehind, InTurn
<1>9. PastOnce'
  <2>1. PastCeiling => PastCeiling'
    <3>1. job.kind.calls \in Nat
      BY KindTyped
    <3> QED
      BY <1>0, <1>1, <1>3, <3>1 DEF PastCeiling
  <2> QED
    BY <1>1, <1>2, <2>1 DEF PastOnce, InTurn
<1>10. BilledUpstream' = BilledUpstream /\ BilledUpstream \in Nat
       /\ Left(tools') = Left(tools) /\ Admitted(tools') = Admitted(tools)
       /\ Cardinality(Left(tools)) = 0
  BY <1>1, QuietIsNothingLeft DEF BilledUpstream, RowsTyped
<1>11. Bounded'
  BY <1>1, <1>10 DEF Bounded
<1>12. Covered'
  <2>1. Opened' = loop.uses
    BY <1>2 DEF Opened
  <2>2. MaxTries * trace'.calls = MaxTries * trace.calls + MaxTries * n
        /\ MaxTries * trace.calls \in Nat /\ MaxTries * n \in Nat
    BY <1>0, <1>3, OpenedTyped DEF n
  <2>3. Cardinality(Opened') = n
    BY <2>1 DEF n
  <2>4. BilledUpstream <= MaxTries * trace.calls
    <3>1. Opened = {} /\ MaxTries * Cardinality(Opened) = 0
      BY <1>1, OpenedTyped DEF Opened
    <3> QED
      BY <1>10, <2>2, <3>1 DEF Covered
  <2>5. BilledUpstream + 0 + MaxTries * n <= MaxTries * trace'.calls
    BY <1>10, <2>2, <2>4
  <2> QED
    BY <1>10, <2>3, <2>5 DEF Covered
<1> QED
  BY <1>4, <1>5, <1>6, <1>7, <1>8, <1>9, <1>11, <1>12

\* The totals are written down.
LEMMA CountInv ==
  ASSUME CallsInv, Count
  PROVE  CallsInv'
<1> USE DEF CallsInv
<1>1. /\ loop.pc = "count" /\ UNCHANGED <<job, starts, tools, trace, usage, cache, fatal>>
      /\ ledger' = [calls |-> loop.calls, tokens |-> loop.tokens]
      /\ loop' = [loop EXCEPT !.pc = "decide"]
  BY DEF Count
<1>2. /\ loop' \in Loops /\ loop'.pc = "decide" /\ loop'.turns = loop.turns
      /\ loop'.calls = loop.calls /\ loop'.tokens = loop.tokens /\ loop'.past = loop.past
      /\ loop'.retries = loop.retries /\ loop'.stop = loop.stop /\ loop'.uses = loop.uses
      /\ loop.calls \in Nat /\ loop.tokens \in Nat
  BY <1>1 DEF LoopTyped, Loops, LoopSteps
<1>4. LoopTyped'
  BY <1>1, <1>2 DEF LoopTyped, InTurn
<1>5. RowsTyped' /\ FatalTyped'
  BY <1>1, <1>2 DEF RowsTyped, FatalTyped
<1>6. ToolsTyped'
  BY <1>1, NoToolTyped, QuietIsNothingLeft DEF ToolsTyped
<1>7. Counters'
  BY <1>1, <1>2 DEF Counters, InTurn, CountersSoFar
<1>8. TurnsBehind'
  BY <1>1, <1>2 DEF TurnsBehind, InTurn
<1>9. PastOnce'
  BY <1>1, <1>2 DEF PastOnce, InTurn, PastCeiling
<1>10. Covered' /\ Bounded'
  <2>1. Opened' = Opened
    BY <1>1, <1>2 DEF Opened
  <2>2. trace'.calls >= trace.calls /\ trace'.calls \in Nat
    BY <1>1 DEF RowsTyped
  <2> QED
    BY <1>1, <1>4, <2>1, <2>2, NothingBilled
<1> QED
  BY <1>4, <1>5, <1>6, <1>7, <1>8, <1>9, <1>10

\* The tools of a turn begin, which no ceiling has stopped.
LEMMA RunToolsInv ==
  ASSUME CallsInv, RunTools
  PROVE  CallsInv'
<1> USE DEF CallsInv
<1>1. /\ loop.pc = "decide" /\ Stopped = "none" /\ loop.stop = "tool_use"
      /\ UNCHANGED <<job, starts, trace, usage, ledger, cache>> /\ fatal' = Taken
      /\ loop' = [loop EXCEPT !.pc = "ask", !.stop = "none", !.uses = {}]
      /\ tools' = [q \in Requests |-> IF q \in loop.uses
                                      THEN [pc |-> "look", try |-> 1] ELSE NoTool]
  BY DEF RunTools, rows
<1>2. /\ loop' \in Loops /\ loop'.pc = "ask" /\ loop'.turns = loop.turns
      /\ loop'.calls = loop.calls /\ loop'.tokens = loop.tokens /\ loop'.past = loop.past
      /\ loop'.retries = loop.retries
      /\ loop.calls \in Nat /\ loop.turns \in Nat /\ loop.past \in Nat /\ loop.retries \in Nat
      /\ loop.uses \in SUBSET Requests
  <2>1. loop' \in Loops /\ loop'.pc = "ask"
    BY <1>1 DEF LoopTyped, Loops, LoopSteps, Stops
  <2>2. /\ loop'.turns = loop.turns /\ loop'.calls = loop.calls /\ loop'.tokens = loop.tokens
        /\ loop'.past = loop.past /\ loop'.retries = loop.retries
    BY <1>1 DEF LoopTyped, Loops
  <2>3. /\ loop.calls \in Nat /\ loop.turns \in Nat /\ loop.past \in Nat
        /\ loop.retries \in Nat /\ loop.uses \in SUBSET Requests
    BY CallBounds DEF LoopTyped, Loops
  <2> QED
    BY <2>1, <2>2, <2>3
<1>3. /\ loop.turns < Backstop /\ loop.calls <= job.kind.calls /\ ~PastCeiling
  <2>1. /\ ~(loop.turns >= Backstop) /\ ~(loop.calls > job.kind.calls)
        /\ ~(job.kind.tokens > 0 /\ loop.tokens > job.kind.tokens)
    BY <1>1 DEF Stopped
  <2>2. loop.calls = trace.calls /\ loop.tokens = usage.model
    BY <1>1 DEF Counters, InTurn
  <2> QED
    BY <1>2, <2>1, <2>2, KindTyped DEF PastCeiling
<1>4. LoopTyped'
  BY <1>1, <1>2 DEF LoopTyped, InTurn
<1>5. RowsTyped' /\ FatalTyped'
  BY <1>1 DEF RowsTyped, FatalTyped, Taken
<1>6. Cardinality(Left(tools')) <= MaxTries * Cardinality(loop.uses)
      /\ Admitted(tools') = {} /\ tools' \in [Requests -> Tools]
  BY <1>1, <1>2, ToolsBegin
<1>7. ToolsTyped'
  <2>1. usage.model >= 1
    BY <1>1 DEF Counters, InTurn
  <2>2. \A q \in Requests : tools'[q] = NoTool \/ (tools'[q].pc # "none" /\ tools'[q].try >= 1)
    BY <1>1
  <2> QED
    BY <1>1, <1>2, <1>6, <2>1, <2>2 DEF ToolsTyped
<1>8. Counters'
  BY <1>1, <1>2 DEF Counters, InTurn
<1>9. TurnsBehind'
  <2>1. loop.uses # {}
    BY <1>1 DEF LoopTyped, InTurn
  <2>2. loop.turns <= loop.calls
    BY <1>1, <2>1 DEF TurnsBehind
  <2> QED
    BY <1>1, <1>2, <1>3, <2>2, KindTyped DEF TurnsBehind, InTurn
<1>10. PastOnce'
  <2>1. loop.past # loop.retries + 1 /\ loop.past <= loop.retries + 1
    BY <1>1, <1>3 DEF PastOnce, InTurn
  <2> QED
    BY <1>1, <1>2, <2>1 DEF PastOnce, InTurn
<1>11. BilledUpstream' = BilledUpstream /\ BilledUpstream \in Nat
       /\ Cardinality(Left(tools)) = 0 /\ Cardinality(Admitted(tools)) = 0
       /\ Cardinality(Admitted(tools')) = 0
  <2>1. BilledUpstream' = BilledUpstream /\ BilledUpstream \in Nat
    BY <1>1 DEF BilledUpstream, RowsTyped
  <2>2. Cardinality(Left(tools)) = 0 /\ Cardinality(Admitted(tools)) = 0
    BY <1>1, QuietIsNothingLeft
  <2>3. Cardinality(Admitted(tools')) = 0
    BY <1>6, FS_EmptySet
  <2> QED
    BY <2>1, <2>2, <2>3
<1>12. Bounded'
  <2>1. Admitted(tools) = {}
    BY <1>1, QuietIsNothingLeft
  <2> QED
    BY <1>1, <1>6, <1>11, <2>1 DEF Bounded
<1>13. Covered'
  <2>1. Opened = loop.uses /\ Opened' = {}
    BY <1>1, <1>2 DEF Opened
  <2>2. MaxTries * Cardinality(Opened') = 0 /\ MaxTries * Cardinality(Opened) \in Nat
    BY <2>1, OpenedTyped
  <2>3. Cardinality(Left(tools')) \in Nat
    BY <1>6, LeftIsFinite
  <2>4. MaxTries * trace.calls \in Nat
    BY OpenedTyped DEF RowsTyped
  <2>5. BilledUpstream + 0 + MaxTries * Cardinality(Opened) <= MaxTries * trace.calls
    BY <1>11 DEF Covered
  <2>6. Cardinality(Left(tools')) <= MaxTries * Cardinality(Opened)
    BY <1>6, <2>1
  <2>7. BilledUpstream + Cardinality(Left(tools')) + 0 <= MaxTries * trace.calls
    BY <1>11, <2>2, <2>3, <2>4, <2>5, <2>6
  <2> QED
    BY <1>1, <1>11, <2>2, <2>7 DEF Covered
<1> QED
  BY <1>4, <1>5, <1>7, <1>8, <1>9, <1>10, <1>12, <1>13

\* Every step of the system keeps the invariant.
LEMMA CallsStep == CallsInv /\ [Next]_vars => CallsInv'
<1> SUFFICES ASSUME CallsInv, [Next]_vars PROVE CallsInv'
  OBVIOUS
<1>1. FatalTyped /\ ToolsTyped /\ RowsTyped /\ PastOnce /\ LoopTyped
  BY DEF CallsInv
<1>2. CASE Stop \/ Answer \/ LoopThrows
  <2>1. loop.pc \in {"ask"} \cup InTurn /\ UNCHANGED <<starts, tools, rows>>
    BY <1>2 DEF Stop, Answer, LoopThrows, InTurn
  <2>2. InFlight = {}
    BY <1>1, <1>2 DEF Stop, Answer, LoopThrows, ToolsTyped, InFlight
  <2>3. \E outcome \in Settled : EndLoop(outcome)
    <3>1. {"failed", "done", "paused_on_budget", "terminated"} = Settled
      BY DEF Settled
    <3>2. Stop => EndLoop(Stopped) /\ Stopped \in {"failed", "terminated"}
      BY DEF Stop, Stopped
    <3>3. Answer => EndLoop("done") \/ EndLoop("paused_on_budget")
      BY DEF Answer
    <3>4. LoopThrows => EndLoop("failed")
      BY DEF LoopThrows
    <3> QED
      BY <1>2, <3>1, <3>2, <3>3, <3>4
  <2>4. fatal' \in BOOLEAN
    BY <1>1, <1>2 DEF Stop, Answer, LoopThrows, Taken, FatalTyped
  <2> QED
    BY <2>1, <2>2, <2>3, <2>4, EndInv
<1>3. CASE \E q \in Requests : ToolStep(q)
  <2>1. PICK q \in Requests : ToolStep(q)
    BY <1>3
  <2>2. ToolMoves(q)
    BY <1>1, <2>1, ToolStepMoves
  <2>3. fatal' \in BOOLEAN
    BY <1>1, <2>1 DEF ToolStep, CacheHit, CapExceeded, Admit, Dial, BillFailure, Save, BillAnswer,
                      PersistFails, FatalTyped
  <2> QED
    BY <2>2, <2>3, ToolInv
<1>4. CASE UNCHANGED vars
  BY <1>4 DEF vars, CallsInv, LoopTyped, RowsTyped, FatalTyped, ToolsTyped, Counters, TurnsBehind,
              PastOnce, Covered, Bounded, Opened, BilledUpstream, PastCeiling, CountersSoFar
<1>5. CASE LoopStep
  BY <1>2, <1>5, OutsideInv, SeedInv, AskInv, MeterInv, OpenInv, CountInv, RunToolsInv
     DEF LoopStep
<1> QED
  BY <1>3, <1>4, <1>5, OutsideInv DEF Next

-----------------------------------------------------------------------------
(* The theorems.                                                           *)

\* The inductive invariant holds of every behaviour of the Job.
THEOREM CallsInvariant == Spec => []CallsInv
<1>1. Spec => Init /\ [][Next]_vars
  BY DEF Spec
<1> QED
  BY <1>1, CallsInit, CallsStep, PTL

\* The rows account for everything, at every instant a crash may pick: no call
\* without its Trace, no counter without its rows (run-loop.ts, call.ts).
THEOREM CallsAccounted == Spec => []RowsAccountForAll
<1>1. CallsInv => RowsAccountForAll
  <2> SUFFICES ASSUME CallsInv PROVE RowsAccountForAll
    OBVIOUS
  <2>0. /\ LoopTyped /\ RowsTyped /\ FatalTyped /\ ToolsTyped /\ Counters
        /\ TurnsBehind /\ Covered
    BY DEF CallsInv
  <2>1. TypeOK
    <3>1. job \in [state : {"queued", "running"} \cup Settled, kind : Kinds]
          /\ starts \in 0..MaxStarts
      BY <2>0 DEF LoopTyped, JobStates
    <3>2. /\ loop.pc \in {"none", "seed", "ask", "meter", "open", "count", "decide"}
          /\ loop.retries \in 0..FreeRetries
          /\ loop.calls \in Nat /\ loop.tokens \in Nat /\ loop.past \in Nat
          /\ loop.uses \subseteq Requests
      BY <2>0 DEF LoopTyped, Loops, LoopSteps
    <3>3. loop.turns \in 0..Backstop
      BY <2>0, KindTyped DEF LoopTyped, Loops, TurnsBehind
    <3>4. tools \in [Requests -> [pc : ToolSteps, try : 0..MaxTries]]
      BY <2>0 DEF ToolsTyped, Tools
    <3>5. fatal \in BOOLEAN
      BY <2>0 DEF FatalTyped
    <3> QED
      BY <2>0, <3>1, <3>2, <3>3, <3>4, <3>5 DEF TypeOK, RowsTyped
  <2>2. CallsAreTraced
    <3>1. /\ BilledUpstream \in Nat /\ Cardinality(Left(tools)) \in Nat
          /\ MaxTries * Cardinality(Opened) \in Nat /\ MaxTries * trace.calls \in Nat
      BY <2>0, LeftIsFinite, OpenedTyped DEF BilledUpstream, RowsTyped, ToolsTyped
    <3>2. BilledUpstream + Cardinality(InFlight) <= MaxTries * trace.calls
      BY <2>0, <3>1, InFlightIsLeft DEF Covered
    <3> QED
      BY <3>2 DEF CallsAreTraced, BilledUpstream
  <2>3. CountersAreTheRows
    BY <2>0 DEF CountersAreTheRows, Counters, InTurn
  <2> QED
    BY <2>1, <2>2, <2>3 DEF RowsAccountForAll
<1> QED
  BY <1>1, CallsInvariant, PTL

\* What is billed upstream stays below the ceiling but for the tries of one
\* turn, across every restart of the Job (call.ts, dispatch()).
THEOREM CallsBounded == Spec => []SpendIsBounded
<1>1. CallsInv => SpendIsBounded
  <2> SUFFICES ASSUME CallsInv, job.kind.calls > 0, BilledUpstream > 0
               PROVE  BilledUpstream + 1 < job.kind.calls + MaxTries * Cardinality(Requests)
    BY DEF SpendIsBounded, BilledUpstream
  <2>1. /\ BilledUpstream \in Nat /\ Cardinality(Admitted(tools)) \in Nat
        /\ MaxTries * Cardinality(Requests) \in Nat /\ job.kind.calls \in Nat
    BY LeftIsFinite, KindTyped DEF CallsInv, BilledUpstream, RowsTyped, ToolsTyped
  <2> QED
    BY <2>1 DEF CallsInv, Bounded
<1> QED
  BY <1>1, CallsInvariant, PTL

\* A loop stops by a ceiling: at most a turn for each free retry past it, and
\* never by the backstop (runLoop()).
THEOREM CallsTurns == Spec => []TurnsAreBounded
<1>1. CallsInv => TurnsAreBounded
  <2> SUFFICES ASSUME CallsInv PROVE TurnsAreBounded
    OBVIOUS
  <2>1. loop \in Loops /\ loop.past <= loop.retries + 1 /\ loop.turns <= job.kind.calls + 1
    BY DEF CallsInv, LoopTyped, PastOnce, TurnsBehind
  <2>2. loop.turns \in Nat /\ loop.past \in Nat /\ loop.retries \in 0..FreeRetries
    BY <2>1 DEF Loops
  <2> QED
    BY <2>1, <2>2, KindTyped, CallBounds
       DEF CallsInv, TurnsAreBounded, PastCeilingTurns, BackstopUnreached
<1> QED
  BY <1>1, CallsInvariant, PTL

\* Once a tool has met the ceiling, the worker begins no other tool of the Job,
\* not even in the free retry that a failed turn leads to (stopFromCeilings()).
THEOREM CallsStopAtCeiling == Spec => NoToolAfterCeiling
<1> DEFINE Stays == fatal => \A q \in Requests : At(q, "look")' => At(q, "look")
<1>1. CallsInv /\ [Next]_vars => [Stays]_vars
  <2> SUFFICES ASSUME CallsInv, Next, fatal, NEW q \in Requests, tools'[q].pc = "look"
               PROVE  tools[q].pc = "look"
    BY DEF At
  <2>1. ToolsTyped /\ RowsTyped
    BY DEF CallsInv
  <2>2. ~RunTools
    BY DEF RunTools, Stopped
  <2>3. CASE \E r \in Requests : ToolStep(r)
    <3>1. PICK r \in Requests : ToolMoves(r)
      BY <2>1, <2>3, ToolStepMoves
    <3>2. PICK new \in Tools : /\ tools' = [tools EXCEPT ![r] = new]
                               /\ new.pc # "look"
      BY <3>1, NoToolTyped DEF ToolMoves, ToolKeeps, ToolAdmitted, ToolDropped, ToolBilled
    <3> QED
      BY <2>1, <3>2 DEF ToolsTyped
  <2>4. CASE Crash
    BY <2>4, NoToolTyped DEF Crash
  <2>5. CASE Requeue \/ (LoopStep /\ ~RunTools)
    BY <2>5 DEF Requeue, LoopStep, Dequeue, Seed, Ask, Meter, OpenCalls, Count, Stop, Answer,
                LoopThrows
  <2> QED
    BY <2>2, <2>3, <2>4, <2>5 DEF Next
<1>2. Spec => Init /\ [][Next]_vars
  BY DEF Spec
<1> QED
  BY <1>1, <1>2, CallsInvariant, PTL DEF NoToolAfterCeiling
=============================================================================
