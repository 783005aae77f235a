------------------------------- MODULE Calls --------------------------------
(***************************************************************************)
(* One Job's spending, through the two chokepoints: the model loop         *)
(* (src/model/run-loop.ts) with the tools it runs (tool-adapter.ts), and   *)
(* every call a tool makes upstream (src/upstream/call.ts).                *)
(*                                                                         *)
(* The Job calls runLoop(); a loop that fails is called again, for free, a *)
(* bounded number of times.  A turn is a reply of the model: where it      *)
(* stopped, and the tools it asks for, one per request.  The tools of a    *)
(* turn run side by side.  What is asked upstream is a member of Requests: *)
(* params_hash, the cache key.  Each turn costs one token of the cap.  Two *)
(* attempts of the Job do not overlap here; JobQueue has those that do.    *)
(* usage_event rows of a cache hit, which no ceiling counts, are left out, *)
(* and so is the replay without credentials.                               *)
(***************************************************************************)
EXTENDS Naturals, FiniteSets, TLC

CONSTANTS
    Requests,     \* what can be asked upstream
    Kinds,        \* the Jobs there may be, as [calls, tokens, refresh]: the
                  \* ceilings of the row, 0 for none, and whether it says refresh
    Backstop,     \* MAX_ITERATIONS_BACKSTOP
    FreeRetries,  \* MAX_FREE_RETRIES of the callers
    MaxTries,     \* MAX_ATTEMPTS of one upstream call
    MaxStarts     \* attempts of the Job: the bound on a history

ASSUME CallBounds == /\ {Backstop, FreeRetries, MaxTries, MaxStarts} \subseteq Nat
                     /\ MaxTries > 0 /\ IsFiniteSet(Requests)
ASSUME KindsAreJobs == Kinds \subseteq [calls : Nat, tokens : Nat, refresh : BOOLEAN]
\* "it should be unreachable - our own ceiling is ... tool calls".
ASSUME BackstopIsFar == \A k \in Kinds : Backstop > k.calls + 1

VARIABLES
    job,      \* the row: its state and its kind
    starts,   \* attempts begun
    loop,     \* runLoop()'s memory
    tools,    \* [Requests -> the call a tool of this turn is making]
    trace,    \* trace_turn and trace_tool_call rows of the Job
    usage,    \* its usage_event rows: model turns, answered and failed calls
    ledger,   \* job.tool_calls_used, job.tokens_used
    cache,    \* requests with an upstream_response row
    fatal     \* fatalByJob holds an error of this Job (process memory)

vars == <<job, starts, loop, tools, trace, usage, ledger, cache, fatal>>
rows == <<trace, usage, ledger, cache>>

-----------------------------------------------------------------------------
(* What an upstream failure is called (classify.ts, errors.ts).            *)

\* What a dispatch can throw: a status, or an error with a name of its own.
Statuses == {302, 400, 401, 403, 404, 429, 500}
Named == {"ParseError", "JsonError", "ZodError", "AbortError", "other"}

KindFromStatus(status) ==
    LET told == 401 :> "auth" @@ 403 :> "entitlement" @@ 404 :> "not_found"
                @@ 429 :> "rate_limit"
    IN  IF status \in DOMAIN told THEN told[status]
        ELSE IF status >= 500 THEN "upstream_5xx"
        ELSE IF status >= 400 THEN "bad_request" ELSE "transport"

\* classify(): by its name first, then by its status.
Classify(error) ==
    LET told == "ParseError" :> "parse" @@ "JsonError" :> "bad_request"
                @@ "ZodError" :> "projection" @@ "AbortError" :> "timeout"
    IN  IF "status" \in DOMAIN error THEN KindFromStatus(error.status)
        ELSE IF error.name \in DOMAIN told THEN told[error.name]
        ELSE "transport"

Errors == [status : Statuses] \cup [name : Named]

\* RETRYABLE.
Retryable == {"rate_limit", "timeout", "transport", "upstream_5xx"}

-----------------------------------------------------------------------------
NoTool == [pc |-> "none", try |-> 0]
NoLoop == [pc |-> "none", turns |-> 0, calls |-> 0, tokens |-> 0,
           retries |-> 0, stop |-> "none", uses |-> {}, past |-> 0]
Settled == {"done", "failed", "terminated", "paused_on_budget"}

Init ==
    /\ \E k \in Kinds : job = [state |-> "queued", kind |-> k]
    /\ starts = 0
    /\ loop = NoLoop
    /\ tools = [q \in Requests |-> NoTool]
    /\ trace = [turns |-> 0, calls |-> 0]
    /\ usage = [model |-> 0, ok |-> 0, failed |-> 0]
    /\ ledger = [calls |-> 0, tokens |-> 0]
    /\ cache = {}
    /\ fatal = FALSE

\* Over a ceiling, by the rows.
PastCeiling ==
    \/ trace.calls > job.kind.calls
    \/ job.kind.tokens > 0 /\ usage.model > job.kind.tokens

InFlight == {q \in Requests : tools[q] # NoTool}

-----------------------------------------------------------------------------
(* The model loop.                                                         *)

\* dequeueJob(), and the Job's first runLoop().
Dequeue ==
    /\ job.state = "queued" /\ starts < MaxStarts
    /\ job' = [job EXCEPT !.state = "running"]
    /\ starts' = starts + 1
    /\ loop' = [NoLoop EXCEPT !.pc = "seed"]
    /\ UNCHANGED <<tools, rows, fatal>>

\* Fault: the Job's own columns are read instead.
SeedFromLedger == ledger

\* jobCountersSoFar(): counted from the rows.
CountersSoFar == [calls |-> trace.calls, tokens |-> usage.model]

\* The counters of a runLoop() start from what the Job has spent.
Seed ==
    /\ loop.pc = "seed"
    /\ LET c == CountersSoFar
       IN  loop' = [loop EXCEPT !.pc = "ask", !.turns = 0,
                                !.calls = c.calls, !.tokens = c.tokens]
    /\ UNCHANGED <<job, starts, tools, rows, fatal>>

\* The model answers, and writeTurn() stores the reply.
Ask ==
    /\ loop.pc = "ask" /\ InFlight = {}
    /\ \E stop \in {"tool_use", "end_turn", "refusal"},
          uses \in SUBSET Requests :
         /\ (stop = "tool_use") = (uses # {})
         /\ loop' = [loop EXCEPT !.pc = "meter", !.turns = @ + 1, !.stop = stop,
                                 !.uses = uses,
                                 !.past = IF PastCeiling THEN @ + 1 ELSE @]
    /\ trace' = [trace EXCEPT !.turns = @ + 1]
    /\ UNCHANGED <<job, starts, tools, usage, ledger, cache, fatal>>

\* writeUsage() of the turn.
Meter ==
    /\ loop.pc = "meter"
    /\ usage' = [usage EXCEPT !.model = @ + 1]
    /\ loop' = [loop EXCEPT !.pc = "open"]
    /\ UNCHANGED <<job, starts, tools, trace, ledger, cache, fatal>>

\* Fault: the rows are left to the tools' return.
OpenLater ==
    /\ loop.pc = "open"
    /\ loop' = [loop EXCEPT !.pc = "count", !.tokens = @ + 1,
                            !.calls = @ + Cardinality(loop.uses)]
    /\ UNCHANGED <<job, starts, tools, rows, fatal>>

\* writeToolCalls(): a row for each, before any of them runs.
OpenCalls ==
    /\ loop.pc = "open"
    /\ trace' = [trace EXCEPT !.calls = @ + Cardinality(loop.uses)]
    /\ loop' = [loop EXCEPT !.pc = "count", !.tokens = @ + 1,
                            !.calls = @ + Cardinality(loop.uses)]
    /\ UNCHANGED <<job, starts, tools, usage, ledger, cache, fatal>>

\* recordJobCounters(): the totals in memory, as they are.
Count ==
    /\ loop.pc = "count"
    /\ ledger' = [calls |-> loop.calls, tokens |-> loop.tokens]
    /\ loop' = [loop EXCEPT !.pc = "decide"]
    /\ UNCHANGED <<job, starts, tools, trace, usage, cache, fatal>>

\* stopFromThisTurn(): a refusal, or a turn cut off, which ends the same.
TurnFailed == loop.stop = "refusal"

\* Fault: the calls are not held against the ceiling.
UncountedCalls ==
    IF TurnFailed THEN "failed"
    ELSE IF fatal \/ loop.turns >= Backstop
            \/ (job.kind.tokens > 0 /\ loop.tokens > job.kind.tokens)
         THEN "terminated" ELSE "none"

\* Fault: what a tool has filed is not looked for.
DeafToTools ==
    IF TurnFailed THEN "failed"
    ELSE IF \/ loop.turns >= Backstop
            \/ loop.calls > job.kind.calls
            \/ job.kind.tokens > 0 /\ loop.tokens > job.kind.tokens
         THEN "terminated"
    ELSE "none"

\* Fault: a turn that asks for tools is let finish before it is judged.
AfterTheTools ==
    IF TurnFailed THEN "failed"
    ELSE IF loop.stop # "tool_use"
            /\ (fatal \/ loop.turns >= Backstop \/ loop.calls > job.kind.calls
                \/ (job.kind.tokens > 0 /\ loop.tokens > job.kind.tokens))
         THEN "terminated" ELSE "none"

\* stopFromThisTurn(), then stopFromCeilings(): how the turn ends the loop.
Stopped ==
    IF TurnFailed THEN "failed"
    ELSE IF \/ fatal
            \/ loop.turns >= Backstop
            \/ loop.calls > job.kind.calls
            \/ job.kind.tokens > 0 /\ loop.tokens > job.kind.tokens
         THEN "terminated"
    ELSE "none"

\* takeFatalToolError() is reached by a turn that is not itself a failure.
Taken == fatal /\ TurnFailed

\* What the caller makes of the loop's end: a failed one is called again.
EndLoop(outcome) ==
    IF outcome = "failed" /\ loop.retries < FreeRetries
    THEN /\ loop' = [loop EXCEPT !.pc = "seed", !.retries = @ + 1,
                                 !.stop = "none", !.uses = {}]
         /\ UNCHANGED job
    ELSE /\ loop' = NoLoop
         /\ job' = [job EXCEPT !.state = outcome]

\* checkCapsAndBudget(): the loop is stopped, or falls through to the tools.
Stop ==
    /\ loop.pc = "decide" /\ Stopped # "none"
    /\ fatal' = Taken
    /\ EndLoop(Stopped)
    /\ UNCHANGED <<starts, tools, rows>>

\* A turn that asks for nothing meets the Run's budget, and ends the loop.
Answer ==
    /\ loop.pc = "decide" /\ Stopped = "none" /\ loop.stop # "tool_use"
    /\ fatal' = Taken
    /\ \E within \in BOOLEAN :
         EndLoop(IF within THEN "done" ELSE "paused_on_budget")
    /\ UNCHANGED <<starts, tools, rows>>

\* The runner runs the turn's tools, side by side.
RunTools ==
    /\ loop.pc = "decide" /\ Stopped = "none" /\ loop.stop = "tool_use"
    /\ fatal' = Taken
    /\ tools' = [q \in Requests |-> IF q \in loop.uses
                                    THEN [pc |-> "look", try |-> 1] ELSE NoTool]
    /\ loop' = [loop EXCEPT !.pc = "ask", !.stop = "none", !.uses = {}]
    /\ UNCHANGED <<job, starts, rows>>

\* The request to the model, or one of the writes, throws out of the loop.
LoopThrows ==
    /\ loop.pc \in {"ask", "meter", "open", "count"} /\ InFlight = {}
    /\ EndLoop("failed")
    /\ UNCHANGED <<starts, tools, rows, fatal>>

-----------------------------------------------------------------------------
(* A tool's upstream call.  Whatever it throws becomes a tool result: the   *)
(* loop goes on.                                                            *)

At(q, pc) == tools[q].pc = pc
Goto(q, pc) == tools' = [tools EXCEPT ![q].pc = pc]
Return(q) == tools' = [tools EXCEPT ![q] = NoTool]

\* Fault: only calls that were answered count.
BilledAnswers == usage.model + usage.ok

\* What dispatch() holds against the ceiling: usage_event rows of the Job that
\* are not cache hits.
Billed == usage.model + usage.ok + usage.failed

\* lookupCache(): a stored body costs nothing.
CacheHit(q) ==
    /\ At(q, "look") /\ q \in cache /\ ~job.kind.refresh
    /\ Return(q)
    /\ UNCHANGED <<job, starts, loop, rows, fatal>>

\* Fault: the tool that met the ceiling has no result to return.
CapHangs(q) ==
    /\ At(q, "look") /\ (q \notin cache \/ job.kind.refresh)
    /\ job.kind.calls > 0 /\ Billed >= job.kind.calls
    /\ fatal' = TRUE
    /\ UNCHANGED <<job, starts, loop, tools, rows>>

\* dispatch(): the ceiling, asked once before the first try; a cap of 0 is none.
CapExceeded(q) ==
    /\ At(q, "look") /\ (q \notin cache \/ job.kind.refresh)
    /\ job.kind.calls > 0 /\ Billed >= job.kind.calls
    /\ fatal' = TRUE
    /\ Return(q)
    /\ UNCHANGED <<job, starts, loop, rows>>

Admit(q) ==
    /\ At(q, "look") /\ (q \notin cache \/ job.kind.refresh)
    /\ job.kind.calls = 0 \/ Billed < job.kind.calls
    /\ Goto(q, "dial")
    /\ UNCHANGED <<job, starts, loop, rows, fatal>>

\* The request goes out, and is answered or fails; viaSdkWithRawFallback()
\* sends it again, as a plain fetch, when the SDK could not read the answer.
Dial(q) ==
    /\ At(q, "dial") \/ At(q, "raw")
    /\ \/ Goto(q, "save")
       \/ \E e \in Errors :
            Goto(q, IF At(q, "dial") /\ Classify(e) = "parse" THEN "raw"
                    ELSE IF Classify(e) \in Retryable THEN "again" ELSE "refused")
    /\ UNCHANGED <<job, starts, loop, rows, fatal>>

\* Fault: the last try is given another.
OneTryMore(q) == At(q, "again")

\* A second try is worth making, and there is one left.
TryAgain(q) == At(q, "again") /\ tools[q].try < MaxTries

\* writeUsage() of a failed try, which is tried again or thrown.
BillFailure(q) ==
    /\ At(q, "again") \/ At(q, "refused")
    /\ usage' = [usage EXCEPT !.failed = @ + 1]
    /\ IF TryAgain(q)
       THEN tools' = [tools EXCEPT ![q] = [pc |-> "dial", try |-> @.try + 1]]
       ELSE Return(q)
    /\ UNCHANGED <<job, starts, loop, trace, ledger, cache, fatal>>

\* persistDispatchResult(): the body is stored, then billed.
Save(q) ==
    /\ At(q, "save")
    /\ cache' = cache \cup {q}
    /\ Goto(q, "bill")
    /\ UNCHANGED <<job, starts, loop, trace, usage, ledger, fatal>>

BillAnswer(q) ==
    /\ At(q, "bill")
    /\ usage' = [usage EXCEPT !.ok = @ + 1]
    /\ Return(q)
    /\ UNCHANGED <<job, starts, loop, trace, ledger, cache, fatal>>

\* UpstreamPersistError, and a writeUsage() that throws: no row, no second try.
PersistFails(q) ==
    /\ tools[q].pc \in {"save", "bill", "again", "refused"}
    /\ Return(q)
    /\ UNCHANGED <<job, starts, loop, rows, fatal>>

-----------------------------------------------------------------------------
(* What happens to the Job from outside.                                   *)

\* The worker dies and its memory with it; the sweep queues the Job again.
Crash ==
    /\ job.state = "running" /\ starts < MaxStarts
    /\ job' = [job EXCEPT !.state = "queued"]
    /\ loop' = NoLoop
    /\ tools' = [q \in Requests |-> NoTool]
    /\ fatal' = FALSE
    /\ UNCHANGED <<starts, rows>>

\* retryJob(), retryRun() and resumeRun(): the rows stay, and so does the
\* memory of the worker.
Requeue ==
    /\ job.state \in Settled \ {"done"} /\ starts < MaxStarts
    /\ job' = [job EXCEPT !.state = "queued"]
    /\ UNCHANGED <<starts, loop, tools, rows, fatal>>

LoopStep == \/ Dequeue \/ Seed \/ Ask \/ Meter \/ OpenCalls \/ Count \/ Stop
            \/ Answer \/ RunTools \/ LoopThrows
ToolStep(q) == \/ CacheHit(q) \/ CapExceeded(q) \/ Admit(q) \/ Dial(q)
               \/ BillFailure(q) \/ Save(q) \/ BillAnswer(q) \/ PersistFails(q)

Next == \/ LoopStep
        \/ \E q \in Requests : ToolStep(q)
        \/ Crash \/ Requeue

\* A live worker goes on with the loop and with each of its tools; the model
\* and the providers answer or time out.
Fairness == WF_vars(LoopStep) /\ \A q \in Requests : WF_vars(ToolStep(q))

Spec == Init /\ [][Next]_vars /\ Fairness

-----------------------------------------------------------------------------
(* Properties.                                                             *)

ToolSteps == {"none", "look", "dial", "raw", "again", "refused", "save", "bill"}

\* Every variable keeps its shape, no tool is tried more often than a call
\* allows, and no Job is given more free retries than its caller has.
TypeOK ==
    /\ job \in [state : {"queued", "running"} \cup Settled, kind : Kinds]
    /\ starts \in 0..MaxStarts
    /\ loop.pc \in {"none", "seed", "ask", "meter", "open", "count", "decide"}
    /\ loop.retries \in 0..FreeRetries /\ loop.turns \in 0..Backstop
    /\ loop.calls \in Nat /\ loop.tokens \in Nat /\ loop.past \in Nat
    /\ loop.uses \subseteq Requests
    /\ tools \in [Requests -> [pc : ToolSteps, try : 0..MaxTries]]
    /\ trace \in [turns : Nat, calls : Nat]
    /\ usage \in [model : Nat, ok : Nat, failed : Nat]
    /\ ledger \in [calls : Nat, tokens : Nat]
    /\ cache \subseteq Requests /\ fatal \in BOOLEAN

\* Nothing is asked upstream for a tool call the Trace does not hold: what is
\* billed or under way belongs to a trace_tool_call row, whatever crashed ("a
\* crash inside a tool still leaves the turn that caused it on record").
CallsAreTraced ==
    usage.ok + usage.failed + Cardinality(InFlight) <= MaxTries * trace.calls

\* The ceiling is asked before a call and not before a try, and the tools of a
\* turn ask it side by side: what is billed upstream, with the turn that asked
\* for it, stays below the ceiling but for the tries of one turn, across every
\* restart of the Job.
SpendIsBounded ==
    LET billed == usage.ok + usage.failed
    IN  job.kind.calls > 0 /\ billed > 0 =>
            billed + 1 < job.kind.calls + MaxTries * Cardinality(Requests)

\* The counters a loop is judged by are those of the rows, whatever attempt or
\* free retry it is, and wherever an earlier one was cut off.
CountersAreTheRows ==
    loop.pc = "decide" => /\ loop.calls = trace.calls
                          /\ loop.tokens = usage.model
                          /\ ledger = CountersSoFar

\* A turn that fails is looked at before the ceilings, so each free retry may
\* ask once more past them; no attempt asks more often than that.
PastCeilingTurns == loop.past <= 1 + FreeRetries

\* The backstop is announced as a bug in our counting: the ceilings stop every
\* loop before it.
BackstopUnreached == loop.turns < Backstop

\* A loop stops by a ceiling: at most a turn for each free retry past it, and
\* never by the backstop (runLoop()).
TurnsAreBounded == PastCeilingTurns /\ BackstopUnreached

\* The rows account for everything, at every instant a crash may pick: no call
\* without its Trace, no counter without its rows.
RowsAccountForAll == TypeOK /\ CallsAreTraced /\ CountersAreTheRows

\* Once a tool has met the Job's upstream ceiling, this worker begins no other
\* tool of the Job ("no further tool call is made"): not in the turn that reads
\* the error, and not in the free retry that a failed turn leads to.
NoToolAfterCeiling ==
    [][fatal => \A q \in Requests : At(q, "look")' => At(q, "look")]_vars

\* A Job that runs is settled, by its answers, its ceilings or its failures.
JobSettles == job.state = "running" ~> job.state \in Settled

\* What errors.ts:158 and db/queries/runs.ts:184 say the ceiling counts: the
\* upstream calls of the Job.
CeilingCountsUpstreamCalls == fatal => usage.ok + usage.failed >= job.kind.calls
=============================================================================
