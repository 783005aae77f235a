------------------------------ MODULE JobQueue ------------------------------
(***************************************************************************)
(* Runs, Jobs and the worker: src/jobs/runs.ts, src/worker/poll.ts, the    *)
(* handler skeleton of src/worker/main.ts and the server actions of        *)
(* run-actions.ts.  Every action is one database statement (or one         *)
(* transaction): two handlers interleave wherever the code awaits.         *)
(*                                                                         *)
(* Time is three ages of a started Job: 0 is under five minutes, 1 is up   *)
(* to thirty, 2 is beyond; Tick lets time pass.                            *)
(***************************************************************************)
EXTENDS Integers, FiniteSets

CONSTANTS
    Runs,           \* the Runs a person may open
    NoRun,
    Slots,          \* WORKER_CONCURRENCY places for a Job in flight
    Requests,       \* server actions that may be in progress at once
    Suppliers,      \* naturals, in roster order
    MaxJobs,        \* bound: Job rows ever inserted
    PerSupplier,    \* RUN_BUDGET_USD_PER_SUPPLIER, in units of spend
    RoundCost,      \* the most one loop spends between two budget checks
    Triggers,       \* which triggers a Run may be opened with
    Acts,           \* which acts a person performs after opening a Run
    MaxActs,        \* bound: acts performed
    MaxStops,       \* bound: crashes and shutdowns of the worker
    MaxAttempt,     \* bound: requeues of one Job
    MaxAge,         \* bound: the oldest age a Job reaches
    LongJobs,       \* TRUE: a live Job may run beyond thirty minutes
    Silence         \* TRUE: a live Job may write nothing for fifteen minutes

ASSUME RunsFinite == IsFiniteSet(Runs) /\ NoRun \notin Runs
ASSUME SlotsFinite == IsFiniteSet(Slots) /\ Slots # {}
ASSUME SuppliersNat == Suppliers \subseteq Nat /\ IsFiniteSet(Suppliers)
ASSUME TriggersKnown == Triggers \subseteq {"pipeline", "reassess"}
ASSUME BoundsNat == MaxJobs \in Nat /\ MaxActs \in Nat /\ MaxStops \in Nat
                    /\ MaxAttempt \in Nat /\ MaxAge \in 0..2
ASSUME MoneyNat == PerSupplier \in Nat /\ RoundCost \in Nat \ {0}
ASSUME FlagsBool == LongJobs \in BOOLEAN /\ Silence \in BOOLEAN

VARIABLES
    job,     \* [Jobs -> the job row]
    run,     \* [Runs -> the run row, with the spend its usage rows add up to]
    slot,    \* [Slots -> one runOneJob() in flight]
    main,    \* the worker's own loop: polling or sweeping
    worker,  \* the worker process: "up", "draining" after a signal, or "down"
    web,     \* [Requests -> one server action in progress]
    acts,    \* acts performed so far
    stops    \* crashes and shutdowns so far

vars == <<job, run, slot, main, worker, web, acts, stops>>

-----------------------------------------------------------------------------
Jobs == 1..MaxJobs      \* in creation order
Kinds == {"resolve", "enrich", "assess"}
ModelKinds == {"resolve", "assess"}
JobStates == {"none", "queued", "running", "done", "failed",
              "paused_on_budget", "terminated", "cancelled"}
RunStates == {"none", "queued", "running", "done", "failed",
              "paused_on_budget", "cancelled"}
Outcomes == {"done", "failed", "terminated", "paused_on_budget"}

NoJob == 0
NotStarted == -1

\* The first of a set of numbers: the oldest row, the next Supplier.
First(n, S) == n \in S /\ \A m \in S : n <= m

JobsOf(r) == {j \in Jobs : job[j].state # "none" /\ job[j].run = r}
StatesOf(r) == {job[j].state : j \in JobsOf(r)}
\* Fault: dequeues by the lock alone.
UnlockedQueued == {j \in Jobs : ~job[j].locked}

Queued == {j \in Jobs : job[j].state = "queued"}
Free == {j \in Jobs : job[j].state = "none"}
IdleSlots == {s \in Slots : slot[s].pc = "idle"}

\* A slot is at work from the claim until its finishJob().
AtWork == {"check", "work", "boundary", "chain", "finish"}
HoldersOf(j) == {s \in Slots : slot[s].pc \in AtWork /\ slot[s].job = j}

\* Fault: spends on at exactly the budget.
WithinOrAtBudget(r) == run[r].spent <= run[r].budget

WithinBudget(r) == run[r].spent < run[r].budget

\* Puts a row's columns back as requeueJobs() does; the checkpoint rows it
\* deletes are RoundLoop's.
Requeued(row) ==
    [row EXCEPT !.state = "queued", !.locked = FALSE, !.age = NotStarted,
                !.attempt = @ + 1]

\* Fault: finishJob() leaves locked_at alone.
FinishedLocked(row, outcome) == [row EXCEPT !.state = outcome]

\* The last word on a Job: finishJob().
Finished(row, outcome) == [row EXCEPT !.state = outcome, !.locked = FALSE]

\* What settleRunState() computes from the Job states it read.
Derive(S) ==
    IF {"queued", "running"} \cap S # {} THEN "running"
    ELSE IF "paused_on_budget" \in S THEN "paused_on_budget"
    ELSE IF "failed" \in S THEN "failed"
    ELSE "done"

\* settleRunState() returns early when the Run has no Job.
SettleRead(r) == IF JobsOf(r) = {} THEN "none" ELSE Derive(StatesOf(r))
SettleWrite(r, next) ==
    IF next = "none" THEN run ELSE [run EXCEPT ![r].state = next]

\* enqueueJob(): the row joins the end of the queue.
Enqueue(r, kind, supplier) ==
    \E j \in Jobs :
        /\ First(j, Free)
        /\ job' = [job EXCEPT ![j] =
                    [state |-> "queued", run |-> r, kind |-> kind,
                     subject |-> supplier, attempt |-> 0, locked |-> FALSE,
                     age |-> NotStarted, quiet |-> TRUE]]

\* loadWorkerHealth(): some Job was started in the last five minutes.
WorkerSeemsUp == \E j \in Jobs : job[j].age = 0

\* Fault: a running Job is offered as stranded whatever the worker does.
RetryableRunning(r) ==
    {j \in JobsOf(r) : job[j].state \in {"failed", "terminated", "running"}}

\* retryableJobs(): what the Run page offers to put back.
Retryable(r) ==
    {j \in JobsOf(r) :
        \/ job[j].state \in {"failed", "terminated"}
        \/ job[j].state = "running" /\ ~WorkerSeemsUp /\ job[j].age = 2}

-----------------------------------------------------------------------------
NoRow == [state |-> "none", run |-> NoRun, kind |-> "resolve", subject |-> 0,
          attempt |-> 0, locked |-> FALSE, age |-> NotStarted, quiet |-> TRUE]
IdleSlot == [pc |-> "idle", job |-> NoJob, out |-> "done", next |-> "none",
             settles |-> 0]
IdleMain == [pc |-> "poll", todo |-> {}, run |-> NoRun, next |-> "none"]
IdleWeb == [pc |-> "idle", run |-> NoRun, kind |-> "resolve", todo |-> {},
            next |-> "none", budget |-> 0]

Init ==
    /\ job = [j \in Jobs |-> NoRow]
    /\ run = [r \in Runs |-> [state |-> "none", trigger |-> "pipeline",
                              budget |-> 0, spent |-> 0]]
    /\ slot = [s \in Slots |-> IdleSlot]
    /\ main = IdleMain
    /\ worker = "up"
    /\ web = [q \in Requests |-> IdleWeb]
    /\ acts = 0
    /\ stops = 0

-----------------------------------------------------------------------------
(* The worker's own loop, runWorker().                                     *)

\* Fault: the claim sets the state and forgets the lock and the start time.
DequeueUnlocked(s) ==
    /\ main.pc = "poll" /\ worker = "up"
    /\ slot[s].pc = "idle"
    /\ \E j \in Jobs :
        /\ First(j, Queued)
        /\ job' = [job EXCEPT ![j].state = "running"]
        /\ slot' = [slot EXCEPT ![s] = [IdleSlot EXCEPT !.pc = "check", !.job = j]]
    /\ main' = IdleMain
    /\ UNCHANGED <<run, worker, web, acts, stops>>

\* dequeueJob(): one transaction takes the oldest queued Job, whatever state
\* its Run is in.  The loop comes here from the top, or from a sweep during
\* which the shutdown flag is not read.
Dequeue(s) ==
    /\ \/ main.pc = "poll" /\ worker = "up"
       \/ main.pc = "dequeue"
    /\ slot[s].pc = "idle"
    /\ \E j \in Jobs :
        /\ First(j, Queued)
        /\ job' = [job EXCEPT ![j] =
                    [@ EXCEPT !.state = "running", !.locked = TRUE, !.age = 0]]
        /\ slot' = [slot EXCEPT ![s] = [IdleSlot EXCEPT !.pc = "check", !.job = j]]
    /\ main' = IdleMain
    /\ UNCHANGED <<run, worker, web, acts, stops>>

DequeueNone ==
    /\ main.pc = "dequeue"
    /\ Queued = {}
    /\ main' = IdleMain
    /\ UNCHANGED <<job, run, slot, worker, web, acts, stops>>

\* Fault: an old lock is enough.
StaleByLock == {j \in Jobs : job[j].state = "running" /\ job[j].age > 0
                             /\ job[j].attempt < MaxAttempt}

\* requeueStaleJobs(), the SELECT: an old lock and no recent usage row.
Stale == {j \in Jobs : /\ job[j].state = "running"
                       /\ job[j].locked
                       /\ job[j].age = 2
                       /\ job[j].quiet
                       /\ job[j].attempt < MaxAttempt}

SweepSelect ==
    /\ main.pc = "poll" /\ worker = "up"
    /\ IdleSlots # {}
    /\ Stale # {}
    /\ main' = [IdleMain EXCEPT !.pc = "sweep_update", !.todo = Stale]
    /\ UNCHANGED <<job, run, slot, worker, web, acts, stops>>

\* requeueStaleJobs(), the UPDATE: by id alone.
SweepUpdate ==
    /\ main.pc = "sweep_update"
    /\ job' = [j \in Jobs |-> IF j \in main.todo THEN Requeued(job[j]) ELSE job[j]]
    /\ main' = [main EXCEPT !.pc = "sweep_read"]
    /\ UNCHANGED <<run, slot, worker, web, acts, stops>>

\* Each requeued Job settles its Run, one after the other.
SweepRead(j) ==
    /\ main.pc = "sweep_read"
    /\ j \in main.todo
    /\ main' = [main EXCEPT !.pc = "sweep_write", !.todo = @ \ {j},
                            !.run = job[j].run, !.next = SettleRead(job[j].run)]
    /\ UNCHANGED <<job, run, slot, worker, web, acts, stops>>

SweepWrite ==
    /\ main.pc = "sweep_write"
    /\ run' = SettleWrite(main.run, main.next)
    /\ main' = [main EXCEPT !.pc = IF main.todo = {} THEN "dequeue" ELSE "sweep_read"]
    /\ UNCHANGED <<job, slot, worker, web, acts, stops>>

-----------------------------------------------------------------------------
(* One Job in flight, runOneJob().                                         *)

Go(s, pc) == slot' = [slot EXCEPT ![s].pc = pc]
Ends(s, outcome) == slot' = [slot EXCEPT ![s].pc = "finish", ![s].out = outcome]
RunOf(s) == job[slot[s].job].run
KindOf(s) == job[slot[s].job].kind

\* checkRunBudget() before the handler.  An exhausted budget finishes the Job
\* as paused and settles its Run twice, once more in the finally block.
CheckBudget(s) ==
    /\ slot[s].pc = "check"
    /\ slot' = [slot EXCEPT ![s] =
                 IF WithinBudget(RunOf(s))
                 THEN [@ EXCEPT !.pc = "work", !.settles = 1]
                 ELSE [@ EXCEPT !.pc = "finish", !.settles = 2,
                                !.out = "paused_on_budget"]]
    /\ UNCHANGED <<job, run, main, worker, web, acts, stops>>

\* A model loop writes its usage rows.
Spend(s) ==
    /\ slot[s].pc = "work"
    /\ KindOf(s) \in ModelKinds
    /\ \E cost \in 1..RoundCost :
            run' = [run EXCEPT ![RunOf(s)].spent = @ + cost]
    /\ job' = [job EXCEPT ![slot[s].job].quiet = FALSE]
    /\ Go(s, "boundary")
    /\ UNCHANGED <<main, worker, web, acts, stops>>

\* budgetCheck at the end of the loop: go on, or RunPausedError.
CheckBoundary(s) ==
    /\ slot[s].pc = "boundary"
    /\ IF WithinBudget(RunOf(s)) THEN Go(s, "work") ELSE Ends(s, "paused_on_budget")
    /\ UNCHANGED <<job, run, main, worker, web, acts, stops>>

\* The handler's thrown error, or a terminated outcome.
Fail(s) ==
    /\ slot[s].pc \in {"work", "boundary"}
    /\ \E outcome \in {"failed", "terminated"} : Ends(s, outcome)
    /\ UNCHANGED <<job, run, main, worker, web, acts, stops>>

\* What a pipeline Run queues behind a Job that succeeded.
NextKind(kind) == CASE kind = "resolve" -> "enrich"
                    [] kind = "enrich" -> "assess"
                    [] OTHER -> "none"
Chains(s) == run[RunOf(s)].trigger = "pipeline" /\ NextKind(KindOf(s)) # "none"

\* Room for a row that every chaining slot may still insert (MaxJobs).
Room == Cardinality(Free) > Cardinality({s \in Slots : slot[s].pc = "chain"})

\* The handler returns done; an accepted resolve and an enrich chain on, a
\* resolve parked for review does not.
Succeed(s) ==
    /\ slot[s].pc = "work"
    /\ \/ /\ ~Chains(s) \/ KindOf(s) = "resolve"
          /\ Ends(s, "done")
       \/ /\ Chains(s) /\ Room
          /\ Go(s, "chain")
    /\ UNCHANGED <<job, run, main, worker, web, acts, stops>>

\* Fault: the chained Job is inserted, and then once more.
ChainNextAgain(s) ==
    /\ slot[s].pc = "chain"
    /\ Enqueue(RunOf(s), NextKind(KindOf(s)), job[slot[s].job].subject)
    /\ \/ Ends(s, "done")
       \/ UNCHANGED slot
    /\ UNCHANGED <<run, main, worker, web, acts, stops>>

\* chainNext(): into the same Run, before this Job is finished.
ChainNext(s) ==
    /\ slot[s].pc = "chain"
    /\ Enqueue(RunOf(s), NextKind(KindOf(s)), job[slot[s].job].subject)
    /\ Ends(s, "done")
    /\ UNCHANGED <<run, main, worker, web, acts, stops>>

\* Fault: the Run is not settled after its Job.
FinishJobUnsettled(s) ==
    /\ slot[s].pc = "finish"
    /\ job' = [job EXCEPT ![slot[s].job] = Finished(@, slot[s].out)]
    /\ slot' = [slot EXCEPT ![s] = IdleSlot]
    /\ UNCHANGED <<run, main, worker, web, acts, stops>>

\* finishJob(): by id, whoever holds the Job now.
FinishJob(s) ==
    /\ slot[s].pc = "finish"
    /\ job' = [job EXCEPT ![slot[s].job] = Finished(@, slot[s].out)]
    /\ Go(s, "settle_read")
    /\ UNCHANGED <<run, main, worker, web, acts, stops>>

SlotSettleRead(s) ==
    /\ slot[s].pc = "settle_read"
    /\ slot' = [slot EXCEPT ![s].pc = "settle_write", ![s].next = SettleRead(RunOf(s))]
    /\ UNCHANGED <<job, run, main, worker, web, acts, stops>>

SlotSettleWrite(s) ==
    /\ slot[s].pc = "settle_write"
    /\ run' = SettleWrite(RunOf(s), slot[s].next)
    /\ slot' = [slot EXCEPT ![s] =
                 IF slot[s].settles > 1
                 THEN [slot[s] EXCEPT !.pc = "settle_read", !.settles = @ - 1]
                 ELSE IdleSlot]
    /\ UNCHANGED <<job, main, worker, web, acts, stops>>

-----------------------------------------------------------------------------
(* The worker process.                                                     *)

\* SIGTERM: the loop dequeues nothing more and waits for its Jobs.
Shutdown ==
    /\ worker = "up" /\ stops < MaxStops
    /\ worker' = "draining"
    /\ stops' = stops + 1
    /\ UNCHANGED <<job, run, slot, main, web, acts>>

Drained ==
    /\ worker = "draining"
    /\ main.pc = "poll"
    /\ IdleSlots = Slots
    /\ worker' = "down"
    /\ UNCHANGED <<job, run, slot, main, web, acts, stops>>

\* The process is killed: the rows stay as they are.
Crash ==
    /\ worker # "down" /\ stops < MaxStops
    /\ worker' = "down"
    /\ slot' = [s \in Slots |-> IdleSlot]
    /\ main' = IdleMain
    /\ stops' = stops + 1
    /\ UNCHANGED <<job, run, web, acts>>

Boot ==
    /\ worker = "down"
    /\ worker' = "up"
    /\ UNCHANGED <<job, run, slot, main, web, acts, stops>>

\* Time passes.  A started Job grows older; a Job nobody works on falls
\* silent, one that is worked on does so only under Silence.
Tick ==
    /\ MaxAge > 0
    /\ \A j \in Jobs : HoldersOf(j) # {} /\ job[j].age = 1 => LongJobs
    /\ \E mute \in SUBSET {j \in Jobs : HoldersOf(j) # {}} :
        /\ ~Silence => mute = {}
        /\ job' = [j \in Jobs |->
                     IF job[j].age = NotStarted THEN job[j]
                     ELSE [job[j] EXCEPT !.age = IF @ < MaxAge THEN @ + 1 ELSE @,
                                         !.quiet = HoldersOf(j) = {} \/ j \in mute]]
    /\ job' # job
    /\ UNCHANGED <<run, slot, main, worker, web, acts, stops>>

-----------------------------------------------------------------------------
(* The server actions of run-actions.ts, one database statement a step.    *)

WebIdle(q) == web[q].pc = "idle"
WebAt(q, pc) == web[q].pc = pc
FirstKinds(trigger) == IF trigger = "pipeline" THEN {"resolve", "enrich"} ELSE {"assess"}

\* startRun(), enrichRoster(), assessRoster(): the Run row first.
OpenRun(q, r) ==
    /\ WebIdle(q)
    /\ run[r].state = "none"
    /\ \E trigger \in Triggers : \E kind \in FirstKinds(trigger) :
        /\ run' = [run EXCEPT ![r] =
                    [state |-> "queued", trigger |-> trigger, spent |-> 0,
                     budget |-> PerSupplier * Cardinality(Suppliers)]]
        /\ web' = [web EXCEPT ![q] =
                    [IdleWeb EXCEPT !.pc = "enqueue", !.run = r, !.kind = kind,
                                    !.todo = Suppliers]]
    /\ UNCHANGED <<job, slot, main, worker, acts, stops>>

\* ... then one Job per Supplier, in roster order.
EnqueueJob(q) ==
    /\ WebAt(q, "enqueue")
    /\ \E supplier \in web[q].todo :
        /\ First(supplier, web[q].todo)
        /\ Enqueue(web[q].run, web[q].kind, supplier)
        /\ web' = [web EXCEPT ![q] =
                    IF web[q].todo = {supplier} THEN IdleWeb
                    ELSE [web[q] EXCEPT !.todo = @ \ {supplier}]]
    /\ UNCHANGED <<run, slot, main, worker, acts, stops>>

\* An act on a Run that the page offers it for, MaxActs of them in all.
Act(q, act, r) ==
    /\ WebIdle(q)
    /\ act \in Acts /\ acts < MaxActs
    /\ run[r].state # "none"
    /\ acts' = acts + 1

\* The Run page offers Cancel while a Job is unfinished; the click may come
\* long after the page was drawn.
ShowCancel(q, r) ==
    /\ Act(q, "cancel", r)
    /\ {"queued", "running"} \cap StatesOf(r) # {}
    /\ web' = [web EXCEPT ![q] = [IdleWeb EXCEPT !.pc = "cancel_jobs", !.run = r]]
    /\ UNCHANGED <<job, run, slot, main, worker, stops>>

\* cancelRun(): the queued Jobs, and then the Run row.
CancelJobs(q) ==
    /\ WebAt(q, "cancel_jobs")
    /\ job' = [j \in Jobs |->
                 IF j \in JobsOf(web[q].run) /\ job[j].state = "queued"
                 THEN Finished(job[j], "cancelled") ELSE job[j]]
    /\ web' = [web EXCEPT ![q].pc = "cancel_run"]
    /\ UNCHANGED <<run, slot, main, worker, acts, stops>>

CancelRun(q) ==
    /\ WebAt(q, "cancel_run")
    /\ run' = [run EXCEPT ![web[q].run].state = "cancelled"]
    /\ web' = [web EXCEPT ![q] = IdleWeb]
    /\ UNCHANGED <<job, slot, main, worker, acts, stops>>

\* retryJob() takes its one Job from the page; retryRun() reads the Jobs and
\* the worker's health, and takes every retryable one.
Retry(q, r) ==
    /\ \E S \in SUBSET Retryable(r) :
        /\ \/ Act(q, "retryJob", r) /\ Cardinality(S) = 1
           \/ Act(q, "retryRun", r) /\ S = Retryable(r) /\ S # {}
        /\ web' = [web EXCEPT ![q] =
                    [IdleWeb EXCEPT !.pc = "requeue", !.run = r, !.todo = S]]
    /\ UNCHANGED <<job, run, slot, main, worker, stops>>

\* requeueJobs(): by id, whatever has happened to the Jobs since.
RequeueJobs(q) ==
    /\ WebAt(q, "requeue")
    /\ job' = [j \in Jobs |-> IF j \in web[q].todo THEN Requeued(job[j]) ELSE job[j]]
    /\ web' = [web EXCEPT ![q].pc = "settle_read"]
    /\ UNCHANGED <<run, slot, main, worker, acts, stops>>

WebSettleRead(q) ==
    /\ WebAt(q, "settle_read")
    /\ web' = [web EXCEPT ![q].pc = "settle_write", ![q].next = SettleRead(web[q].run)]
    /\ UNCHANGED <<job, run, slot, main, worker, acts, stops>>

WebSettleWrite(q) ==
    /\ WebAt(q, "settle_write")
    /\ run' = SettleWrite(web[q].run, web[q].next)
    /\ web' = [web EXCEPT ![q] = IdleWeb]
    /\ UNCHANGED <<job, slot, main, worker, acts, stops>>

\* The Run page offers Resume while the Run is paused.
ShowResume(q, r) ==
    /\ Act(q, "resume", r)
    /\ run[r].state = "paused_on_budget"
    /\ web' = [web EXCEPT ![q] = [IdleWeb EXCEPT !.pc = "resume_read", !.run = r]]
    /\ UNCHANGED <<job, run, slot, main, worker, stops>>

\* resumeRun(): count the unfinished Jobs and read the budget (two SELECTs in
\* one step), then write the Run row, then put the paused Jobs back.
ResumeRead(q) ==
    /\ WebAt(q, "resume_read")
    /\ LET r == web[q].run
           unfinished == {j \in JobsOf(r) : job[j].state \in {"paused_on_budget", "queued"}}
       IN  web' = [web EXCEPT ![q].pc = "resume_run",
                      ![q].budget = run[r].budget + PerSupplier * Cardinality(unfinished)]
    /\ UNCHANGED <<job, run, slot, main, worker, acts, stops>>

ResumeRun(q) ==
    /\ WebAt(q, "resume_run")
    /\ run' = [run EXCEPT ![web[q].run].budget = web[q].budget,
                          ![web[q].run].state = "running"]
    /\ web' = [web EXCEPT ![q].pc = "resume_jobs"]
    /\ UNCHANGED <<job, slot, main, worker, acts, stops>>

ResumeJobs(q) ==
    /\ WebAt(q, "resume_jobs")
    /\ job' = [j \in Jobs |->
                 IF j \in JobsOf(web[q].run) /\ job[j].state = "paused_on_budget"
                 THEN [job[j] EXCEPT !.state = "queued"] ELSE job[j]]
    /\ web' = [web EXCEPT ![q] = IdleWeb]
    /\ UNCHANGED <<run, slot, main, worker, acts, stops>>

-----------------------------------------------------------------------------
MainStep == SweepSelect \/ SweepUpdate \/ SweepWrite \/ DequeueNone
            \/ \E j \in Jobs : SweepRead(j)
SlotStep(s) ==
    \/ Dequeue(s) \/ CheckBudget(s) \/ Spend(s) \/ CheckBoundary(s)
    \/ Fail(s) \/ Succeed(s) \/ ChainNext(s) \/ FinishJob(s)
    \/ SlotSettleRead(s) \/ SlotSettleWrite(s)
WorkerStep == Shutdown \/ Drained \/ Crash \/ Boot \/ Tick
WebStep(q) ==
    \/ \E r \in Runs : OpenRun(q, r) \/ ShowCancel(q, r) \/ Retry(q, r) \/ ShowResume(q, r)
    \/ EnqueueJob(q) \/ CancelJobs(q) \/ CancelRun(q) \/ RequeueJobs(q)
    \/ WebSettleRead(q) \/ WebSettleWrite(q)
    \/ ResumeRead(q) \/ ResumeRun(q) \/ ResumeJobs(q)

Next ==
    \/ MainStep
    \/ \E s \in Slots : SlotStep(s)
    \/ WorkerStep
    \/ \E q \in Requests : WebStep(q)

Spec == Init /\ [][Next]_vars

\* A claimed Job is carried on: the handler cannot spend for ever, because
\* the budget it is checked against is finite.
InFlight(s) == SlotStep(s) /\ slot[s].pc # "idle"

\* The event loop keeps running whatever is ready, the operating system's
\* clock moves, and somebody starts the worker again after it stopped.
Fairness ==
    /\ \A s \in Slots : WF_vars(InFlight(s))
    /\ WF_vars(\E s \in Slots : Dequeue(s))
    /\ WF_vars(MainStep)
    /\ WF_vars(Tick)
    /\ WF_vars(Drained)
    /\ WF_vars(Boot)

FairSpec == Spec /\ Fairness

-----------------------------------------------------------------------------
(* Properties                                                              *)

JobRow == [state : JobStates, run : Runs \union {NoRun}, kind : Kinds,
           subject : Nat, attempt : Nat, locked : BOOLEAN,
           age : {NotStarted, 0, 1, 2}, quiet : BOOLEAN]
RunRow == [state : RunStates, trigger : {"pipeline", "reassess"},
           budget : Nat, spent : Nat]

SlotRow == [pc : AtWork \union {"idle", "settle_read", "settle_write"},
            job : Jobs \union {NoJob}, out : Outcomes, next : RunStates,
            settles : 0..2]
MainRow == [pc : {"poll", "dequeue", "sweep_update", "sweep_read", "sweep_write"},
            todo : SUBSET Jobs, run : Runs \union {NoRun}, next : RunStates]
WebRow == [pc : {"idle", "enqueue", "cancel_jobs", "cancel_run", "requeue",
                 "settle_read", "settle_write", "resume_read", "resume_run",
                 "resume_jobs"},
           run : Runs \union {NoRun}, kind : Kinds, todo : SUBSET Nat,
           next : RunStates, budget : Nat]

Exists(j) == j \in Jobs /\ job[j].state # "none"

JobsTyped == /\ job \in [Jobs -> JobRow]
             /\ \A j \in Jobs : Exists(j) => job[j].run \in Runs
SlotsTyped == /\ slot \in [Slots -> SlotRow]
              /\ \A s \in Slots :
                    /\ slot[s].pc # "idle" => Exists(slot[s].job)
                    /\ slot[s].pc = "chain" => NextKind(KindOf(s)) \in Kinds
MainTyped == /\ main \in MainRow
             /\ \A j \in main.todo : Exists(j)
             /\ main.pc = "sweep_write" => main.run \in Runs
WebTyped == /\ web \in [Requests -> WebRow]
            /\ \A q \in Requests :
                /\ web[q].pc # "idle" => web[q].run \in Runs
                /\ web[q].pc = "requeue" => \A j \in web[q].todo : Exists(j)

\* Every variable keeps its type, and whatever an actor in progress names is
\* a row that was inserted.
TypeOK ==
    /\ JobsTyped
    /\ run \in [Runs -> RunRow]
    /\ SlotsTyped
    /\ MainTyped
    /\ worker \in {"up", "draining", "down"}
    /\ WebTyped
    /\ acts \in 0..MaxActs /\ stops \in 0..MaxStops

\* A Job left running by a worker that went away must be one the stale-lock
\* sweep can find: it still carries the lock and the start time the SELECT
\* of requeueStaleJobs() tests, and no other row carries a lock.
RunningIsRecoverable ==
    \A j \in Jobs : /\ job[j].locked <=> job[j].state = "running"
                    /\ job[j].locked => job[j].age # NotStarted

\* "Concurrency is the overshoot": whatever interleaving of budget checks,
\* crashes, requeues and resumes, a Run's spend exceeds its budget by less
\* than one loop per slot of the worker (checkRunBudget()).
BudgetOvershoot ==
    \A r \in Runs :
        run[r].spent < run[r].budget + RoundCost * Cardinality(Slots)

\* No pipeline stage is queued twice for one Supplier in one Run, however the
\* slots interleave, unless a Job of that Supplier was put back: a worker lost
\* between chainNext() and finishJob() chains once more.
ChainsOnce ==
    \A i, j \in Jobs :
        /\ i # j
        /\ job[i].state # "none" /\ job[j].state # "none"
        /\ job[i].run = job[j].run
        /\ <<job[i].kind, job[i].subject>> = <<job[j].kind, job[j].subject>>
        => \E k \in JobsOf(job[i].run) :
                job[k].subject = job[i].subject /\ job[k].attempt > 0

\* Nobody is in the middle of anything.
Quiescent ==
    /\ IdleSlots = Slots
    /\ main.pc = "poll"
    /\ \A q \in Requests : WebIdle(q)

\* settleRunState() "closes a Run once none of its Jobs can still move": when
\* everything has come to rest, the Run row says what its Jobs say.
ClosedWhenStopped ==
    \A r \in Runs :
        /\ Quiescent
        /\ JobsOf(r) # {}
        /\ {"queued", "running"} \cap StatesOf(r) = {}
        => run[r].state = Derive(StatesOf(r))

\* cancelRun(): "nothing else is ever dequeued for it".
NothingDequeuedAfterCancel ==
    [][\A j \in Jobs : job[j].state = "queued" /\ job'[j].state = "running"
            => run[job[j].run].state # "cancelled"]_vars

\* Neither retryRun() nor the sweep takes a Job away from a slot that is
\* still at work on it.
LiveJobsAreSpared ==
    [][\A j \in Jobs : HoldersOf(j) # {} => job'[j].state # "queued"]_vars

\* A queued Job is worked to an end, or pauses for a person to decide, also
\* when the worker is killed while it runs and the sweep has to put it back.
EveryJobSettles ==
    \A j \in Jobs : job[j].state \in {"queued", "running"}
                        ~> job[j].state \notin {"queued", "running"}

\* While the worker stays up, a Run that has Jobs comes to a state nothing
\* moves it on from but a person, though its first Job may be done before its
\* last one is inserted.
RunCloses ==
    [](worker = "up") =>
        \A r \in Runs :
            JobsOf(r) # {} ~> run[r].state \in {"done", "failed", "paused_on_budget"}

-----------------------------------------------------------------------------
\* A Job is leased: to one slot at a time, and back only from nobody.
Lease == INSTANCE WorkLease WITH
    status <- [j \in Jobs |-> job[j].state],
    holders <- [j \in Jobs |-> HoldersOf(j)]

\* The queue implements the lease: no interleaving of dequeues, sweeps and
\* acts lets two slots work one Job, ends a Job its slot no longer holds, or
\* brings back a Job that was done or cancelled.
LeaseSpec == Lease!Spec
=============================================================================
