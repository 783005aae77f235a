----------------------------- MODULE RoundLoop -----------------------------
(***************************************************************************)
(* One assess or recommend Job: the proposer/evaluator ladder of           *)
(* src/jobs/rounds.ts, its checkpoints (checkpoint.ts), the model loops it *)
(* calls (only how each one ends), publishVersion(), and the three ways    *)
(* its row comes back to the queue: Resume, Retry and the stale-lock sweep.*)
(*                                                                         *)
(* A draft is the place it was written in.  An objection is a text; what   *)
(* it says is left out.  The Run's money is a choice made at each budget   *)
(* check, because the Run's other Jobs spend from it too (see JobQueue).   *)
(***************************************************************************)
EXTENDS Integers, Sequences, SequencesExt

CONSTANTS
    MaxRounds,      \* MAX_ROUNDS
    FreeRetries,    \* MAX_FREE_RETRIES_PER_ROUND
    EvaluatorTries, \* evaluation.ts: FREE_RETRIES + 1
    Objections,     \* what the evaluator may object
    Ceiling,        \* JOB_CAPS, in model loops
    MaxAttempt,     \* bound: times the row is put back by Retry or the sweep
    MaxResumes      \* bound: times a person presses Resume

ASSUME LadderNat == MaxRounds \in Nat \ {0} /\ FreeRetries \in Nat
                    /\ EvaluatorTries \in Nat \ {0} /\ Ceiling \in Nat
ASSUME LadderBounds == MaxAttempt \in Nat /\ MaxResumes \in Nat

VARIABLES
    job,       \* the row's state
    attempt,   \* the row's attempt column
    resumes,   \* times the row came back by Resume
    saved,     \* the job_round rows: [1..MaxRounds -> a RoundState or NoState]
    used,      \* loops counted against the Job's ceiling, over all attempts
    versions,  \* the versions published, oldest first
    pc,        \* where the attempt in flight is
    roundN,    \* runProposerEvaluatorLoop()'s roundN
    tries,     \* failed tries of this Round's proposer, then of its evaluator
    state,     \* the RoundState in memory
    out,       \* the LoopOutcome
    result,    \* the state finishJob() is about to write
    unsaved    \* TRUE: a loop was paid for since the last Round boundary

vars == <<job, attempt, resumes, saved, used, versions, pc, roundN, tries,
          state, out, result, unsaved>>
row == <<job, attempt, resumes, saved, versions>>

-----------------------------------------------------------------------------
JobStates == {"queued", "running", "done", "failed", "terminated",
              "paused_on_budget"}
Rest == JobStates \ {"queued", "running"}
Steps == {"idle", "start", "propose", "validate", "evaluate", "save",
          "settle", "publish", "finish", "gone"}
Verdicts == {"passed", "published_with_objections", "rejected_by_code"}

\* Texts our code writes.
CodeObjection == "[check] message"
Unreviewed == "no verdict"
Failed == {"output shape rejected", "the loop failed"}

NoDraft == <<>>
Draft == <<attempt + resumes, roundN, tries>>

Fresh == [rounds |-> <<>>, carried |-> {}, lastDraft |-> NoDraft,
          lastCode |-> {}]
NoState == [Fresh EXCEPT !.lastDraft = <<0>>]
NoOutcome == [draft |-> NoDraft, verdict |-> "passed", dissent |-> {}]

\* A `round` row as the ladder records it; {} is a null objection.
Round(role, source, draft, objection) ==
    [n |-> roundN, role |-> role, source |-> source, draft |-> draft,
     objection |-> objection]
Record(r) == [state EXCEPT !.rounds = Append(@, r)]

\* loadRoundCheckpoint(): the highest Round that has a row, or 0.
LastSaved ==
    CHOOSE n \in 0..MaxRounds :
        /\ n = 0 \/ saved[n] # NoState
        /\ \A m \in 1..MaxRounds : saved[m] # NoState => m <= n
Boundary == IF LastSaved = 0 THEN Fresh ELSE saved[LastSaved]

Count(n) == IF n > Ceiling THEN Ceiling + 1 ELSE n
AtCeiling == used' > Ceiling

Init ==
    /\ job = "queued" /\ attempt = 0 /\ resumes = 0
    /\ saved = [n \in 1..MaxRounds |-> NoState]
    /\ used = 0 /\ versions = <<>>
    /\ pc = "idle" /\ roundN = 0 /\ tries = 0
    /\ state = Fresh /\ out = NoOutcome /\ result = "done" /\ unsaved = FALSE

-----------------------------------------------------------------------------
(* How an attempt leaves the ladder.                                       *)

Finish(s) == pc' = "finish" /\ result' = s

\* assessSupplier() and recommendCategory(): an outcome with nothing
\* publishable is an UnpublishableDraftError.
Conclude(draft, verdict, dissent) ==
    /\ out' = [draft |-> draft, verdict |-> verdict, dissent |-> dissent]
    /\ IF verdict = "rejected_by_code" \/ draft = NoDraft
       THEN Finish("terminated")
       ELSE pc' = "publish" /\ UNCHANGED result

\* runLoop() returned paused_on_budget or terminated and raiseIfStopped() threw.
Stopped(s) ==
    Finish(s) /\ UNCHANGED <<row, roundN, tries, state, out>>

-----------------------------------------------------------------------------
(* The worker takes the row, and the ladder starts where it left off.      *)

\* dequeueJob().
Claim ==
    /\ job = "queued" /\ pc = "idle"
    /\ job' = "running" /\ pc' = "start"
    /\ UNCHANGED <<attempt, resumes, saved, used, versions, roundN, tries,
                   state, out, result, unsaved>>

\* runOneJob() found the Run's budget spent.
StartPaused ==
    /\ pc = "start" /\ unsaved' = FALSE /\ used' = used
    /\ Stopped("paused_on_budget")

\* Fault: the resumed ladder restores the objections and not the argument.
StartPartly ==
    /\ pc = "start"
    /\ state' = [Fresh EXCEPT !.carried = Boundary.carried]
    /\ roundN' = LastSaved + 1
    /\ pc' = IF LastSaved < MaxRounds THEN "propose" ELSE "settle"
    /\ tries' = 0 /\ unsaved' = FALSE
    /\ UNCHANGED <<row, used, out, result>>

\* The checkpoint is read once, at the start of an attempt.
Start ==
    /\ pc = "start"
    /\ state' = Boundary
    /\ roundN' = LastSaved + 1
    /\ pc' = IF LastSaved < MaxRounds THEN "propose" ELSE "settle"
    /\ tries' = 0 /\ unsaved' = FALSE
    /\ UNCHANGED <<row, used, out, result>>

-----------------------------------------------------------------------------
(* A Round: propose, our code checks, the stateless evaluator.             *)

\* A model loop ran to its end and was paid for.
PaidLoop == used' = Count(used + 1) /\ unsaved' = TRUE

\* Fault: the last draft is published though the code checks rejected it.
NoDraftUnchecked(why) ==
    /\ state' = Record(Round("proposer", "code", NoDraft, {why}))
    /\ IF tries < FreeRetries
       THEN tries' = tries + 1 /\ UNCHANGED <<pc, out, result>>
       ELSE /\ UNCHANGED tries
            /\ Conclude(state.lastDraft, "published_with_objections", {why})
    /\ UNCHANGED <<row, roundN>>

\* A try that brought no draft: it is recorded, and when the last free retry
\* is gone settleAfterAttemptsRunOut() ends the ladder.
NoDraftFrom(why) ==
    /\ state' = Record(Round("proposer", "code", NoDraft, {why}))
    /\ IF tries < FreeRetries
       THEN tries' = tries + 1 /\ UNCHANGED <<pc, out, result>>
       ELSE /\ UNCHANGED tries
            /\ IF state.lastCode # {}
               THEN Conclude(NoDraft, "rejected_by_code",
                             state.lastCode \cup {why})
               ELSE Conclude(state.lastDraft, "published_with_objections",
                             {why})
    /\ UNCHANGED <<row, roundN>>

DraftSubmitted ==
    /\ state' = [Record(Round("proposer", "model", Draft, {}))
                    EXCEPT !.lastDraft = Draft]
    /\ pc' = "validate" /\ tries' = 0
    /\ UNCHANGED <<row, roundN, out, result>>

\* The loop failed: a transport error that cost nothing, or a refused or
\* truncated turn that was paid for.  It is looked at before any ceiling.
ProposeFailed ==
    /\ pc = "propose"
    /\ (PaidLoop \/ UNCHANGED <<used, unsaved>>)
    /\ NoDraftFrom("the loop failed")

\* A ceiling fired.  A submission that was already made is still read.
ProposeTerminated ==
    /\ pc = "propose" /\ PaidLoop /\ AtCeiling
    /\ DraftSubmitted \/ Stopped("terminated")

\* The loop's last turn found the Run's budget spent: what it submitted goes
\* with it.
ProposePaused ==
    /\ pc = "propose" /\ PaidLoop /\ ~AtCeiling
    /\ Stopped("paused_on_budget")

ProposeDone ==
    /\ pc = "propose" /\ PaidLoop /\ ~AtCeiling
    /\ DraftSubmitted \/ NoDraftFrom("output shape rejected")

\* The code checks object: the Round is spent.
ValidateObjects ==
    /\ pc = "validate"
    /\ state' = [Record(Round("evaluator", "code", NoDraft, {CodeObjection}))
                    EXCEPT !.carried = {CodeObjection},
                           !.lastCode = {CodeObjection}]
    /\ pc' = "save"
    /\ UNCHANGED <<row, used, roundN, tries, out, result, unsaved>>

ValidatePasses ==
    /\ pc = "validate"
    /\ state' = [state EXCEPT !.lastCode = {}]
    /\ pc' = "evaluate"
    /\ UNCHANGED <<row, used, roundN, tries, out, result, unsaved>>

EvaluatorObjects(objections) ==
    /\ state' = [Record(Round("evaluator", "model", NoDraft, objections))
                    EXCEPT !.carried = objections]
    /\ pc' = "save"
    /\ UNCHANGED <<row, roundN, tries, out, result>>

\* No verdict came back: one free retry, then the draft is unreviewed.
NoVerdict ==
    IF tries + 1 < EvaluatorTries
    THEN tries' = tries + 1 /\ UNCHANGED <<row, pc, roundN, state, out, result>>
    ELSE EvaluatorObjects({Unreviewed})

EvaluateFailed ==
    /\ pc = "evaluate"
    /\ (PaidLoop \/ UNCHANGED <<used, unsaved>>)
    /\ NoVerdict

EvaluateTerminated ==
    /\ pc = "evaluate" /\ PaidLoop /\ AtCeiling
    /\ Stopped("terminated")

EvaluatePaused ==
    /\ pc = "evaluate" /\ PaidLoop /\ ~AtCeiling
    /\ Stopped("paused_on_budget")

EvaluatePasses ==
    /\ pc = "evaluate" /\ PaidLoop /\ ~AtCeiling
    /\ state' = Record(Round("evaluator", "model", NoDraft, {}))
    /\ Conclude(state.lastDraft, "passed", {})
    /\ UNCHANGED <<row, roundN, tries>>

EvaluateObjects ==
    /\ pc = "evaluate" /\ PaidLoop /\ ~AtCeiling
    /\ \/ \E objections \in (SUBSET Objections) \ {{}} :
            EvaluatorObjects(objections)
       \/ NoVerdict

\* Fault: one Round too many.
SaveOneMore ==
    /\ pc = "save"
    /\ saved' = [saved EXCEPT ![roundN] = state]
    /\ roundN' = roundN + 1 /\ tries' = 0 /\ unsaved' = FALSE
    /\ pc' = IF roundN <= MaxRounds THEN "propose" ELSE "settle"
    /\ UNCHANGED <<job, attempt, resumes, used, versions, state, out, result>>

\* The Round boundary: the state is saved as it stands, and the next Round or
\* the end of the ladder follows.
Save ==
    /\ pc = "save"
    /\ saved' = [saved EXCEPT ![roundN] = state]
    /\ roundN' = roundN + 1 /\ tries' = 0 /\ unsaved' = FALSE
    /\ pc' = IF roundN < MaxRounds THEN "propose" ELSE "settle"
    /\ UNCHANGED <<job, attempt, resumes, used, versions, state, out, result>>

\* Fault: after the last Round the draft is published whatever the code said.
SettleUnchecked ==
    /\ pc = "settle"
    /\ Conclude(state.lastDraft, "published_with_objections", state.carried)
    /\ UNCHANGED <<row, used, roundN, tries, state, unsaved>>

\* settleAfterMaxRounds().
Settle ==
    /\ pc = "settle"
    /\ IF state.lastCode # {}
       THEN Conclude(NoDraft, "rejected_by_code", state.lastCode)
       ELSE Conclude(state.lastDraft, "published_with_objections",
                     state.carried)
    /\ UNCHANGED <<row, used, roundN, tries, state, unsaved>>

-----------------------------------------------------------------------------
(* publishVersion() in one transaction, then finishJob().                  *)

Publish ==
    /\ pc = "publish"
    /\ versions' = Append(versions, [draft |-> out.draft,
                                     verdict |-> out.verdict,
                                     dissent |-> out.dissent,
                                     rounds |-> state.rounds])
    /\ Finish("done")
    /\ UNCHANGED <<job, attempt, resumes, saved, used, roundN, tries, state,
                   out, unsaved>>

\* finishJob(): the attempt is over and its memory goes with it.
FinishJob ==
    /\ pc = "finish"
    /\ job' = result
    /\ pc' = "idle" /\ state' = Fresh /\ out' = NoOutcome
    /\ UNCHANGED <<attempt, resumes, saved, used, versions, roundN, tries,
                   result, unsaved>>

\* A database call threw outside the model loop, and the catch of runOneJob()
\* writes `failed` -- over a version already published, if that is where.
Throws ==
    /\ \/ pc \in {"start", "validate", "save", "publish"}
       \/ pc = "finish" /\ result = "done"
    /\ Stopped("failed")
    /\ UNCHANGED <<used, unsaved>>

Crash ==
    /\ pc \notin {"idle", "gone"} /\ attempt < MaxAttempt
    /\ pc' = "gone" /\ state' = Fresh /\ out' = NoOutcome
    /\ UNCHANGED <<row, used, roundN, tries, result, unsaved>>

-----------------------------------------------------------------------------
(* The three ways back to the queue.                                       *)

PutBack == job' = "queued" /\ pc' = "idle"
           /\ UNCHANGED <<used, versions, roundN, tries, state, out, result,
                          unsaved>>

\* Fault: the requeued row does not say it was tried before.
SweepUncounted ==
    /\ pc = "gone"
    /\ PutBack /\ UNCHANGED <<attempt, resumes, saved>>

\* Fault: the sweep finds only Jobs that have a checkpoint.
SweepCheckpointed ==
    /\ pc = "gone" /\ LastSaved > 0
    /\ attempt' = attempt + 1
    /\ PutBack /\ UNCHANGED <<resumes, saved>>

\* requeueStaleJobs(): the checkpoints stand.
Sweep ==
    /\ pc = "gone"
    /\ attempt' = attempt + 1
    /\ PutBack /\ UNCHANGED <<resumes, saved>>

\* requeueJobs(): a stopped Job, or a stranded one, starts again from nothing.
Retry ==
    /\ job \in {"failed", "terminated"} \/ pc = "gone"
    /\ attempt < MaxAttempt
    /\ attempt' = attempt + 1
    /\ saved' = [n \in 1..MaxRounds |-> NoState]
    /\ PutBack /\ UNCHANGED resumes

\* Fault: Resume goes through requeueJobs() and loses the checkpoints.
ResumeRestarts ==
    /\ job = "paused_on_budget" /\ resumes < MaxResumes
    /\ resumes' = resumes + 1
    /\ saved' = [n \in 1..MaxRounds |-> NoState]
    /\ PutBack /\ UNCHANGED attempt

\* resumeRun(): only a paused Job, and the checkpoints stand.
Resume ==
    /\ job = "paused_on_budget" /\ resumes < MaxResumes
    /\ resumes' = resumes + 1
    /\ PutBack /\ UNCHANGED <<attempt, saved>>

-----------------------------------------------------------------------------
Propose == ProposeFailed \/ ProposeTerminated \/ ProposePaused \/ ProposeDone
Evaluate == EvaluateFailed \/ EvaluateTerminated \/ EvaluatePaused
            \/ EvaluatePasses \/ EvaluateObjects
LadderStep == StartPaused \/ Start \/ Propose \/ ValidateObjects
              \/ ValidatePasses \/ Evaluate \/ Save \/ Settle \/ Publish
              \/ FinishJob \/ Throws

Next == Claim \/ LadderStep \/ Crash \/ Sweep \/ Retry \/ Resume
Spec == Init /\ [][Next]_vars

\* The worker polls, its handler is awaited, and the sweep is periodic; nobody
\* has to press anything.
Fairness == WF_vars(Claim) /\ WF_vars(LadderStep) /\ WF_vars(Sweep)
FairSpec == Spec /\ Fairness
-----------------------------------------------------------------------------
(* Properties.                                                             *)

DraftsOf == {NoDraft} \cup
    ((0..MaxAttempt + MaxResumes) \X (1..MaxRounds) \X (0..FreeRetries))
Texts == Objections \cup Failed \cup {CodeObjection, Unreviewed}
RoundRows == [n : 1..MaxRounds, role : {"proposer", "evaluator"},
              source : {"model", "code"}, draft : DraftsOf,
              objection : SUBSET Texts]
IsRoundState(s) ==
    /\ DOMAIN s = {"rounds", "carried", "lastDraft", "lastCode"}
    /\ \A i \in DOMAIN s.rounds : s.rounds[i] \in RoundRows
    /\ s.carried \subseteq Texts /\ s.lastCode \subseteq {CodeObjection}
    /\ s.lastDraft \in DraftsOf

\* Every variable keeps its type, and a ladder past its last Round only settles.
TypeOK ==
    /\ job \in JobStates /\ pc \in Steps /\ result \in Rest
    /\ attempt \in 0..MaxAttempt /\ resumes \in 0..MaxResumes
    /\ used \in 0..Ceiling + 1 /\ unsaved \in BOOLEAN
    /\ \A n \in 1..MaxRounds : saved[n] = NoState \/ IsRoundState(saved[n])
    /\ IsRoundState(state)
    /\ roundN \in 0..MaxRounds + 1
    /\ pc \in {"propose", "validate", "evaluate", "save"} =>
            roundN \in 1..MaxRounds
    /\ tries \in 0..FreeRetries \cup 0..EvaluatorTries - 1
    /\ out.draft \in DraftsOf /\ out.verdict \in Verdicts
    /\ out.dissent \subseteq Texts
    /\ \A i \in DOMAIN versions : versions[i].draft \in DraftsOf \ {NoDraft}

\* Resume continues, it does not restart (rounds.ts:162): whatever stopped the
\* last attempt, the Round in flight is the one after the last boundary, and
\* what the ladder remembers is that boundary and this Round only.
BuildsOnBoundary ==
    pc \in {"propose", "validate", "evaluate", "save"} =>
        /\ roundN = LastSaved + 1
        /\ IsPrefix(Boundary.rounds, state.rounds)
        /\ \A i \in Len(Boundary.rounds) + 1..Len(state.rounds) :
                state.rounds[i].n = roundN

\* The index of the draft a list of Rounds ends on.
LastProposal(rounds) ==
    CHOOSE i \in DOMAIN rounds :
        /\ rounds[i].draft # NoDraft
        /\ \A k \in DOMAIN rounds : rounds[k].draft # NoDraft => k <= i

\* What is published is the last draft written, the code checks did not reject
\* it, and the evaluator's answer to that very draft is the outcome printed
\* beside it -- through free retries, resumes and restarts alike
\* (rounds.ts:84-97, 285-293).
PublishedWasReviewed ==
    \A v \in Range(versions) :
        LET i == LastProposal(v.rounds)
            answer == v.rounds[i + 1]
        IN  /\ v.rounds[i].draft = v.draft
            /\ answer.role = "evaluator" /\ answer.source = "model"
            /\ (answer.objection = {}) <=> (v.verdict = "passed")

\* A budget pause never makes a Job publish twice, a Job stopped short has not
\* published in that attempt, and `done` is a version somebody can read:
\* only a lost worker or a failed finishJob() can cost a second version.
OneVersionPerAttempt ==
    /\ Len(versions) <= attempt + 1
    /\ job \in {"terminated", "paused_on_budget"} => Len(versions) <= attempt
    /\ job = "done" => versions # <<>>

\* Completed Rounds survive (checkpoint.ts:15): a boundary, once written, is
\* never written again, and goes only when a Retry throws all of them away.
BoundariesStand ==
    [][\/ \A n \in 1..MaxRounds : saved[n] # NoState => saved'[n] = saved[n]
       \/ /\ job \in {"failed", "terminated", "running"} /\ job' = "queued"
          /\ \A n \in 1..MaxRounds : saved'[n] = NoState]_vars

\* A Job that was taken comes to rest or goes back to the queue: the ladder
\* cannot turn for ever, and a lost worker does not strand it.
AttemptsEnd == job = "running" ~> job # "running"

\* checkpoint.ts:8-10 and run-loop.ts:320 say the budget pauses at a Round
\* boundary only, so that no spend already made is discarded.
PausesAtABoundary == job = "paused_on_budget" => ~unsaved

\* stops.ts:26 and the Run page (sections.tsx:370) say a Job stopped at its
\* ceiling can be re-run: put back by Retry, it has a loop left to run.
RerunHasRoom ==
    [][job = "terminated" /\ job' = "queued" => used <= Ceiling]_vars

\* The Supplier and Recommendation pages print every stored objection as one
\* this version was published without resolving (supplier sections.tsx:337-361).
Printed(v) == UNION {v.rounds[i].objection : i \in DOMAIN v.rounds}
PrintedIsUnresolved ==
    \A v \in Range(versions) : v.verdict = "passed" => Printed(v) = {}
=============================================================================
