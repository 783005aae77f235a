------------------------------- MODULE Match --------------------------------
(***************************************************************************)
(* One Supplier's Match: the resolve Jobs that look for the company        *)
(* (src/jobs/resolve-job.ts, resolve.ts, resolve-round.ts), and the person *)
(* who settles it from a page (settle-by-hand.ts) or asks the chat to      *)
(* (tools/catalog/enqueues.ts), all through settleMatch().                 *)
(*                                                                         *)
(* An attempt is one runOneJob(); its job says whose.  Two attempts may be *)
(* of two Jobs, or of one Job that the sweep took for dead.  The world is  *)
(* what the providers would say, and does not change.  What a model says   *)
(* is a choice; what our code makes of it is not.  rungsUsed and match      *)
(* strength, which only a page reads, are left out.                        *)
(***************************************************************************)
EXTENDS Discriminators, SequencesExt, FiniteSetsExt

CONSTANTS
    Attempts,     \* runOneJob() calls on a resolve Job: the bound on a history
    Jobs,         \* resolve Jobs of this Supplier
    Entities,     \* companies a provider holds
    Worlds,       \* sequence of [roster, facts, prepass, search, alone]: what
                  \* there is; alone bounds the history to the first Job
    MaxRounds,    \* MAX_ROUNDS
    PrepassSize   \* PREPASS_CANDIDATES

ASSUME MatchBounds == MaxRounds \in Nat \ {0} /\ PrepassSize \in Nat
ASSUME NoneIsNobody == None \notin Entities
\* The ranked list is of companies, and a company's facts are its own.
ASSUME WorldsAssumption ==
    \A w \in DOMAIN Worlds :
        /\ Worlds[w].prepass \in Seq(Entities)
        /\ \A id \in Entities :
             LET c == Worlds[w].facts[id]
             IN  /\ c.id = id
                 /\ c.addresses \in Seq(ToSet(c.addresses))

VARIABLES
    world,     \* which of the Worlds this is
    store,     \* entities with a local row
    match,     \* the Supplier's match row, or NoMatch
    log,       \* its match_attempt rows with their candidates, by attempt_n
    jobs,      \* [Jobs -> the job row: state, how its Run was opened]
    saved,     \* [Jobs -> [1..MaxRounds -> a MatchLadder or NoLadder]]
    at,        \* [Attempts -> what the attempt holds in memory]
    person,    \* settleRowByHand() in progress
    enriches   \* enrich Jobs inserted, as [by, n, entity]: whose, when, for what

vars == <<world, store, match, log, jobs, saved, at, person, enriches>>
rows == <<store, match, log, enriches>>

-----------------------------------------------------------------------------
NoMatch == [status |-> "none"]
NoLadder == [found |-> {}]
NoPlan == [status |-> "none"]
JobStates == {"absent", "queued", "running", "done", "failed", "terminated",
              "paused_on_budget"}

\* An attempt that has not begun, and one that is over.
Idle == [job |-> None, pc |-> "idle", seen |-> {}, objection |-> FALSE,
         roundN |-> 0, plan |-> NoPlan, fresh |-> FALSE]
Over == [Idle EXCEPT !.pc = "over"]

Ids(seen) == {c.id : c \in seen}
Facts(id) == Worlds[world].facts[id]
Roster == Worlds[world].roster
Search == Worlds[world].search
Alone == Worlds[world].alone

\* gatherPrepassCandidates(): the first few of the ranked list.
Prepass ==
    LET ranked == Worlds[world].prepass
    IN  SubSeq(ranked, 1, IF Len(ranked) < PrepassSize THEN Len(ranked)
                          ELSE PrepassSize)

Init ==
    /\ world \in DOMAIN Worlds
    /\ store = {} /\ match = NoMatch /\ log = <<>>
    /\ \E j \in Jobs : jobs = [k \in Jobs |->
            [state |-> IF k = j THEN "queued" ELSE "absent",
             trigger |-> "pipeline"]]
    /\ saved = [j \in Jobs |-> [n \in 1..MaxRounds |-> NoLadder]]
    /\ at = [a \in Attempts |-> Idle]
    /\ person = [pc |-> "page", entity |-> None]
    /\ enriches = {}

-----------------------------------------------------------------------------
(* Settling: settleMatch() reads whether there is a row, then writes.      *)

\* What a settlement that examined no company knows of it.
NoEvidence == [lei |-> None, gleif |-> None, anchored |-> None]

\* deriveSettledCountry(): GLEIF's, then the anchored address's, then the
\* record's own.
SettledCountry(evidence, profile) ==
    IF evidence.lei # None /\ evidence.gleif # None
    THEN [country |-> evidence.gleif, source |-> "gleif"]
    ELSE IF evidence.anchored # None
    THEN [country |-> evidence.anchored, source |-> "matched_address"]
    ELSE [country |-> profile,
          source |-> IF profile = None THEN None ELSE "profile"]

\* Fault: the ladder is run again without the company's own name words.
EvidenceWithoutNames(id) ==
    LET c == Facts(id)
    IN  [lei |-> c.lei,
         gleif |-> IF c.gleif = None THEN None ELSE c.gleif.legalCountry,
         anchored |-> CompareAddresses(Roster, c.addresses, {}).at.country]

\* settledEvidenceFor(): the ladder is asked the same question again.
SettledEvidenceFor(id) ==
    LET c == Facts(id)
    IN  [lei |-> c.lei,
         gleif |-> IF c.gleif = None THEN None ELSE c.gleif.legalCountry,
         anchored |-> Anchored(Roster, c).at.country]

\* upsertMatchRow(): the row a settlement leaves, and its attempt.
MatchRow(p) ==
    LET settled == IF p.entity = None THEN [country |-> None, source |-> None]
                   ELSE SettledCountry(p.evidence, Facts(p.entity).country)
    IN  [status |-> p.status, entity |-> p.entity, by |-> p.by,
         country |-> settled.country, source |-> settled.source]

Append1(p) == Append(log, [by |-> p.by, status |-> p.status,
                           entity |-> p.entity, cands |-> p.cands])

\* The transaction, for a settlement that found fresh: no row of its own to
\* update.  Two first settlements collide on the row's key.
Settle(p, fresh) ==
    /\ ~(fresh /\ match # NoMatch)
    /\ p.entity = None \/ p.entity \in store
    /\ match' = MatchRow(p)
    /\ log' = Append1(p)

Collides(fresh) == fresh /\ match # NoMatch

\* sawCandidateInCountry().
SawInCountry(seen) ==
    IF Roster.country = None THEN seen # {}
    ELSE \E c \in seen : Facts(c.id).country = Roster.country

Plan(status, entity, by, seen, why) ==
    [status |-> status, entity |-> entity, by |-> by,
     evidence |-> IF entity = None THEN NoEvidence ELSE SettledEvidenceFor(entity),
     cands |-> seen, why |-> why]

\* settleNonConvergence().
Parked(seen, why) ==
    Plan(IF SawInCountry(seen) THEN "needs_review" ELSE "not_found",
         None, "agents", seen, why)

-----------------------------------------------------------------------------
(* A resolve Job up to its first Round.                                    *)

SetJob(j, s) == jobs' = [jobs EXCEPT ![j].state = s]

Claim(a, j) ==
    /\ at[a].pc = "idle" /\ jobs[j].state = "queued"
    /\ SetJob(j, "running")
    /\ at' = [at EXCEPT ![a] = [Idle EXCEPT !.job = j, !.pc = "gather"]]
    /\ UNCHANGED <<world, rows, saved, person>>

\* An attempt ends: finishJob() writes the row by its id, whoever holds it.
End(a, s) ==
    /\ SetJob(at[a].job, s)
    /\ at' = [at EXCEPT ![a] = Over]

\* A provider, the database or a tool threw.
Break(a) ==
    /\ at[a].pc \in {"gather", "round"}
    /\ End(a, "failed")
    /\ UNCHANGED <<world, rows, saved, person>>

\* absorbCandidates(): what is not held is fetched; what cannot be is skipped.
Absorb(seen, found, lost) ==
    seen \cup {c \in found : c.id \in Entities \ (lost \cup Ids(seen))}

LastSaved(j) ==
    LET kept == {n \in 1..MaxRounds : saved[j][n] # NoLadder}
    IN  IF kept = {} THEN 0 ELSE Max(kept)

\* runRoundLadder() picks up where the last Round ended.  A cached body that
\* was read once is read again.
Resume(me, found) ==
    LET n == LastSaved(me.job)
    IN  [me EXCEPT !.pc = "round", !.roundN = n + 1,
           !.objection = n > 0 /\ saved[me.job][n].objection,
           !.seen = IF n = 0 THEN found
                    ELSE Absorb(found, saved[me.job][n].found, {})]

\* Fault: a ladder that was saved after its last Round plays another.
NeverExhausted(ladder) == FALSE

Exhausted(ladder) == ladder.roundN > MaxRounds

\* runResolveJob(): the pre-pass, the gate's verdict, and then the ladder, that
\* may have no Round left to play.
Gather(a) ==
    LET found == {[id |-> id, rung |-> "R1"] : id \in ToSet(Prepass)}
        chosen == EvaluateAutoAccept(Roster, {Facts(id) : id \in Ids(found)})
        ladder == Resume(at[a], found)
    IN  /\ at[a].pc = "gather"
        /\ store' = store \cup IF chosen # None THEN Ids(found) ELSE Ids(ladder.seen)
        /\ at' = [at EXCEPT ![a] =
             IF chosen # None
             THEN [@ EXCEPT !.pc = "read",
                    !.plan = Plan("accepted", chosen, "rules", found, "")]
             ELSE IF Exhausted(ladder)
             THEN [@ EXCEPT !.pc = "read",
                    !.plan = Parked(ladder.seen, "")]
             ELSE ladder]
        /\ UNCHANGED <<world, match, log, enriches, jobs, saved, person>>

-----------------------------------------------------------------------------
(* A Round: a resolver, then a blind evaluator.                            *)

\* forMatchRound(): the rungs a Round offers.
RungsOffered(n) == IF n = 1 THEN {"R2"} ELSE {"R3a"}

\* What the tools of Round n may hand an agent that it was not shown.
Findable(n) == {id \in DOMAIN Search : Search[id] \in RungsOffered(n)}

\* entityIdsIn(): the rung that surfaced an id; a pick no rung returned was
\* shown by the pre-pass.
EntityIdsIn(found, picks) ==
    {[id |-> id, rung |-> Search[id]] : id \in found}
    \cup {[id |-> p, rung |-> "R1"] : p \in picks \ (found \cup {None})}

\* Fault: two agents that both found nothing leave no objection.
SilentObjection(r, e, agreed) == agreed # None \/ r # e

\* disagreementObjection(), and unheldPickObjection() before it: whether the
\* Round leaves something to answer.
Objection(r, e, agreed) ==
    \/ agreed # None
    \/ r = None /\ e = None
    \/ r # e

\* Fault: an agreed id is settled on though no candidate holds it.
HeldAnyway(agreed, seen) == agreed # None

\* An agreed id has to be a candidate this Job holds.
Held(agreed, seen) == agreed \in Ids(seen)

\* Fault: every candidate is saved with the highest rung the ladder climbed.
SaveHighestRung(objection, seen) ==
    LET climbed == {c.rung : c \in seen}
        top == IF "R3a" \in climbed THEN "R3a"
               ELSE IF "R2" \in climbed THEN "R2" ELSE "R1"
    IN  [objection |-> objection, found |-> {[c EXCEPT !.rung = top] : c \in seen}]

\* The Round boundary: a MatchLadder.
Boundary(objection, seen) == [objection |-> objection, found |-> seen]

\* r and e are what the agents submitted (None: no pick, or no submission),
\* found what the rungs returned, lost what could not be fetched, as an id a model made up cannot be.  A Round that
\* settled nothing is saved, and after the last one the Match is parked.
Round(a, r, e, found, lost, ceiling) ==
    LET me == at[a]
        seen == Absorb(me.seen, EntityIdsIn(found, {r, e}), lost)
        agreed == IF r = e THEN r ELSE None
        held == Held(agreed, seen)
        next == [me EXCEPT !.seen = seen, !.objection = Objection(r, e, agreed),
                           !.roundN = me.roundN + 1]
        parked == [me EXCEPT !.pc = "read", !.seen = {},
                     !.plan = Parked(seen, IF ceiling THEN "ceiling" ELSE "")]
    IN  /\ me.pc = "round"
        /\ store' = store \cup Ids(seen)
        /\ at' = [at EXCEPT ![a] =
             IF held
             THEN [me EXCEPT !.pc = "read", !.seen = {},
                     !.plan = Plan("accepted", agreed, "agents", seen, "")]
             ELSE IF ceiling \/ me.roundN = MaxRounds THEN parked ELSE next]
        /\ saved' = IF held \/ ceiling THEN saved
                    ELSE [saved EXCEPT ![me.job][me.roundN] =
                            Boundary(next.objection, seen)]
        /\ UNCHANGED <<world, match, log, enriches, jobs, person>>

SomeRound(a) ==
    LET known == Ids(at[a].seen) \cup Findable(at[a].roundN)
    IN  at[a].pc = "round" /\ \E r, e \in known \cup {None},
           found \in SUBSET Findable(at[a].roundN),
           ceiling \in BOOLEAN :
           \E lost \in SUBSET ((found \cup {r, e}) \ Ids(at[a].seen)) :
              Round(a, r, e, found, lost, ceiling)

\* raiseIfStopped(): the Run's budget was found spent after a turn.
Pause(a) ==
    /\ at[a].pc = "round"
    /\ End(a, "paused_on_budget")
    /\ UNCHANGED <<world, rows, saved, person>>

-----------------------------------------------------------------------------
(* Settling, chaining the enrichment and ending.                           *)

SettleRead(a) ==
    /\ at[a].pc = "read"
    /\ at' = [at EXCEPT ![a].pc = "write", ![a].fresh = match = NoMatch]
    /\ UNCHANGED <<world, rows, jobs, saved, person>>

SettleWrite(a) ==
    /\ at[a].pc = "write"
    /\ Settle(at[a].plan, at[a].fresh)
    /\ at' = [at EXCEPT ![a].pc = "chain"]
    /\ UNCHANGED <<world, store, enriches, jobs, saved, person>>

SettleCollides(a) ==
    /\ at[a].pc = "write" /\ Collides(at[a].fresh)
    /\ End(a, "failed")
    /\ UNCHANGED <<world, rows, saved, person>>

\* Fault: a parked Match is sent to enrichment too.
ChainAlways(a) ==
    /\ at[a].pc = "chain"
    /\ enriches' = enriches \cup
         IF jobs[at[a].job].trigger = "pipeline"
         THEN {[by |-> at[a].job, n |-> Len(log), entity |-> at[a].plan.entity]}
         ELSE {}
    /\ End(a, IF at[a].plan.why = "" THEN "done" ELSE "terminated")
    /\ UNCHANGED <<world, store, match, log, saved, person>>

\* chainNext(): an accepted Match of a pipeline Run is enriched.  JobQueue has
\* the crash between the chain and finishJob().
Chain(a) ==
    /\ at[a].pc = "chain"
    /\ enriches' = enriches \cup
         IF /\ at[a].plan.status = "accepted"
            /\ jobs[at[a].job].trigger = "pipeline"
         THEN {[by |-> at[a].job, n |-> Len(log), entity |-> at[a].plan.entity]}
         ELSE {}
    /\ End(a, IF at[a].plan.why = "" THEN "done" ELSE "terminated")
    /\ UNCHANGED <<world, store, match, log, saved, person>>

-----------------------------------------------------------------------------
(* The ways a Job comes, and comes back.                                   *)

\* startRun() opens another resolve Job while the Supplier has no Match.
OpenAnother(j) ==
    /\ ~Alone /\ jobs[j].state = "absent" /\ match = NoMatch
    /\ SetJob(j, "queued")
    /\ UNCHANGED <<world, rows, saved, at, person>>

\* resumeRun(), and requeueStaleJobs() that cannot tell a slow Job from a dead
\* one: the checkpoints are kept.
KeepAndRequeue(j) ==
    /\ jobs[j].state \in {"paused_on_budget", "running"}
    /\ SetJob(j, "queued")
    /\ UNCHANGED <<world, rows, saved, at, person>>

\* Retry, on the Run page: the checkpoints are dropped.
Retry(j) ==
    /\ jobs[j].state \in {"failed", "terminated"}
    /\ saved' = [saved EXCEPT ![j] = [n \in 1..MaxRounds |-> NoLadder]]
    /\ SetJob(j, "queued")
    /\ UNCHANGED <<world, rows, at, person>>

\* The worker dies with the attempt in hand.
Crash(a) ==
    /\ at[a].pc \notin {"idle", "over"}
    /\ at' = [at EXCEPT ![a] = Over]
    /\ UNCHANGED <<world, rows, jobs, saved, person>>

-----------------------------------------------------------------------------
(* A person settles it.                                                    *)

\* candidatesSeen(): every candidate of every attempt.
Offered == UNION {{c.id : c \in log[i].cands} : i \in DOMAIN log}

\* settleRowByHand(): a listed record, a typed one that is in the store, or
\* not found.  What it reads first can only grow until it writes.
PersonSettles ==
    /\ ~Alone /\ person.pc = "page" /\ match # NoMatch
    /\ \E id \in Offered \cup store \cup {None} :
         /\ Settle([status |-> IF id = None THEN "not_found" ELSE "accepted",
                    entity |-> id, by |-> "human",
                    evidence |-> NoEvidence, cands |-> {}], FALSE)
         /\ person' = [pc |-> "open", entity |-> id]
    /\ UNCHANGED <<world, store, enriches, jobs, saved, at>>

\* openRun() and enqueueJob(), after the settlement has committed.
PersonOpens ==
    /\ person.pc = "open"
    /\ enriches' = enriches \cup
         IF person.entity = None THEN {}
         ELSE {[by |-> "human", n |-> Len(log), entity |-> person.entity]}
    /\ person' = [pc |-> "done", entity |-> None]
    /\ UNCHANGED <<world, store, match, log, jobs, saved, at>>

\* The page's process dies between the two: settled, and not enriched.
PersonLost ==
    /\ person.pc = "open"
    /\ person' = [pc |-> "done", entity |-> None]
    /\ UNCHANGED <<world, rows, jobs, saved, at>>

\* enqueue_match_settlement: a Run of trigger settlement with a resolve Job.
\* The company the person confirmed is not written anywhere.
ChatSettles(j) ==
    /\ ~Alone /\ jobs[j].state = "absent" /\ match # NoMatch
    /\ jobs' = [jobs EXCEPT ![j] =
         [state |-> "queued", trigger |-> "settlement"]]
    /\ UNCHANGED <<world, rows, saved, at, person>>

-----------------------------------------------------------------------------
Attempt(a) ==
    \/ \E j \in Jobs : Claim(a, j)
    \/ Gather(a) \/ SomeRound(a) \/ Pause(a)
    \/ SettleRead(a) \/ SettleWrite(a) \/ SettleCollides(a)
    \/ Chain(a) \/ Break(a) \/ Crash(a)

Next ==
    \/ \E a \in Attempts : Attempt(a)
    \/ \E j \in Jobs : \/ OpenAnother(j) \/ KeepAndRequeue(j) \/ Retry(j) \/ ChatSettles(j)
    \/ PersonSettles \/ PersonOpens \/ PersonLost

Spec == Init /\ [][Next]_vars

-----------------------------------------------------------------------------
\* Every variable has its type.
TypeOK ==
    /\ world \in DOMAIN Worlds
    /\ store \subseteq Entities
    /\ match.status = "accepted" => match.entity \in store
    /\ match = NoMatch \/ match.by \in {"rules", "agents", "human"}
    /\ \A i \in DOMAIN log :
         /\ log[i].status \in {"accepted", "needs_review", "not_found"}
         /\ log[i].entity \in Entities \cup {None}
    /\ \A j \in Jobs : jobs[j].state \in JobStates
    /\ \A j \in Jobs, n \in 1..MaxRounds :
         Ids(saved[j][n].found) \subseteq Entities
    /\ \A a \in Attempts : /\ at[a].job \in Jobs \cup {None}
                            /\ at[a].roundN \in 0..MaxRounds
    /\ person.pc \in {"page", "open", "done"}

\* A company that rules or agents settle on is a candidate of the attempt that
\* settled it: a model's word alone never binds one, over any number of
\* Rounds, restarts and companies that could not be fetched.
AcceptedWasExamined ==
    \A i \in DOMAIN log :
        log[i].status = "accepted" /\ log[i].by # "human" =>
            log[i].entity \in {c.id : c \in log[i].cands}

\* No Round after the first is argued against nothing: the objection of the
\* Round before reaches it, also through a checkpoint and another worker.
EveryRoundIsArgued ==
    \A a \in Attempts :
        at[a].pc = "round" /\ at[a].roundN > 1 => at[a].objection

\* A candidate is reported with the rung that surfaced it, and not with the
\* highest the ladder had climbed when it was saved or resumed.
RungIsTheCandidates ==
    \A i \in DOMAIN log : \A c \in log[i].cands :
        /\ c.id \in ToSet(Prepass) => c.rung = "R1"
        /\ c.rung = "R1" \/ c.rung = Search[c.id]

\* A company whose country agreed with the roster's is scored in that country,
\* unless GLEIF says otherwise: the settlement asks the address ladder again
\* and has to get the answer the Discriminators got.
ScoredWhereItMatched ==
    log # <<>> /\ match.entity # None /\ match.by # "human" /\ match.source # "gleif" =>
        (RunDiscriminators(Roster, Facts(match.entity))["country"] = "pass" =>
            match.country = Roster.country)

\* What a settlement says of its company is what the attempt that settled it
\* had read of it: the company, the rung and the country (settleMatch()).
SettledAsExamined == AcceptedWasExamined /\ RungIsTheCandidates /\ ScoredWhereItMatched

\* The enrich Jobs of a Supplier are of companies that were accepted: each
\* was inserted when the history held an acceptance of its company.
EnrichFollowsAcceptance ==
    \A e \in enriches : \E i \in 1..e.n :
        log[i].status = "accepted" /\ log[i].entity = e.entity

\* As the comment over the settlement tool has it: it enqueues the same Job the
\* page's button does, and no resolver Round.  No attempt of such a Run plays one.
ChatPlaysNoRound ==
    \A a \in Attempts :
        at[a].pc = "round" => jobs[at[a].job].trigger # "settlement"

=============================================================================
