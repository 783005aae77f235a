------------------------------- MODULE Answers -------------------------------
(* What a page says before anything else (src/domain/*-answer.ts), out of   *)
(* the rows its query reads (src/db/queries/*-page.ts, runs.ts).            *)
(*                                                                          *)
(* An answer is its tone and the sentence it says, as a label.  A           *)
(* recommendation version is [n, outcome, mark], a match is a status or     *)
(* "none", a Job is [kind, state, started, subject, ours].                  *)
EXTENDS Integers, FiniteSets, Sequences, SequencesExt

Answer(tone, said) == [tone |-> tone, said |-> said]
NoAnswer == Answer("none", "none")
NoVersion == [n |-> 0, outcome |-> "none", mark |-> "none"]
NoScore == -1

----------------------------------------------------------------------------
(* Versions are read newest first.                                          *)

LatestVersion(versions) == IF versions = <<>> THEN NoVersion ELSE Head(versions)        \* fault, and the Program page
VersionToShowFrom(versions) ==
    LET accepted == SelectSeq(versions, LAMBDA v : v.mark = "accepted") IN
    IF accepted # <<>> THEN Head(accepted) ELSE LatestVersion(versions)

(* A version asked for by number wins; an unknown number falls back.        *)
LoadRecommendationPage(versions, asked) ==
    LET shown == VersionToShowFrom(versions)
        named == SelectSeq(versions, LAMBDA v : v.n = asked)
        version == IF named # <<>> THEN Head(named) ELSE shown
    IN [version |-> version, latest |-> LatestVersion(versions),
        newer |-> Cardinality({i \in DOMAIN versions : versions[i].n > version.n}),
        pinned |-> version.n # shown.n]

(* The concentration shown beside a condition: the award's own path to each *)
(* second source that has one.  A pick is [role, entity], a path [root, to].*)
LoadConcentrationPaths(picks, paths) ==
    LET award == SelectSeq(picks, LAMBDA p : p.role = "award") IN
    IF award = <<>> \/ Head(award).entity = "none" THEN {}
    ELSE {path \in paths :
            /\ path.root = Head(award).entity
            /\ \E i \in DOMAIN picks : picks[i].role = "second_source" /\ picks[i].entity = path.to}

(* The strip over the argument.                                             *)
PinnedVersionStrip(default) == IF default.mark = "accepted" THEN "another is accepted" ELSE "another is latest"
PinnedOnly(page, versions) ==                                                       \* fault
    IF page.pinned THEN PinnedVersionStrip(VersionToShowFrom(versions)) ELSE "none"
NewerVersionStrip(page) ==
    CASE page.newer = 1 -> "a newer version" [] page.newer > 1 -> "newer versions" [] OTHER -> "none"
VersionStrip(page, versions) ==
    IF page.pinned THEN PinnedVersionStrip(VersionToShowFrom(versions)) ELSE NewerVersionStrip(page)

MarkTone(mark) ==
    CASE mark = "accepted" -> "good" [] mark = "rejected" -> "bad" [] mark = "needs_work" -> "warn" [] OTHER -> "mute"
MarkHeader(version) ==
    [tone |-> MarkTone(version.mark),
     badge |-> IF version.mark = "none" THEN "unmarked" ELSE version.mark]

----------------------------------------------------------------------------
(* The Category page: who leads, and whether anybody argued for it.  A      *)
(* ranked row is [score (in tenths), disqualifying], best first.            *)

NarrowLead == 20
LeadAnswer(ranked) ==
    LET scored == SelectSeq(ranked, LAMBDA r : r.score # NoScore) IN
    CASE scored = <<>> -> Answer("neutral", "nothing ranked")
      [] scored # <<>> /\ scored[1].disqualifying -> Answer("stop", "leader ruled out")
      [] Len(scored) = 1 /\ ~scored[1].disqualifying -> Answer("ok", "only one scored")
      [] Len(scored) > 1 /\ ~scored[1].disqualifying /\ scored[1].score - scored[2].score <= NarrowLead ->
            Answer("you", "narrow lead")
      [] OTHER -> Answer("ok", "clear lead")

(* A person's mark outranks the reviewer's outcome.                         *)
MarkedAnswer(mark) ==
    CASE mark = "accepted" -> Answer("ok", "accepted")
      [] mark = "rejected" -> Answer("you", "rejected")
      [] OTHER -> Answer("you", "needs work")
RecommendationAnswer(ranked, version) ==
    CASE \A i \in DOMAIN ranked : ranked[i].score = NoScore -> NoAnswer
      [] (\E i \in DOMAIN ranked : ranked[i].score # NoScore) /\ version = NoVersion -> Answer("stop", "nobody wrote one")
      [] (\E i \in DOMAIN ranked : ranked[i].score # NoScore) /\ version.mark # "none" -> MarkedAnswer(version.mark)
      [] OTHER -> IF version.outcome = "published_with_objections"
                  THEN Answer("you", "over an objection") ELSE Answer("ok", "a second read agreed")
CategoryAnswer(ranked, version) ==
    SelectSeq(<<LeadAnswer(ranked), RecommendationAnswer(ranked, version)>>, LAMBDA a : a # NoAnswer)

LoadCategoryPage(ranked, versions) ==
    LET version == VersionToShowFrom(versions) IN [version |-> version, answers |-> CategoryAnswer(ranked, version)]

----------------------------------------------------------------------------
(* The Supplier page, whose identity outranks every finding under it.       *)
(* s = [match, verdict, outcome, score, absent]; outcome "none" is no       *)
(* published Assessment.                                                    *)

IdentityAnswer(s) ==
    CASE s.match = "none" -> Answer("neutral", "nobody looked")
      [] s.match = "not_found" -> Answer("stop", "not found")
      [] s.match = "needs_review" -> Answer("you", "choose the company")
      [] OTHER -> NoAnswer
AssessmentAnswer(s) ==
    CASE s.outcome = "none" -> NoAnswer
      [] s.outcome = "published_with_objections" -> Answer("you", "over an objection")
      [] s.outcome = "passed" /\ s.verdict = "do_not_shortlist" -> Answer("stop", "do not shortlist")
      [] s.outcome = "passed" /\ s.verdict = "escalate" -> Answer("you", "escalate")
      [] s.outcome = "passed" /\ s.verdict \in {"recommend", "recommend_with_conditions"} -> Answer("ok", "take forward")
      [] OTHER -> NoAnswer
MissingScoreAnswer(s) ==
    IF s.score # NoScore THEN NoAnswer
    ELSE IF s.absent = "no_category" THEN Answer("neutral", "no category") ELSE Answer("neutral", "nothing fetched")
FindingsFirst(s) == SelectSeq(<<AssessmentAnswer(s), IdentityAnswer(s), MissingScoreAnswer(s)>>, LAMBDA a : a # NoAnswer)     \* fault
InOrder(s) == SelectSeq(<<IdentityAnswer(s), AssessmentAnswer(s), MissingScoreAnswer(s)>>, LAMBDA a : a # NoAnswer)
SupplierAnswer(s) == IF InOrder(s) = <<>> THEN Answer("neutral", "not written up") ELSE Head(InOrder(s))

----------------------------------------------------------------------------
(* The Program page.  A supplier here is [match, values, assessed].         *)

Waiting(suppliers) == {s \in DOMAIN suppliers : suppliers[s].match = "needs_review"}

(* What the roster still needs, as the panel counts it ...                  *)
RosterWork(suppliers) ==
    LET count(Test(_)) == Len(SelectSeq(suppliers, Test)) IN
    [unresolved |-> count(LAMBDA s : s.match = "none"),
     unenriched |-> count(LAMBDA s : s.match = "accepted" /\ ~s.values),
     unassessed |-> count(LAMBDA s : s.values /\ ~s.assessed)]

(* ... and as its buttons queue it.                                         *)
Unresolved(suppliers) == {s \in DOMAIN suppliers : suppliers[s].match = "none"}
EveryMatched(suppliers, stage) ==                                                   \* fault
    IF stage = "enrich" THEN {s \in DOMAIN suppliers : suppliers[s].match = "accepted"}
    ELSE {s \in DOMAIN suppliers : suppliers[s].values /\ ~suppliers[s].assessed}
SuppliersNeeding(suppliers, stage) ==
    IF stage = "enrich" THEN {s \in DOMAIN suppliers : suppliers[s].match = "accepted" /\ ~suppliers[s].values}
    ELSE {s \in DOMAIN suppliers : suppliers[s].values /\ ~suppliers[s].assessed}

(* The award of each Category that has a version, by the latest of them.    *)
CategoryRecommendations(versionsOf) ==
    [c \in {x \in DOMAIN versionsOf : versionsOf[x] # <<>>} |-> LatestVersion(versionsOf[c])]

Progress(recommended, total) ==
    CASE recommended = 0 -> Answer("neutral", "no category yet")
      [] recommended > 0 /\ recommended < total -> Answer("neutral", "some categories")
      [] OTHER -> Answer("ok", "every category")
ProgramAnswer(workerUp, running, waiting, recommended, total) ==
    LET urgent == (IF ~workerUp THEN <<Answer("stop", "nothing is running")>>
                   ELSE IF running THEN <<Answer("neutral", "a run is running")>> ELSE <<>>)
                  \o (IF waiting > 0 THEN <<Answer("you", "waiting on you")>> ELSE <<>>)
    IN IF urgent = <<>> THEN <<Progress(recommended, total)>> ELSE urgent

----------------------------------------------------------------------------
(* The Runs page and the Run page.                                          *)

InState(jobs, states) == {i \in DOMAIN jobs : jobs[i].state \in states}
ActiveIsRunning(jobs) ==                                                            \* fault
    [total |-> Len(jobs),
     settled |-> Len(jobs) - Cardinality(InState(jobs, {"queued", "running"})),
     active |-> InState(jobs, {"running"}) # {}]
RunProgress(jobs) ==
    [total |-> Len(jobs),
     settled |-> Len(jobs) - Cardinality(InState(jobs, {"queued", "running"})),
     active |-> InState(jobs, {"queued", "running"}) # {}]
RunPhases(jobs) ==
    [k \in {jobs[i].kind : i \in DOMAIN jobs} |-> RunProgress(SelectSeq(jobs, LAMBDA j : j.kind = k))]
LoadRuns(jobs) ==
    [jobCount |-> Len(jobs), terminated |-> Cardinality(InState(jobs, {"terminated"})),
     failed |-> Cardinality(InState(jobs, {"failed"}))]
ActiveRun(runs) ==
    LET moving == {i \in DOMAIN runs : InState(runs[i], {"queued", "running"}) # {}} IN
    {i \in moving : \A j \in moving : i <= j}

(* The run with most left undone, and what our own checks refused.          *)
NeverStarted(jobs) == Cardinality(InState(jobs, {"cancelled", "queued"}))
RefusedByOurChecks(jobs) == {i \in DOMAIN jobs : jobs[i].state = "failed" /\ jobs[i].ours}
RunsAnswer(runs) ==
    LET abandoned == {i \in DOMAIN runs : NeverStarted(runs[i]) > 0}
        news == (IF abandoned # {} THEN <<Answer("stop", "stopped part way")>> ELSE <<>>)
                \o (IF \E i \in DOMAIN runs : RefusedByOurChecks(runs[i]) # {}
                    THEN <<Answer("you", "refused by our checks")>> ELSE <<>>)
    IN CASE news # <<>> -> news
         [] news = <<>> /\ runs = <<>> -> <<Answer("neutral", "nothing run")>>
         [] OTHER -> <<Answer("ok", "everything finished")>>

(* Seen within five minutes; stranded after thirty with no worker seen.     *)
WorkerSeemsUp(jobs, now) ==
    \E i \in DOMAIN jobs : jobs[i].started # NoScore /\ now - jobs[i].started < 5
StrandedAfter == 30
RetryableJobs(jobs, workerUp, now) ==
    {i \in DOMAIN jobs :
        \/ jobs[i].state \in {"failed", "terminated"}
        \/ /\ jobs[i].state = "running" /\ ~workerUp /\ jobs[i].started # NoScore
           /\ now - jobs[i].started > StrandedAfter}

----------------------------------------------------------------------------
(* The Program page is shaped from one read of it all.                      *)

LoadProgramPage(suppliers, versionsOf, runs, now) ==
    LET awards == CategoryRecommendations(versionsOf)
        jobs == FoldLeft(LAMBDA all, run : all \o run, <<>>, runs)
    IN [work |-> RosterWork(suppliers), waiting |-> Cardinality(Waiting(suppliers)), awards |-> awards,
        answers |-> ProgramAnswer(WorkerSeemsUp(jobs, now), ActiveRun(runs) # {}, Cardinality(Waiting(suppliers)),
                                  Cardinality(DOMAIN awards), Cardinality(DOMAIN versionsOf))]
=============================================================================
