--------------------------- MODULE RoundLoopProofs ---------------------------
(***************************************************************************)
(* What holds of one ladder for every number of Rounds, free retries,      *)
(* pauses, crashes and objections: its types, that an attempt builds on    *)
(* the last boundary, that boundaries stand, that what is published was    *)
(* reviewed, and what an attempt may publish.                              *)
(***************************************************************************)
EXTENDS RoundLoop, SequenceTheorems, TLAPS

InRound == {"propose", "validate", "evaluate", "save"}
Ladder == InRound \cup {"start", "settle", "publish"}

RoundStates == [rounds : Seq(RoundRows), carried : SUBSET Texts,
                lastDraft : DraftsOf, lastCode : SUBSET {CodeObjection}]
Outs == [draft : DraftsOf, verdict : Verdicts, dissent : SUBSET Texts]
VersionRows == [draft : DraftsOf \ {NoDraft}, verdict : Verdicts,
                dissent : SUBSET Texts, rounds : Seq(RoundRows)]

-----------------------------------------------------------------------------
(* The inductive invariant, by parts.                                      *)

\* The row and the attempt: one is running exactly while the other is under
\* way, and a lost attempt may still be counted.
RowTyped ==
    /\ job \in JobStates /\ pc \in Steps /\ result \in Rest
    /\ attempt \in 0..MaxAttempt /\ resumes \in 0..MaxResumes
    /\ pc = "idle" <=> job # "running"
    /\ pc = "gone" => attempt < MaxAttempt

Metered == used \in 0..Ceiling + 1 /\ unsaved \in BOOLEAN

\* The memory of the ladder.
MemoryTyped ==
    /\ state \in RoundStates
    /\ roundN \in 0..MaxRounds + 1
    /\ pc \in InRound => roundN \in 1..MaxRounds
    /\ tries \in 0..FreeRetries \cup 0..EvaluatorTries - 1
    /\ pc = "propose" => tries \in 0..FreeRetries
    /\ out \in Outs
    /\ pc = "publish" => out.draft # NoDraft

\* Boundaries are saved in order: the Rounds that have one are 1..k.
SavedUpTo(k) == \A n \in 1..MaxRounds : saved[n] # NoState <=> n <= k
SavedTyped ==
    /\ saved \in [1..MaxRounds -> RoundStates \cup {NoState}]
    /\ \E k \in 0..MaxRounds : SavedUpTo(k)

Types == RowTyped /\ Metered /\ MemoryTyped /\ SavedTyped
         /\ versions \in Seq(VersionRows)

\* The Round in flight is the one after the last boundary, and what it has
\* added to that boundary is of this Round.
OnBoundary ==
    pc \in InRound =>
        /\ SavedUpTo(roundN - 1)
        /\ Len(Boundary.rounds) <= Len(state.rounds)
        /\ \A i \in 1..Len(Boundary.rounds) : state.rounds[i] = Boundary.rounds[i]
        /\ \A i \in Len(Boundary.rounds) + 1..Len(state.rounds) :
                state.rounds[i].n = roundN

\* The last draft of a list of Rounds is at i.
DraftAt(rounds, draft, i) ==
    /\ i \in 1..Len(rounds)
    /\ rounds[i].draft = draft
    /\ \A k \in i + 1..Len(rounds) : rounds[k].draft = NoDraft

\* The evaluator answered the last draft, and passed it or did not.
AnsweredAt(rounds, draft, passed, i) ==
    /\ DraftAt(rounds, draft, i)
    /\ i + 1 <= Len(rounds)
    /\ rounds[i + 1].role = "evaluator" /\ rounds[i + 1].source = "model"
    /\ rounds[i + 1].objection = {} <=> passed
Answered(rounds, draft, passed) ==
    \E i \in 1..Len(rounds) : AnsweredAt(rounds, draft, passed, i)

\* A draft our code has nothing against has been objected to by the evaluator,
\* wherever the ladder goes on with it or ends.
Argued(s) == s.lastDraft # NoDraft /\ s.lastCode = {} => Answered(s.rounds, s.lastDraft, FALSE)

Reviewed ==
    /\ \A n \in 1..MaxRounds : saved[n] # NoState => Argued(saved[n])
    /\ pc \in {"propose", "save", "settle"} => Argued(state)
    /\ pc \in {"validate", "evaluate"} =>
            /\ state.lastDraft # NoDraft
            /\ DraftAt(state.rounds, state.lastDraft, Len(state.rounds))
    /\ pc = "publish" => Answered(state.rounds, out.draft, out.verdict = "passed")
    /\ \A i \in 1..Len(versions) :
            Answered(versions[i].rounds, versions[i].draft, versions[i].verdict = "passed")

\* An attempt that is not past its publication has not published.
Counted ==
    /\ Len(versions) <= attempt + 1
    /\ job \in {"queued", "terminated", "paused_on_budget"} => Len(versions) <= attempt
    /\ pc \in Ladder => Len(versions) <= attempt
    /\ pc = "finish" /\ result \in {"terminated", "paused_on_budget"} => Len(versions) <= attempt
    /\ pc = "finish" /\ result = "done" => versions # <<>>
    /\ job = "done" => versions # <<>>

-----------------------------------------------------------------------------
(* Facts about the operators.                                              *)

\* A row of the table that was never written is no state of the ladder.
LEMMA NoStateIsNone == NoState \notin RoundStates
<1>1. NoState.lastDraft = <<0>>
  BY DEF NoState, Fresh
<1>2. <<0>> \notin DraftsOf
  BY DEF DraftsOf, NoDraft
<1> QED
  BY <1>1, <1>2 DEF RoundStates

\* A ladder begins with no Round and no draft.
LEMMA FreshTyped == Fresh \in RoundStates /\ Fresh.rounds = <<>> /\ Fresh.lastDraft = NoDraft
  BY DEF Fresh, RoundStates, DraftsOf, NoDraft

\* And with no outcome.
LEMMA NoOutcomeTyped == NoOutcome \in Outs
  BY DEF NoOutcome, Outs, DraftsOf, Verdicts

\* What our code writes is a text.
LEMMA CodeTexts == {CodeObjection, Unreviewed} \cup Failed \subseteq Texts
  BY DEF Texts

\* A draft says where it was written.
LEMMA DraftTyped ==
  ASSUME attempt \in 0..MaxAttempt, resumes \in 0..MaxResumes,
         roundN \in 1..MaxRounds, tries \in 0..FreeRetries
  PROVE  Draft \in DraftsOf /\ Draft # NoDraft
  BY LadderNat, LadderBounds DEF Draft, DraftsOf, NoDraft

\* loadRoundCheckpoint() finds the last of the boundaries.
LEMMA LastSavedIs ==
  ASSUME NEW k \in 0..MaxRounds, SavedUpTo(k)
  PROVE  LastSaved = k /\ Boundary = IF k = 0 THEN Fresh ELSE saved[k]
<1>1. \A n \in 0..MaxRounds :
        (/\ n = 0 \/ saved[n] # NoState
         /\ \A m \in 1..MaxRounds : saved[m] # NoState => m <= n) <=> n = k
  BY LadderNat DEF SavedUpTo
<1>2. LastSaved = k
  BY <1>1 DEF LastSaved
<1> QED
  BY <1>2 DEF Boundary

\* The same, of the table a step leaves.
LEMMA LastSavedNext ==
  ASSUME NEW k \in 0..MaxRounds, SavedUpTo(k)'
  PROVE  LastSaved' = k /\ Boundary' = IF k = 0 THEN Fresh ELSE saved'[k]
<1>1. \A n \in 0..MaxRounds :
        (/\ n = 0 \/ saved'[n] # NoState
         /\ \A m \in 1..MaxRounds : saved'[m] # NoState => m <= n) <=> n = k
  BY LadderNat DEF SavedUpTo
<1>2. LastSaved' = k
  BY <1>1 DEF LastSaved
<1> QED
  BY <1>2 DEF Boundary

\* What a new attempt starts from.
LEMMA BoundaryTyped ==
  ASSUME SavedTyped
  PROVE  LastSaved \in 0..MaxRounds /\ SavedUpTo(LastSaved) /\ Boundary \in RoundStates
<1>1. PICK k \in 0..MaxRounds : SavedUpTo(k)
  BY DEF SavedTyped
<1>2. LastSaved = k /\ Boundary = IF k = 0 THEN Fresh ELSE saved[k]
  BY <1>1, LastSavedIs
<1>3. k # 0 => saved[k] \in RoundStates
  BY <1>1, LadderNat DEF SavedUpTo, SavedTyped
<1> QED
  BY <1>1, <1>2, <1>3, FreshTyped

\* A Round that is recorded joins the end of the list, and nothing else of
\* the state moves.
LEMMA RecordIs ==
  ASSUME state \in RoundStates, NEW entry \in RoundRows
  PROVE  /\ Record(entry) \in RoundStates
         /\ Record(entry) = [state EXCEPT !.rounds = Append(state.rounds, entry)]
         /\ Len(Record(entry).rounds) = Len(state.rounds) + 1
         /\ Record(entry).rounds[Len(state.rounds) + 1] = entry
         /\ \A i \in 1..Len(state.rounds) : Record(entry).rounds[i] = state.rounds[i]
         /\ Record(entry).lastDraft = state.lastDraft
         /\ Record(entry).lastCode = state.lastCode /\ Record(entry).carried = state.carried
<1>1. state.rounds \in Seq(RoundRows)
  BY DEF RoundStates
<1>2. /\ Append(state.rounds, entry) \in Seq(RoundRows)
      /\ Len(Append(state.rounds, entry)) = Len(state.rounds) + 1
      /\ Append(state.rounds, entry)[Len(state.rounds) + 1] = entry
      /\ \A i \in 1..Len(state.rounds) : Append(state.rounds, entry)[i] = state.rounds[i]
  BY <1>1, AppendProperties
<1> DEFINE rounds == Append(state.rounds, entry)
<1>3. Record(entry) = [state EXCEPT !.rounds = rounds]
  BY DEF Record
<1> HIDE DEF rounds
<1>4. /\ Record(entry) \in RoundStates /\ Record(entry).rounds = rounds
      /\ Record(entry).lastDraft = state.lastDraft
      /\ Record(entry).lastCode = state.lastCode /\ Record(entry).carried = state.carried
  BY <1>2, <1>3 DEF RoundStates, rounds
<1> QED
  BY <1>2, <1>3, <1>4 DEF rounds

\* A row says what it is given, and its Round.
LEMMA RoundTyped ==
  ASSUME roundN \in 1..MaxRounds, NEW role \in {"proposer", "evaluator"},
         NEW source \in {"model", "code"}, NEW draft \in DraftsOf, NEW objection \in SUBSET Texts
  PROVE  /\ Round(role, source, draft, objection) \in RoundRows
         /\ Round(role, source, draft, objection).n = roundN
         /\ Round(role, source, draft, objection).role = role
         /\ Round(role, source, draft, objection).source = source
         /\ Round(role, source, draft, objection).draft = draft
         /\ Round(role, source, draft, objection).objection = objection
  BY DEF Round, RoundRows

-----------------------------------------------------------------------------
(* What a step of the ladder does, whichever action it is of: a model loop *)
(* is metered, and it brings a draft, an answer, or nothing.               *)

Halts == /\ pc \in {"start", "propose", "evaluate"}
         /\ \E s \in {"terminated", "paused_on_budget"} : Stopped(s)
BringsNothing == pc = "propose" /\ \E why \in Failed : NoDraftFrom(why)
BringsDraft == pc = "propose" /\ DraftSubmitted
Objects == pc = "evaluate" /\ \E objections \in (SUBSET Texts) \ {{}} : EvaluatorObjects(objections)
AsksAgain == /\ pc = "evaluate" /\ tries + 1 < EvaluatorTries /\ tries' = tries + 1
             /\ UNCHANGED <<row, pc, roundN, state, out, result>>

Moves ==
    \/ Claim \/ Start \/ ValidateObjects \/ ValidatePasses \/ EvaluatePasses \/ Save \/ Settle
    \/ Publish \/ FinishJob \/ Throws \/ Crash \/ Sweep \/ Retry \/ Resume
    \/ Halts \/ BringsNothing \/ BringsDraft \/ Objects \/ AsksAgain

\* A missing verdict is asked for again, or becomes an objection.
LEMMA NoVerdictMoves == pc = "evaluate" /\ NoVerdict => AsksAgain \/ Objects
<1> SUFFICES ASSUME pc = "evaluate", NoVerdict PROVE AsksAgain \/ Objects
  OBVIOUS
<1>1. CASE tries + 1 < EvaluatorTries
  BY <1>1 DEF NoVerdict, AsksAgain
<1>2. CASE ~(tries + 1 < EvaluatorTries)
  <2>1. {Unreviewed} \in (SUBSET Texts) \ {{}}
    BY CodeTexts
  <2>2. EvaluatorObjects({Unreviewed})
    BY <1>2 DEF NoVerdict
  <2> QED
    BY <2>1, <2>2 DEF Objects
<1> QED
  BY <1>1, <1>2

\* Every action is one of these moves.
LEMMA NextMoves == Next => Moves
<1>1. Propose => Halts \/ BringsNothing \/ BringsDraft
  <2>1. ProposeFailed => BringsNothing
    BY DEF ProposeFailed, BringsNothing, Failed
  <2>2. ProposeTerminated => Halts \/ BringsDraft
    BY DEF ProposeTerminated, Halts, BringsDraft
  <2>3. ProposePaused => Halts
    BY DEF ProposePaused, Halts
  <2>4. ProposeDone => BringsDraft \/ BringsNothing
    BY DEF ProposeDone, BringsDraft, BringsNothing, Failed
  <2> QED
    BY <2>1, <2>2, <2>3, <2>4 DEF Propose
<1>2. Evaluate => Halts \/ EvaluatePasses \/ Objects \/ AsksAgain
  <2>1. EvaluateFailed => Objects \/ AsksAgain
    BY NoVerdictMoves DEF EvaluateFailed
  <2>2. EvaluateTerminated => Halts
    BY DEF EvaluateTerminated, Halts
  <2>3. EvaluatePaused => Halts
    BY DEF EvaluatePaused, Halts
  <2>4. EvaluateObjects => Objects \/ AsksAgain
    BY NoVerdictMoves DEF EvaluateObjects, Objects, Texts
  <2> QED
    BY <2>1, <2>2, <2>3, <2>4 DEF Evaluate
<1>3. StartPaused => Halts
  BY DEF StartPaused, Halts
<1> QED
  BY <1>1, <1>2, <1>3 DEF Next, LadderStep, Moves

\* What a step spends: nothing, or one loop.
LEMMA MeterStep ==
  ASSUME Metered, [Next]_vars
  PROVE  Metered'
<1>1. Count(used + 1) \in 0..Ceiling + 1
  BY LadderNat DEF Count, Metered
<1>2. PaidLoop => Metered'
  BY <1>1 DEF PaidLoop, Metered
<1>3. UNCHANGED used /\ unsaved' \in {unsaved, FALSE} => Metered'
  BY DEF Metered
<1>4. Propose => Metered'
  BY <1>2, <1>3 DEF Propose, ProposeFailed, ProposeTerminated, ProposePaused, ProposeDone
<1>5. Evaluate => Metered'
  BY <1>2, <1>3 DEF Evaluate, EvaluateFailed, EvaluateTerminated, EvaluatePaused,
                        EvaluatePasses, EvaluateObjects
<1>6. StartPaused \/ Start \/ ValidateObjects \/ ValidatePasses \/ Save \/ Settle \/ Publish
      \/ FinishJob \/ Throws \/ Claim \/ Crash \/ Sweep \/ Retry \/ Resume
      => Metered'
  BY <1>3 DEF StartPaused, Start, ValidateObjects, ValidatePasses, Save, Settle, Publish,
              FinishJob, Throws, Claim, Crash, Sweep, Retry, Resume, PutBack
<1>7. UNCHANGED vars => Metered'
  BY <1>3 DEF vars
<1> QED
  BY <1>4, <1>5, <1>6, <1>7 DEF Next, LadderStep

-----------------------------------------------------------------------------
(* Types.                                                                  *)

\* The invariant holds at the start.
LEMMA LadderInit == Init => Types /\ OnBoundary /\ Reviewed /\ Counted
<1> SUFFICES ASSUME Init PROVE Types /\ OnBoundary /\ Reviewed /\ Counted
  OBVIOUS
<1>1. SavedUpTo(0) /\ SavedTyped
  BY NoStateIsNone, LadderNat DEF Init, SavedTyped, SavedUpTo
<1>2. MemoryTyped
  BY FreshTyped, NoOutcomeTyped, LadderNat DEF Init, MemoryTyped, InRound
<1>3. RowTyped
  BY LadderBounds DEF Init, RowTyped, JobStates, Steps, Rest
<1>8. Metered
  <2>1. used \in 0..Ceiling + 1
    BY LadderNat DEF Init
  <2>2. unsaved \in BOOLEAN
    BY DEF Init
  <2> QED
    BY <2>1, <2>2 DEF Metered
<1>4. versions \in Seq(VersionRows) /\ Len(versions) = 0
  BY DEF Init
<1>5. OnBoundary
  BY DEF Init, OnBoundary, InRound
<1>6. Reviewed
  BY <1>4 DEF Init, Reviewed
<1>7. Counted
  BY <1>4, LadderBounds DEF Init, Counted, Ladder, InRound
<1> QED
  BY <1>1, <1>2, <1>3, <1>4, <1>5, <1>6, <1>7, <1>8 DEF Types

\* The row and the attempt keep in step.
LEMMA RowStep ==
  ASSUME RowTyped, Moves
  PROVE  RowTyped'
<1> USE LadderBounds DEF RowTyped, JobStates, Steps, Rest, row
<1>1. CASE Claim
  BY <1>1 DEF Claim
<1>2. CASE Start
  BY <1>2 DEF Start
<1>3. CASE ValidateObjects \/ ValidatePasses
  BY <1>3 DEF ValidateObjects, ValidatePasses
<1>4. CASE EvaluatePasses
  BY <1>4 DEF EvaluatePasses, Conclude, Finish
<1>5. CASE Save
  BY <1>5 DEF Save
<1>6. CASE Settle
  BY <1>6 DEF Settle, Conclude, Finish
<1>7. CASE Publish
  BY <1>7 DEF Publish, Finish
<1>8. CASE FinishJob
  BY <1>8 DEF FinishJob
<1>9. CASE Throws
  BY <1>9 DEF Throws, Stopped, Finish
<1>10. CASE Crash
  BY <1>10 DEF Crash
<1>11. CASE Sweep
  BY <1>11 DEF Sweep, PutBack
<1>12. CASE Retry
  BY <1>12 DEF Retry, PutBack
<1>13. CASE Resume
  BY <1>13 DEF Resume, PutBack
<1>14. CASE Halts
  BY <1>14 DEF Halts, Stopped, Finish
<1>15. CASE BringsNothing
  BY <1>15 DEF BringsNothing, NoDraftFrom, Conclude, Finish
<1>16. CASE BringsDraft
  BY <1>16 DEF BringsDraft, DraftSubmitted
<1>17. CASE Objects
  BY <1>17 DEF Objects, EvaluatorObjects
<1>18. CASE AsksAgain
  BY <1>18 DEF AsksAgain
<1> QED
  BY <1>1, <1>2, <1>3, <1>4, <1>5, <1>6, <1>7, <1>8, <1>9, <1>10, <1>11, <1>12, <1>13,
     <1>14, <1>15, <1>16, <1>17, <1>18 DEF Moves

\* The saved boundaries grow by the Round in flight, or are all thrown away.
LEMMA SavedStep ==
  ASSUME Types, OnBoundary, Moves
  PROVE  SavedTyped'
<1> USE DEF Types
<1>1. CASE saved' = saved
  BY <1>1 DEF SavedTyped, SavedUpTo
<1>2. CASE Save
  <2>1. roundN \in 1..MaxRounds /\ state \in RoundStates /\ state # NoState /\ SavedUpTo(roundN - 1)
    BY <1>2, NoStateIsNone DEF Save, MemoryTyped, OnBoundary, InRound
  <2>2. saved' = [saved EXCEPT ![roundN] = state]
    BY <1>2 DEF Save
  <2>3. PICK k \in 1..MaxRounds : k = roundN
    BY <2>1
  <2>4. saved' \in [1..MaxRounds -> RoundStates \cup {NoState}]
    BY <2>1, <2>2 DEF SavedTyped
  <2>5. SavedUpTo(k)'
    BY <2>1, <2>2, <2>3, LadderNat DEF SavedTyped, SavedUpTo
  <2> QED
    BY <2>3, <2>4, <2>5, LadderNat DEF SavedTyped
<1>3. CASE Retry
  <2>1. saved' = [n \in 1..MaxRounds |-> NoState]
    BY <1>3 DEF Retry
  <2> QED
    BY <2>1, LadderNat DEF SavedTyped, SavedUpTo
<1>4. Moves => saved' = saved \/ Save \/ Retry
  BY DEF Moves, Claim, Start, ValidateObjects, ValidatePasses, EvaluatePasses, Settle, Publish,
         FinishJob, Throws, Crash, Sweep, PutBack, Resume, Halts, BringsNothing, BringsDraft,
         Objects, AsksAgain, Stopped, NoDraftFrom, DraftSubmitted, EvaluatorObjects, row
<1> QED
  BY <1>1, <1>2, <1>3, <1>4

\* How an outcome leaves the ladder: with something to publish, or without.
LEMMA ConcludeType ==
  ASSUME NEW draft \in DraftsOf, NEW verdict \in Verdicts, NEW dissent \in SUBSET Texts,
         Conclude(draft, verdict, dissent)
  PROVE  /\ out' \in Outs /\ out'.draft = draft /\ out'.verdict = verdict
         /\ pc' \in {"finish", "publish"}
         /\ pc' = "publish" => draft # NoDraft /\ verdict # "rejected_by_code"
         /\ pc' = "finish" => result' = "terminated"
<1>1. out' = [draft |-> draft, verdict |-> verdict, dissent |-> dissent]
  BY DEF Conclude
<1>2. out' \in Outs /\ out'.draft = draft /\ out'.verdict = verdict
  BY <1>1 DEF Outs
<1>3. /\ pc' \in {"finish", "publish"}
      /\ pc' = "publish" => draft # NoDraft /\ verdict # "rejected_by_code"
      /\ pc' = "finish" => result' = "terminated"
  BY DEF Conclude, Finish
<1> QED
  BY <1>2, <1>3

\* A try without a draft leaves a row of our code behind, and goes on, gives
\* up, or publishes the last draft if our code has nothing against it.
LEMMA NothingIs ==
  ASSUME MemoryTyped, BringsNothing
  PROVE  /\ \E why \in Failed : state' = Record(Round("proposer", "code", NoDraft, {why}))
         /\ state' \in RoundStates
         /\ roundN' = roundN /\ UNCHANGED row
         /\ \/ /\ tries < FreeRetries /\ tries' = tries + 1 /\ UNCHANGED <<pc, out, result>>
            \/ /\ tries' = tries /\ out' \in Outs /\ pc' \in {"finish", "publish"}
               /\ pc' = "finish" => result' = "terminated"
               /\ pc' = "publish" => /\ out'.draft # NoDraft /\ out'.draft = state.lastDraft
                                     /\ state.lastCode = {}
                                     /\ out'.verdict = "published_with_objections"
<1>1. PICK why \in Failed : pc = "propose" /\ NoDraftFrom(why)
  BY DEF BringsNothing
<1>2. NoDraft \in DraftsOf /\ state.lastDraft \in DraftsOf /\ {why} \in SUBSET Texts
      /\ state.lastCode \cup {why} \in SUBSET Texts
  BY CodeTexts DEF DraftsOf, MemoryTyped, RoundStates
<1>3. state' = Record(Round("proposer", "code", NoDraft, {why})) /\ state' \in RoundStates
  <2>1. Round("proposer", "code", NoDraft, {why}) \in RoundRows
    BY <1>1, <1>2, RoundTyped DEF MemoryTyped, InRound
  <2> QED
    BY <1>1, <2>1, RecordIs DEF NoDraftFrom, MemoryTyped
<1>4. CASE tries < FreeRetries
  BY <1>1, <1>3, <1>4 DEF NoDraftFrom
<1>5. CASE ~(tries < FreeRetries)
  <2>1. UNCHANGED <<tries, roundN>> /\ UNCHANGED row
    BY <1>1, <1>5 DEF NoDraftFrom
  <2>2. CASE state.lastCode # {}
    <3>1. Conclude(NoDraft, "rejected_by_code", state.lastCode \cup {why})
      BY <1>1, <1>5, <2>2 DEF NoDraftFrom
    <3> QED
      BY <1>2, <1>3, <2>1, <3>1, ConcludeType DEF Verdicts
  <2>3. CASE state.lastCode = {}
    <3>1. Conclude(state.lastDraft, "published_with_objections", {why})
      BY <1>1, <1>5, <2>3 DEF NoDraftFrom
    <3> QED
      BY <1>2, <1>3, <2>1, <2>3, <3>1, ConcludeType DEF Verdicts
  <2> QED
    BY <2>2, <2>3
<1> QED
  BY <1>4, <1>5

\* The end of the last Round.
LEMMA SettleIs ==
  ASSUME MemoryTyped, Settle
  PROVE  /\ UNCHANGED <<roundN, tries, state>> /\ UNCHANGED row
         /\ out' \in Outs /\ pc' \in {"finish", "publish"}
         /\ pc' = "finish" => result' = "terminated"
         /\ pc' = "publish" => /\ out'.draft # NoDraft /\ out'.draft = state.lastDraft
                               /\ state.lastCode = {}
                               /\ out'.verdict = "published_with_objections"
<1>1. NoDraft \in DraftsOf /\ state.lastDraft \in DraftsOf /\ state.lastCode \in SUBSET Texts
      /\ state.carried \in SUBSET Texts
  BY CodeTexts DEF DraftsOf, MemoryTyped, RoundStates
<1>2. UNCHANGED <<roundN, tries, state>> /\ UNCHANGED row
  BY DEF Settle
<1>3. CASE state.lastCode # {}
  <2>1. Conclude(NoDraft, "rejected_by_code", state.lastCode)
    BY <1>3 DEF Settle
  <2> QED
    BY <1>1, <1>2, <2>1, ConcludeType DEF Verdicts
<1>4. CASE state.lastCode = {}
  <2>1. Conclude(state.lastDraft, "published_with_objections", state.carried)
    BY <1>4 DEF Settle
  <2> QED
    BY <1>1, <1>2, <1>4, <2>1, ConcludeType DEF Verdicts
<1> QED
  BY <1>3, <1>4

\* The evaluator passes the draft.
LEMMA PassesIs ==
  ASSUME MemoryTyped, EvaluatePasses
  PROVE  /\ state' = Record(Round("evaluator", "model", NoDraft, {})) /\ state' \in RoundStates
         /\ UNCHANGED <<roundN, tries>> /\ UNCHANGED row
         /\ out' \in Outs /\ pc' \in {"finish", "publish"}
         /\ pc' = "finish" => result' = "terminated"
         /\ pc' = "publish" => /\ out'.draft # NoDraft /\ out'.draft = state.lastDraft
                               /\ out'.verdict = "passed"
<1>1. NoDraft \in DraftsOf /\ state.lastDraft \in DraftsOf /\ {} \in SUBSET Texts
  BY DEF DraftsOf, MemoryTyped, RoundStates
<1>2. Round("evaluator", "model", NoDraft, {}) \in RoundRows
  BY <1>1, RoundTyped DEF MemoryTyped, InRound, EvaluatePasses
<1>3. state' = Record(Round("evaluator", "model", NoDraft, {})) /\ state' \in RoundStates
  BY <1>2, RecordIs DEF EvaluatePasses, MemoryTyped
<1>4. Conclude(state.lastDraft, "passed", {}) /\ UNCHANGED <<roundN, tries>> /\ UNCHANGED row
  BY DEF EvaluatePasses
<1> QED
  BY <1>1, <1>3, <1>4, ConcludeType DEF Verdicts

\* The evaluator objects, or says nothing too often.
LEMMA ObjectsIs ==
  ASSUME MemoryTyped, Objects
  PROVE  \E objections \in (SUBSET Texts) \ {{}} :
            /\ Round("evaluator", "model", NoDraft, objections) \in RoundRows
            /\ state' = [Record(Round("evaluator", "model", NoDraft, objections))
                            EXCEPT !.carried = objections]
            /\ state' \in RoundStates
            /\ pc' = "save" /\ UNCHANGED <<roundN, tries, out, result>> /\ UNCHANGED row
<1>1. PICK objections \in (SUBSET Texts) \ {{}} : pc = "evaluate" /\ EvaluatorObjects(objections)
  BY DEF Objects
<1>2. Round("evaluator", "model", NoDraft, objections) \in RoundRows
  BY <1>1, RoundTyped DEF MemoryTyped, InRound, DraftsOf
<1>3. Record(Round("evaluator", "model", NoDraft, objections)) \in RoundStates
  BY <1>2, RecordIs DEF MemoryTyped
<1>4. state' = [Record(Round("evaluator", "model", NoDraft, objections))
                   EXCEPT !.carried = objections]
      /\ pc' = "save" /\ UNCHANGED <<roundN, tries, out, result>> /\ UNCHANGED row
  BY <1>1 DEF EvaluatorObjects
<1>5. state' \in RoundStates
  BY <1>3, <1>4 DEF RoundStates
<1> QED
  BY <1>1, <1>2, <1>4, <1>5

\* The code checks object.
LEMMA CodeObjectsIs ==
  ASSUME MemoryTyped, ValidateObjects
  PROVE  /\ Round("evaluator", "code", NoDraft, {CodeObjection}) \in RoundRows
         /\ state' \in RoundStates
         /\ state'.rounds = Record(Round("evaluator", "code", NoDraft, {CodeObjection})).rounds
         /\ state'.lastCode = {CodeObjection}
         /\ pc' = "save" /\ UNCHANGED <<roundN, tries, out, result>> /\ UNCHANGED row
<1>1. Round("evaluator", "code", NoDraft, {CodeObjection}) \in RoundRows
  BY RoundTyped, CodeTexts DEF MemoryTyped, InRound, DraftsOf, ValidateObjects
<1> DEFINE r == Record(Round("evaluator", "code", NoDraft, {CodeObjection}))
<1>2. r \in RoundStates
  BY <1>1, RecordIs DEF MemoryTyped
<1>3. state' = [r EXCEPT !.carried = {CodeObjection}, !.lastCode = {CodeObjection}]
  BY DEF ValidateObjects
<1> HIDE DEF r
<1>4. state' \in RoundStates /\ state'.rounds = r.rounds /\ state'.lastCode = {CodeObjection}
  BY <1>2, <1>3, CodeTexts DEF RoundStates
<1>5. pc' = "save" /\ UNCHANGED <<roundN, tries, out, result>> /\ UNCHANGED row
  BY DEF ValidateObjects
<1> QED
  BY <1>1, <1>4, <1>5 DEF r

\* A draft is submitted.
LEMMA DraftIs ==
  ASSUME RowTyped, MemoryTyped, BringsDraft
  PROVE  /\ Round("proposer", "model", Draft, {}) \in RoundRows /\ Draft # NoDraft
         /\ state' \in RoundStates
         /\ state'.rounds = Record(Round("proposer", "model", Draft, {})).rounds
         /\ state'.lastDraft = Draft
         /\ pc' = "validate" /\ tries' = 0 /\ UNCHANGED <<roundN, out, result>> /\ UNCHANGED row
<1>1. Draft \in DraftsOf /\ Draft # NoDraft
  BY DraftTyped DEF RowTyped, MemoryTyped, BringsDraft, InRound
<1>2. Round("proposer", "model", Draft, {}) \in RoundRows
  BY <1>1, RoundTyped DEF MemoryTyped, InRound, BringsDraft
<1> DEFINE r == Record(Round("proposer", "model", Draft, {}))
<1>3. r \in RoundStates
  BY <1>2, RecordIs DEF MemoryTyped
<1>4. state' = [r EXCEPT !.lastDraft = Draft]
  BY DEF BringsDraft, DraftSubmitted
<1> HIDE DEF r
<1>5. state' \in RoundStates /\ state'.rounds = r.rounds /\ state'.lastDraft = Draft
  BY <1>1, <1>3, <1>4 DEF RoundStates
<1>6. pc' = "validate" /\ tries' = 0 /\ UNCHANGED <<roundN, out, result>> /\ UNCHANGED row
  BY DEF BringsDraft, DraftSubmitted
<1> QED
  BY <1>1, <1>2, <1>5, <1>6 DEF r

\* The memory keeps its types.
LEMMA MemoryStep ==
  ASSUME Types, OnBoundary, Moves
  PROVE  MemoryTyped'
<1> USE LadderNat DEF Types
<1>0. state \in RoundStates /\ out \in Outs /\ roundN \in 0..MaxRounds + 1
      /\ tries \in 0..FreeRetries \cup 0..EvaluatorTries - 1
      /\ (pc \in InRound => roundN \in 1..MaxRounds)
      /\ (pc = "propose" => tries \in 0..FreeRetries)
      /\ (pc = "publish" => out.draft # NoDraft)
  BY DEF MemoryTyped
<1>1. CASE Claim
  BY <1>0, <1>1 DEF Claim, MemoryTyped, InRound
<1>2. CASE Start
  <2>1. LastSaved \in 0..MaxRounds /\ Boundary \in RoundStates
    BY BoundaryTyped
  <2>2. state' = Boundary /\ roundN' = LastSaved + 1 /\ tries' = 0 /\ UNCHANGED out
        /\ pc' = IF LastSaved < MaxRounds THEN "propose" ELSE "settle"
    BY <1>2 DEF Start
  <2>3. PICK k \in 0..MaxRounds : k = LastSaved
    BY <2>1
  <2> QED
    BY <1>0, <2>1, <2>2, <2>3 DEF MemoryTyped, InRound
<1>3. CASE ValidateObjects
  BY <1>0, <1>3, CodeObjectsIs DEF ValidateObjects, MemoryTyped, InRound
<1>4. CASE ValidatePasses
  <2>1. state' = [state EXCEPT !.lastCode = {}] /\ pc' = "evaluate" /\ pc = "validate"
        /\ UNCHANGED <<roundN, tries, out>>
    BY <1>4 DEF ValidatePasses
  <2>2. state' \in RoundStates
    BY <1>0, <2>1 DEF RoundStates
  <2> QED
    BY <1>0, <2>1, <2>2 DEF MemoryTyped, InRound
<1>5. CASE EvaluatePasses
  BY <1>0, <1>5, PassesIs DEF MemoryTyped, InRound
<1>6. CASE Save
  BY <1>0, <1>6 DEF Save, MemoryTyped, InRound
<1>7. CASE Settle
  BY <1>0, <1>7, SettleIs DEF MemoryTyped, InRound
<1>8. CASE Publish
  BY <1>0, <1>8 DEF Publish, Finish, MemoryTyped, InRound
<1>9. CASE FinishJob
  BY <1>0, <1>9, FreshTyped, NoOutcomeTyped DEF FinishJob, MemoryTyped, InRound
<1>10. CASE Throws
  BY <1>0, <1>10 DEF Throws, Stopped, Finish, MemoryTyped, InRound
<1>11. CASE Crash
  BY <1>0, <1>11, FreshTyped, NoOutcomeTyped DEF Crash, MemoryTyped, InRound
<1>12. CASE Sweep
  BY <1>0, <1>12 DEF Sweep, PutBack, MemoryTyped, InRound
<1>13. CASE Retry
  BY <1>0, <1>13 DEF Retry, PutBack, MemoryTyped, InRound
<1>14. CASE Resume
  BY <1>0, <1>14 DEF Resume, PutBack, MemoryTyped, InRound
<1>15. CASE Halts
  BY <1>0, <1>15 DEF Halts, Stopped, Finish, MemoryTyped, InRound
<1>16. CASE BringsNothing
  <2>1. pc = "propose" /\ roundN \in 1..MaxRounds /\ tries \in 0..FreeRetries
    BY <1>0, <1>16 DEF BringsNothing, InRound
  <2> QED
    BY <1>0, <1>16, <2>1, NothingIs DEF MemoryTyped, InRound
<1>17. CASE BringsDraft
  <2>1. pc = "propose" /\ roundN \in 1..MaxRounds /\ RowTyped
    BY <1>0, <1>17 DEF BringsDraft, InRound
  <2> QED
    BY <1>0, <1>17, <2>1, DraftIs DEF MemoryTyped, InRound
<1>18. CASE Objects
  <2>1. pc = "evaluate" /\ roundN \in 1..MaxRounds
    BY <1>0, <1>18 DEF Objects, InRound
  <2> QED
    BY <1>0, <1>18, <2>1, ObjectsIs DEF MemoryTyped, InRound
<1>19. CASE AsksAgain
  BY <1>0, <1>19 DEF AsksAgain, MemoryTyped, InRound
<1> QED
  BY <1>1, <1>2, <1>3, <1>4, <1>5, <1>6, <1>7, <1>8, <1>9, <1>10, <1>11, <1>12, <1>13,
     <1>14, <1>15, <1>16, <1>17, <1>18, <1>19 DEF Moves

\* What is published joins the end of the list.
LEMMA PublishIs ==
  ASSUME MemoryTyped, versions \in Seq(VersionRows), Publish
  PROVE  LET v == [draft |-> out.draft, verdict |-> out.verdict, dissent |-> out.dissent,
                   rounds |-> state.rounds]
         IN  /\ v \in VersionRows
             /\ versions' \in Seq(VersionRows)
             /\ Len(versions') = Len(versions) + 1
             /\ versions'[Len(versions) + 1] = v
             /\ \A i \in 1..Len(versions) : versions'[i] = versions[i]
             /\ pc' = "finish" /\ result' = "done"
             /\ UNCHANGED <<job, attempt, resumes, saved, roundN, state, out>>
<1> DEFINE v == [draft |-> out.draft, verdict |-> out.verdict, dissent |-> out.dissent,
                 rounds |-> state.rounds]
<1>1. v \in VersionRows
  BY DEF MemoryTyped, VersionRows, Outs, RoundStates, Publish
<1>2. versions' = Append(versions, v) /\ pc' = "finish" /\ result' = "done"
      /\ UNCHANGED <<job, attempt, resumes, saved, roundN, state, out>>
  BY DEF Publish, Finish
<1> HIDE DEF v
<1>3. /\ versions' \in Seq(VersionRows) /\ Len(versions') = Len(versions) + 1
      /\ versions'[Len(versions) + 1] = v
      /\ \A i \in 1..Len(versions) : versions'[i] = versions[i]
  BY <1>1, <1>2, AppendProperties
<1> QED
  BY <1>1, <1>2, <1>3 DEF v

\* Only Publish writes a version.
LEMMA VersionsKept == Moves => versions' = versions \/ Publish
  BY DEF Moves, Claim, Start, ValidateObjects, ValidatePasses, EvaluatePasses, Settle, Save,
         FinishJob, Throws, Crash, Sweep, PutBack, Retry, Resume, Halts, BringsNothing, BringsDraft,
         Objects, AsksAgain, Stopped, NoDraftFrom, DraftSubmitted, EvaluatorObjects, row

\* Every step keeps the types.
LEMMA TypesStep ==
  ASSUME Types, OnBoundary, [Next]_vars
  PROVE  Types'
<1>1. CASE Next
  <2>1. Moves
    BY <1>1, NextMoves
  <2>2. RowTyped' /\ Metered' /\ SavedTyped' /\ MemoryTyped'
    BY <2>1, RowStep, MeterStep, SavedStep, MemoryStep DEF Types
  <2>3. (versions \in Seq(VersionRows))'
    BY <2>1, VersionsKept, PublishIs DEF Types
  <2> QED
    BY <2>2, <2>3 DEF Types
<1>2. CASE UNCHANGED vars
  BY <1>2 DEF vars, Types, RowTyped, Metered, MemoryTyped, SavedTyped, SavedUpTo
<1> QED
  BY <1>1, <1>2

-----------------------------------------------------------------------------
(* The Round in flight builds on the last boundary.                        *)

\* Within a Round the list of Rounds stands, or grows by a row of that Round.
LEMMA RoundsGrow ==
  ASSUME Types, Moves, pc \in InRound, pc' \in InRound, pc # "save"
  PROVE  /\ UNCHANGED <<roundN, saved>>
         /\ \/ state'.rounds = state.rounds
            \/ /\ Len(state'.rounds) = Len(state.rounds) + 1
               /\ \A i \in 1..Len(state.rounds) : state'.rounds[i] = state.rounds[i]
               /\ state'.rounds[Len(state.rounds) + 1].n = roundN
<1>0. RowTyped /\ MemoryTyped /\ state \in RoundStates /\ roundN \in 1..MaxRounds
  BY DEF Types, MemoryTyped
<1>1. CASE ValidateObjects
  <2>1. {CodeObjection} \in SUBSET Texts /\ NoDraft \in DraftsOf
    BY CodeTexts DEF DraftsOf
  <2> QED
    BY <1>0, <1>1, <2>1, CodeObjectsIs, RecordIs, RoundTyped DEF row
<1>2. CASE ValidatePasses
  <2>1. state'.rounds = state.rounds
    BY <1>0, <1>2 DEF ValidatePasses, RoundStates
  <2> QED
    BY <1>2, <2>1 DEF ValidatePasses, row
<1>3. CASE BringsNothing
  <2>1. PICK why \in Failed : state' = Record(Round("proposer", "code", NoDraft, {why}))
    BY <1>0, <1>3, NothingIs
  <2>2. {why} \in SUBSET Texts /\ NoDraft \in DraftsOf
    BY CodeTexts DEF DraftsOf
  <2>3. UNCHANGED <<roundN, saved>>
    BY <1>0, <1>3, NothingIs DEF row
  <2> QED
    BY <1>0, <2>1, <2>2, <2>3, RecordIs, RoundTyped
<1>4. CASE BringsDraft
  <2>1. Draft \in DraftsOf
    BY <1>0, <1>4, DraftTyped DEF RowTyped, MemoryTyped, BringsDraft
  <2>2. /\ state'.rounds = Record(Round("proposer", "model", Draft, {})).rounds
        /\ Round("proposer", "model", Draft, {}) \in RoundRows
        /\ UNCHANGED <<roundN, saved>>
    BY <1>0, <1>4, DraftIs DEF row
  <2>3. Round("proposer", "model", Draft, {}).n = roundN
    BY <1>0, <2>1, RoundTyped
  <2> QED
    BY <1>0, <2>2, <2>3, RecordIs
<1>5. CASE Objects
  <2>1. PICK objections \in (SUBSET Texts) \ {{}} :
            /\ Round("evaluator", "model", NoDraft, objections) \in RoundRows
            /\ state' = [Record(Round("evaluator", "model", NoDraft, objections))
                            EXCEPT !.carried = objections]
            /\ UNCHANGED <<roundN, saved>>
    BY <1>0, <1>5, ObjectsIs DEF row
  <2> DEFINE r == Record(Round("evaluator", "model", NoDraft, objections))
  <2>2. /\ r \in RoundStates /\ Len(r.rounds) = Len(state.rounds) + 1
        /\ r.rounds[Len(state.rounds) + 1] = Round("evaluator", "model", NoDraft, objections)
        /\ \A i \in 1..Len(state.rounds) : r.rounds[i] = state.rounds[i]
    BY <1>0, <2>1, RecordIs
  <2>3. Round("evaluator", "model", NoDraft, objections).n = roundN
    BY <1>0, RoundTyped DEF DraftsOf
  <2>4. state' = [r EXCEPT !.carried = objections]
    BY <2>1
  <2> HIDE DEF r
  <2>5. state'.rounds = r.rounds
    BY <2>2, <2>4 DEF RoundStates
  <2> QED
    BY <2>1, <2>2, <2>3, <2>5
<1>6. CASE AsksAgain
  BY <1>6 DEF AsksAgain, row
<1>7. ValidateObjects \/ ValidatePasses \/ BringsNothing \/ BringsDraft \/ Objects \/ AsksAgain
  <2>1. pc \notin {"idle", "gone", "finish", "start", "publish", "settle", "save"}
    BY DEF InRound
  <2>2. pc' \notin {"idle", "gone", "finish", "start", "publish", "settle"}
    BY DEF InRound
  <2>3. ~EvaluatePasses
    BY <1>0, <2>2, PassesIs
  <2> QED
    BY <1>0, <2>1, <2>2, <2>3 DEF Moves, Claim, Start, Save, Settle, Publish, FinishJob, Throws,
       Crash, Sweep, Retry, Resume, Halts, Stopped, Finish, PutBack, RowTyped
<1> QED
  BY <1>1, <1>2, <1>3, <1>4, <1>5, <1>6, <1>7

\* Every step leaves the Round in flight on the last boundary.
LEMMA BoundaryStep ==
  ASSUME Types, OnBoundary, [Next]_vars
  PROVE  OnBoundary'
<1>0. RowTyped /\ MemoryTyped /\ SavedTyped /\ state \in RoundStates
  BY DEF Types, MemoryTyped
<1>1. SUFFICES ASSUME Moves, pc' \in InRound PROVE OnBoundary'
  <2>1. CASE Next
    BY <2>1, <1>1, NextMoves DEF OnBoundary
  <2>2. CASE UNCHANGED vars
    <3>1. UNCHANGED <<pc, roundN, saved, state>>
      BY <2>2 DEF vars
    <3>2. Boundary' = Boundary /\ (SavedUpTo(roundN - 1) => SavedUpTo(roundN - 1)')
      BY <3>1 DEF Boundary, LastSaved, SavedUpTo
    <3> QED
      BY <3>1, <3>2 DEF OnBoundary
  <2> QED
    BY <2>1, <2>2
<1>2. CASE Start
  <2>1. LastSaved \in 0..MaxRounds /\ SavedUpTo(LastSaved) /\ Boundary \in RoundStates
    BY <1>0, BoundaryTyped
  <2>2. state' = Boundary /\ roundN' = LastSaved + 1 /\ saved' = saved
    BY <1>2 DEF Start, row
  <2>3. Boundary' = Boundary
    BY <2>2 DEF Boundary, LastSaved
  <2>4. SavedUpTo(roundN - 1)'
    BY <2>1, <2>2 DEF SavedUpTo
  <2>5. Boundary.rounds \in Seq(RoundRows)
    BY <2>1 DEF RoundStates
  <2> QED
    BY <2>2, <2>3, <2>4, <2>5 DEF OnBoundary
<1>3. CASE pc = "save"
  <2>1. Save /\ roundN < MaxRounds
    BY <1>0, <1>1, <1>3, PassesIs DEF Moves, Claim, Start, ValidateObjects, ValidatePasses,
       EvaluatePasses, Save, Settle, Publish, FinishJob, Throws, Crash, Sweep, Retry, Resume, Halts, BringsNothing,
       BringsDraft, Objects, AsksAgain, Stopped, Finish, PutBack, InRound, RowTyped
  <2>2. roundN \in 1..MaxRounds /\ state # NoState /\ SavedUpTo(roundN - 1)
    BY <1>0, <1>3, NoStateIsNone DEF MemoryTyped, OnBoundary, InRound
  <2>3. PICK k \in 1..MaxRounds : k = roundN
    BY <2>2
  <2>4. saved' = [saved EXCEPT ![k] = state] /\ roundN' = k + 1 /\ state' = state
    BY <2>1, <2>3 DEF Save
  <2>5. SavedUpTo(k)'
    BY <1>0, <2>2, <2>3, <2>4, LadderNat DEF SavedTyped, SavedUpTo
  <2>6. Boundary' = state
    BY <1>0, <2>4, <2>5, LastSavedNext, LadderNat DEF SavedTyped
  <2>7. SavedUpTo(roundN - 1)'
    BY <2>4, <2>5 DEF SavedUpTo
  <2>8. state.rounds \in Seq(RoundRows)
    BY <1>0 DEF RoundStates
  <2> QED
    BY <2>4, <2>6, <2>7, <2>8 DEF OnBoundary
<1>4. CASE pc \in InRound /\ pc # "save"
  <2>1. saved' = saved /\ roundN' = roundN
    BY <1>1, <1>4, RoundsGrow
  <2>2. Boundary' = Boundary /\ (SavedUpTo(roundN - 1) => SavedUpTo(roundN - 1)')
    BY <2>1 DEF Boundary, LastSaved, SavedUpTo
  <2>3. /\ SavedUpTo(roundN - 1)
        /\ Len(Boundary.rounds) <= Len(state.rounds)
        /\ \A i \in 1..Len(Boundary.rounds) : state.rounds[i] = Boundary.rounds[i]
        /\ \A i \in Len(Boundary.rounds) + 1..Len(state.rounds) : state.rounds[i].n = roundN
    BY <1>4 DEF OnBoundary
  <2>4. state.rounds \in Seq(RoundRows) /\ Boundary.rounds \in Seq(RoundRows)
    BY <1>0, BoundaryTyped DEF RoundStates
  <2>5. Len(state.rounds) \in Nat /\ Len(Boundary.rounds) \in Nat
    BY <2>4
  <2>6. CASE state'.rounds = state.rounds
    BY <2>1, <2>2, <2>3, <2>6 DEF OnBoundary
  <2>7. CASE /\ Len(state'.rounds) = Len(state.rounds) + 1
             /\ \A i \in 1..Len(state.rounds) : state'.rounds[i] = state.rounds[i]
             /\ state'.rounds[Len(state.rounds) + 1].n = roundN
    <3>1. Len(Boundary.rounds) <= Len(state'.rounds)
      BY <2>3, <2>5, <2>7
    <3>2. \A i \in 1..Len(Boundary.rounds) : state'.rounds[i] = Boundary.rounds[i]
      BY <2>3, <2>5, <2>7
    <3>3. \A i \in Len(Boundary.rounds) + 1..Len(state'.rounds) : state'.rounds[i].n = roundN
      <4> TAKE i \in Len(Boundary.rounds) + 1..Len(state'.rounds)
      <4>1. CASE i = Len(state.rounds) + 1
        BY <2>7, <4>1
      <4>2. CASE i # Len(state.rounds) + 1
        <5>1. i \in Len(Boundary.rounds) + 1..Len(state.rounds) /\ i \in 1..Len(state.rounds)
          BY <2>5, <2>7, <4>2
        <5> QED
          BY <2>3, <2>7, <5>1
      <4> QED
        BY <4>1, <4>2
    <3> QED
      BY <2>1, <2>2, <2>3, <3>1, <3>2, <3>3 DEF OnBoundary
  <2> QED
    BY <1>1, <1>4, <2>6, <2>7, RoundsGrow
<1>5. CASE pc \notin InRound
  <2>1. Start
    BY <1>0, <1>1, <1>5, SettleIs DEF Moves, Claim, ValidateObjects, ValidatePasses,
       EvaluatePasses, Save, Publish, FinishJob, Throws, Crash, Sweep, Retry, Resume, Halts, BringsNothing,
       BringsDraft, Objects, AsksAgain, Stopped, Finish, PutBack, InRound
  <2> QED
    BY <1>2, <2>1
<1> QED
  BY <1>3, <1>4, <1>5

-----------------------------------------------------------------------------
(* What is published was reviewed.                                         *)

\* Rows without a draft leave an answer where it is.
LEMMA AnswerStands ==
  ASSUME NEW rounds \in Seq(RoundRows), NEW longer \in Seq(RoundRows),
         Len(longer) = Len(rounds) + 1,
         \A i \in 1..Len(rounds) : longer[i] = rounds[i],
         longer[Len(rounds) + 1].draft = NoDraft,
         NEW draft, NEW passed \in BOOLEAN, Answered(rounds, draft, passed)
  PROVE  Answered(longer, draft, passed)
<1>1. PICK i \in 1..Len(rounds) : AnsweredAt(rounds, draft, passed, i)
  BY DEF Answered
<1>2. Len(rounds) \in Nat /\ i + 1 <= Len(rounds) /\ i + 1 \in 1..Len(rounds)
  BY <1>1 DEF AnsweredAt
<1>3. longer[i] = rounds[i] /\ longer[i + 1] = rounds[i + 1]
  BY <1>2
<1>4. \A k \in i + 1..Len(longer) : longer[k].draft = NoDraft
  <2> TAKE k \in i + 1..Len(longer)
  <2>1. CASE k = Len(rounds) + 1
    BY <2>1
  <2>2. CASE k # Len(rounds) + 1
    <3>1. k \in i + 1..Len(rounds) /\ k \in 1..Len(rounds)
      BY <1>2, <2>2
    <3> QED
      BY <1>1, <3>1 DEF AnsweredAt, DraftAt
  <2> QED
    BY <2>1, <2>2
<1>5. i \in 1..Len(longer) /\ i + 1 <= Len(longer)
  BY <1>2
<1>6. DraftAt(longer, draft, i)
  BY <1>1, <1>3, <1>4, <1>5 DEF AnsweredAt, DraftAt
<1>7. AnsweredAt(longer, draft, passed, i)
  BY <1>1, <1>3, <1>5, <1>6 DEF AnsweredAt
<1> QED
  BY <1>5, <1>7 DEF Answered

\* The evaluator's row answers the draft before it.
LEMMA AnswerJoins ==
  ASSUME NEW rounds \in Seq(RoundRows), NEW longer \in Seq(RoundRows),
         Len(longer) = Len(rounds) + 1,
         \A i \in 1..Len(rounds) : longer[i] = rounds[i],
         NEW draft, NEW passed \in BOOLEAN, DraftAt(rounds, draft, Len(rounds)),
         longer[Len(rounds) + 1].draft = NoDraft,
         longer[Len(rounds) + 1].role = "evaluator", longer[Len(rounds) + 1].source = "model",
         longer[Len(rounds) + 1].objection = {} <=> passed
  PROVE  Answered(longer, draft, passed)
<1> DEFINE i == Len(rounds)
<1>1. i \in Nat /\ i \in 1..Len(rounds)
  BY DEF DraftAt
<1>2. i \in 1..Len(longer) /\ i + 1 <= Len(longer)
  BY <1>1
<1>3. DraftAt(longer, draft, i)
  BY <1>1, <1>2 DEF DraftAt
<1>4. AnsweredAt(longer, draft, passed, i)
  BY <1>1, <1>2, <1>3 DEF AnsweredAt
<1> QED
  BY <1>2, <1>4 DEF Answered

\* The rows of one move, as the argument reads them.
LEMMA GrownBy ==
  ASSUME state \in RoundStates, NEW longer \in RoundStates, NEW entry \in RoundRows,
         longer.rounds = Record(entry).rounds
  PROVE  /\ state.rounds \in Seq(RoundRows) /\ longer.rounds \in Seq(RoundRows)
         /\ Len(longer.rounds) = Len(state.rounds) + 1
         /\ \A i \in 1..Len(state.rounds) : longer.rounds[i] = state.rounds[i]
         /\ longer.rounds[Len(state.rounds) + 1] = entry
  BY RecordIs DEF RoundStates

\* The saved boundaries are argued through.
LEMMA SavedArgued ==
  ASSUME Types, OnBoundary, Reviewed, Moves
  PROVE  (\A n \in 1..MaxRounds : saved[n] # NoState => Argued(saved[n]))'
<1>1. CASE saved' = saved
  BY <1>1 DEF Reviewed, Argued
<1>2. CASE Save
  <2>1. saved' = [saved EXCEPT ![roundN] = state] /\ Argued(state)
    BY <1>2 DEF Save, Reviewed
  <2> SUFFICES ASSUME NEW n \in 1..MaxRounds, saved'[n] # NoState PROVE Argued(saved'[n])
    BY DEF Argued
  <2>2. saved'[n] = state \/ saved'[n] = saved[n]
    BY <2>1 DEF Types, SavedTyped
  <2> QED
    BY <2>1, <2>2 DEF Reviewed
<1>3. CASE Retry
  BY <1>3 DEF Retry
<1>4. Moves => saved' = saved \/ Save \/ Retry
  BY DEF Moves, Claim, Start, ValidateObjects, ValidatePasses, EvaluatePasses, Settle, Publish,
         FinishJob, Throws, Crash, Sweep, PutBack, Resume, Halts, BringsNothing, BringsDraft,
         Objects, AsksAgain, Stopped, NoDraftFrom, DraftSubmitted, EvaluatorObjects, row
<1> QED
  BY <1>1, <1>2, <1>3, <1>4

\* A try that brings nothing leaves the argument where it was.
LEMMA NothingArgued ==
  ASSUME Types, Reviewed, BringsNothing
  PROVE  /\ Argued(state')
         /\ pc' = "publish" => Answered(state'.rounds, out'.draft, out'.verdict = "passed")
<1>0. MemoryTyped /\ state \in RoundStates /\ roundN \in 1..MaxRounds /\ Argued(state)
  BY DEF Types, MemoryTyped, BringsNothing, InRound, Reviewed
<1>1. PICK why \in Failed : state' = Record(Round("proposer", "code", NoDraft, {why}))
  BY <1>0, NothingIs
<1>2. {why} \in SUBSET Texts /\ NoDraft \in DraftsOf
  BY CodeTexts DEF DraftsOf
<1>3. PICK entry \in RoundRows : /\ entry = Round("proposer", "code", NoDraft, {why})
                                 /\ entry.draft = NoDraft
  BY <1>0, <1>2, RoundTyped
<1>4. state' = Record(entry) /\ state' \in RoundStates
  BY <1>0, <1>1, <1>3, NothingIs
<1>5. state'.lastDraft = state.lastDraft /\ state'.lastCode = state.lastCode
  BY <1>0, <1>4, RecordIs
<1>6. /\ state.rounds \in Seq(RoundRows) /\ state'.rounds \in Seq(RoundRows)
      /\ Len(state'.rounds) = Len(state.rounds) + 1
      /\ \A i \in 1..Len(state.rounds) : state'.rounds[i] = state.rounds[i]
      /\ state'.rounds[Len(state.rounds) + 1] = entry
  BY <1>0, <1>4, GrownBy
<1>7. state.lastDraft # NoDraft /\ state.lastCode = {}
        => Answered(state'.rounds, state.lastDraft, FALSE)
  <2> SUFFICES ASSUME state.lastDraft # NoDraft, state.lastCode = {}
               PROVE Answered(state'.rounds, state.lastDraft, FALSE)
    OBVIOUS
  <2>1. Answered(state.rounds, state.lastDraft, FALSE)
    BY <1>0 DEF Argued
  <2> HIDE DEF BringsNothing
  <2> QED
    BY <1>3, <1>6, <2>1, AnswerStands
<1>8. pc' = "publish" => /\ out'.draft # NoDraft /\ out'.draft = state.lastDraft
                         /\ state.lastCode = {}
                         /\ out'.verdict = "published_with_objections"
  BY <1>0, NothingIs DEF BringsNothing
<1>9. pc' = "publish" => (out'.verdict = "passed") = FALSE
  BY <1>8
<1> QED
  BY <1>5, <1>7, <1>8, <1>9 DEF Argued

\* The evaluator's answer to the last draft.
LEMMA ObjectsArgued ==
  ASSUME Types, Reviewed, Objects
  PROVE  Argued(state')
<1>0. MemoryTyped /\ state \in RoundStates /\ roundN \in 1..MaxRounds
      /\ DraftAt(state.rounds, state.lastDraft, Len(state.rounds))
  BY DEF Types, MemoryTyped, Objects, InRound, Reviewed
<1>1. PICK objections \in (SUBSET Texts) \ {{}} :
          /\ Round("evaluator", "model", NoDraft, objections) \in RoundRows
          /\ state' = [Record(Round("evaluator", "model", NoDraft, objections))
                          EXCEPT !.carried = objections]
          /\ state' \in RoundStates
  BY <1>0, ObjectsIs
<1>2. PICK entry \in RoundRows :
          /\ entry = Round("evaluator", "model", NoDraft, objections)
          /\ entry.draft = NoDraft /\ entry.role = "evaluator" /\ entry.source = "model"
          /\ entry.objection # {}
  BY <1>0, <1>1, RoundTyped DEF DraftsOf
<1> DEFINE r == Record(entry)
<1>3. r \in RoundStates /\ r.lastDraft = state.lastDraft
  BY <1>0, RecordIs
<1>4. state' = [r EXCEPT !.carried = objections]
  BY <1>1, <1>2
<1> HIDE DEF r
<1>5. state'.rounds = r.rounds /\ state'.lastDraft = state.lastDraft
  BY <1>3, <1>4 DEF RoundStates
<1>6. /\ state.rounds \in Seq(RoundRows) /\ state'.rounds \in Seq(RoundRows)
      /\ Len(state'.rounds) = Len(state.rounds) + 1
      /\ \A i \in 1..Len(state.rounds) : state'.rounds[i] = state.rounds[i]
      /\ state'.rounds[Len(state.rounds) + 1] = entry
  BY <1>0, <1>1, <1>5, GrownBy DEF r
<1>7. Answered(state'.rounds, state.lastDraft, FALSE)
  BY <1>0, <1>2, <1>6, AnswerJoins
<1> QED
  BY <1>5, <1>7 DEF Argued

\* The evaluator passed the very draft that is published.
LEMMA PassesArgued ==
  ASSUME Types, Reviewed, EvaluatePasses
  PROVE  pc' = "publish" => Answered(state'.rounds, out'.draft, out'.verdict = "passed")
<1>0. MemoryTyped /\ state \in RoundStates /\ roundN \in 1..MaxRounds
      /\ DraftAt(state.rounds, state.lastDraft, Len(state.rounds))
  BY DEF Types, MemoryTyped, EvaluatePasses, InRound, Reviewed
<1>1. PICK entry \in RoundRows :
          /\ entry = Round("evaluator", "model", NoDraft, {})
          /\ entry.draft = NoDraft /\ entry.role = "evaluator" /\ entry.source = "model"
          /\ entry.objection = {}
  BY <1>0, RoundTyped DEF DraftsOf
<1>2. state' = Record(entry) /\ state' \in RoundStates
  BY <1>0, <1>1, PassesIs
<1>3. /\ state.rounds \in Seq(RoundRows) /\ state'.rounds \in Seq(RoundRows)
      /\ Len(state'.rounds) = Len(state.rounds) + 1
      /\ \A i \in 1..Len(state.rounds) : state'.rounds[i] = state.rounds[i]
      /\ state'.rounds[Len(state.rounds) + 1] = entry
  BY <1>0, <1>2, GrownBy
<1>4. Answered(state'.rounds, state.lastDraft, TRUE)
  BY <1>0, <1>1, <1>3, AnswerJoins
<1>5. pc' = "publish" => out'.draft = state.lastDraft /\ (out'.verdict = "passed") = TRUE
  BY <1>0, PassesIs
<1> QED
  BY <1>4, <1>5

\* A submission is the last row of its list.
LEMMA DraftArgued ==
  ASSUME Types, BringsDraft
  PROVE  state'.lastDraft # NoDraft /\ DraftAt(state'.rounds, state'.lastDraft, Len(state'.rounds))
<1>0. RowTyped /\ MemoryTyped /\ state \in RoundStates /\ roundN \in 1..MaxRounds
      /\ tries \in 0..FreeRetries
  BY DEF Types, MemoryTyped, BringsDraft, InRound
<1>1. Draft \in DraftsOf /\ Draft # NoDraft
  BY <1>0, DraftTyped DEF RowTyped
<1>2. PICK entry \in RoundRows :
          entry = Round("proposer", "model", Draft, {}) /\ entry.draft = Draft
  BY <1>0, <1>1, RoundTyped
<1>3. state'.rounds = Record(entry).rounds /\ state' \in RoundStates /\ state'.lastDraft = Draft
  BY <1>0, <1>2, DraftIs
<1>4. /\ state.rounds \in Seq(RoundRows)
      /\ Len(state'.rounds) = Len(state.rounds) + 1
      /\ state'.rounds[Len(state.rounds) + 1] = entry
  BY <1>0, <1>3, GrownBy
<1>5. Len(state.rounds) \in Nat
  BY <1>4
<1>6. Len(state'.rounds) \in 1..Len(state'.rounds)
  BY <1>4, <1>5
<1> QED
  BY <1>1, <1>2, <1>3, <1>4, <1>5, <1>6 DEF DraftAt

\* Every step keeps the argument whole.
LEMMA ReviewedStep ==
  ASSUME Types, OnBoundary, Reviewed, [Next]_vars
  PROVE  Reviewed'
<1>0. RowTyped /\ MemoryTyped /\ SavedTyped /\ state \in RoundStates
      /\ versions \in Seq(VersionRows)
  BY DEF Types, MemoryTyped
<1>1. CASE UNCHANGED vars
  <2>1. UNCHANGED <<saved, pc, state, out, versions>>
    BY <1>1 DEF vars
  <2> QED
    BY <2>1 DEF Reviewed, Argued
<1>2. SUFFICES ASSUME Moves PROVE Reviewed'
  BY <1>1, NextMoves
<1>3. (\A n \in 1..MaxRounds : saved[n] # NoState => Argued(saved[n]))'
  BY <1>2, SavedArgued
<1> DEFINE Stays == /\ pc' \in {"propose", "save", "settle"} => Argued(state')
                    /\ pc' \in {"validate", "evaluate"} =>
                         /\ state'.lastDraft # NoDraft
                         /\ DraftAt(state'.rounds, state'.lastDraft, Len(state'.rounds))
                    /\ pc' = "publish" =>
                         Answered(state'.rounds, out'.draft, out'.verdict = "passed")
<1>4. Stays
  <2>1. CASE Start
    <3>1. Argued(Boundary)
      <4>1. PICK k \in 0..MaxRounds : SavedUpTo(k)
        BY <1>0 DEF SavedTyped
      <4>2. Boundary = IF k = 0 THEN Fresh ELSE saved[k]
        BY <4>1, LastSavedIs
      <4>3. CASE k = 0
        BY <4>2, <4>3, FreshTyped DEF Argued
      <4>4. CASE k # 0
        BY <4>1, <4>2, <4>4, LadderNat DEF SavedUpTo, Reviewed
      <4> QED
        BY <4>3, <4>4
    <3>2. state' = Boundary /\ pc' \in {"propose", "settle"}
      BY <2>1 DEF Start
    <3> QED
      BY <3>1, <3>2
  <2>2. CASE ValidateObjects
    BY <1>0, <2>2, CodeObjectsIs DEF Argued
  <2>3. CASE ValidatePasses
    <3>1. state'.rounds = state.rounds /\ state'.lastDraft = state.lastDraft
          /\ pc = "validate" /\ pc' = "evaluate"
      BY <1>0, <2>3 DEF ValidatePasses, RoundStates
    <3> QED
      BY <3>1 DEF Reviewed
  <2>4. CASE EvaluatePasses
    BY <1>0, <2>4, PassesIs, PassesArgued
  <2>5. CASE Save
    BY <2>5 DEF Save, Reviewed
  <2>6. CASE Settle
    <3>1. pc' \in {"finish", "publish"} /\ state' = state /\ Argued(state)
      BY <1>0, <2>6, SettleIs DEF Settle, Reviewed
    <3>2. pc' = "publish" => /\ out'.draft = state.lastDraft /\ state.lastDraft # NoDraft
                             /\ state.lastCode = {} /\ (out'.verdict = "passed") = FALSE
      BY <1>0, <2>6, SettleIs
    <3> QED
      BY <3>1, <3>2 DEF Argued
  <2>7. CASE BringsNothing
    <3>1. pc' \in {"propose", "finish", "publish"}
      BY <1>0, <2>7, NothingIs DEF BringsNothing
    <3> QED
      BY <2>7, <3>1, NothingArgued
  <2>8. CASE BringsDraft
    BY <1>0, <2>8, DraftIs, DraftArgued
  <2>9. CASE Objects
    BY <1>0, <2>9, ObjectsIs, ObjectsArgued
  <2>10. CASE AsksAgain
    BY <2>10 DEF AsksAgain, Reviewed
  <2>11. CASE \/ Claim \/ Publish \/ FinishJob \/ Throws \/ Crash \/ Sweep \/ Retry \/ Resume
              \/ Halts
    BY <2>11 DEF Claim, Publish, FinishJob, Throws, Crash, Sweep, Retry, Resume, Halts, Stopped,
                 Finish, PutBack
  <2> HIDE DEF Stays
  <2> QED
    BY <1>2, <2>1, <2>2, <2>3, <2>4, <2>5, <2>6, <2>7, <2>8, <2>9, <2>10, <2>11 DEF Moves
<1>5. (\A i \in 1..Len(versions) :
         Answered(versions[i].rounds, versions[i].draft, versions[i].verdict = "passed"))'
  <2>1. CASE versions' = versions
    BY <2>1 DEF Reviewed
  <2>2. CASE Publish
    <3> DEFINE v == [draft |-> out.draft, verdict |-> out.verdict, dissent |-> out.dissent,
                     rounds |-> state.rounds]
    <3>1. Answered(v.rounds, v.draft, v.verdict = "passed")
      BY <2>2 DEF Publish, Reviewed
    <3>2. /\ Len(versions') = Len(versions) + 1
          /\ versions'[Len(versions) + 1] = v
          /\ \A i \in 1..Len(versions) : versions'[i] = versions[i]
      BY <1>0, <2>2, PublishIs
    <3> HIDE DEF v
    <3>3. Len(versions) \in Nat
      BY <1>0
    <3> SUFFICES ASSUME NEW i \in 1..Len(versions')
                 PROVE  Answered(versions'[i].rounds, versions'[i].draft,
                                 versions'[i].verdict = "passed")
      OBVIOUS
    <3>4. CASE i = Len(versions) + 1
      BY <3>1, <3>2, <3>4
    <3>5. CASE i # Len(versions) + 1
      <4>1. i \in 1..Len(versions)
        BY <3>2, <3>3, <3>5
      <4> QED
        BY <3>2, <4>1 DEF Reviewed
    <3> QED
      BY <3>4, <3>5
  <2> QED
    BY <1>2, <2>1, <2>2, VersionsKept
<1> QED
  BY <1>3, <1>4, <1>5 DEF Reviewed

-----------------------------------------------------------------------------
(* What an attempt may publish.                                            *)

\* Every step keeps the count of what attempts have published.
LEMMA CountedStep ==
  ASSUME Types, Counted, [Next]_vars
  PROVE  Counted'
<1>0. RowTyped /\ MemoryTyped /\ versions \in Seq(VersionRows) /\ Len(versions) \in Nat
      /\ attempt \in Nat
  BY LadderBounds DEF Types, RowTyped
<1>1. CASE UNCHANGED vars
  BY <1>1 DEF vars, Counted
<1>2. SUFFICES ASSUME Moves PROVE Counted'
  BY <1>1, NextMoves
<1> USE <1>0 DEF Counted, Ladder, InRound, row
<1>3. CASE Claim
  BY <1>3 DEF Claim
<1>4. CASE Start
  BY <1>4 DEF Start
<1>5. CASE ValidateObjects \/ ValidatePasses
  BY <1>5 DEF ValidateObjects, ValidatePasses
<1>6. CASE EvaluatePasses
  <2>1. pc = "evaluate"
    BY <1>6 DEF EvaluatePasses
  <2> QED
    BY <1>6, <2>1, PassesIs
<1>7. CASE Save
  BY <1>7 DEF Save
<1>8. CASE Settle
  <2>1. pc = "settle"
    BY <1>8 DEF Settle
  <2> QED
    BY <1>8, <2>1, SettleIs
<1>9. CASE Publish
  <2>1. /\ Len(versions') = Len(versions) + 1 /\ versions' \in Seq(VersionRows)
        /\ pc' = "finish" /\ result' = "done" /\ UNCHANGED <<job, attempt>>
    BY <1>9, PublishIs
  <2>2. job = "running"
    BY <1>9 DEF Publish, RowTyped
  <2>3. versions' # <<>>
    BY <2>1
  <2>4. Len(versions) <= attempt
    BY <1>9 DEF Publish
  <2> QED
    BY <2>1, <2>2, <2>3, <2>4
<1>10. CASE FinishJob
  BY <1>10 DEF FinishJob, RowTyped, Rest, JobStates
<1>11. CASE Throws
  BY <1>11 DEF Throws, Stopped, Finish
<1>12. CASE Crash
  <2>1. job = "running"
    BY <1>12 DEF Crash, RowTyped
  <2> QED
    BY <1>12, <2>1 DEF Crash
<1>13. CASE Sweep
  BY <1>13 DEF Sweep, PutBack
<1>14. CASE Retry
  BY <1>14 DEF Retry, PutBack
<1>15. CASE Resume
  BY <1>15 DEF Resume, PutBack
<1>16. CASE Halts
  BY <1>16 DEF Halts, Stopped, Finish
<1>17. CASE BringsNothing
  <2>1. pc = "propose"
    BY <1>17 DEF BringsNothing
  <2> QED
    BY <1>17, <2>1, NothingIs
<1>18. CASE BringsDraft
  <2>1. pc = "propose"
    BY <1>18 DEF BringsDraft
  <2> QED
    BY <1>18, <2>1, DraftIs
<1>19. CASE Objects
  <2>1. pc = "evaluate"
    BY <1>19 DEF Objects
  <2> QED
    BY <1>19, <2>1, ObjectsIs
<1>20. CASE AsksAgain
  BY <1>20 DEF AsksAgain
<1> QED
  BY <1>2, <1>3, <1>4, <1>5, <1>6, <1>7, <1>8, <1>9, <1>10, <1>11, <1>12, <1>13, <1>14, <1>15,
     <1>16, <1>17, <1>18, <1>19, <1>20 DEF Moves

-----------------------------------------------------------------------------
(* The theorems.                                                           *)

LadderInv == Types /\ OnBoundary /\ Reviewed /\ Counted

\* The inductive invariant holds of every behaviour of the ladder.
THEOREM LadderInvariant == Spec => []LadderInv
<1>1. Init => LadderInv
  BY LadderInit DEF LadderInv
<1>2. LadderInv /\ [Next]_vars => LadderInv'
  BY TypesStep, BoundaryStep, ReviewedStep, CountedStep DEF LadderInv
<1> QED
  BY <1>1, <1>2, PTL DEF Spec

\* The set of states, and the predicate TLC reads.
LEMMA StatesTyped == \A s \in RoundStates : IsRoundState(s)
<1> SUFFICES ASSUME NEW s \in RoundStates PROVE IsRoundState(s)
  OBVIOUS
<1>1. DOMAIN s = {"rounds", "carried", "lastDraft", "lastCode"}
  BY DEF RoundStates
<1>2. \A i \in DOMAIN s.rounds : s.rounds[i] \in RoundRows
  <2>1. s.rounds \in Seq(RoundRows)
    BY DEF RoundStates
  <2> QED
    BY <2>1
<1> QED
  BY <1>1, <1>2 DEF RoundStates, IsRoundState

\* Every variable of the ladder keeps its type, and a ladder past its last
\* Round only settles (rounds.ts), whatever the number of Rounds and retries.
THEOREM LadderTypes == Spec => []TypeOK
<1>1. LadderInv => TypeOK
  <2> SUFFICES ASSUME LadderInv PROVE TypeOK
    OBVIOUS
  <2>0. RowTyped /\ Metered /\ MemoryTyped /\ SavedTyped /\ versions \in Seq(VersionRows)
    BY DEF LadderInv, Types
  <2>1. job \in JobStates /\ pc \in Steps /\ result \in Rest
        /\ attempt \in 0..MaxAttempt /\ resumes \in 0..MaxResumes
    BY <2>0 DEF RowTyped
  <2>2. used \in 0..Ceiling + 1
    BY <2>0 DEF Metered
  <2>3. unsaved \in BOOLEAN
    BY <2>0 DEF Metered
  <2>4. \A n \in 1..MaxRounds : saved[n] = NoState \/ IsRoundState(saved[n])
    BY <2>0, StatesTyped DEF SavedTyped
  <2>5. IsRoundState(state)
    BY <2>0, StatesTyped DEF MemoryTyped
  <2>6. roundN \in 0..MaxRounds + 1
        /\ (pc \in {"propose", "validate", "evaluate", "save"} => roundN \in 1..MaxRounds)
        /\ tries \in 0..FreeRetries \cup 0..EvaluatorTries - 1
    BY <2>0 DEF MemoryTyped, InRound
  <2>7. out.draft \in DraftsOf /\ out.verdict \in Verdicts /\ out.dissent \subseteq Texts
    BY <2>0 DEF MemoryTyped, Outs
  <2>8. \A i \in DOMAIN versions : versions[i].draft \in DraftsOf \ {NoDraft}
    <3>1. \A i \in DOMAIN versions : versions[i] \in VersionRows
      BY <2>0
    <3> QED
      BY <3>1 DEF VersionRows
  <2> QED
    BY <2>1, <2>2, <2>3, <2>4, <2>5, <2>6, <2>7, <2>8 DEF TypeOK
<1> QED
  BY <1>1, LadderInvariant, PTL

\* Resume continues, it does not restart (rounds.ts:162).
THEOREM LadderBoundary == Spec => []BuildsOnBoundary
<1>1. LadderInv => BuildsOnBoundary
  <2> SUFFICES ASSUME LadderInv, pc \in InRound
               PROVE  /\ roundN = LastSaved + 1
                      /\ IsPrefix(Boundary.rounds, state.rounds)
                      /\ \A i \in Len(Boundary.rounds) + 1..Len(state.rounds) :
                            state.rounds[i].n = roundN
    BY DEF BuildsOnBoundary, InRound
  <2>1. MemoryTyped /\ SavedTyped /\ OnBoundary
    BY DEF LadderInv, Types
  <2>2. SavedUpTo(roundN - 1) /\ roundN \in 1..MaxRounds
    BY <2>1 DEF OnBoundary, MemoryTyped
  <2>3. LastSaved = roundN - 1
    <3>1. PICK k \in 0..MaxRounds : k = roundN - 1
      BY <2>2, LadderNat
    <3>2. SavedUpTo(k)
      BY <2>2, <3>1
    <3> QED
      BY <3>1, <3>2, LastSavedIs
  <2>4. Boundary.rounds \in Seq(RoundRows) /\ state.rounds \in Seq(RoundRows)
    BY <2>1, BoundaryTyped DEF MemoryTyped, RoundStates
  <2>5. IsPrefix(Boundary.rounds, state.rounds)
    BY <2>1, <2>4 DEF OnBoundary, IsPrefix
  <2> QED
    BY <2>1, <2>2, <2>3, <2>5 DEF OnBoundary
<1> QED
  BY <1>1, LadderInvariant, PTL

\* The last draft of a list is where the argument left it.
LEMMA LastProposalIs ==
  ASSUME NEW rounds \in Seq(RoundRows), NEW draft \in DraftsOf \ {NoDraft},
         NEW i \in 1..Len(rounds), DraftAt(rounds, draft, i)
  PROVE  LastProposal(rounds) = i
<1>1. DOMAIN rounds = 1..Len(rounds) /\ Len(rounds) \in Nat
  OBVIOUS
<1>2. \A j \in 1..Len(rounds) :
        (/\ rounds[j].draft # NoDraft
         /\ \A k \in 1..Len(rounds) : rounds[k].draft # NoDraft => k <= j) <=> j = i
  BY <1>1 DEF DraftAt
<1> QED
  BY <1>1, <1>2 DEF LastProposal

\* What is published is the last draft written, and the evaluator's answer to
\* that very draft is the outcome printed beside it, through free retries,
\* resumes and restarts alike (rounds.ts:84-97, 285-293).
THEOREM LadderReviewed == Spec => []PublishedWasReviewed
<1>1. LadderInv => PublishedWasReviewed
  <2> SUFFICES ASSUME LadderInv, NEW v \in Range(versions)
               PROVE  LET i == LastProposal(v.rounds)
                          answer == v.rounds[i + 1]
                      IN  /\ v.rounds[i].draft = v.draft
                          /\ answer.role = "evaluator" /\ answer.source = "model"
                          /\ (answer.objection = {}) <=> (v.verdict = "passed")
    BY DEF PublishedWasReviewed
  <2>1. versions \in Seq(VersionRows) /\ Reviewed
    BY DEF LadderInv, Types
  <2>2. PICK j \in 1..Len(versions) : v = versions[j]
    BY <2>1 DEF Range
  <2>3. v.rounds \in Seq(RoundRows) /\ v.draft \in DraftsOf \ {NoDraft}
    <3>1. v \in VersionRows
      BY <2>1, <2>2
    <3> QED
      BY <3>1 DEF VersionRows
  <2>4. Answered(v.rounds, v.draft, v.verdict = "passed")
    BY <2>1, <2>2 DEF Reviewed
  <2>5. PICK i \in 1..Len(v.rounds) : AnsweredAt(v.rounds, v.draft, v.verdict = "passed", i)
    BY <2>4 DEF Answered
  <2>6. LastProposal(v.rounds) = i
    BY <2>3, <2>5, LastProposalIs DEF AnsweredAt
  <2> QED
    BY <2>5, <2>6 DEF AnsweredAt, DraftAt
<1> QED
  BY <1>1, LadderInvariant, PTL

\* A budget pause never makes a Job publish twice, a Job stopped short has not
\* published in that attempt, and `done` is a version somebody can read.
THEOREM LadderOneVersion == Spec => []OneVersionPerAttempt
<1>1. LadderInv => OneVersionPerAttempt
  BY DEF LadderInv, Counted, OneVersionPerAttempt
<1> QED
  BY <1>1, LadderInvariant, PTL

\* Completed Rounds survive (checkpoint.ts:15): only a Retry clears them, and
\* then all of them.
THEOREM LadderBoundariesStand == Spec => BoundariesStand
<1> DEFINE Stands == \/ \A n \in 1..MaxRounds : saved[n] # NoState => saved'[n] = saved[n]
                     \/ /\ job \in {"failed", "terminated", "running"} /\ job' = "queued"
                        /\ \A n \in 1..MaxRounds : saved'[n] = NoState
<1>1. LadderInv /\ [Next]_vars => [Stands]_vars
  <2> SUFFICES ASSUME LadderInv, Next PROVE Stands
    OBVIOUS
  <2>0. Types /\ OnBoundary /\ Moves
    BY NextMoves DEF LadderInv
  <2>1. CASE saved' = saved
    BY <2>1
  <2>2. CASE Save
    <3>1. saved' = [saved EXCEPT ![roundN] = state] /\ SavedUpTo(roundN - 1)
          /\ roundN \in 1..MaxRounds
      BY <2>0, <2>2 DEF Save, OnBoundary, InRound, Types, MemoryTyped
    <3>2. saved[roundN] = NoState
      BY <3>1 DEF SavedUpTo
    <3> QED
      BY <2>0, <3>1, <3>2 DEF Types, SavedTyped
  <2>3. CASE Retry
    <3>1. job \in {"failed", "terminated", "running"}
      BY <2>0, <2>3 DEF Retry, Types, RowTyped, JobStates
    <3> QED
      BY <2>3, <3>1 DEF Retry, PutBack
  <2>4. saved' = saved \/ Save \/ Retry
    BY <2>0 DEF Moves, Claim, Start, ValidateObjects, ValidatePasses, EvaluatePasses, Settle,
         Publish, FinishJob, Throws, Crash, Sweep, PutBack, Resume, Halts, BringsNothing, BringsDraft,
         Objects, AsksAgain, Stopped, NoDraftFrom, DraftSubmitted, EvaluatorObjects, row
  <2> QED
    BY <2>1, <2>2, <2>3, <2>4
<1> QED
  BY <1>1, LadderInvariant, PTL DEF Spec, BoundariesStand
=============================================================================
