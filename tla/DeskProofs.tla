---------------------------- MODULE DeskProofs -----------------------------
(***************************************************************************)
(* What holds at the desk for every number of publications and persons, of *)
(* answers and turns, of searches and promotions: the versions of a        *)
(* Recommendation are one sequence with at most one accepted, chat only    *)
(* proposes, and a Lead says what happened to it.                          *)
(***************************************************************************)
EXTENDS Desk, FiniteSetTheorems, TLAPS

-----------------------------------------------------------------------------
(* Counting.                                                               *)

\* A finite set has at most one element exactly when any two are the same.
LEMMA AtMostOne ==
  ASSUME NEW S, IsFiniteSet(S)
  PROVE  Cardinality(S) <= 1 <=> \A v, w \in S : v = w
<1>1. Cardinality(S) \in Nat /\ (Cardinality(S) = 0 <=> S = {})
      /\ (Cardinality(S) = 1 <=> \E x : S = {x})
  BY FS_CardinalityType, FS_EmptySet, FS_Singleton
<1>2. ASSUME \A v, w \in S : v = w PROVE S = {} \/ \E x : S = {x}
  BY <1>2
<1> QED
  BY <1>1, <1>2

-----------------------------------------------------------------------------
(* The versions of a Recommendation.                                       *)

PublishSteps == {"argued", "numbering", "inserting", "published", "refused"}
PersonSteps == {"reading", "marking", "seen", "clearing", "told", "refused"}
VersionRows == [n : Nat, mark : Marks \cup {Unmarked}, job : Publishers]

VersionsTyped ==
    /\ header \in BOOLEAN /\ versions \subseteq VersionRows
    /\ publish \in [Publishers -> [pc : PublishSteps, header : BOOLEAN, n : Nat]]
    /\ person \in [People -> [pc : PersonSteps, n : Nat, mark : Marks \cup {Unmarked},
                              cleared : SUBSET Nat]]

Published == {j \in Publishers : publish[j].pc = "published"}

\* The versions are numbered 1..k, by the k Jobs that have published, and who
\* is about to insert has read a number that was free or has been taken since.
NumberedUpTo(k) ==
    /\ Numbers = 1..k
    /\ Cardinality(Published) = k
    /\ \A j \in Publishers : publish[j].pc = "inserting" => publish[j].n \in 1..k + 1
UniqueNumbers == \A v, w \in versions : v.n = w.n => v = w
OneAccepted == \A v, w \in Accepted : v = w

VersionsInv == /\ VersionsTyped /\ UniqueNumbers /\ OneAccepted
               /\ \E k \in Nat : NumberedUpTo(k)

\* The latest of the versions 1..k is the k-th.
LEMMA LatestIs ==
  ASSUME NEW k \in Nat, Numbers = 1..k
  PROVE  Latest = k
<1>1. \A n \in Numbers \cup {0} : (\A m \in Numbers : m <= n) <=> n = k
  OBVIOUS
<1>2. k \in Numbers \cup {0}
  OBVIOUS
<1> QED
  BY <1>1, <1>2 DEF Latest

\* As many versions as numbers.
LEMMA VersionsCounted ==
  ASSUME UniqueNumbers, NEW k \in Nat, Numbers = 1..k
  PROVE  IsFiniteSet(versions) /\ Cardinality(versions) = k
<1> DEFINE number == [v \in versions |-> v.n]
<1>1. number \in Injection(versions, 1..k)
  BY DEF Injection, IsInjective, UniqueNumbers, Numbers
<1>2. number \in Surjection(versions, 1..k)
  <2>1. number \in [versions -> 1..k]
    BY DEF Numbers
  <2>2. \A n \in 1..k : \E v \in versions : number[v] = n
    BY DEF Numbers
  <2> QED
    BY <2>1, <2>2 DEF Surjection
<1>3. IsFiniteSet(1..k) /\ Cardinality(1..k) = k
  BY FS_Interval
<1> QED
  BY <1>1, <1>2, <1>3, FS_Injection

\* Before any publication there is no version.
LEMMA VersionsBegin == VersionsInit => VersionsInv
<1> SUFFICES ASSUME VersionsInit PROVE VersionsInv
  OBVIOUS
<1>1. VersionsTyped
  BY DEF VersionsInit, VersionsTyped, PublishSteps, PersonSteps
<1>2. UniqueNumbers /\ OneAccepted
  BY DEF VersionsInit, UniqueNumbers, OneAccepted, Accepted
<1>3. NumberedUpTo(0)
  <2>1. Published = {} /\ Numbers = {}
    BY DEF VersionsInit, Published, Numbers
  <2> QED
    BY <2>1, FS_EmptySet DEF NumberedUpTo, VersionsInit
<1> QED
  BY <1>1, <1>2, <1>3 DEF VersionsInv

\* A publication takes the number after the last, or is refused.
LEMMA CommitInv ==
  ASSUME VersionsInv, NEW j \in Publishers, Commit(j)
  PROVE  VersionsInv'
<1>0. PICK k \in Nat : NumberedUpTo(k)
  BY DEF VersionsInv
<1>1. VersionsTyped /\ UniqueNumbers /\ OneAccepted /\ publish[j].pc = "inserting"
      /\ publish[j].n \in 1..k + 1 /\ UNCHANGED person
  BY <1>0 DEF VersionsInv, Commit, NumberedUpTo
<1>2. CASE ~KeysAllow(j)
  <2>1. publish' = [publish EXCEPT ![j].pc = "refused"] /\ UNCHANGED <<header, versions>>
    BY <1>2 DEF Commit
  <2>2. VersionsTyped'
    BY <1>1, <2>1 DEF VersionsTyped, PublishSteps
  <2>3. Published' = Published
    BY <1>1, <2>1 DEF Published, VersionsTyped
  <2>4. NumberedUpTo(k)'
    BY <1>0, <1>1, <2>1, <2>3 DEF NumberedUpTo, Numbers, VersionsTyped
  <2>5. UniqueNumbers' /\ OneAccepted'
    BY <1>1, <2>1 DEF UniqueNumbers, OneAccepted, Accepted
  <2> QED
    BY <2>2, <2>4, <2>5 DEF VersionsInv
<1>3. CASE KeysAllow(j)
  <2> DEFINE v == [n |-> publish[j].n, mark |-> Unmarked, job |-> j]
  <2>1. publish' = [publish EXCEPT ![j].pc = "published"] /\ header' = TRUE
        /\ versions' = versions \cup {v}
    BY <1>3 DEF Commit, Inserted
  <2>2. publish[j].n = k + 1
    BY <1>0, <1>1, <1>3 DEF KeysAllow, NumberedUpTo
  <2>3. v \in VersionRows /\ v.n = k + 1 /\ v.mark = Unmarked
    BY <1>1, <2>2 DEF VersionRows, VersionsTyped
  <2> HIDE DEF v
  <2>4. VersionsTyped'
    BY <1>1, <2>1, <2>3 DEF VersionsTyped, PublishSteps
  <2>5. Numbers' = 1..k + 1
    <3>1. Numbers' = Numbers \cup {k + 1}
      BY <2>1, <2>3 DEF Numbers
    <3> QED
      BY <1>0, <3>1 DEF NumberedUpTo
  <2>6. Published' = Published \cup {j} /\ j \notin Published
    BY <1>1, <2>1 DEF Published, VersionsTyped
  <2>7. Cardinality(Published') = k + 1
    <3>1. IsFiniteSet(Published)
      BY VersionsAssumption, FS_Subset DEF Published
    <3> QED
      BY <1>0, <2>6, <3>1, FS_AddElement DEF NumberedUpTo
  <2>8. (\A i \in Publishers : publish[i].pc = "inserting" => publish[i].n \in 1..(k + 1) + 1)'
    BY <1>0, <1>1, <2>1 DEF NumberedUpTo, VersionsTyped
  <2>9. NumberedUpTo(k + 1)'
    BY <2>5, <2>7, <2>8 DEF NumberedUpTo
  <2>10. UniqueNumbers'
    <3>1. \A w \in versions : w.n # k + 1
      BY <1>0 DEF NumberedUpTo, Numbers
    <3> QED
      BY <1>1, <2>1, <2>3, <3>1 DEF UniqueNumbers
  <2>11. OneAccepted'
    BY <1>1, <2>1, <2>3 DEF OneAccepted, Accepted, Unmarked
  <2> QED
    BY <2>4, <2>9, <2>10, <2>11 DEF VersionsInv
<1> QED
  BY <1>2, <1>3

\* What a person reads, sees and clears writes nothing to the versions.
LEMMA PersonReads ==
  ASSUME VersionsInv, NEW p \in People, ReadVersion(p) \/ SeeSiblings(p) \/ ClearSiblings(p)
  PROVE  VersionsInv'
<1>0. VersionsTyped /\ UNCHANGED <<header, versions, publish>>
  BY DEF VersionsInv, ReadVersion, SeeSiblings, ClearSiblings
<1>1. versions \subseteq VersionRows /\ \A v \in versions : v.n \in Nat
  BY <1>0 DEF VersionsTyped, VersionRows
<1>2. VersionsTyped'
  <2> DEFINE Rows == [pc : PersonSteps, n : Nat, mark : Marks \cup {Unmarked}, cleared : SUBSET Nat]
  <2>1. person[p] \in Rows /\ person \in [People -> Rows]
    BY <1>0 DEF VersionsTyped
  <2>2. CASE ReadVersion(p)
    <3>1. PICK n \in Numbers, mark \in Marks \cup {Unmarked} :
            person' = [person EXCEPT ![p] = [@ EXCEPT !.pc = "marking", !.n = n, !.mark = mark]]
      BY <2>2 DEF ReadVersion
    <3>2. n \in Nat
      BY <1>1 DEF Numbers
    <3>3. [person[p] EXCEPT !.pc = "marking", !.n = n, !.mark = mark] \in Rows
      BY <2>1, <3>1, <3>2 DEF PersonSteps
    <3>4. person' \in [People -> Rows]
      BY <2>1, <3>1, <3>3
    <3> QED
      BY <1>0, <3>4 DEF VersionsTyped
  <2>3. CASE SeeSiblings(p)
    <3> DEFINE cleared == IF person[p].mark = "accepted" THEN Siblings(person[p].n) ELSE {}
    <3>1. cleared \in SUBSET Nat
      BY <1>1 DEF Siblings, Accepted
    <3>2. person' = [person EXCEPT ![p] = [@ EXCEPT !.pc = "seen", !.cleared = cleared]]
      BY <2>3 DEF SeeSiblings
    <3> HIDE DEF cleared
    <3>3. [person[p] EXCEPT !.pc = "seen", !.cleared = cleared] \in Rows
      BY <2>1, <3>1 DEF PersonSteps
    <3>4. person' \in [People -> Rows]
      BY <2>1, <3>2, <3>3
    <3> QED
      BY <1>0, <3>4 DEF VersionsTyped
  <2>4. CASE ClearSiblings(p)
    <3> DEFINE held == {v.n : v \in Accepted}
    <3>1. person' = [person EXCEPT ![p].pc = "clearing", ![p].cleared = @ \cap held]
      BY <2>4 DEF ClearSiblings
    <3> HIDE DEF held
    <3>2. person' \in [People -> Rows]
      BY <2>1, <3>1 DEF PersonSteps
    <3> QED
      BY <1>0, <3>2 DEF VersionsTyped
  <2> QED
    BY <2>2, <2>3, <2>4
<1>3. PICK k \in Nat : NumberedUpTo(k)
  BY DEF VersionsInv
<1>4. NumberedUpTo(k)'
  BY <1>0, <1>3 DEF NumberedUpTo, Numbers, Published
<1>5. UniqueNumbers' /\ OneAccepted'
  BY <1>0 DEF VersionsInv, UniqueNumbers, OneAccepted, Accepted
<1> QED
  BY <1>2, <1>4, <1>5 DEF VersionsInv

\* A mark changes marks, and no number.
LEMMA SetMarkInv ==
  ASSUME VersionsInv, NEW p \in People, SetMark(p)
  PROVE  VersionsInv' /\ person'[p].pc # "clearing"
<1>0. VersionsTyped /\ UNCHANGED <<header, publish>> /\ person[p].pc = "clearing"
  BY DEF VersionsInv, SetMark
<1> DEFINE Rows == [pc : PersonSteps, n : Nat, mark : Marks \cup {Unmarked}, cleared : SUBSET Nat]
<1>1. person[p] \in Rows /\ person \in [People -> Rows]
  BY <1>0 DEF VersionsTyped
<1>2. person' \in [People -> Rows] /\ person'[p].pc # "clearing"
  <2>1. PICK pc \in {"told", "refused"} :
          person' = [person EXCEPT ![p] = [@ EXCEPT !.pc = pc, !.cleared = {}]]
    BY DEF SetMark
  <2>2. [person[p] EXCEPT !.pc = pc, !.cleared = {}] \in Rows
    BY <1>1 DEF PersonSteps
  <2> QED
    BY <1>1, <2>1, <2>2
<1>3. PICK k \in Nat : NumberedUpTo(k)
  BY DEF VersionsInv
<1>4. CASE ~OneAcceptedKey(p)
  <2>1. versions' = versions
    BY <1>4 DEF SetMark
  <2>2. VersionsTyped'
    BY <1>0, <1>2, <2>1 DEF VersionsTyped
  <2>3. NumberedUpTo(k)'
    BY <1>0, <1>3, <2>1 DEF NumberedUpTo, Numbers, Published
  <2>4. UniqueNumbers' /\ OneAccepted'
    BY <2>1 DEF VersionsInv, UniqueNumbers, OneAccepted, Accepted
  <2> QED
    BY <1>2, <2>2, <2>3, <2>4 DEF VersionsInv
<1>5. CASE OneAcceptedKey(p)
  <2> DEFINE Marked(v) == IF v.n = person[p].n THEN [v EXCEPT !.mark = person[p].mark]
                          ELSE IF v.n \in person[p].cleared THEN [v EXCEPT !.mark = Unmarked] ELSE v
  <2>1. versions' = {Marked(v) : v \in versions}
    BY <1>5 DEF SetMark, After
  <2>2. \A v \in versions : Marked(v) \in VersionRows /\ Marked(v).n = v.n
    BY <1>0, <1>1 DEF VersionsTyped, VersionRows
  <2>3. IsFiniteSet(versions)
    BY <1>3, VersionsCounted DEF VersionsInv, NumberedUpTo
  <2> HIDE DEF Marked
  <2>4. IsFiniteSet(versions')
    <3> DEFINE marking == [v \in versions |-> Marked(v)]
    <3>1. marking \in Surjection(versions, versions')
      BY <2>1 DEF Surjection
    <3> QED
      BY <2>3, <3>1, FS_Surjection
  <2>5. VersionsTyped'
    BY <1>0, <1>2, <2>1, <2>2 DEF VersionsTyped
  <2>6. Numbers' = Numbers
    BY <2>1, <2>2 DEF Numbers
  <2>7. NumberedUpTo(k)'
    BY <1>0, <1>3, <2>6 DEF NumberedUpTo, Published
  <2>8. UniqueNumbers'
    BY <2>1, <2>2 DEF VersionsInv, UniqueNumbers
  <2>9. OneAccepted'
    <3>1. Accepted' = {v \in After(p) : v.mark = "accepted"} /\ Cardinality(Accepted') <= 1
      BY <1>5 DEF SetMark, OneAcceptedKey, Accepted
    <3>2. IsFiniteSet(Accepted')
      BY <2>4, FS_Subset DEF Accepted
    <3> QED
      BY <3>1, <3>2, AtMostOne DEF OneAccepted
  <2> QED
    BY <1>2, <2>5, <2>7, <2>8, <2>9 DEF VersionsInv
<1> QED
  BY <1>4, <1>5

\* The header is looked for, and a number read.
LEMMA PublishReads ==
  ASSUME VersionsInv, NEW j \in Publishers, FindHeader(j) \/ NumberVersion(j)
  PROVE  VersionsInv'
<1> DEFINE Rows == [pc : PublishSteps, header : BOOLEAN, n : Nat]
<1>0. VersionsTyped /\ UNCHANGED <<header, versions, person>>
      /\ publish \in [Publishers -> Rows] /\ publish[j] \in Rows /\ header \in BOOLEAN
  BY DEF VersionsInv, FindHeader, NumberVersion, VersionsTyped
<1>1. PICK k \in Nat : NumberedUpTo(k)
  BY DEF VersionsInv
<1>2. UniqueNumbers' /\ OneAccepted' /\ Numbers' = Numbers
  BY <1>0 DEF VersionsInv, UniqueNumbers, OneAccepted, Accepted, Numbers
<1>3. \E new \in Rows : /\ publish' = [publish EXCEPT ![j] = new]
                        /\ publish[j].pc # "published" /\ new.pc # "published"
                        /\ new.pc = "inserting" => new.n \in 1..k + 1
  <2>1. CASE FindHeader(j)
    <3> DEFINE new == [publish[j] EXCEPT !.pc = "numbering", !.header = header]
    <3>1. new \in Rows /\ new.pc = "numbering"
      BY <1>0 DEF PublishSteps
    <3>2. publish' = [publish EXCEPT ![j] = new] /\ publish[j].pc = "argued"
      BY <2>1 DEF FindHeader
    <3> QED
      BY <3>1, <3>2
  <2>2. CASE NumberVersion(j)
    <3> DEFINE n == NextNumber(j)
               new == [publish[j] EXCEPT !.pc = "inserting", !.n = n]
    <3>1. n \in 1..k + 1
      BY <1>1, LatestIs DEF NextNumber, NumberedUpTo
    <3>2. publish' = [publish EXCEPT ![j] = new] /\ publish[j].pc = "numbering"
      BY <2>2 DEF NumberVersion
    <3> HIDE DEF n
    <3>3. n \in Nat /\ "inserting" \in PublishSteps
      BY <3>1 DEF PublishSteps
    <3>4. new \in Rows /\ new.pc = "inserting" /\ new.n = n
      BY <1>0, <3>3
    <3> QED
      BY <3>1, <3>2, <3>4
  <2> QED
    BY <2>1, <2>2
<1>4. PICK new \in Rows : /\ publish' = [publish EXCEPT ![j] = new]
                          /\ publish[j].pc # "published" /\ new.pc # "published"
                          /\ new.pc = "inserting" => new.n \in 1..k + 1
  BY <1>3
<1>5. VersionsTyped'
  BY <1>0, <1>4 DEF VersionsTyped
<1>6. Published' = Published
  BY <1>0, <1>4 DEF Published
<1>7. NumberedUpTo(k)'
  BY <1>0, <1>1, <1>2, <1>4, <1>6 DEF NumberedUpTo
<1> QED
  BY <1>2, <1>5, <1>7 DEF VersionsInv

\* Every step at the desk keeps the versions in order.
LEMMA VersionsKeep ==
  ASSUME VersionsInv, [DeskNext]_deskVars
  PROVE  VersionsInv'
<1>1. CASE VersionsStep
  BY <1>1, CommitInv, PublishReads, PersonReads, SetMarkInv DEF VersionsStep
<1>2. CASE UNCHANGED versionVars
  <2>1. UNCHANGED <<header, versions, publish, person>>
    BY <1>2 DEF versionVars
  <2>2. PICK k \in Nat : NumberedUpTo(k)
    BY DEF VersionsInv
  <2>3. NumberedUpTo(k)'
    BY <2>1, <2>2 DEF NumberedUpTo, Numbers, Published
  <2> QED
    BY <2>1, <2>3 DEF VersionsInv, VersionsTyped, UniqueNumbers, OneAccepted, Accepted
<1>3. VersionsStep \/ UNCHANGED versionVars
  BY DEF DeskNext, AskStep, Work, LeadsStep, deskVars
<1> QED
  BY <1>1, <1>2, <1>3

\* The versions of a Recommendation are one sequence with at most one accepted,
\* however publications and marks overlap (publish.ts, mark-recommendation.ts).
THEOREM DeskVersions == DeskSafety => []VersionsAreOneSequence
<1>1. VersionsInv => VersionsAreOneSequence
  <2> SUFFICES ASSUME VersionsInv PROVE VersionsAreOneSequence
    OBVIOUS
  <2>1. PICK k \in Nat : NumberedUpTo(k)
    BY DEF VersionsInv
  <2>2. IsFiniteSet(versions) /\ Cardinality(versions) = k /\ Numbers = 1..k
    BY <2>1, VersionsCounted DEF VersionsInv, NumberedUpTo
  <2>3. NumberedInOrder
    BY <2>1, <2>2 DEF NumberedInOrder, NumberedUpTo, Published
  <2>4. AtMostOneAccepted
    <3>1. IsFiniteSet(Accepted)
      BY <2>2, FS_Subset DEF Accepted
    <3> QED
      BY <3>1, AtMostOne DEF AtMostOneAccepted, VersionsInv, OneAccepted
  <2>5. VersionsTypeOK
    <3>1. k <= Cardinality(Publishers) /\ Cardinality(Publishers) \in Nat
      BY <2>1, VersionsAssumption, FS_Subset, FS_CardinalityType DEF NumberedUpTo, Published
    <3>2. \A v \in versions : v.n \in 1..Cardinality(Publishers) /\ v.mark \in Marks \cup {Unmarked}
      <4> TAKE v \in versions
      <4>1. v \in VersionRows /\ v.n \in 1..k
        BY <2>2 DEF VersionsInv, VersionsTyped, Numbers
      <4> QED
        BY <3>1, <4>1 DEF VersionRows
    <3>3. \A j \in Publishers : publish[j].pc \in PublishSteps
      BY DEF VersionsInv, VersionsTyped
    <3> QED
      BY <3>2, <3>3 DEF VersionsTypeOK, PublishSteps
  <2> QED
    BY <2>3, <2>4, <2>5 DEF VersionsAreOneSequence
<1>2. DeskInit => VersionsInv
  BY VersionsBegin DEF DeskInit
<1> QED
  BY <1>1, <1>2, VersionsKeep, PTL DEF DeskSafety

\* Acceptance never moves by itself: while a version is accepted, what the page
\* shows changes by a person's mark and never by a publication (publish.ts).
THEOREM DeskAcceptance == DeskSafety => AcceptanceNeverMoves
<1> DEFINE Stays == Accepted # {} /\ VersionToShow' # VersionToShow => person' # person
<1>1. VersionsInv /\ [DeskNext]_deskVars => [Stays]_versionVars
  <2> SUFFICES ASSUME VersionsInv, DeskNext, UNCHANGED person, Accepted # {}
               PROVE  VersionToShow' = VersionToShow
    BY DEF deskVars, versionVars
  <2>1. CASE versions' = versions
    BY <2>1 DEF VersionToShow, Accepted, Latest, Numbers
  <2>2. CASE \E j \in Publishers : Commit(j) /\ KeysAllow(j)
    <3>1. Accepted' = Accepted
      BY <2>2 DEF Commit, Inserted, Accepted, Unmarked
    <3> QED
      BY <3>1 DEF VersionToShow
  <2>3. CASE \E p \in People : SetMark(p)
    <3>1. PICK p \in People : SetMark(p)
      BY <2>3
    <3>2. person[p].pc = "clearing" /\ person'[p].pc # "clearing"
      BY <3>1, SetMarkInv DEF SetMark
    <3> QED
      BY <3>2
  <2>4. versions' = versions \/ (\E j \in Publishers : Commit(j) /\ KeysAllow(j))
        \/ (\E p \in People : SetMark(p))
    BY DEF DeskNext, AskStep, Work, LeadsStep, VersionsStep, versionVars, FindHeader, NumberVersion,
           Commit, ReadVersion, SeeSiblings, ClearSiblings
  <2> QED
    BY <2>1, <2>2, <2>3, <2>4
<1>2. DeskInit => VersionsInv
  BY VersionsBegin DEF DeskInit
<1> QED
  BY <1>1, <1>2, VersionsKeep, PTL DEF DeskSafety, AcceptanceNeverMoves

-----------------------------------------------------------------------------
(* Chat.                                                                    *)

TurnSteps == {"idle", "thread", "loop", "store"}
TurnRows == [pc : TurnSteps, calls : 0..MaxCalls, pending : Nat, stored : SUBSET Nat]
AnswerSteps == {"idle", "refused", "accept", "decline", "enqueue", "record", "done", "lost"}
ProposalRows == [state : {"proposed", "accepted", "declined"}, job : Nat]
AnswerRows == [pc : AnswerSteps, n : Nat, run : Nat, result : Nat]
RunRows == [trigger : {t.trigger : t \in Bootable}, by : Nat]
JobRows == [kind : {t.kind : t \in Bootable}, run : Nat, by : Nat]

ChatTyped ==
    /\ tool \in Bootable /\ threadRuns \in {0, 1} /\ unasked = FALSE
    /\ turn \in TurnRows
    /\ answer \in [Answers -> AnswerRows]
    /\ proposals \in Seq(ProposalRows) /\ runs \in Seq(RunRows) /\ jobs \in Seq(JobRows)

\* What was told was stored, what was pressed was told, and who answers answers
\* a proposal that was told.
Shown ==
    /\ turn.stored \subseteq DOMAIN proposals
    /\ told \subseteq DOMAIN proposals /\ pressed \subseteq told
    /\ \A a \in Answers : answer[a].pc # "idle" => answer[a].n \in told
    /\ \A a \in Answers : answer[a].pc \in {"accept", "enqueue"} => answer[a].n \in pressed

\* An answer's Run and Job, a Job's Run and a proposal's Job are all of the one
\* acceptance.
Own ==
    /\ \A a \in Answers : answer[a].pc = "enqueue" =>
         answer[a].run \in DOMAIN runs /\ runs[answer[a].run].by = answer[a].n
    /\ \A a \in Answers : answer[a].result # 0 =>
         answer[a].pc # "idle" /\ answer[a].result \in DOMAIN jobs /\ jobs[answer[a].result].by = answer[a].n
    /\ \A i \in DOMAIN jobs :
         /\ jobs[i].run \in DOMAIN runs /\ runs[jobs[i].run].by = jobs[i].by
         /\ jobs[i].by # Page => jobs[i].by \in pressed
    /\ \A n \in DOMAIN proposals : proposals[n].job # 0 =>
         proposals[n].job \in DOMAIN jobs /\ jobs[proposals[n].job].by = n

\* Each Job has a Run of its own, opened before it.
Enqueueing == {a \in Answers : answer[a].pc = "enqueue"}
RunPerJob ==
    /\ IsFiniteSet(Enqueueing)
    /\ Len(jobs) + Cardinality(Enqueueing) <= Len(runs) /\ Len(runs) <= MaxJobs

ChatInv == ChatTyped /\ Shown /\ Own /\ RunPerJob

\* A tool that a legal registry offers to chat without a gate neither spends
\* nor writes (registry.ts, invariants 3 and 4).
LEMMA UngatedIsHarmless ==
  \A t \in Bootable : ~t.confirm => ~t.spends /\ t.effect # "write"
BY DEF Bootable, Legal

\* A row of a sequence is replaced by another of the same type.
LEMMA Replaced ==
  ASSUME NEW S, NEW s \in Seq(S), NEW i \in DOMAIN s, NEW e \in S
  PROVE  /\ [s EXCEPT ![i] = e] \in Seq(S)
         /\ DOMAIN [s EXCEPT ![i] = e] = DOMAIN s
         /\ \A n \in DOMAIN s : [s EXCEPT ![i] = e][n] = IF n = i THEN e ELSE s[n]
  OBVIOUS

\* A row is added behind the others.
LEMMA Appended ==
  ASSUME NEW S, NEW s \in Seq(S), NEW e \in S
  PROVE  /\ Append(s, e) \in Seq(S) /\ Len(Append(s, e)) = Len(s) + 1
         /\ DOMAIN Append(s, e) = DOMAIN s \cup {Len(s) + 1} /\ Len(s) + 1 \notin DOMAIN s
         /\ \A n \in DOMAIN s : Append(s, e)[n] = s[n]
         /\ Append(s, e)[Len(s) + 1] = e
  OBVIOUS

\* The Thread begins with no Run, no Job and no proposal.
LEMMA ChatBegins == ChatInit => ChatInv
<1> SUFFICES ASSUME ChatInit PROVE ChatInv
  OBVIOUS
<1>1. ChatTyped
  <2>1. NoAnswer \in AnswerRows /\ Idle \in TurnRows
    BY ChatAssumption DEF NoAnswer, AnswerRows, AnswerSteps, Idle, TurnRows, TurnSteps
  <2> QED
    BY <2>1 DEF ChatInit, ChatTyped
<1>2. Shown /\ Own
  BY DEF ChatInit, Shown, Own, Idle, NoAnswer
<1>3. RunPerJob
  <2>1. Enqueueing = {}
    BY DEF ChatInit, Enqueueing, NoAnswer
  <2> QED
    BY <2>1, FS_EmptySet, ChatAssumption DEF RunPerJob, ChatInit
<1> QED
  BY <1>1, <1>2, <1>3 DEF ChatInv

\* A turn writes proposals and opens the Thread's one Run.
LEMMA TurnKeeps ==
  ASSUME ChatInv, TurnStep
  PROVE  ChatInv'
<1>0. ChatTyped /\ Shown /\ Own /\ RunPerJob
      /\ UNCHANGED <<tool, answer, pressed, runs, jobs>>
  BY DEF ChatInv, TurnStep, EnsureThread, EnsureRun, CallTool, StoreProposal, Done, TurnLost
<1>1. turn \in TurnRows /\ proposals \in Seq(ProposalRows)
  BY <1>0 DEF ChatTyped
<1>2. RunPerJob'
  BY <1>0 DEF RunPerJob, Enqueueing
<1>3. threadRuns' \in {0, 1}
  BY <1>0 DEF ChatTyped, TurnStep, EnsureThread, EnsureRun, CallTool, StoreProposal, Done, TurnLost,
              RunOfThread
<1>4. unasked' = FALSE
  <2>1. ~tool.confirm => ~tool.spends /\ tool.effect # "write"
    BY <1>0, UngatedIsHarmless DEF ChatTyped
  <2>2. unasked' = unasked \/ (~tool.confirm /\ unasked' = (unasked \/ tool.spends \/ tool.effect = "write"))
    BY DEF TurnStep, EnsureThread, EnsureRun, CallTool, StoreProposal, Done, TurnLost, Gated
  <2> QED
    BY <1>0, <2>1, <2>2 DEF ChatTyped
<1>5. CASE StoreProposal
  <2> DEFINE row == [state |-> "proposed", job |-> 0]
             new == Len(proposals) + 1
  <2>1. proposals' = Append(proposals, row) /\ UNCHANGED told /\ row \in ProposalRows /\ row.job = 0
    BY <1>5 DEF StoreProposal, ProposalRows
  <2> HIDE DEF row
  <2>2. proposals' \in Seq(ProposalRows) /\ DOMAIN proposals' = DOMAIN proposals \cup {new}
        /\ proposals'[new] = row /\ \A n \in DOMAIN proposals : proposals'[n] = proposals[n]
    BY <1>1, <2>1, Appended
  <2>3. new \in Nat /\ turn.pending > 0
        /\ turn' = [turn EXCEPT !.pc = "store", !.pending = @ - 1, !.stored = @ \cup {new}]
    BY <1>1, <1>5 DEF StoreProposal
  <2> HIDE DEF new
  <2>4. turn' \in TurnRows /\ turn'.stored = turn.stored \cup {new}
    <3>1. turn.pending - 1 \in Nat /\ turn.stored \cup {new} \in SUBSET Nat /\ "store" \in TurnSteps
      BY <1>1, <2>3 DEF TurnRows, TurnSteps
    <3> QED
      BY <1>1, <2>3, <3>1 DEF TurnRows
  <2>5. ChatTyped'
    BY <1>0, <1>3, <1>4, <2>2, <2>4 DEF ChatTyped
  <2>6. Shown'
    BY <1>0, <2>1, <2>2, <2>4 DEF Shown
  <2>7. Own'
    BY <1>0, <2>1, <2>2 DEF Own
  <2> QED
    BY <1>2, <2>5, <2>6, <2>7 DEF ChatInv
<1>6. CASE ~StoreProposal
  <2>1. UNCHANGED proposals
    BY <1>6 DEF TurnStep, EnsureThread, EnsureRun, CallTool, Done, TurnLost
  <2>2. turn' \in TurnRows /\ turn'.stored \subseteq turn.stored
    <3>1. Idle \in TurnRows /\ Idle.stored = {} /\ [Idle EXCEPT !.pc = "thread"] \in TurnRows
          /\ [Idle EXCEPT !.pc = "thread"].stored = {}
      BY ChatAssumption DEF Idle, TurnRows, TurnSteps
    <3>2. CASE CallTool
      <4>1. turn.calls + 1 \in 0..MaxCalls /\ turn.pending + 1 \in Nat
        BY <1>1, <3>2, ChatAssumption DEF CallTool, TurnRows
      <4>2. \/ turn' = [turn EXCEPT !.calls = @ + 1]
            \/ turn' = [turn EXCEPT !.calls = @ + 1, !.pending = @ + 1]
        BY <3>2 DEF CallTool
      <4> QED
        BY <1>1, <4>1, <4>2 DEF TurnRows
    <3>3. CASE EnsureRun
      BY <1>1, <3>3 DEF EnsureRun, TurnRows, TurnSteps
    <3>4. CASE EnsureThread \/ Done \/ TurnLost
      BY <3>1, <3>4 DEF EnsureThread, Done, TurnLost
    <3> QED
      BY <1>6, <3>2, <3>3, <3>4 DEF TurnStep
  <2>3. ChatTyped'
    BY <1>0, <1>3, <1>4, <2>1, <2>2 DEF ChatTyped
  <2>4. told \subseteq told' /\ told' \subseteq told \cup turn.stored
    BY <1>6 DEF TurnStep, EnsureThread, EnsureRun, CallTool, Done, TurnLost
  <2>5. Shown'
    BY <1>0, <2>1, <2>2, <2>4 DEF Shown
  <2>6. Own'
    BY <1>0, <2>1 DEF Own
  <2> QED
    BY <1>2, <2>3, <2>5, <2>6 DEF ChatInv
<1> QED
  BY <1>5, <1>6

\* A POST, a decline, a record and a loss enqueue nothing.
LEMMA NotEnqueueing ==
  ASSUME RunPerJob, UNCHANGED <<runs, jobs>>, Enqueueing' \subseteq Enqueueing
  PROVE  RunPerJob' /\ IsFiniteSet(Enqueueing)
<1>1. IsFiniteSet(Enqueueing) /\ IsFiniteSet(Enqueueing')
      /\ Cardinality(Enqueueing') <= Cardinality(Enqueueing)
      /\ Cardinality(Enqueueing) \in Nat /\ Cardinality(Enqueueing') \in Nat
  BY FS_Subset, FS_CardinalityType DEF RunPerJob
<1> QED
  BY <1>1 DEF RunPerJob

\* The confirm route reads a message that was told, and what is accepted is pressed.
LEMMA PostKeeps ==
  ASSUME ChatInv, NEW a \in Answers, NEW n \in told, NEW accept \in BOOLEAN, Post(a, n, accept)
  PROVE  ChatInv'
<1>0. ChatTyped /\ Shown /\ Own /\ RunPerJob /\ answer[a].pc = "idle"
      /\ UNCHANGED <<tool, threadRuns, turn, proposals, told, runs, jobs, unasked>>
      /\ pressed' = IF accept THEN pressed \cup {n} ELSE pressed
  BY DEF ChatInv, Post
<1>1. answer \in [Answers -> AnswerRows] /\ n \in DOMAIN proposals /\ n \in Nat
  BY <1>0 DEF ChatTyped, Shown
<1>2. PICK pc \in {"refused", "accept", "decline"} :
        /\ answer' = [answer EXCEPT ![a] = [@ EXCEPT !.pc = pc, !.n = n]]
        /\ pc = "accept" => accept
  BY DEF Post
<1>3. [answer[a] EXCEPT !.pc = pc, !.n = n] \in AnswerRows
  BY <1>1, <1>2 DEF AnswerRows, AnswerSteps
<1>4. /\ answer' \in [Answers -> AnswerRows]
      /\ answer'[a].pc = pc /\ answer'[a].n = n /\ answer'[a].result = answer[a].result
      /\ \A b \in Answers : b # a => answer'[b] = answer[b]
  BY <1>1, <1>2, <1>3 DEF AnswerRows
<1>5. ChatTyped'
  BY <1>0, <1>4 DEF ChatTyped
<1>6. Shown'
  BY <1>0, <1>2, <1>4 DEF Shown
<1>7. Own'
  <2>1. answer'[a].pc # "enqueue" /\ answer'[a].result = 0
    BY <1>0, <1>2, <1>4 DEF Own
  <2>2. \A b \in Answers : answer'[b].pc = "enqueue" \/ answer'[b].result # 0 => answer'[b] = answer[b]
    BY <1>4, <2>1
  <2>3. pressed \subseteq pressed'
    BY <1>0
  <2> QED
    BY <1>0, <2>2, <2>3 DEF Own
<1>8. RunPerJob'
  <2>1. Enqueueing' \subseteq Enqueueing
    BY <1>2, <1>4 DEF Enqueueing
  <2> QED
    BY <1>0, <2>1, NotEnqueueing
<1> QED
  BY <1>5, <1>6, <1>7, <1>8 DEF ChatInv

\* A decline is written back, and a POST may be lost between two of its steps.
LEMMA DeclineKeeps ==
  ASSUME ChatInv, NEW a \in Answers, Decline(a) \/ AnswerLost(a)
  PROVE  ChatInv'
<1>0. ChatTyped /\ Shown /\ Own /\ RunPerJob /\ answer[a].pc # "idle"
      /\ UNCHANGED <<tool, threadRuns, turn, told, pressed, runs, jobs, unasked>>
  BY DEF ChatInv, Decline, AnswerLost
<1>1. answer \in [Answers -> AnswerRows] /\ proposals \in Seq(ProposalRows)
  BY <1>0 DEF ChatTyped
<1>2. PICK pc \in {"done", "lost"} : answer' = [answer EXCEPT ![a].pc = pc]
  BY DEF Decline, AnswerLost
<1>3. /\ answer' \in [Answers -> AnswerRows]
      /\ \A b \in Answers : answer'[b].n = answer[b].n /\ answer'[b].result = answer[b].result
                             /\ answer'[b].run = answer[b].run
      /\ answer'[a].pc = pc /\ \A b \in Answers : b # a => answer'[b].pc = answer[b].pc
  BY <1>1, <1>2 DEF AnswerRows, AnswerSteps
<1>4. /\ proposals' \in Seq(ProposalRows) /\ DOMAIN proposals' = DOMAIN proposals
      /\ \A n \in DOMAIN proposals : proposals'[n].job = proposals[n].job
  <2>1. CASE Decline(a)
    <3> DEFINE n == answer[a].n
               row == [proposals[n] EXCEPT !.state = "declined"]
    <3>1. n \in DOMAIN proposals /\ proposals' = [proposals EXCEPT ![n] = row]
      BY <1>0, <1>1, <2>1 DEF Decline, Shown
    <3>2. row \in ProposalRows /\ row.job = proposals[n].job
      <4>1. proposals[n] \in ProposalRows
        BY <1>1, <3>1
      <4> HIDE DEF n
      <4> QED
        BY <4>1 DEF ProposalRows
    <3> HIDE DEF n, row
    <3> QED
      BY <1>1, <3>1, <3>2, Replaced
  <2>2. CASE AnswerLost(a)
    BY <1>1, <2>2 DEF AnswerLost
  <2> QED
    BY <2>1, <2>2
<1>5. ChatTyped'
  BY <1>0, <1>3, <1>4 DEF ChatTyped
<1>6. Shown'
  BY <1>0, <1>2, <1>3, <1>4 DEF Shown
<1>7. Own'
  BY <1>0, <1>2, <1>3, <1>4 DEF Own
<1>8. RunPerJob'
  <2>1. Enqueueing' \subseteq Enqueueing
    BY <1>2, <1>3 DEF Enqueueing
  <2> QED
    BY <1>0, <2>1, NotEnqueueing
<1> QED
  BY <1>5, <1>6, <1>7, <1>8 DEF ChatInv

\* The handler of an accepted proposal objects, writes for itself, or opens a Run.
LEMMA HandleKeeps ==
  ASSUME ChatInv, NEW a \in Answers, Handle(a)
  PROVE  ChatInv'
<1>0. ChatTyped /\ Shown /\ Own /\ RunPerJob /\ answer[a].pc = "accept"
      /\ UNCHANGED <<tool, threadRuns, turn, proposals, told, pressed, jobs, unasked>>
  BY DEF ChatInv, Handle
<1>1. answer \in [Answers -> AnswerRows] /\ runs \in Seq(RunRows)
  BY <1>0 DEF ChatTyped
<1>2. CASE runs' # runs
  <2> DEFINE row == [trigger |-> tool.trigger, by |-> answer[a].n]
             new == Len(runs) + 1
  <2>1. runs' = Append(runs, row) /\ answer' = [answer EXCEPT ![a].pc = "enqueue", ![a].run = new]
        /\ Len(runs) < MaxJobs
    BY <1>2 DEF Handle
  <2>2. row \in RunRows /\ row.by = answer[a].n
    BY <1>0, <1>1 DEF RunRows, ChatTyped, AnswerRows
  <2> HIDE DEF row
  <2>3. runs' \in Seq(RunRows) /\ Len(runs') = Len(runs) + 1 /\ DOMAIN runs' = DOMAIN runs \cup {new}
        /\ runs'[new] = row /\ \A i \in DOMAIN runs : runs'[i] = runs[i]
    BY <1>1, <2>1, <2>2, Appended
  <2>4. new \in Nat
    BY <1>1
  <2> HIDE DEF new
  <2>5. /\ answer' \in [Answers -> AnswerRows]
        /\ answer'[a].pc = "enqueue" /\ answer'[a].run = new
        /\ answer'[a].n = answer[a].n /\ answer'[a].result = answer[a].result
        /\ \A b \in Answers : b # a => answer'[b] = answer[b]
    BY <1>1, <2>1, <2>4 DEF AnswerRows, AnswerSteps
  <2>6. ChatTyped'
    BY <1>0, <2>3, <2>5 DEF ChatTyped
  <2>7. Shown'
    BY <1>0, <2>5 DEF Shown
  <2>8. Own'
    BY <1>0, <2>2, <2>3, <2>5 DEF Own
  <2>9. RunPerJob'
    <3>1. Enqueueing' = Enqueueing \cup {a} /\ a \notin Enqueueing
      BY <1>0, <2>5 DEF Enqueueing
    <3>2. IsFiniteSet(Enqueueing') /\ Cardinality(Enqueueing') = Cardinality(Enqueueing) + 1
          /\ Cardinality(Enqueueing) \in Nat
      BY <1>0, <3>1, FS_AddElement, FS_CardinalityType DEF RunPerJob
    <3>3. Len(jobs) \in Nat /\ Len(runs) \in Nat
      BY <1>0, <1>1 DEF ChatTyped
    <3> QED
      BY <1>0, <2>1, <2>3, <3>2, <3>3, ChatAssumption DEF RunPerJob
  <2> QED
    BY <2>6, <2>7, <2>8, <2>9 DEF ChatInv
<1>3. CASE runs' = runs
  <2>1. answer' = [answer EXCEPT ![a].pc = "record"]
    <3>1. runs # Append(runs, [trigger |-> tool.trigger, by |-> answer[a].n])
      BY <1>1
    <3> QED
      BY <1>3, <3>1 DEF Handle
  <2>2. /\ answer' \in [Answers -> AnswerRows] /\ answer'[a].pc = "record"
        /\ answer'[a].n = answer[a].n /\ answer'[a].result = answer[a].result
        /\ \A b \in Answers : b # a => answer'[b] = answer[b]
    BY <1>1, <2>1 DEF AnswerRows, AnswerSteps
  <2>3. ChatTyped' /\ Shown'
    BY <1>0, <1>3, <2>2 DEF ChatTyped, Shown
  <2>5. Own'
    <3>1. answer'[a].pc # "enqueue" /\ (answer'[a].result # 0 => answer[a].result # 0)
      BY <2>2
    <3> QED
      BY <1>0, <1>3, <2>2, <3>1 DEF Own
  <2>4. RunPerJob'
    <3>1. Enqueueing' \subseteq Enqueueing
      BY <2>2 DEF Enqueueing
    <3> QED
      BY <1>0, <1>3, <3>1, NotEnqueueing
  <2> QED
    BY <2>3, <2>4, <2>5 DEF ChatInv
<1> QED
  BY <1>2, <1>3

\* The Job that is enqueued is the answer's own, in the answer's own Run.
LEMMA EnqueueKeeps ==
  ASSUME ChatInv, NEW a \in Answers, Enqueue(a)
  PROVE  ChatInv'
<1>0. ChatTyped /\ Shown /\ Own /\ RunPerJob /\ answer[a].pc = "enqueue"
      /\ UNCHANGED <<tool, threadRuns, turn, proposals, told, pressed, runs, unasked>>
  BY DEF ChatInv, Enqueue
<1>1. answer \in [Answers -> AnswerRows] /\ jobs \in Seq(JobRows)
  BY <1>0 DEF ChatTyped
<1> DEFINE row == [kind |-> tool.kind, run |-> answer[a].run, by |-> answer[a].n]
           new == Len(jobs) + 1
<1>2. jobs' = Append(jobs, row) /\ answer' = [answer EXCEPT ![a].pc = "record", ![a].result = new]
  BY DEF Enqueue
<1>3. row \in JobRows /\ row.by = answer[a].n /\ row.run = answer[a].run
  BY <1>0, <1>1 DEF JobRows, ChatTyped, AnswerRows
<1> HIDE DEF row
<1>4. jobs' \in Seq(JobRows) /\ Len(jobs') = Len(jobs) + 1 /\ DOMAIN jobs' = DOMAIN jobs \cup {new}
      /\ jobs'[new] = row /\ \A i \in DOMAIN jobs : jobs'[i] = jobs[i]
  BY <1>1, <1>2, <1>3, Appended
<1>5. new \in Nat
  BY <1>1
<1> HIDE DEF new
<1>6. /\ answer' \in [Answers -> AnswerRows]
      /\ answer'[a].pc = "record" /\ answer'[a].result = new /\ answer'[a].n = answer[a].n
      /\ \A b \in Answers : b # a => answer'[b] = answer[b]
  BY <1>1, <1>2, <1>5 DEF AnswerRows, AnswerSteps
<1>7. ChatTyped' /\ Shown'
  BY <1>0, <1>4, <1>6 DEF ChatTyped, Shown
<1>8. Own'
  <2>1. row.run \in DOMAIN runs /\ runs[row.run].by = row.by /\ row.by \in pressed
    BY <1>0, <1>3 DEF Own, Shown
  <2> QED
    BY <1>0, <1>3, <1>4, <1>6, <2>1 DEF Own
<1>9. RunPerJob'
  <2>1. Enqueueing' = Enqueueing \ {a} /\ a \in Enqueueing
    BY <1>0, <1>6 DEF Enqueueing
  <2>2. IsFiniteSet(Enqueueing') /\ Cardinality(Enqueueing') = Cardinality(Enqueueing) - 1
        /\ Cardinality(Enqueueing) \in Nat
    BY <1>0, <2>1, FS_RemoveElement, FS_CardinalityType DEF RunPerJob
  <2>3. Len(jobs) \in Nat /\ Len(runs) \in Nat
    BY <1>0, <1>1 DEF ChatTyped
  <2> QED
    BY <1>0, <1>4, <2>2, <2>3 DEF RunPerJob
<1> QED
  BY <1>7, <1>8, <1>9 DEF ChatInv

\* The message is pointed at the answer's own Job, or at none.
LEMMA RecordKeeps ==
  ASSUME ChatInv, NEW a \in Answers, Record(a)
  PROVE  ChatInv'
<1>0. ChatTyped /\ Shown /\ Own /\ RunPerJob /\ answer[a].pc = "record"
      /\ UNCHANGED <<tool, threadRuns, turn, told, pressed, runs, jobs, unasked>>
  BY DEF ChatInv, Record
<1>1. answer \in [Answers -> AnswerRows] /\ proposals \in Seq(ProposalRows)
  BY <1>0 DEF ChatTyped
<1> DEFINE n == answer[a].n
           row == [state |-> "accepted", job |-> answer[a].result]
<1>2. n \in DOMAIN proposals /\ proposals' = [proposals EXCEPT ![n] = row]
      /\ answer' = [answer EXCEPT ![a].pc = "done"]
  BY <1>0 DEF Record, JobOf, Shown
<1>3. row \in ProposalRows /\ row.job = answer[a].result
  BY <1>1 DEF ProposalRows, AnswerRows
<1>4. row.job # 0 => row.job \in DOMAIN jobs /\ jobs[row.job].by = n
  BY <1>0, <1>3 DEF Own
<1> HIDE DEF n, row
<1>5. proposals' \in Seq(ProposalRows) /\ DOMAIN proposals' = DOMAIN proposals
      /\ \A m \in DOMAIN proposals : proposals'[m] = IF m = n THEN row ELSE proposals[m]
  BY <1>1, <1>2, <1>3, Replaced
<1>6. /\ answer' \in [Answers -> AnswerRows] /\ answer'[a].pc = "done"
      /\ answer'[a].n = answer[a].n /\ answer'[a].result = answer[a].result
      /\ \A b \in Answers : b # a => answer'[b] = answer[b]
  BY <1>1, <1>2 DEF AnswerRows, AnswerSteps
<1>7. ChatTyped'
  BY <1>0, <1>5, <1>6 DEF ChatTyped
<1>8. Shown'
  BY <1>0, <1>5, <1>6 DEF Shown
<1>9. Own'
  <2>1. \A m \in DOMAIN proposals' : proposals'[m].job # 0 =>
          proposals'[m].job \in DOMAIN jobs /\ jobs[proposals'[m].job].by = m
    BY <1>0, <1>4, <1>5 DEF Own
  <2> QED
    BY <1>0, <1>6, <2>1 DEF Own
<1>10. RunPerJob'
  <2>1. Enqueueing' \subseteq Enqueueing
    BY <1>6 DEF Enqueueing
  <2> QED
    BY <1>0, <2>1, NotEnqueueing
<1> QED
  BY <1>7, <1>8, <1>9, <1>10 DEF ChatInv

\* The page's gate opens a Run and enqueues the Job in it, in one act.
LEMMA PageKeeps ==
  ASSUME ChatInv, RunConfirmedJobStart
  PROVE  ChatInv'
<1>0. ChatTyped /\ Shown /\ Own /\ RunPerJob
      /\ UNCHANGED <<tool, threadRuns, turn, proposals, told, answer, pressed, unasked>>
  BY DEF ChatInv, RunConfirmedJobStart
<1>1. jobs \in Seq(JobRows) /\ runs \in Seq(RunRows) /\ Len(jobs) \in Nat /\ Len(runs) \in Nat
  BY <1>0 DEF ChatTyped
<1> DEFINE run == [trigger |-> tool.trigger, by |-> Page]
           job == [kind |-> tool.kind, run |-> Len(runs) + 1, by |-> Page]
<1>2. runs' = Append(runs, run) /\ jobs' = Append(jobs, job) /\ Len(runs) < MaxJobs
  BY DEF RunConfirmedJobStart
<1>3. run \in RunRows /\ run.by = Page /\ job \in JobRows /\ job.by = Page /\ job.run = Len(runs) + 1
  BY <1>0, <1>1 DEF RunRows, JobRows, Page, ChatTyped
<1> HIDE DEF run, job
<1>4. /\ runs' \in Seq(RunRows) /\ Len(runs') = Len(runs) + 1
      /\ DOMAIN runs' = DOMAIN runs \cup {Len(runs) + 1}
      /\ runs'[Len(runs) + 1] = run /\ \A i \in DOMAIN runs : runs'[i] = runs[i]
  BY <1>1, <1>2, <1>3, Appended
<1>5. /\ jobs' \in Seq(JobRows) /\ Len(jobs') = Len(jobs) + 1
      /\ DOMAIN jobs' = DOMAIN jobs \cup {Len(jobs) + 1}
      /\ jobs'[Len(jobs) + 1] = job /\ \A i \in DOMAIN jobs : jobs'[i] = jobs[i]
  BY <1>1, <1>2, <1>3, Appended
<1>6. ChatTyped' /\ Shown'
  BY <1>0, <1>4, <1>5 DEF ChatTyped, Shown
<1>7. Own'
  <2>1. \A i \in DOMAIN jobs' : jobs'[i].run \in DOMAIN runs' /\ runs'[jobs'[i].run].by = jobs'[i].by
                             /\ (jobs'[i].by # Page => jobs'[i].by \in pressed)
    BY <1>0, <1>3, <1>4, <1>5 DEF Own
  <2>2. \A i \in DOMAIN jobs : i \in DOMAIN jobs' /\ jobs'[i] = jobs[i]
    BY <1>5
  <2>3. \A i \in DOMAIN runs : i \in DOMAIN runs' /\ runs'[i] = runs[i]
    BY <1>4
  <2> HIDE DEF Page
  <2> QED
    BY <1>0, <2>1, <2>2, <2>3 DEF Own
<1>8. RunPerJob'
  <2>1. Enqueueing' = Enqueueing
    BY <1>0 DEF Enqueueing
  <2>2. Cardinality(Enqueueing) \in Nat
    BY <1>0, FS_CardinalityType DEF RunPerJob
  <2> QED
    BY <1>0, <1>1, <1>2, <1>4, <1>5, <2>1, <2>2, ChatAssumption DEF RunPerJob
<1> QED
  BY <1>6, <1>7, <1>8 DEF ChatInv

\* Work keeps as many Runs as Jobs, each Job in the Run of its number.
LEMMA WorkKeeps ==
  ASSUME ChatInv, Work
  PROVE  ChatInv'
<1>0. ChatTyped /\ Shown /\ Own /\ RunPerJob /\ UNCHANGED <<tool, unasked>>
  BY DEF ChatInv, Work
<1>1. tool \in Bootable /\ jobs \in Seq(JobRows) /\ DOMAIN jobs = 1..Len(jobs) /\ Len(jobs) \in Nat
      /\ runs \in Seq(RunRows) /\ Len(runs) \in Nat
  BY <1>0 DEF ChatTyped
<1>2. /\ jobs' = [i \in DOMAIN jobs |-> [kind |-> jobs[i].kind, run |-> i, by |-> Page]]
      /\ runs' = [i \in DOMAIN jobs |-> [trigger |-> tool.trigger, by |-> Page]]
      /\ threadRuns' = 0 /\ turn' = Idle /\ proposals' = <<>> /\ told' = {} /\ pressed' = {}
      /\ answer' = [a \in Answers |-> NoAnswer]
  BY DEF Work
<1>3. /\ jobs' \in Seq(JobRows) /\ DOMAIN jobs' = 1..Len(jobs) /\ Len(jobs') = Len(jobs)
      /\ \A i \in 1..Len(jobs) : jobs'[i].run = i /\ jobs'[i].by = Page
  <2>1. \A i \in 1..Len(jobs) : [kind |-> jobs[i].kind, run |-> i, by |-> Page] \in JobRows
    <3> TAKE i \in 1..Len(jobs)
    <3>1. jobs[i] \in JobRows /\ i \in Nat /\ Page \in Nat
      BY <1>1 DEF Page
    <3> QED
      BY <3>1 DEF JobRows
  <2> QED
    BY <1>1, <1>2, <2>1
<1>4. /\ runs' \in Seq(RunRows) /\ DOMAIN runs' = 1..Len(jobs) /\ Len(runs') = Len(jobs)
      /\ \A i \in 1..Len(jobs) : runs'[i].by = Page
  <2>1. [trigger |-> tool.trigger, by |-> Page] \in RunRows
    BY <1>1 DEF RunRows, Page
  <2> QED
    BY <1>1, <1>2, <2>1
<1>5. ChatTyped'
  <2>1. NoAnswer \in AnswerRows /\ Idle \in TurnRows
    BY ChatAssumption DEF NoAnswer, AnswerRows, AnswerSteps, Idle, TurnRows, TurnSteps
  <2> QED
    BY <1>0, <1>2, <1>3, <1>4, <2>1 DEF ChatTyped
<1>6. Shown'
  BY <1>2 DEF Shown, Idle, NoAnswer
<1>7. Own'
  BY <1>2, <1>3, <1>4 DEF Own, NoAnswer
<1>8. RunPerJob'
  <2>1. Enqueueing' = {}
    BY <1>2 DEF Enqueueing, NoAnswer
  <2>2. IsFiniteSet(Enqueueing') /\ Cardinality(Enqueueing') = 0 /\ Cardinality(Enqueueing) \in Nat
    BY <1>0, <2>1, FS_EmptySet, FS_CardinalityType DEF RunPerJob
  <2> QED
    BY <1>0, <1>1, <1>3, <1>4, <2>2, ChatAssumption DEF RunPerJob
<1> QED
  BY <1>5, <1>6, <1>7, <1>8 DEF ChatInv

\* Every step at the desk keeps chat to what it was asked.
LEMMA ChatKeeps ==
  ASSUME ChatInv, [DeskNext]_deskVars
  PROVE  ChatInv'
<1>1. CASE ChatNext
  BY <1>1, TurnKeeps, PostKeeps, DeclineKeeps, HandleKeeps, EnqueueKeeps, RecordKeeps, PageKeeps
     DEF ChatNext, AnswerStep
<1>2. CASE Work
  BY <1>2, WorkKeeps
<1>3. CASE UNCHANGED chatVars
  <2>1. UNCHANGED <<tool, threadRuns, turn, proposals, told, answer, pressed, runs, jobs, unasked>>
    BY <1>3 DEF chatVars
  <2> QED
    BY <2>1 DEF ChatInv, ChatTyped, Shown, Own, RunPerJob, Enqueueing
<1>4. ChatNext \/ Work \/ UNCHANGED chatVars
  BY DEF DeskNext, AskStep, LeadsStep, VersionsStep, deskVars
<1> QED
  BY <1>1, <1>2, <1>3, <1>4

\* Chat only proposes: no turn writes or spends, every Job from chat answers a
\* proposal that was accepted, in the Run of that acceptance, and the Thread has
\* one Run, whatever is posted twice or lost (turn.ts, confirm/route.ts).
THEOREM DeskChat == DeskSafety => []ChatOnlyProposes
<1>1. ChatInv => ChatOnlyProposes
  <2> SUFFICES ASSUME ChatInv PROVE ChatOnlyProposes
    OBVIOUS
  <2>1. ChatTyped /\ Shown /\ Own /\ RunPerJob
    BY DEF ChatInv
  <2>2. ChatTypeOK
    <3>1. tool \in JobStarts \cup LaterTools /\ threadRuns \in Nat
          /\ turn.calls \in 0..MaxCalls /\ Len(jobs) \in Nat /\ Len(runs) \in Nat
      BY <2>1 DEF ChatTyped, Bootable, TurnRows
    <3>2. \A n \in DOMAIN proposals : proposals[n].state \in {"proposed", "accepted", "declined"}
                                      /\ proposals[n].job \in Nat
      <4> TAKE n \in DOMAIN proposals
      <4>1. proposals[n] \in ProposalRows
        BY <2>1 DEF ChatTyped
      <4> QED
        BY <4>1 DEF ProposalRows
    <3>3. \A n \in DOMAIN proposals : proposals[n].job \in 0..Len(jobs)
      <4>1. DOMAIN jobs = 1..Len(jobs)
        BY <2>1 DEF ChatTyped
      <4> QED
        BY <2>1, <3>1, <3>2, <4>1 DEF Own
    <3>4. Len(runs) <= MaxJobs /\ Len(jobs) <= Len(runs)
      BY <2>1, <3>1, FS_CardinalityType DEF RunPerJob
    <3> QED
      BY <2>1, <3>1, <3>2, <3>3, <3>4 DEF ChatTypeOK, Shown
  <2>3. NothingUnasked
    BY <2>1 DEF NothingUnasked, ChatTyped, Own
  <2>4. OneRunPerThread
    BY <2>1 DEF OneRunPerThread, ChatTyped
  <2>5. PointsAtItsOwnJob
    BY <2>1 DEF PointsAtItsOwnJob, Own
  <2> QED
    BY <2>2, <2>3, <2>4, <2>5 DEF ChatOnlyProposes
<1>2. DeskInit => ChatInv
  BY ChatBegins DEF DeskInit
<1> QED
  BY <1>1, <1>2, ChatKeeps, PTL DEF DeskSafety

-----------------------------------------------------------------------------
(* The order of rows.                                                      *)

\* Counting the predecessors in a strict total order numbers a finite set 1, 2,
\* ..., with no place left out.
LEMMA EveryPlaceIsTaken ==
  ASSUME NEW S, IsFiniteSet(S), NEW R, NEW place,
         \A i \in S : <<i, i>> \notin R,
         \A i, j, m \in S : <<i, j>> \in R /\ <<j, m>> \in R => <<i, m>> \in R,
         \A i, j \in S : i = j \/ <<i, j>> \in R \/ <<j, i>> \in R,
         place = [i \in S |-> Cardinality({j \in S : <<j, i>> \in R}) + 1]
  PROVE  place \in Surjection(S, 1..Cardinality(S))
<1> DEFINE Below(i) == {j \in S : <<j, i>> \in R}
           n == Cardinality(S)
<1>1. n \in Nat /\ IsFiniteSet(1..n) /\ Cardinality(1..n) = n
  BY FS_CardinalityType, FS_Interval
<1>2. place = [i \in S |-> Cardinality(Below(i)) + 1]
  OBVIOUS
<1>3. \A i \in S : Below(i) \subseteq S /\ Below(i) \subseteq S \ {i}
  OBVIOUS
<1>4. \A i, j \in S : <<i, j>> \in R => i \in Below(j) /\ Below(i) \subseteq Below(j) \ {i}
  OBVIOUS
<1> HIDE DEF Below
<1>5. \A i \in S : IsFiniteSet(Below(i)) /\ Cardinality(Below(i)) \in Nat
  BY <1>3, FS_Subset, FS_CardinalityType
<1>6. \A i \in S : Cardinality(Below(i)) < n
  <2> TAKE i \in S
  <2>1. IsFiniteSet(S \ {i}) /\ Cardinality(S \ {i}) = n - 1
    BY FS_RemoveElement
  <2>2. Cardinality(Below(i)) <= Cardinality(S \ {i})
    BY <1>3, <2>1, FS_Subset
  <2> QED
    BY <1>1, <1>5, <2>1, <2>2
<1>7. \A i, j \in S : <<i, j>> \in R => Cardinality(Below(i)) < Cardinality(Below(j))
  <2> TAKE i, j \in S
  <2> HAVE <<i, j>> \in R
  <2>1. IsFiniteSet(Below(j) \ {i}) /\ Cardinality(Below(j) \ {i}) = Cardinality(Below(j)) - 1
    BY <1>4, <1>5, FS_RemoveElement
  <2>2. Cardinality(Below(i)) <= Cardinality(Below(j) \ {i})
    BY <1>4, <2>1, FS_Subset
  <2> QED
    BY <1>5, <2>1, <2>2
<1>8. \A i \in S : place[i] = Cardinality(Below(i)) + 1 /\ place[i] \in 1..n
  BY <1>1, <1>2, <1>5, <1>6
<1>9. \A i, j \in S : place[i] = place[j] => i = j
  <2> SUFFICES ASSUME NEW i \in S, NEW j \in S, place[i] = place[j] PROVE i = j
    OBVIOUS
  <2>1. Cardinality(Below(i)) = Cardinality(Below(j))
    BY <1>5, <1>8
  <2>2. <<i, j>> \notin R /\ <<j, i>> \notin R
    BY <1>5, <1>7, <2>1
  <2> QED
    BY <2>2
<1>10. place \in Injection(S, 1..n)
  <2>1. place \in [S -> 1..n]
    BY <1>2, <1>8
  <2> QED
    BY <1>9, <2>1 DEF Injection, IsInjective
<1> QED
  BY <1>1, <1>10, FS_Injection

\* What InOrder puts at its places are the rows of the positions it was given.
LEMMA InOrderRows ==
  ASSUME NEW rows, NEW kept, NEW place \in Surjection(kept, 1..Cardinality(kept)),
         Cardinality(kept) \in Nat, NEW S, \A i \in kept : rows[i] \in S
  PROVE  InOrder(rows, place) \in Seq(S) /\ Len(InOrder(rows, place)) = Cardinality(kept)
<1>1. DOMAIN place = kept
  BY DEF Surjection
<1>2. \A p \in 1..Cardinality(kept) : \E i \in kept : place[i] = p
  BY DEF Surjection
<1>3. InOrder(rows, place) = [p \in 1..Cardinality(kept) |-> rows[CHOOSE i \in kept : place[i] = p]]
  BY <1>1 DEF InOrder
<1>4. \A p \in 1..Cardinality(kept) : rows[CHOOSE i \in kept : place[i] = p] \in S
  BY <1>2
<1> DEFINE row(p) == rows[CHOOSE i \in kept : place[i] = p]
<1> HIDE DEF row
<1>5. \A p \in 1..Cardinality(kept) : row(p) \in S
  BY <1>4 DEF row
<1>6. InOrder(rows, place) = [p \in 1..Cardinality(kept) |-> row(p)]
  BY <1>3 DEF row
<1> QED
  BY <1>5, <1>6

\* The positions of a sequence are finitely many.
LEMMA Positions ==
  ASSUME NEW s \in Seq(Companies), NEW P \in SUBSET (DOMAIN s)
  PROVE  IsFiniteSet(P) /\ Cardinality(P) \in Nat
<1>1. DOMAIN s = 1..Len(s) /\ Len(s) \in Nat
  OBVIOUS
<1>2. IsFiniteSet(1..Len(s))
  BY <1>1, FS_Interval
<1> QED
  BY <1>1, <1>2, FS_Subset, FS_CardinalityType

\* A pool holds companies, whatever page is added to it.
LEMMA PooledRows ==
  ASSUME NEW pool \in Seq(Companies), NEW rows \in Seq(Companies)
  PROVE  Pooled(pool, rows) \in Seq(Companies)
<1> DEFINE first == {i \in DOMAIN rows : rows[i] \notin ToSet(pool) /\ \A j \in 1..i - 1 : rows[j] # rows[i]}
           R == {e \in first \X first : e[1] < e[2]}
           place == [i \in first |-> Cardinality({j \in first : j < i}) + 1]
<1>1. IsFiniteSet(first) /\ Cardinality(first) \in Nat
  BY Positions
<1>2. first \subseteq Nat /\ \A i \in first : rows[i] \in Companies
  OBVIOUS
<1>3. place = [i \in first |-> Cardinality({j \in first : <<j, i>> \in R}) + 1]
  <2>1. \A i \in first : {j \in first : j < i} = {j \in first : <<j, i>> \in R}
    OBVIOUS
  <2> QED
    BY <2>1
<1> HIDE DEF first
<1>4. \A i, j, m \in first : <<i, i>> \notin R /\ (<<i, j>> \in R /\ <<j, m>> \in R => <<i, m>> \in R)
                              /\ (i = j \/ <<i, j>> \in R \/ <<j, i>> \in R)
  BY <1>2
<1> HIDE DEF R, place
<1>5. place \in Surjection(first, 1..Cardinality(first))
  BY <1>1, <1>3, <1>4, EveryPlaceIsTaken
<1>6. InOrder(rows, place) \in Seq(Companies)
  BY <1>1, <1>2, <1>5, InOrderRows
<1>7. Unseen(rows, ToSet(pool)) = InOrder(rows, place)
  BY DEF Unseen, first, place
<1> QED
  BY <1>6, <1>7 DEF Pooled

\* The queue holds at most TopN companies of the pool, none that was dropped.
LEMMA RankedRows ==
  ASSUME NEW pool \in Seq(Companies), NEW dropped
  PROVE  Ranked(pool, dropped) \in Seq(Companies \ dropped) /\ Len(Ranked(pool, dropped)) <= TopN
<1> DEFINE kept == {i \in DOMAIN pool : pool[i] \notin dropped}
           R == {e \in kept \X kept : Before(pool, e[1], e[2])}
           place == [i \in kept |-> Cardinality({j \in kept : Before(pool, j, i)}) + 1]
           n == Cardinality(kept)
           sorted == InOrder(pool, place)
           top == IF n < TopN THEN n ELSE TopN
<1>1. IsFiniteSet(kept) /\ n \in Nat
  BY Positions
<1>2. kept \subseteq Nat /\ \A i \in kept : pool[i] \in Companies /\ pool[i] \in Companies \ dropped
  OBVIOUS
<1>3. place = [i \in kept |-> Cardinality({j \in kept : <<j, i>> \in R}) + 1]
  <2>1. \A i \in kept : {j \in kept : Before(pool, j, i)} = {j \in kept : <<j, i>> \in R}
    OBVIOUS
  <2> QED
    BY <2>1
<1>4. Ranked(pool, dropped) = SubSeq(sorted, 1, top)
  BY DEF Ranked
<1> HIDE DEF kept
<1>5. /\ \A i \in kept : <<i, i>> \notin R
      /\ \A i, j, m \in kept : <<i, j>> \in R /\ <<j, m>> \in R => <<i, m>> \in R
      /\ \A i, j \in kept : i = j \/ <<i, j>> \in R \/ <<j, i>> \in R
  <2>1. \A i \in kept : PrefilterScore(pool[i]) \in Int /\ Shipments[pool[i]] \in Nat
    BY <1>2, LeadsAssumption DEF PrefilterScore
  <2>2. \A i, j \in kept : <<i, j>> \in R <=> Before(pool, i, j)
    OBVIOUS
  <2> HIDE DEF R
  <2>3. \A i, j, m \in kept : ~Before(pool, i, i)
           /\ (Before(pool, i, j) /\ Before(pool, j, m) => Before(pool, i, m))
           /\ (i = j \/ Before(pool, i, j) \/ Before(pool, j, i))
    <3> HIDE DEF n
    <3> QED
      BY <1>2, <2>1 DEF Before
  <2> QED
    BY <2>2, <2>3
<1> HIDE DEF R, place
<1>6. place \in Surjection(kept, 1..n)
  BY <1>1, <1>3, <1>5, EveryPlaceIsTaken
<1>7. sorted \in Seq(Companies \ dropped) /\ Len(sorted) = n
  BY <1>1, <1>2, <1>6, InOrderRows
<1> HIDE DEF sorted, n
<1>8. top \in Nat /\ top <= Len(sorted) /\ top <= TopN
  BY <1>1, <1>7, LeadsAssumption
<1> HIDE DEF top
<1> QED
  BY <1>4, <1>7, <1>8

-----------------------------------------------------------------------------
(* Leads.                                                                  *)

DiscoverSteps == {"waiting", "search", "rank", "classify", "done", "terminated"}
ClickSteps == {"idle", "writing", "enriched", "lost"}
Submissions == {"manufacturer", "unclear", "other"}
LeadRows == [class : Classes \cup {"none"},
             reason : {"none", "failed", "stopped", "outside the enum", "nothing submitted"},
             said : Seq(Submissions), dismissed : BOOLEAN, promoted : Nat]
SupplierRows == [lead : Companies, match : Companies \cup {Nobody}]
DiscoverRows == [pc : DiscoverSteps, offset : Nat, page : 0..PageCap - 1, pool : Seq(Companies),
                 queue : Seq(Companies \ Roster)]
ClickRows == [pc : ClickSteps, at : 1..3, lead : Companies \cup {Nobody}, supplier : Nat]

LeadsTyped ==
    /\ \A o \in DOMAIN trade : trade[o].rows \in Seq(Companies) /\ trade[o].next \in Nat
    /\ leads \in [Companies -> LeadRows \cup {NoLead}]
    /\ suppliers \in Seq(SupplierRows)
    /\ discover \in [Discovers -> DiscoverRows]
    /\ click \in [Clicks -> ClickRows]
    /\ dismissals \in Nat

\* A Job that classifies has a Lead to classify, and one that was stopped has
\* written the Lead at the head of what is left.
Queued ==
    \A d \in Discovers :
        /\ Len(discover[d].queue) <= TopN
        /\ discover[d].pc \in {"classify", "terminated"} => discover[d].queue # <<>>
        /\ discover[d].pc = "terminated" => leads[Head(discover[d].queue)] # NoLead

\* A promotion writes for the Lead and the Supplier it began with, and a Match
\* that is settled is settled on that Lead.
Promoting ==
    /\ \A k \in Clicks : click[k].pc # "idle" =>
         /\ click[k].lead \in Companies /\ leads[click[k].lead] # NoLead
         /\ click[k].supplier \in DOMAIN suppliers
         /\ suppliers[click[k].supplier].lead = click[k].lead
         /\ click[k].at > 1 => suppliers[click[k].supplier].match = click[k].lead
    /\ \A c \in Companies : leads[c] # NoLead /\ leads[c].promoted # 0 =>
         /\ leads[c].promoted \in DOMAIN suppliers
         /\ suppliers[leads[c].promoted].lead = c /\ suppliers[leads[c].promoted].match = c
    /\ \A s \in DOMAIN suppliers : suppliers[s].match \in {Nobody, suppliers[s].lead}

LeadsInv == LeadsTyped /\ Queued /\ Promoting /\ ClassWasSubmitted

\* What a step may do to a Lead that is there.
Stands ==
    \A c \in Companies : leads[c] # NoLead =>
        /\ leads'[c].class = leads[c].class /\ leads'[c].reason = leads[c].reason
        /\ leads'[c].dismissed # leads[c].dismissed => dismissals' # dismissals
        /\ leads'[c].promoted # leads[c].promoted => click' # click

\* A row of the table is never the absence of one.
LEMMA LeadRowIsLead == \A row \in LeadRows : row # NoLead
<1>1. \A row \in LeadRows : row.class # "not a lead"
  BY DEF LeadRows, Classes
<1>2. NoLead.class = "not a lead"
  BY DEF NoLead
<1> QED
  BY <1>1, <1>2

\* A new Lead has a class that was submitted, or says why it has none.
LEMMA NewLeadRow ==
  ASSUME NEW o \in Outcomes
  PROVE  /\ NewLead(o) \in LeadRows /\ NewLead(o) # NoLead /\ NewLead(o).promoted = 0
         /\ IF NewLead(o).class = "none" THEN NewLead(o).reason # "none"
            ELSE NewLead(o).class \in ToSet(NewLead(o).said)
<1>1. o.submitted \in Seq(Submissions) /\ o.status \in {"done", "terminated", "failed"}
  <2>1. o.status \in {"done", "terminated", "failed"}
        /\ o.submitted \in {<<"other", "unclear">>, <<"manufacturer", "other">>, <<>>, <<"manufacturer">>}
    BY DEF Outcomes
  <2>2. {<<"other", "unclear">>, <<"manufacturer", "other">>, <<>>, <<"manufacturer">>} \subseteq Seq(Submissions)
    BY DEF Submissions
  <2> QED
    BY <2>1, <2>2
<1> DEFINE s == o.submitted
           got == ReadLeadClassification(o)
           reasons == {"failed", "stopped", "outside the enum", "nothing submitted"}
<1>2. \/ /\ s # <<>> /\ Last(s) \in Classes
         /\ got = [class |-> Last(s), reason |-> "none"]
      \/ \E reason \in reasons : got = [class |-> "none", reason |-> reason]
  <2>1. CASE o.status = "failed"
    BY <2>1 DEF ReadLeadClassification, NotClassified
  <2>2. CASE o.status # "failed" /\ s # <<>> /\ Last(s) \in Classes
    BY <2>2 DEF ReadLeadClassification, Classified
  <2>3. CASE o.status # "failed" /\ ~(s # <<>> /\ Last(s) \in Classes)
    BY <2>3 DEF ReadLeadClassification, NotClassified
  <2> QED
    BY <2>1, <2>2, <2>3
<1>3. s # <<>> => Last(s) \in ToSet(s)
  BY <1>1 DEF Last, ToSet
<1>4. NewLead(o) = [class |-> got.class, reason |-> got.reason, said |-> s,
                    dismissed |-> FALSE, promoted |-> 0]
  BY DEF NewLead
<1> HIDE DEF s, got
<1>5. /\ got.class \in Classes \cup {"none"} /\ got.reason \in reasons \cup {"none"}
      /\ IF got.class = "none" THEN got.reason # "none" ELSE got.class \in ToSet(s)
  <2>1. CASE s # <<>> /\ Last(s) \in Classes /\ got = [class |-> Last(s), reason |-> "none"]
    <3>1. Last(s) # "none"
      BY <2>1 DEF Classes
    <3> QED
      BY <1>3, <2>1, <3>1
  <2>2. CASE \E reason \in reasons : got = [class |-> "none", reason |-> reason]
    <3>1. PICK reason \in reasons : got = [class |-> "none", reason |-> reason]
      BY <2>2
    <3>2. reason # "none" /\ got.class = "none" /\ got.reason = reason
      BY <3>1
    <3> QED
      BY <3>2
  <2> QED
    BY <1>2, <2>1, <2>2
<1>6. s \in Seq(Submissions)
  BY <1>1 DEF s
<1>7. NewLead(o) \in LeadRows
  <2> DEFINE class == got.class
             reason == got.reason
  <2>1. class \in Classes \cup {"none"} /\ reason \in reasons \cup {"none"}
    BY <1>5
  <2>2. NewLead(o) = [class |-> class, reason |-> reason, said |-> s, dismissed |-> FALSE, promoted |-> 0]
    BY <1>4
  <2>3. reason \in {"none", "failed", "stopped", "outside the enum", "nothing submitted"}
    BY <2>1
  <2> HIDE DEF class, reason
  <2>4. [class |-> class, reason |-> reason, said |-> s, dismissed |-> FALSE, promoted |-> 0] \in LeadRows
    BY <1>6, <2>1, <2>3 DEF LeadRows
  <2> QED
    BY <2>2, <2>4
<1>8. NewLead(o) # NoLead
  BY <1>7, LeadRowIsLead
<1>9. NewLead(o).class = got.class /\ NewLead(o).reason = got.reason /\ NewLead(o).said = s
      /\ NewLead(o).promoted = 0
  BY <1>4
<1> QED
  BY <1>5, <1>7, <1>8, <1>9

\* Nothing is found, nothing promoted yet.
LEMMA LeadsBegin == LeadsInit => LeadsInv
<1> SUFFICES ASSUME LeadsInit PROVE LeadsInv
  OBVIOUS
<1>1. Waiting \in DiscoverRows /\ Waiting.pc = "waiting" /\ Len(Waiting.queue) = 0
  BY LeadsAssumption DEF Waiting, DiscoverRows, DiscoverSteps
<1> DEFINE first == [pc |-> "idle", at |-> 1, lead |-> Nobody, supplier |-> 0]
<1>2. first \in ClickRows /\ first.pc = "idle"
  BY DEF ClickRows, ClickSteps
<1> HIDE DEF first
<1>3. click = [k \in Clicks |-> first]
  BY DEF LeadsInit, first
<1>4. LeadsTyped
  BY <1>1, <1>2, <1>3 DEF LeadsInit, LeadsTyped
<1>5. Queued /\ Promoting /\ ClassWasSubmitted
  BY <1>1, <1>2, <1>3, LeadsAssumption DEF LeadsInit, Queued, Promoting, ClassWasSubmitted
<1> QED
  BY <1>4, <1>5 DEF LeadsInv

\* The trade search answers with companies.
LEMMA EnvelopeRows ==
  ASSUME LeadsTyped, NEW offset \in Nat
  PROVE  Envelope(offset).rows \in Seq(Companies) /\ Envelope(offset).next \in Nat
BY DEF Envelope, LeadsTyped

\* A Discover Job searches, and ranks what is not on the roster.
LEMMA SearchKeeps ==
  ASSUME LeadsInv, NEW d \in Discovers, StartDiscover(d) \/ SearchPage(d) \/ RankCandidates(d)
  PROVE  LeadsInv'
<1>0. LeadsTyped /\ Queued /\ Promoting /\ ClassWasSubmitted
      /\ UNCHANGED <<trade, leads, suppliers, click, dismissals>>
  BY DEF LeadsInv, StartDiscover, SearchPage, RankCandidates
<1>1. discover \in [Discovers -> DiscoverRows] /\ discover[d] \in DiscoverRows
  BY <1>0 DEF LeadsTyped
<1>2. \E row \in DiscoverRows :
        /\ discover' = [discover EXCEPT ![d] = row]
        /\ Len(row.queue) <= TopN /\ row.pc # "terminated"
        /\ row.pc = "classify" => row.queue # <<>>
  <2>1. CASE StartDiscover(d)
    <3> DEFINE row == [discover[d] EXCEPT !.pc = "search"]
    <3>1. row \in DiscoverRows /\ row.pc = "search" /\ row.queue = discover[d].queue
      BY <1>1 DEF DiscoverRows, DiscoverSteps
    <3>2. discover' = [discover EXCEPT ![d] = row]
      BY <1>1, <2>1 DEF StartDiscover
    <3> HIDE DEF row
    <3> QED
      BY <1>0, <3>1, <3>2 DEF Queued
  <2>2. CASE SearchPage(d)
    <3> DEFINE s == discover[d]
               e == Envelope(s.offset)
               pool == Pooled(s.pool, e.rows)
    <3>1. e.rows \in Seq(Companies) /\ e.next \in Nat /\ s.pool \in Seq(Companies)
      BY <1>0, <1>1, EnvelopeRows DEF DiscoverRows
    <3>2. pool \in Seq(Companies)
      BY <3>1, PooledRows
    <3>3. \/ /\ s.page + 1 < PageCap
             /\ discover' = [discover EXCEPT ![d] =
                   [s EXCEPT !.offset = e.next, !.page = (@ + 1) % PageCap, !.pool = pool]]
          \/ discover' = [discover EXCEPT ![d] = [s EXCEPT !.pc = "rank", !.pool = pool]]
      BY <2>2 DEF SearchPage, Another
    <3>4. s \in DiscoverRows /\ s.pc = "search" /\ Len(s.queue) <= TopN
      BY <1>0, <1>1, <2>2 DEF SearchPage, Queued
    <3>5. CASE /\ s.page + 1 < PageCap
               /\ discover' = [discover EXCEPT ![d] =
                     [s EXCEPT !.offset = e.next, !.page = (@ + 1) % PageCap, !.pool = pool]]
      <4> DEFINE page == (s.page + 1) % PageCap
                 row == [s EXCEPT !.offset = e.next, !.page = page, !.pool = pool]
      <4>1. page \in 0..PageCap - 1
        BY <3>4, <3>5, LeadsAssumption DEF DiscoverRows
      <4>2. discover' = [discover EXCEPT ![d] = row]
        BY <1>1, <3>5 DEF DiscoverRows
      <4> HIDE DEF s, e, pool, page
      <4>3. row \in DiscoverRows /\ row.pc = s.pc /\ row.queue = s.queue
        BY <3>1, <3>2, <3>4, <4>1 DEF DiscoverRows
      <4> QED
        BY <3>4, <4>2, <4>3
    <3>6. CASE discover' = [discover EXCEPT ![d] = [s EXCEPT !.pc = "rank", !.pool = pool]]
      <4> DEFINE row == [s EXCEPT !.pc = "rank", !.pool = pool]
      <4>1. discover' = [discover EXCEPT ![d] = row]
        BY <3>6
      <4> HIDE DEF s, pool
      <4>2. row \in DiscoverRows /\ row.pc = "rank" /\ row.queue = s.queue
        BY <3>2, <3>4 DEF DiscoverRows, DiscoverSteps
      <4> QED
        BY <3>4, <4>1, <4>2
    <3> QED
      BY <3>3, <3>5, <3>6
  <2>3. CASE RankCandidates(d)
    <3> DEFINE queue == Ranked(discover[d].pool, OnRoster)
               pc == IF queue = <<>> THEN "done" ELSE "classify"
               row == [discover[d] EXCEPT !.pc = pc, !.queue = queue]
    <3>1. queue \in Seq(Companies \ OnRoster) /\ Len(queue) <= TopN
      BY <1>1, RankedRows DEF DiscoverRows
    <3>2. queue \in Seq(Companies \ Roster)
      <4>1. Companies \ OnRoster \subseteq Companies \ Roster
        BY DEF OnRoster
      <4> HIDE DEF queue
      <4> QED
        BY <3>1, <4>1
    <3>3. discover' = [discover EXCEPT ![d] = row]
      BY <1>1, <2>3 DEF RankCandidates, DiscoverRows
    <3> HIDE DEF queue
    <3>4. pc \in DiscoverSteps /\ pc # "terminated" /\ (pc = "classify" => queue # <<>>)
      BY DEF DiscoverSteps
    <3> HIDE DEF pc
    <3>5. row \in DiscoverRows /\ row.pc = pc /\ row.queue = queue
      BY <1>1, <3>2, <3>4 DEF DiscoverRows
    <3> QED
      BY <3>1, <3>3, <3>4, <3>5
  <2> QED
    BY <2>1, <2>2, <2>3
<1>3. PICK row \in DiscoverRows :
        /\ discover' = [discover EXCEPT ![d] = row]
        /\ Len(row.queue) <= TopN /\ row.pc # "terminated"
        /\ row.pc = "classify" => row.queue # <<>>
  BY <1>2
<1>4. LeadsTyped'
  BY <1>0, <1>1, <1>3 DEF LeadsTyped
<1>5. Queued'
  BY <1>0, <1>1, <1>3 DEF Queued
<1>6. Promoting' /\ ClassWasSubmitted'
  BY <1>0 DEF Promoting, ClassWasSubmitted
<1> QED
  BY <1>4, <1>5, <1>6 DEF LeadsInv

\* A Lead is written once, and what is already there stays.
LEMMA UpsertRow ==
  ASSUME LeadsTyped, NEW c \in Companies, NEW o \in Outcomes
  PROVE  /\ UpsertLead(c, o) \in LeadRows /\ UpsertLead(c, o) # NoLead
         /\ UpsertLead(c, o) = IF leads[c] = NoLead THEN NewLead(o) ELSE leads[c]
<1>1. leads[c] = NoLead \/ leads[c] \in LeadRows
  BY DEF LeadsTyped
<1> QED
  BY <1>1, NewLeadRow, LeadRowIsLead DEF UpsertLead

\* The classifier writes the Lead at the head of the queue, whatever stops it.
LEMMA ClassifyKeeps ==
  ASSUME LeadsInv, NEW d \in Discovers, ClassifyNext(d)
  PROVE  LeadsInv' /\ Stands
<1>0. LeadsTyped /\ Queued /\ Promoting /\ ClassWasSubmitted
      /\ discover[d].pc = "classify" /\ UNCHANGED <<trade, suppliers, click, dismissals>>
  BY DEF LeadsInv, ClassifyNext
<1> DEFINE queue == discover[d].queue
           c == Head(queue)
<1>1. PICK o \in Outcomes :
        /\ leads' = RecordLead(c, o)
        /\ discover' = [discover EXCEPT
             ![d].pc = IF RaiseIfStopped(o) THEN "terminated" ELSE IF Len(queue) = 1 THEN "done" ELSE "classify",
             ![d].queue = IF RaiseIfStopped(o) THEN @ ELSE Tail(@)]
  BY DEF ClassifyNext
<1>2. discover \in [Discovers -> DiscoverRows] /\ leads \in [Companies -> LeadRows \cup {NoLead}]
  BY <1>0 DEF LeadsTyped
<1>3. queue \in Seq(Companies \ Roster) /\ queue # <<>> /\ Len(queue) <= TopN
  BY <1>0, <1>2 DEF DiscoverRows, Queued
<1>4. c \in Companies
  BY <1>3
<1> DEFINE pc == IF RaiseIfStopped(o) THEN "terminated" ELSE IF Len(queue) = 1 THEN "done" ELSE "classify"
           rest == IF RaiseIfStopped(o) THEN queue ELSE Tail(queue)
<1>5. rest \in Seq(Companies \ Roster) /\ Len(rest) <= TopN /\ pc \in DiscoverSteps
      /\ (pc = "classify" => rest # <<>>) /\ (pc = "terminated" => rest = queue)
  <2>1. Tail(queue) \in Seq(Companies \ Roster) /\ Len(Tail(queue)) = Len(queue) - 1 /\ Len(queue) \in Nat
        /\ Len(Tail(queue)) \in Nat
    BY <1>3
  <2>2. Len(Tail(queue)) <= TopN
    BY <1>3, <2>1, LeadsAssumption
  <2>3. Len(queue) # 1 => Tail(queue) # <<>>
    <3>1. Len(queue) # 1 => Len(Tail(queue)) # 0
      BY <2>1
    <3>2. Len(<<>>) = 0
      OBVIOUS
    <3> HIDE DEF queue
    <3> QED
      BY <3>1, <3>2
  <2> HIDE DEF queue
  <2> QED
    BY <1>3, <2>1, <2>2, <2>3 DEF DiscoverSteps
<1>6. discover' = [discover EXCEPT ![d].pc = pc, ![d].queue = rest]
  BY <1>1
<1> HIDE DEF queue, pc, rest
<1>7. /\ discover' \in [Discovers -> DiscoverRows]
      /\ discover'[d].pc = pc /\ discover'[d].queue = rest
      /\ \A e \in Discovers : e # d => discover'[e] = discover[e]
  BY <1>2, <1>5, <1>6 DEF DiscoverRows
<1> DEFINE row == UpsertLead(c, o)
<1>8. row \in LeadRows /\ row # NoLead /\ row = IF leads[c] = NoLead THEN NewLead(o) ELSE leads[c]
  BY <1>0, <1>4, UpsertRow
<1>9. leads' = [leads EXCEPT ![c] = row]
  BY <1>1 DEF RecordLead
<1> HIDE DEF row, c
<1>10. /\ leads' \in [Companies -> LeadRows \cup {NoLead}] /\ leads'[c] = row
       /\ \A b \in Companies : leads[b] # NoLead => leads'[b] = leads[b]
       /\ \A b \in Companies : leads'[b] # NoLead => leads'[b] = leads[b] \/ leads'[b] = NewLead(o)
  BY <1>2, <1>4, <1>8, <1>9
<1>11. LeadsTyped'
  BY <1>0, <1>7, <1>10 DEF LeadsTyped
<1>12. Queued'
  <2> SUFFICES ASSUME NEW e \in Discovers
               PROVE  /\ Len(discover'[e].queue) <= TopN
                      /\ discover'[e].pc \in {"classify", "terminated"} => discover'[e].queue # <<>>
                      /\ discover'[e].pc = "terminated" => leads'[Head(discover'[e].queue)] # NoLead
    BY DEF Queued
  <2>1. CASE e = d
    BY <1>3, <1>5, <1>7, <1>8, <1>10, <2>1 DEF c
  <2>2. CASE e # d
    <3>1. discover'[e] = discover[e] /\ discover[e].queue \in Seq(Companies \ Roster)
      BY <1>2, <1>7, <2>2 DEF DiscoverRows
    <3>2. discover[e].queue # <<>> => Head(discover[e].queue) \in Companies
      BY <3>1
    <3> QED
      BY <1>0, <1>10, <3>1, <3>2 DEF Queued
  <2> QED
    BY <2>1, <2>2
<1>13. Promoting'
  BY <1>0, <1>10, NewLeadRow DEF Promoting
<1>14. ClassWasSubmitted'
  BY <1>0, <1>10, NewLeadRow DEF ClassWasSubmitted
<1>15. Stands
  BY <1>10 DEF Stands
<1> QED
  BY <1>11, <1>12, <1>13, <1>14, <1>15 DEF LeadsInv

\* A Lead that is there is a row of the table.
LEMMA LeadIsRow ==
  ASSUME LeadsTyped, NEW c \in Companies, leads[c] # NoLead
  PROVE  leads[c] \in LeadRows
BY DEF LeadsTyped

\* A promotion begins with a Supplier of its own.
LEMMA PromoteKeeps ==
  ASSUME LeadsInv, NEW k \in Clicks, NEW c \in Companies, Promote(k, c)
  PROVE  LeadsInv'
<1>0. LeadsTyped /\ Queued /\ Promoting /\ ClassWasSubmitted /\ leads[c] # NoLead
      /\ UNCHANGED <<trade, leads, discover, dismissals>>
  BY DEF LeadsInv, Promote, Open
<1>1. suppliers \in Seq(SupplierRows) /\ click \in [Clicks -> ClickRows]
  BY <1>0 DEF LeadsTyped
<1> DEFINE row == [lead |-> c, match |-> Nobody]
           new == Len(suppliers) + 1
           press == [pc |-> "writing", at |-> 1, lead |-> c, supplier |-> new]
<1>2. row \in SupplierRows /\ row.lead = c /\ row.match = Nobody
  BY DEF SupplierRows
<1>3. press \in ClickRows /\ press.lead = c /\ press.supplier = new /\ press.at = 1
  BY <1>1 DEF ClickRows, ClickSteps
<1>4. suppliers' = Append(suppliers, row) /\ click' = [click EXCEPT ![k] = press]
  BY DEF Promote
<1> HIDE DEF row, press
<1>5. suppliers' \in Seq(SupplierRows) /\ DOMAIN suppliers' = DOMAIN suppliers \cup {new}
      /\ suppliers'[new] = row /\ \A s \in DOMAIN suppliers : suppliers'[s] = suppliers[s]
  BY <1>1, <1>2, <1>4, Appended
<1> HIDE DEF new
<1>6. LeadsTyped'
  BY <1>0, <1>1, <1>3, <1>4, <1>5 DEF LeadsTyped
<1>7. Queued' /\ ClassWasSubmitted'
  BY <1>0 DEF Queued, ClassWasSubmitted
<1>8. Promoting'
  BY <1>0, <1>1, <1>2, <1>3, <1>4, <1>5 DEF Promoting
<1> QED
  BY <1>6, <1>7, <1>8 DEF LeadsInv

\* The Match is settled on the Lead's company before the Lead is linked.
LEMMA WriteKeeps ==
  ASSUME LeadsInv, NEW k \in Clicks, PromoteWrite(k)
  PROVE  LeadsInv' /\ Stands
<1> DEFINE c == click[k].lead
           s == click[k].supplier
           at == click[k].at
<1>0. LeadsTyped /\ Queued /\ Promoting /\ ClassWasSubmitted /\ click[k].pc = "writing"
      /\ UNCHANGED <<trade, discover, dismissals>>
  BY DEF LeadsInv, PromoteWrite
<1>1. suppliers \in Seq(SupplierRows) /\ click \in [Clicks -> ClickRows] /\ click[k] \in ClickRows
      /\ leads \in [Companies -> LeadRows \cup {NoLead}]
  BY <1>0 DEF LeadsTyped
<1>2. /\ at \in {1, 2} /\ PromoteOrder = <<"settle", "link">>
      /\ suppliers' = IF at = 1 THEN [suppliers EXCEPT ![s].match = c] ELSE suppliers
      /\ leads' = IF at = 2 THEN [leads EXCEPT ![c].promoted = s] ELSE leads
      /\ click' = [click EXCEPT ![k].at = at + 1]
  <2>1. DOMAIN PromoteOrder = {1, 2} /\ PromoteOrder[1] = "settle" /\ PromoteOrder[2] = "link"
    BY DEF PromoteOrder
  <2>2. at \in {1, 2}
    BY <2>1 DEF PromoteWrite
  <2> QED
    BY <2>1, <2>2 DEF PromoteWrite, PromoteOrder
<1>3. /\ c \in Companies /\ leads[c] # NoLead /\ s \in DOMAIN suppliers /\ suppliers[s].lead = c
      /\ at > 1 => suppliers[s].match = c
  BY <1>0, <1>1 DEF Promoting
<1>4. suppliers[s] \in SupplierRows /\ s \in Nat \ {0}
  BY <1>1, <1>3
<1>5. leads[c] \in LeadRows
  BY <1>0, <1>3, LeadIsRow
<1>6. at + 1 \in 1..3
  BY <1>2
<1> HIDE DEF at, c, s
<1>7. /\ click' \in [Clicks -> ClickRows] /\ click'[k].at = at + 1
      /\ \A q \in Clicks : click'[q].pc = click[q].pc /\ click'[q].lead = click[q].lead
                           /\ click'[q].supplier = click[q].supplier
      /\ \A q \in Clicks : q # k => click'[q].at = click[q].at
  BY <1>1, <1>2, <1>6 DEF ClickRows
<1>8. /\ suppliers' \in Seq(SupplierRows) /\ DOMAIN suppliers' = DOMAIN suppliers
      /\ suppliers'[s].match = c
      /\ \A x \in DOMAIN suppliers : suppliers'[x].lead = suppliers[x].lead
                                     /\ (x # s => suppliers'[x].match = suppliers[x].match)
  <2>1. CASE at = 1
    <3> DEFINE row == [suppliers[s] EXCEPT !.match = c]
    <3>1. row \in SupplierRows /\ row.match = c /\ row.lead = suppliers[s].lead
      BY <1>3, <1>4 DEF SupplierRows
    <3>2. suppliers' = [suppliers EXCEPT ![s] = row]
      BY <1>2, <2>1
    <3> HIDE DEF row
    <3> QED
      BY <1>1, <1>3, <3>1, <3>2, Replaced
  <2>2. CASE at = 2
    BY <1>1, <1>2, <1>3, <2>2
  <2> QED
    BY <1>2, <2>1, <2>2
<1>9. /\ leads' \in [Companies -> LeadRows \cup {NoLead}]
      /\ leads'[c] # NoLead /\ leads'[c].class = leads[c].class /\ leads'[c].reason = leads[c].reason
      /\ leads'[c].said = leads[c].said /\ leads'[c].dismissed = leads[c].dismissed /\ (at = 2 => leads'[c].promoted = s)
      /\ (at = 1 => leads'[c] = leads[c])
      /\ \A b \in Companies : b # c => leads'[b] = leads[b]
  <2>1. CASE at = 2
    <3> DEFINE row == [leads[c] EXCEPT !.promoted = s]
    <3>1. row \in LeadRows /\ row.class = leads[c].class /\ row.reason = leads[c].reason
          /\ row.said = leads[c].said /\ row.dismissed = leads[c].dismissed /\ row.promoted = s
      BY <1>4, <1>5 DEF LeadRows
    <3>2. leads' = [leads EXCEPT ![c] = row]
      BY <1>2, <2>1
    <3>3. row # NoLead
      BY <3>1, LeadRowIsLead
    <3> HIDE DEF row
    <3> QED
      BY <1>1, <1>3, <2>1, <3>1, <3>2, <3>3
  <2>2. CASE at = 1
    BY <1>1, <1>2, <1>3, <2>2
  <2> QED
    BY <1>2, <2>1, <2>2
<1>10. LeadsTyped'
  BY <1>0, <1>7, <1>8, <1>9 DEF LeadsTyped
<1>11. Queued'
  <2>1. \A b \in Companies : leads[b] # NoLead => leads'[b] # NoLead
    BY <1>9
  <2>2. \A d \in Discovers : discover[d].queue \in Seq(Companies \ Roster)
    BY <1>0 DEF LeadsTyped, DiscoverRows
  <2>3. \A d \in Discovers : discover[d].queue # <<>> => Head(discover[d].queue) \in Companies
    BY <2>2
  <2> QED
    BY <1>0, <2>1, <2>3 DEF Queued
<1>12. Promoting'
  <2>1. \A q \in Clicks : click[q].pc # "idle" =>
           click[q].lead \in Companies /\ leads'[click[q].lead] # NoLead
           /\ click[q].supplier \in DOMAIN suppliers'
           /\ suppliers'[click[q].supplier].lead = click[q].lead
    BY <1>0, <1>8, <1>9 DEF Promoting
  <2>2. \A q \in Clicks : click[q].pc # "idle" /\ click'[q].at > 1 =>
           suppliers'[click[q].supplier].match = click[q].lead
    <3> SUFFICES ASSUME NEW q \in Clicks, click[q].pc # "idle", click'[q].at > 1
                 PROVE  suppliers'[click[q].supplier].match = click[q].lead
      OBVIOUS
    <3>1. CASE click[q].supplier = s
      BY <1>0, <1>3, <1>8, <3>1 DEF Promoting
    <3>2. CASE click[q].supplier # s
      BY <1>0, <1>7, <1>8, <3>2 DEF Promoting, s
    <3> QED
      BY <3>1, <3>2
  <2>3. \A b \in Companies : leads'[b] # NoLead /\ leads'[b].promoted # 0 =>
           /\ leads'[b].promoted \in DOMAIN suppliers'
           /\ suppliers'[leads'[b].promoted].lead = b /\ suppliers'[leads'[b].promoted].match = b
    <3> SUFFICES ASSUME NEW b \in Companies, leads'[b] # NoLead, leads'[b].promoted # 0
                 PROVE  /\ leads'[b].promoted \in DOMAIN suppliers'
                        /\ suppliers'[leads'[b].promoted].lead = b /\ suppliers'[leads'[b].promoted].match = b
      OBVIOUS
    <3>1. CASE b = c /\ at = 2
      BY <1>3, <1>8, <1>9, <3>1
    <3>2. CASE ~(b = c /\ at = 2)
      <4>1. leads'[b] = leads[b]
        BY <1>2, <1>9, <3>2
      <4>2. leads[b].promoted \in DOMAIN suppliers /\ suppliers[leads[b].promoted].match = b
            /\ suppliers[leads[b].promoted].lead = b
        BY <1>0, <4>1 DEF Promoting
      <4>3. leads[b].promoted = s => b = c
        BY <1>3, <4>2
      <4> QED
        BY <1>8, <4>1, <4>2, <4>3
    <3> QED
      BY <3>1, <3>2
  <2>4. \A x \in DOMAIN suppliers' : suppliers'[x].match \in {Nobody, suppliers'[x].lead}
    BY <1>0, <1>3, <1>8 DEF Promoting
  <2> QED
    BY <1>7, <2>1, <2>2, <2>3, <2>4 DEF Promoting
<1>13. ClassWasSubmitted'
  BY <1>0, <1>3, <1>9 DEF ClassWasSubmitted
<1>14. Stands
  <2>1. at + 1 # at
    BY <1>2
  <2>2. at = click[k].at
    BY DEF at
  <2>3. click' # click
    BY <1>7, <2>1, <2>2
  <2> QED
    BY <1>9, <2>3 DEF Stands
<1> QED
  BY <1>10, <1>11, <1>12, <1>13, <1>14 DEF LeadsInv

\* A promotion goes on to its enrich Job, or is lost where it stands.
LEMMA ClickEnds ==
  ASSUME LeadsInv, NEW k \in Clicks, PromoteEnriches(k) \/ PromoteLost(k)
  PROVE  LeadsInv'
<1>0. LeadsTyped /\ Queued /\ Promoting /\ ClassWasSubmitted /\ click[k].pc = "writing"
      /\ UNCHANGED <<trade, leads, suppliers, discover, dismissals>>
  BY DEF LeadsInv, PromoteEnriches, PromoteLost
<1>1. click \in [Clicks -> ClickRows]
  BY <1>0 DEF LeadsTyped
<1>2. PICK pc \in {"enriched", "lost"} : click' = [click EXCEPT ![k].pc = pc]
  BY DEF PromoteEnriches, PromoteLost
<1>3. /\ click' \in [Clicks -> ClickRows]
      /\ \A q \in Clicks : click'[q].lead = click[q].lead /\ click'[q].at = click[q].at
                           /\ click'[q].supplier = click[q].supplier
                           /\ (click'[q].pc # "idle" => click[q].pc # "idle")
  BY <1>0, <1>1, <1>2 DEF ClickRows, ClickSteps
<1>4. LeadsTyped' /\ Queued' /\ ClassWasSubmitted'
  BY <1>0, <1>3 DEF LeadsTyped, Queued, ClassWasSubmitted
<1>5. Promoting'
  BY <1>0, <1>3 DEF Promoting
<1> QED
  BY <1>4, <1>5 DEF LeadsInv

\* A dismissal moves one column of one Lead.
LEMMA DismissKeeps ==
  ASSUME LeadsInv, NEW c \in Companies, DismissLead(c)
  PROVE  LeadsInv' /\ Stands
<1>0. LeadsTyped /\ Queued /\ Promoting /\ ClassWasSubmitted /\ leads[c] # NoLead
      /\ UNCHANGED <<trade, suppliers, discover, click>> /\ dismissals' = dismissals + 1
  BY DEF LeadsInv, DismissLead
<1>1. leads \in [Companies -> LeadRows \cup {NoLead}] /\ dismissals' \in Nat
  BY <1>0 DEF LeadsTyped
<1> DEFINE row == [leads[c] EXCEPT !.dismissed = ~@]
<1>2. leads[c] \in LeadRows
  BY <1>0, LeadIsRow
<1>3. row \in LeadRows /\ row.class = leads[c].class /\ row.reason = leads[c].reason
      /\ row.said = leads[c].said /\ row.promoted = leads[c].promoted
  <2> DEFINE dismissed == ~leads[c].dismissed
  <2>1. dismissed \in BOOLEAN
    OBVIOUS
  <2>2. row = [leads[c] EXCEPT !.dismissed = dismissed]
    OBVIOUS
  <2> HIDE DEF dismissed, row
  <2> QED
    BY <1>2, <2>1, <2>2 DEF LeadRows
<1>4. leads' = [leads EXCEPT ![c] = row]
  BY DEF DismissLead
<1>5. row # NoLead
  BY <1>3, LeadRowIsLead
<1> HIDE DEF row
<1>6. /\ leads' \in [Companies -> LeadRows \cup {NoLead}] /\ leads'[c] = row
      /\ \A b \in Companies : b # c => leads'[b] = leads[b]
  BY <1>1, <1>3, <1>4
<1>7. LeadsTyped'
  BY <1>0, <1>1, <1>6 DEF LeadsTyped
<1>8. Queued'
  <2>1. \A b \in Companies : leads[b] # NoLead => leads'[b] # NoLead
    BY <1>5, <1>6
  <2>2. \A d \in Discovers : discover[d].queue \in Seq(Companies \ Roster)
    BY <1>0 DEF LeadsTyped, DiscoverRows
  <2>3. \A d \in Discovers : discover[d].queue # <<>> => Head(discover[d].queue) \in Companies
    BY <2>2
  <2> QED
    BY <1>0, <2>1, <2>3 DEF Queued
<1>9. Promoting'
  <2>1. \A b \in Companies : (leads'[b] # NoLead <=> leads[b] # NoLead)
                             /\ (leads[b] # NoLead => leads'[b].promoted = leads[b].promoted)
    BY <1>0, <1>3, <1>5, <1>6
  <2> QED
    BY <1>0, <2>1 DEF Promoting
<1>10. ClassWasSubmitted'
  BY <1>0, <1>3, <1>6 DEF ClassWasSubmitted
<1>11. Stands
  <2>1. dismissals' # dismissals
    BY <1>0 DEF LeadsTyped
  <2> QED
    BY <1>3, <1>6, <2>1 DEF Stands
<1> QED
  BY <1>7, <1>8, <1>9, <1>10, <1>11 DEF LeadsInv

\* Every step at the desk keeps the Leads.
LEMMA LeadsKeep ==
  ASSUME LeadsInv, [DeskNext]_deskVars
  PROVE  LeadsInv'
<1>1. CASE LeadsStep
  BY <1>1, SearchKeeps, ClassifyKeeps, PromoteKeeps, WriteKeeps, ClickEnds, DismissKeeps
     DEF LeadsStep, DiscoverStep, PromoteStep
<1>2. CASE /\ trade' \in TradeAnswers \cup {trade}
           /\ UNCHANGED <<leads, suppliers, discover, click, dismissals>>
  <2>1. LeadsTyped /\ Queued /\ Promoting /\ ClassWasSubmitted
    BY DEF LeadsInv
  <2>2. \A o \in DOMAIN trade' : trade'[o].rows \in Seq(Companies) /\ trade'[o].next \in Nat
    BY <1>2, <2>1, LeadsAssumption DEF LeadsTyped
  <2>3. LeadsTyped'
    BY <1>2, <2>1, <2>2 DEF LeadsTyped
  <2>4. Queued' /\ Promoting' /\ ClassWasSubmitted'
    BY <1>2, <2>1 DEF Queued, Promoting, ClassWasSubmitted
  <2> QED
    BY <2>3, <2>4 DEF LeadsInv
<1>3. LeadsStep \/ (trade' \in TradeAnswers \cup {trade} /\ UNCHANGED <<leads, suppliers, discover, click, dismissals>>)
  BY DEF DeskNext, AskStep, Work, VersionsStep, deskVars, leadVars
<1> QED
  BY <1>1, <1>2, <1>3

\* A Lead says what happened to it: a class the classifier submitted or why
\* there is none, the row a ceiling stopped at, the Supplier it became and whose
\* Match is settled on it (discover.ts, promote-lead.ts).
THEOREM DeskLeads == DeskSafety => []LeadsSayWhatHappened
<1>1. LeadsInv => LeadsSayWhatHappened
  <2> SUFFICES ASSUME LeadsInv PROVE LeadsSayWhatHappened
    OBVIOUS
  <2>1. LeadsTyped /\ Queued /\ Promoting /\ ClassWasSubmitted
    BY DEF LeadsInv
  <2>2. LeadsTypeOK
    <3>1. \A c \in Companies : leads[c] # NoLead =>
            leads[c].class \in Classes \cup {"none"} /\ leads[c].promoted \in 0..Len(suppliers)
      <4> SUFFICES ASSUME NEW c \in Companies, leads[c] # NoLead
                   PROVE  leads[c].class \in Classes \cup {"none"} /\ leads[c].promoted \in 0..Len(suppliers)
        OBVIOUS
      <4>1. leads[c] \in LeadRows
        BY <2>1, LeadIsRow
      <4>2. leads[c].class \in Classes \cup {"none"}
        BY <4>1 DEF LeadRows
      <4>3. leads[c].promoted # 0 => leads[c].promoted \in DOMAIN suppliers
        BY <2>1 DEF Promoting
      <4>4. DOMAIN suppliers = 1..Len(suppliers) /\ Len(suppliers) \in Nat
        BY <2>1 DEF LeadsTyped
      <4> QED
        BY <4>2, <4>3, <4>4
    <3>2. \A d \in Discovers :
            /\ discover[d].pc \in DiscoverSteps /\ discover[d].page \in 0..PageCap - 1
            /\ ToSet(discover[d].queue) \subseteq Companies \ Roster
            /\ Len(discover[d].queue) <= TopN
      <4> TAKE d \in Discovers
      <4>1. discover[d] \in DiscoverRows /\ Len(discover[d].queue) <= TopN
        BY <2>1 DEF LeadsTyped, Queued
      <4>2. discover[d].queue \in Seq(Companies \ Roster)
        BY <4>1 DEF DiscoverRows
      <4>3. ToSet(discover[d].queue) \subseteq Companies \ Roster
        BY <4>2 DEF ToSet
      <4> QED
        BY <4>1, <4>3 DEF DiscoverRows
    <3>3. \A k \in Clicks : click[k].pc \in ClickSteps
      BY <2>1 DEF LeadsTyped, ClickRows
    <3> QED
      BY <3>1, <3>2, <3>3, LeadsAssumption DEF LeadsTypeOK, DiscoverSteps, ClickSteps
  <2>3. StoppedAfterItsLead /\ PromotedIsSettled
    BY <2>1 DEF StoppedAfterItsLead, PromotedIsSettled, Queued, Promoting
  <2> QED
    BY <2>1, <2>2, <2>3 DEF LeadsSayWhatHappened
<1>2. DeskInit => LeadsInv
  BY LeadsBegin DEF DeskInit
<1> QED
  BY <1>1, <1>2, LeadsKeep, PTL DEF DeskSafety

\* What a person decided about a Lead and what was first answered is not
\* reopened: a search that finds the company again, in whatever order with
\* promotions and dismissals, moves none of it (discover.ts, recordLead).
THEOREM DeskDecisions == DeskSafety => DecisionsStand
<1>1. LeadsInv /\ [DeskNext]_deskVars => [Stands]_leadVars
  <2> SUFFICES ASSUME LeadsInv, DeskNext, leads' # leads PROVE Stands
    BY DEF deskVars, leadVars, Stands
  <2>1. \/ \E d \in Discovers : ClassifyNext(d)
        \/ \E k \in Clicks : PromoteWrite(k)
        \/ \E c \in Companies : DismissLead(c)
    BY DEF DeskNext, AskStep, Work, VersionsStep, LeadsStep, leadVars, StartDiscover, DiscoverStep,
           SearchPage, RankCandidates, PromoteStep, Promote, PromoteEnriches, PromoteLost
  <2> QED
    BY <2>1, ClassifyKeeps, WriteKeeps, DismissKeeps
<1>2. DeskInit => LeadsInv
  BY LeadsBegin DEF DeskInit
<1> QED
  BY <1>1, <1>2, LeadsKeep, PTL DEF DeskSafety, DecisionsStand, Stands
=============================================================================
