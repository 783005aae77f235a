----------------------------- MODULE MatchProofs -----------------------------
(***************************************************************************)
(* Proofs about Match, for every number of attempts, Jobs, companies,      *)
(* Rounds and worlds: the types, what a settlement says of its company,    *)
(* the objection every later Round answers, and the acceptance behind each *)
(* enrich Job.                                                             *)
(*                                                                         *)
(* The inductive invariant follows one company through the Job: a          *)
(* candidate carries the rung that surfaced it from the pre-pass, through  *)
(* a Round, a checkpoint and another worker, into the plan of a            *)
(* settlement, the attempt row and the match row.                          *)
(***************************************************************************)
EXTENDS Match, FiniteSetTheorems, WellFoundedInduction, TLAPS

Steps == {"idle", "over", "gather", "round", "read", "write", "chain"}
Statuses == {"accepted", "needs_review", "not_found"}

\* What an attempt may hold as a candidate: with the rung that surfaced it.
Cands == {c \in [id : Entities, rung : {"R1", "R2", "R3a"}] :
            /\ c.id \in ToSet(Prepass) => c.rung = "R1"
            /\ c.rung = "R1" \/ c.rung = Search[c.id]}

Evidences == {SettledEvidenceFor(id) : id \in Entities} \cup {NoEvidence}
Plans == [status : Statuses, entity : Entities \cup {None},
          by : {"rules", "agents"}, evidence : Evidences,
          cands : SUBSET Cands, why : {"", "ceiling"}]
Ladders == [objection : {TRUE}, found : SUBSET Cands]
AttemptRows == [job : Jobs \cup {None}, pc : Steps, seen : SUBSET Cands,
                objection : BOOLEAN, roundN : 0..MaxRounds,
                plan : Plans \cup {NoPlan}, fresh : BOOLEAN]
LogRows == [by : {"rules", "agents", "human"}, status : Statuses,
            entity : Entities \cup {None}, cands : SUBSET Cands]

MatchTyped ==
    /\ world \in DOMAIN Worlds
    /\ store \subseteq Entities
    /\ log \in Seq(LogRows)
    /\ jobs \in [Jobs -> [state : JobStates, trigger : {"pipeline", "settlement"}]]
    /\ saved \in [Jobs -> [1..MaxRounds -> Ladders \cup {NoLadder}]]
    /\ at \in [Attempts -> AttemptRows]
    /\ person \in [pc : {"page", "open", "done"}, entity : Entities \cup {None}]

\* The history holds an acceptance of the company, among its first n attempts.
AcceptedBy(n, entity) ==
    \E i \in 1..n : log[i].status = "accepted" /\ log[i].entity = entity

\* What a settlement, planned or written, says of its company.
SaysWhatItSaw(p) ==
    p.status = "accepted" => p.entity \in Ids(p.cands)

\* The match row is the last settlement's.
RowFollows ==
    \/ match = NoMatch /\ log = <<>>
    \/ /\ match.by \in {"rules", "agents", "human"}
       /\ match.status = "accepted" => match.entity \in store
       /\ match.entity \in Entities \cup {None}
       /\ match.entity # None /\ match.by # "human" =>
            LET settled == SettledCountry(SettledEvidenceFor(match.entity),
                                          Facts(match.entity).country)
            IN  match.country = settled.country /\ match.source = settled.source

\* An attempt in its Rounds holds the whole pre-pass, and an objection once a
\* Round has been played.
InRound(me) ==
    me.pc = "round" =>
        /\ me.roundN \in 1..MaxRounds
        /\ ToSet(Prepass) \subseteq Ids(me.seen)
        /\ me.roundN > 1 => me.objection

\* An attempt that settles has a plan whose evidence is of its company.
Settling(me) ==
    me.pc \in {"read", "write", "chain"} =>
        /\ me.plan \in Plans
        /\ SaysWhatItSaw(me.plan)
        /\ me.plan.status = "accepted" => me.plan.entity # None
        /\ me.plan.entity # None =>
             me.plan.evidence = SettledEvidenceFor(me.plan.entity)

AttemptHolds(a) ==
    /\ at[a].pc \notin {"idle", "over"} => at[a].job \in Jobs
    /\ InRound(at[a])
    /\ Settling(at[a])
    /\ at[a].pc = "chain" /\ at[a].plan.status = "accepted" =>
         AcceptedBy(Len(log), at[a].plan.entity)

LogHolds ==
    \A i \in DOMAIN log : log[i].by # "human" => SaysWhatItSaw(log[i])

PersonHolds ==
    person.pc = "open" /\ person.entity # None =>
        AcceptedBy(Len(log), person.entity)

EnrichesHold ==
    \A e \in enriches : e.n \in 0..Len(log) /\ AcceptedBy(e.n, e.entity)

MatchInv ==
    /\ MatchTyped
    /\ RowFollows
    /\ \A a \in Attempts : AttemptHolds(a)
    /\ LogHolds
    /\ PersonHolds
    /\ EnrichesHold

-----------------------------------------------------------------------------
(* What is chosen exists.                                                  *)

\* A set of naturals that is not empty has a least element.
LEMMA LeastOf ==
  ASSUME NEW S, S \subseteq Nat, S # {}
  PROVE  \E m \in S : \A n \in S : m <= n
<1>1. \E m \in S : \A n \in S : ~ (<<n, m>> \in OpToRel(<, Nat))
  BY NatLessThanWellFounded, WFMin
<1>2. \A m, n \in Nat : <<n, m>> \notin OpToRel(<, Nat) => m <= n
  <2> TAKE m, n \in Nat
  <2>1. <<n, m>> \in Nat \X Nat /\ <<n, m>>[1] = n /\ <<n, m>>[2] = m
    OBVIOUS
  <2> QED
    BY <2>1 DEF OpToRel
<1> QED
  BY <1>1, <1>2

\* A set of naturals up to N that is not empty has a greatest element.
LEMMA GreatestOf ==
  ASSUME NEW N \in Nat, NEW S, S \subseteq 0..N, S # {}
  PROVE  \E m \in S : \A n \in S : n <= m
<1> DEFINE T == {N - n : n \in S}
<1>1. T \subseteq Nat /\ T # {}
  <2>1. \A n \in S : n \in 0..N /\ N - n \in Nat
    OBVIOUS
  <2>2. T \subseteq Nat
    BY <2>1
  <2>3. PICK n \in S : TRUE
    OBVIOUS
  <2> QED
    BY <2>2, <2>3
<1>2. PICK t \in T : \A u \in T : t <= u
  BY <1>1, LeastOf
<1>3. PICK m \in S : t = N - m
  BY <1>2
<1>4. \A n \in S : N - n \in T
  OBVIOUS
<1>5. \A n \in S : N - m <= N - n
  BY <1>2, <1>3, <1>4
<1>6. \A n \in S : n \in 0..N
  OBVIOUS
<1> QED
  BY <1>3, <1>5, <1>6

\* The checkpoint a ladder resumes from is the last that was saved.
LEMMA LastSavedIsSaved ==
  ASSUME NEW j
  PROVE  /\ LastSaved(j) \in 0..MaxRounds
         /\ LastSaved(j) > 0 => saved[j][LastSaved(j)] # NoLadder
<1> DEFINE kept == {n \in 1..MaxRounds : saved[j][n] # NoLadder}
<1>0. kept \subseteq 0..MaxRounds
  OBVIOUS
<1>1. MaxRounds \in Nat
  BY MatchBounds
<1>2. CASE kept = {}
  BY <1>1, <1>2 DEF LastSaved
<1>3. CASE kept # {}
  <2>1. \E m \in kept : \A n \in kept : n <= m
    BY <1>0, <1>1, <1>3, GreatestOf
  <2>2. \E m \in kept : \A n \in kept : m >= n
    BY <1>1, <2>1
  <2>3. Max(kept) \in kept
    BY <2>2 DEF Max
  <2> QED
    BY <1>1, <1>3, <2>3 DEF LastSaved
<1> QED
  BY <1>2, <1>3

\* The address a company is anchored at is one of its own, or none at all: the
\* rung CompareAddresses() reports for the country is that address's.
LEMMA AnchoredIsCompared ==
  ASSUME NEW roster, NEW c, c.addresses \in Seq(ToSet(c.addresses))
  PROVE  Anchored(roster, c).country =
           SameCountry(roster.country, Anchored(roster, c).at.country)
<1> DEFINE addresses == c.addresses
           words == NameTokensOf(roster, c)
           rung == [i \in DOMAIN addresses |-> CompareAddress(roster, addresses[i], words)]
           Best(i) == \A j \in DOMAIN rung :
                        \/ Rank(rung[i]) > Rank(rung[j])
                        \/ Rank(rung[i]) = Rank(rung[j]) /\ i <= j
           best == CHOOSE i \in DOMAIN rung : Best(i)
<1>1. ASSUME NEW a PROVE CompareAddress(roster, a, words).country =
                           SameCountry(roster.country, CompareAddress(roster, a, words).at.country)
  BY DEF CompareAddress
<1>2. CASE addresses = <<>>
  <2>1. Anchored(roster, c) = CompareAddress(roster, Nowhere, words)
    BY <1>2 DEF Anchored, CompareAddresses
  <2> HIDE DEF words
  <2> QED
    BY <1>1, <2>1
<1>3. CASE addresses # <<>>
  <2>1. DOMAIN rung = 1..Len(addresses) /\ Len(addresses) \in Nat /\ 1 \in DOMAIN rung
    BY <1>3
  <2>2. \A i \in DOMAIN rung : Rank(rung[i]) \in 0..14
    BY DEF Rank
  <2>3. \E i \in DOMAIN rung : Best(i)
    <3> DEFINE ranks == {Rank(rung[i]) : i \in DOMAIN rung}
    <3> HIDE DEF rung
    <3>1. ranks # {} /\ ranks \subseteq 0..14
      BY <2>1, <2>2
    <3>2. PICK top \in ranks : \A r \in ranks : r <= top
      BY <3>1, GreatestOf
    <3> DEFINE tops == {i \in DOMAIN rung : Rank(rung[i]) = top}
    <3>3. tops # {} /\ tops \subseteq Nat
      BY <2>1, <3>2
    <3>4. PICK i \in tops : \A j \in tops : i <= j
      BY <3>3, LeastOf
    <3>5. i \in DOMAIN rung /\ Rank(rung[i]) = top
      OBVIOUS
    <3>6. \A j \in DOMAIN rung : Rank(rung[j]) <= top /\ (Rank(rung[j]) = top => i <= j)
      BY <3>2, <3>4
    <3> QED
      BY <2>2, <3>5, <3>6
  <2>4. best \in DOMAIN rung
    BY <2>3
  <2>5. Anchored(roster, c) = rung[best]
    BY <1>3 DEF Anchored, CompareAddresses
  <2>6. rung[best] = CompareAddress(roster, addresses[best], words)
    BY <2>4
  <2> HIDE DEF words, best, rung
  <2> QED
    BY <1>1, <2>5, <2>6
<1> QED
  BY <1>2, <1>3

\* The gate settles on a candidate, or on nobody.
LEMMA GateChoosesACandidate ==
  ASSUME NEW roster, NEW candidates, EvaluateAutoAccept(roster, candidates) # None
  PROVE  \E c \in candidates : EvaluateAutoAccept(roster, candidates) = c.id
<1> DEFINE v == [c \in candidates |-> RunDiscriminators(roster, c)]
           clean == {c \in candidates : PassesAllEight(v[c])}
           winner == CHOOSE c \in clean : TRUE
<1>1. Cardinality(clean) = 1 /\ EvaluateAutoAccept(roster, candidates) = winner.id
  BY DEF EvaluateAutoAccept
<1>2. clean # {}
  BY <1>1, FS_EmptySet
<1>3. winner \in candidates
  BY <1>2
<1> QED
  BY <1>1, <1>3

-----------------------------------------------------------------------------
(* Candidates and plans.                                                   *)

\* The world does not change, and what is said of it stays said.
LEMMA WorldStands ==
  ASSUME world' = world
  PROVE  /\ Prepass' = Prepass /\ Search' = Search /\ Roster' = Roster
         /\ Cands' = Cands /\ Evidences' = Evidences
         /\ Plans' = Plans /\ Ladders' = Ladders /\ LogRows' = LogRows
         /\ AttemptRows' = AttemptRows
         /\ \A id : Facts(id)' = Facts(id) /\ SettledEvidenceFor(id)' = SettledEvidenceFor(id)
<1>1. Prepass' = Prepass /\ Search' = Search /\ Roster' = Roster
  BY DEF Prepass, Search, Roster
<1>2. \A id : Facts(id)' = Facts(id)
  BY DEF Facts
<1>3. \A id : SettledEvidenceFor(id)' = SettledEvidenceFor(id)
  BY <1>1, <1>2 DEF SettledEvidenceFor
<1>4. Cands' = Cands
  BY <1>1 DEF Cands
<1>5. Evidences' = Evidences
  BY <1>3 DEF Evidences
<1> QED
  BY <1>1, <1>2, <1>3, <1>4, <1>5 DEF Plans, Ladders, LogRows, AttemptRows

\* A company's facts are its own, and its addresses are a list.
LEMMA FactsAreOwn ==
  ASSUME world \in DOMAIN Worlds, NEW id \in Entities
  PROVE  Facts(id).id = id /\ Facts(id).addresses \in Seq(ToSet(Facts(id).addresses))
  BY WorldsAssumption DEF Facts

\* The pre-pass is of companies.
LEMMA PrepassIsOfCompanies ==
  ASSUME world \in DOMAIN Worlds
  PROVE  ToSet(Prepass) \subseteq Entities
<1> DEFINE ranked == Worlds[world].prepass
           k == IF Len(ranked) < PrepassSize THEN Len(ranked) ELSE PrepassSize
<1>1. ranked \in Seq(Entities)
  BY WorldsAssumption
<1>2. k \in 0..Len(ranked)
  BY <1>1, MatchBounds
<1>3. Prepass = SubSeq(ranked, 1, k)
  BY DEF Prepass
<1> HIDE DEF ranked, k
<1>4. Prepass \in Seq(Entities)
  BY <1>1, <1>2, <1>3
<1> QED
  BY <1>4 DEF ToSet

\* What the pre-pass surfaced, as candidates.
Surfaced == {[id |-> id, rung |-> "R1"] : id \in ToSet(Prepass)}

LEMMA SurfacedAreCands ==
  ASSUME world \in DOMAIN Worlds
  PROVE  Surfaced \subseteq Cands /\ Ids(Surfaced) = ToSet(Prepass)
<1>1. ASSUME NEW id \in ToSet(Prepass) PROVE [id |-> id, rung |-> "R1"] \in Cands
  BY PrepassIsOfCompanies DEF Cands
<1>2. Surfaced \subseteq Cands
  BY <1>1 DEF Surfaced
<1>3. \A c \in Surfaced : c.id \in ToSet(Prepass)
  BY DEF Surfaced
<1>4. \A id \in ToSet(Prepass) : [id |-> id, rung |-> "R1"] \in Surfaced
                                /\ [id |-> id, rung |-> "R1"].id = id
  BY DEF Surfaced
<1>5. \A id \in ToSet(Prepass) : \E c \in Surfaced : c.id = id
  BY <1>4
<1> QED
  BY <1>2, <1>3, <1>5 DEF Ids

LEMMA IdsAreCompanies ==
  ASSUME NEW seen, seen \subseteq Cands
  PROVE  Ids(seen) \subseteq Entities
  BY DEF Ids, Cands

\* What is absorbed keeps what was held, and adds only candidates.
LEMMA AbsorbKeeps ==
  ASSUME NEW seen, NEW found, NEW lost, seen \subseteq Cands,
         \A c \in found : c.id \in Entities \ Ids(seen) => c \in Cands
  PROVE  /\ Absorb(seen, found, lost) \subseteq Cands
         /\ Ids(seen) \subseteq Ids(Absorb(seen, found, lost))
  BY DEF Absorb, Ids

\* A Round surfaces candidates of its own rung: one that the pre-pass surfaced
\* is held already, and keeps the rung it has.
LEMMA RoundFindsCands ==
  ASSUME NEW n, NEW found, found \subseteq Findable(n), NEW picks, NEW seen,
         ToSet(Prepass) \subseteq Ids(seen)
  PROVE  \A c \in EntityIdsIn(found, picks) : c.id \in Entities \ Ids(seen) => c \in Cands
<1>1. \A id \in found : Search[id] \in {"R2", "R3a"}
  BY DEF Findable, RungsOffered
<1>2. ASSUME NEW id \in found, id \in Entities \ Ids(seen)
      PROVE  [id |-> id, rung |-> Search[id]] \in Cands
  <2>1. [id |-> id, rung |-> Search[id]] \in [id : Entities, rung : {"R1", "R2", "R3a"}]
    BY <1>1, <1>2
  <2>2. id \notin ToSet(Prepass)
    BY <1>2
  <2> QED
    BY <2>1, <2>2 DEF Cands
<1>3. ASSUME NEW id, id \in Entities \ Ids(seen)
      PROVE  [id |-> id, rung |-> "R1"] \in Cands
  BY <1>3 DEF Cands
<1> QED
  BY <1>2, <1>3 DEF EntityIdsIn

LEMMA PlanIsPlan ==
  ASSUME NEW status \in Statuses, NEW entity \in Entities \cup {None},
         NEW by \in {"rules", "agents"}, NEW seen, seen \subseteq Cands,
         NEW why \in {"", "ceiling"}
  PROVE  LET p == Plan(status, entity, by, seen, why)
         IN  /\ p \in Plans /\ p.status = status /\ p.entity = entity /\ p.cands = seen
             /\ entity # None => p.evidence = SettledEvidenceFor(entity)
<1>1. (IF entity = None THEN NoEvidence ELSE SettledEvidenceFor(entity)) \in Evidences
  BY DEF Evidences
<1> QED
  BY <1>1 DEF Plan, Plans

\* A parked Match settles on nobody.
LEMMA ParkedIsPlan ==
  ASSUME NEW seen, seen \subseteq Cands, NEW why \in {"", "ceiling"}
  PROVE  LET p == Parked(seen, why)
         IN  p \in Plans /\ p.status # "accepted" /\ p.entity = None
<1> DEFINE status == IF SawInCountry(seen) THEN "needs_review" ELSE "not_found"
<1>1. status \in Statuses /\ status # "accepted"
  BY DEF Statuses
<1>2. None \in Entities \cup {None} /\ "agents" \in {"rules", "agents"}
  OBVIOUS
<1>3. Parked(seen, why) = Plan(status, None, "agents", seen, why)
  BY DEF Parked
<1> HIDE DEF status
<1>4. LET p == Plan(status, None, "agents", seen, why)
      IN  p \in Plans /\ p.status = status /\ p.entity = None
  BY <1>1, <1>2 DEF Plan, Plans, Evidences
<1> QED
  BY <1>1, <1>3, <1>4

\* Every Round that settled nothing leaves an objection.
LEMMA AlwaysObjects ==
  ASSUME NEW r, NEW e
  PROVE  Objection(r, e, IF r = e THEN r ELSE None) = TRUE
  BY DEF Objection

-----------------------------------------------------------------------------
(* What a step leaves alone.                                               *)

\* The history only grows.
LogGrows == log' = log \/ \E row \in LogRows : log' = Append(log, row)

\* An acceptance in the history stays there.
LEMMA AcceptanceStays ==
  ASSUME log \in Seq(LogRows), LogGrows, NEW n \in 0..Len(log), NEW entity, AcceptedBy(n, entity)
  PROVE  /\ n \in 0..Len(log')
         /\ \E i \in 1..n : log'[i].status = "accepted" /\ log'[i].entity = entity
         /\ \E i \in 1..Len(log') : log'[i].status = "accepted" /\ log'[i].entity = entity
<1>1. Len(log) \in Nat /\ Len(log') \in Nat /\ Len(log) <= Len(log')
  BY DEF LogGrows
<1>2. \A i \in 1..Len(log) : log'[i] = log[i]
  BY DEF LogGrows
<1> QED
  BY <1>1, <1>2 DEF AcceptedBy

\* An attempt that does not move stays as it was.
LEMMA OthersStand ==
  ASSUME MatchTyped, LogGrows, world' = world, NEW b \in Attempts, at'[b] = at[b],
         AttemptHolds(b)
  PROVE  AttemptHolds(b)'
<1>1. Len(log) \in 0..Len(log)
  BY DEF MatchTyped
<1>2. ASSUME AcceptedBy(Len(log), at[b].plan.entity)
      PROVE  AcceptedBy(Len(log), at[b].plan.entity)'
  <2>1. \E i \in 1..Len(log') : log'[i].status = "accepted" /\ log'[i].entity = at[b].plan.entity
    BY <1>1, <1>2, AcceptanceStays DEF MatchTyped
  <2> QED
    BY <2>1 DEF AcceptedBy
<1>3. InRound(at[b])' /\ Settling(at[b])'
  BY WorldStands DEF AttemptHolds, InRound, Settling, SaysWhatItSaw, Ids
<1> QED
  BY <1>2, <1>3 DEF AttemptHolds

\* A step that writes no row leaves what the rows say as it was.
LEMMA RowsStand ==
  ASSUME MatchInv, world' = world, match' = match, log' = log, store \subseteq store'
  PROVE  RowFollows' /\ LogHolds' /\ (enriches' = enriches => EnrichesHold')
         /\ (person' = person => PersonHolds')
<1>1. RowFollows'
  BY WorldStands DEF MatchInv, RowFollows
<1>2. LogHolds'
  BY DEF MatchInv, LogHolds, SaysWhatItSaw, Ids
<1>3. enriches' = enriches => EnrichesHold'
  BY DEF MatchInv, EnrichesHold, AcceptedBy
<1>4. person' = person => PersonHolds'
  BY DEF MatchInv, PersonHolds, AcceptedBy
<1> QED
  BY <1>1, <1>2, <1>3, <1>4

\* When one attempt moves, the others stay as they were.
LEMMA OneMoves ==
  ASSUME MatchInv, LogGrows, world' = world, NEW a \in Attempts, NEW me,
         at' = [at EXCEPT ![a] = me], AttemptHolds(a)'
  PROVE  \A b \in Attempts : AttemptHolds(b)'
<1> SUFFICES ASSUME NEW b \in Attempts, b # a PROVE AttemptHolds(b)'
  OBVIOUS
<1>1. at'[b] = at[b]
  BY DEF MatchInv, MatchTyped
<1> QED
  BY <1>1, OthersStand DEF MatchInv

\* When none moves, all stay as they were.
LEMMA NoneMoves ==
  ASSUME MatchInv, LogGrows, world' = world, at' = at
  PROVE  \A b \in Attempts : AttemptHolds(b)'
  BY OthersStand DEF MatchInv

LEMMA IdleAndOver == /\ Idle \in AttemptRows /\ Idle.pc = "idle"
                     /\ Over \in AttemptRows /\ Over.pc = "over"
<1>1. "idle" \in Steps /\ "over" \in Steps
  BY DEF Steps
<1>2. Idle \in AttemptRows /\ Idle.pc = "idle"
  BY <1>1, MatchBounds DEF Idle, AttemptRows
<1> QED
  BY <1>1, <1>2 DEF Over, AttemptRows

-----------------------------------------------------------------------------
(* The beginning.                                                          *)

LEMMA MatchBegins == Init => MatchInv
<1> SUFFICES ASSUME Init PROVE MatchInv
  OBVIOUS
<1>1. MatchTyped
  <2>1. jobs \in [Jobs -> [state : JobStates, trigger : {"pipeline", "settlement"}]]
    <3>1. PICK j \in Jobs : jobs = [k \in Jobs |-> [state |-> IF k = j THEN "queued" ELSE "absent",
                                                    trigger |-> "pipeline"]]
      BY DEF Init
    <3>2. {"queued", "absent"} \subseteq JobStates
      BY DEF JobStates
    <3> QED
      BY <3>1, <3>2
  <2>2. at \in [Attempts -> AttemptRows] /\ log \in Seq(LogRows)
    BY IdleAndOver DEF Init
  <2> QED
    BY <2>1, <2>2 DEF MatchTyped, Init
<1>2. RowFollows /\ LogHolds /\ PersonHolds /\ EnrichesHold
  BY DEF Init, RowFollows, LogHolds, PersonHolds, EnrichesHold
<1>3. \A a \in Attempts : AttemptHolds(a)
  BY IdleAndOver DEF Init, AttemptHolds, InRound, Settling
<1> QED
  BY <1>1, <1>2, <1>3 DEF MatchInv

-----------------------------------------------------------------------------
(* The Job up to its first Round.                                          *)

\* A step that only changes the jobs' rows.
LEMMA JobsStep ==
  ASSUME MatchInv, UNCHANGED <<world, rows, at, person>>,
         jobs' \in [Jobs -> [state : JobStates, trigger : {"pipeline", "settlement"}]],
         saved' \in [Jobs -> [1..MaxRounds -> Ladders \cup {NoLadder}]]
  PROVE  MatchInv'
<1>1. MatchTyped'
  BY WorldStands DEF MatchInv, MatchTyped, rows
<1>2. LogGrows
  BY DEF LogGrows, rows
<1> QED
  BY <1>1, <1>2, NoneMoves, RowsStand DEF MatchInv, rows

\* A step of one attempt that writes no row, but for companies it fetched.
LEMMA AttemptStep ==
  ASSUME MatchInv, UNCHANGED <<world, match, log, enriches, person>>,
         store \subseteq store', store' \subseteq Entities,
         jobs' \in [Jobs -> [state : JobStates, trigger : {"pipeline", "settlement"}]],
         saved' \in [Jobs -> [1..MaxRounds -> Ladders \cup {NoLadder}]],
         NEW a \in Attempts, NEW me \in AttemptRows, at' = [at EXCEPT ![a] = me],
         AttemptHolds(a)'
  PROVE  MatchInv'
<1>1. MatchTyped'
  BY WorldStands DEF MatchInv, MatchTyped
<1>2. LogGrows
  BY DEF LogGrows
<1> QED
  BY <1>1, <1>2, OneMoves, RowsStand DEF MatchInv

LEMMA SetJobTyped ==
  ASSUME MatchTyped, NEW j, NEW s \in JobStates, SetJob(j, s)
  PROVE  jobs' \in [Jobs -> [state : JobStates, trigger : {"pipeline", "settlement"}]]
  BY DEF MatchTyped, SetJob

LEMMA ClaimKeeps == ASSUME MatchInv, NEW a \in Attempts, NEW j \in Jobs, Claim(a, j) PROVE MatchInv'
<1> DEFINE me == [Idle EXCEPT !.job = j, !.pc = "gather"]
<1>1. "gather" \in Steps /\ "running" \in JobStates
  BY DEF Steps, JobStates
<1>2. me \in AttemptRows /\ me.pc = "gather" /\ me.job = j
  BY <1>1, IdleAndOver DEF AttemptRows
<1>3. at' = [at EXCEPT ![a] = me] /\ UNCHANGED <<world, rows, saved, person>> /\ SetJob(j, "running")
  BY DEF Claim
<1> HIDE DEF me
<1>4. at'[a] = me
  BY <1>3 DEF MatchInv, MatchTyped
<1>5. AttemptHolds(a)'
  BY <1>2, <1>4 DEF AttemptHolds, InRound, Settling
<1> QED
  BY <1>1, <1>2, <1>3, <1>5, AttemptStep, SetJobTyped DEF MatchInv, MatchTyped, rows

\* An attempt that ends writes its job's state, and holds nothing any more.
LEMMA EndKeeps ==
  ASSUME MatchInv, NEW a \in Attempts, NEW s \in JobStates, End(a, s),
         UNCHANGED <<world, rows, saved, person>>
  PROVE  MatchInv'
<1>1. at' = [at EXCEPT ![a] = Over] /\ SetJob(at[a].job, s)
  BY DEF End
<1>2. at'[a] = Over
  BY <1>1 DEF MatchInv, MatchTyped
<1>3. AttemptHolds(a)'
  BY <1>2, IdleAndOver DEF AttemptHolds, InRound, Settling
<1> QED
  BY <1>1, <1>3, IdleAndOver, AttemptStep, SetJobTyped DEF MatchInv, MatchTyped, rows

LEMMA CrashKeeps == ASSUME MatchInv, NEW a \in Attempts, Crash(a) PROVE MatchInv'
<1>1. at' = [at EXCEPT ![a] = Over] /\ UNCHANGED <<world, rows, jobs, saved, person>>
  BY DEF Crash
<1>2. at'[a] = Over
  BY <1>1 DEF MatchInv, MatchTyped
<1>3. AttemptHolds(a)'
  BY <1>2, IdleAndOver DEF AttemptHolds, InRound, Settling
<1> QED
  BY <1>1, <1>3, IdleAndOver, AttemptStep DEF MatchInv, MatchTyped, rows

LEMMA EndingsKeep ==
  ASSUME MatchInv, NEW a \in Attempts, Break(a) \/ Pause(a) \/ SettleCollides(a)
  PROVE  MatchInv'
<1>1. \E s \in {"failed", "paused_on_budget"} : End(a, s)
  BY DEF Break, Pause, SettleCollides
<1>2. UNCHANGED <<world, rows, saved, person>>
  BY DEF Break, Pause, SettleCollides
<1>3. {"failed", "paused_on_budget"} \subseteq JobStates
  BY DEF JobStates
<1> QED
  BY <1>1, <1>2, <1>3, EndKeeps

\* A ladder that resumes holds the pre-pass, the candidates that were saved,
\* and the objection of the last Round it had played.
LEMMA ResumeHolds ==
  ASSUME MatchTyped, NEW me \in AttemptRows, me.job \in Jobs
  PROVE  LET ladder == Resume(me, Surfaced)
         IN  /\ ladder.seen \subseteq Cands
             /\ ~Exhausted(ladder) =>
                  /\ ladder \in AttemptRows
                  /\ ladder.pc = "round" /\ ladder.job = me.job /\ InRound(ladder)
<1> DEFINE n == LastSaved(me.job)
           objection == n > 0 /\ saved[me.job][n].objection
           seen == IF n = 0 THEN Surfaced ELSE Absorb(Surfaced, saved[me.job][n].found, {})
           ladder == Resume(me, Surfaced)
<1>1. n \in 0..MaxRounds /\ MaxRounds \in Nat /\ (n > 0 => saved[me.job][n] # NoLadder)
  BY LastSavedIsSaved, MatchBounds
<1>2. n > 0 => saved[me.job][n] \in Ladders
  BY <1>1 DEF MatchTyped
<1>3. n > 0 => saved[me.job][n].objection = TRUE /\ saved[me.job][n].found \subseteq Cands
  BY <1>2 DEF Ladders
<1>4. objection \in BOOLEAN /\ (n > 0 => objection)
  BY <1>3
<1>5. Surfaced \subseteq Cands /\ Ids(Surfaced) = ToSet(Prepass)
  BY SurfacedAreCands DEF MatchTyped
<1>6. seen \subseteq Cands /\ ToSet(Prepass) \subseteq Ids(seen)
  <2>1. CASE n = 0
    BY <1>5, <2>1
  <2>2. CASE n # 0
    <3>1. \A c \in saved[me.job][n].found : c \in Cands
      BY <1>1, <1>3, <2>2
    <3>2. /\ Absorb(Surfaced, saved[me.job][n].found, {}) \subseteq Cands
          /\ Ids(Surfaced) \subseteq Ids(Absorb(Surfaced, saved[me.job][n].found, {}))
      BY <1>5, <3>1, AbsorbKeeps
    <3> QED
      BY <1>5, <2>2, <3>2
  <2> QED
    BY <2>1, <2>2
<1>7. ladder = [me EXCEPT !.pc = "round", !.roundN = n + 1, !.objection = objection, !.seen = seen]
  BY DEF Resume
<1> HIDE DEF n, objection, seen, ladder
<1>8. /\ ladder.seen = seen /\ ladder.pc = "round" /\ ladder.roundN = n + 1
      /\ ladder.objection = objection /\ ladder.job = me.job
  BY <1>7 DEF AttemptRows
<1>9. ASSUME ~Exhausted(ladder) PROVE ladder \in AttemptRows /\ InRound(ladder)
  <2>1. n + 1 \in 1..MaxRounds /\ n + 1 \in 0..MaxRounds
    BY <1>1, <1>8, <1>9 DEF Exhausted
  <2>2. "round" \in Steps
    BY DEF Steps
  <2>3. ladder \in AttemptRows
    BY <1>4, <1>6, <1>7, <2>1, <2>2 DEF AttemptRows
  <2>4. n + 1 > 1 => objection
    BY <1>1, <1>4
  <2> QED
    BY <1>6, <1>8, <2>1, <2>3, <2>4 DEF InRound
<1> QED
  BY <1>6, <1>8, <1>9 DEF ladder

\* An attempt that turns to its settlement, with a plan that says what it saw.
LEMMA TurnsToSettle ==
  ASSUME MatchInv, NEW a \in Attempts, at[a].job \in Jobs, NEW plan \in Plans,
         SaysWhatItSaw(plan), plan.status = "accepted" => plan.entity # None,
         plan.entity # None => plan.evidence = SettledEvidenceFor(plan.entity),
         NEW me \in AttemptRows, me.pc = "read", me.job = at[a].job, me.plan = plan,
         world' = world, at' = [at EXCEPT ![a] = me]
  PROVE  AttemptHolds(a)'
<1>1. at'[a] = me
  BY DEF MatchInv, MatchTyped
<1>2. plan \in Plans' /\ \A id : SettledEvidenceFor(id)' = SettledEvidenceFor(id)
  BY WorldStands
<1>3. Settling(at[a])'
  BY <1>1, <1>2 DEF Settling, SaysWhatItSaw, Ids
<1>4. InRound(at[a])'
  BY <1>1 DEF InRound
<1> QED
  BY <1>1, <1>3, <1>4 DEF AttemptHolds

LEMMA GatherKeeps == ASSUME MatchInv, NEW a \in Attempts, Gather(a) PROVE MatchInv'
<1> DEFINE chosen == EvaluateAutoAccept(Roster, {Facts(id) : id \in Ids(Surfaced)})
           ladder == Resume(at[a], Surfaced)
           accepted == Plan("accepted", chosen, "rules", Surfaced, "")
           parked == Parked(ladder.seen, "")
           me == IF chosen # None THEN [at[a] EXCEPT !.pc = "read", !.plan = accepted]
                 ELSE IF Exhausted(ladder) THEN [at[a] EXCEPT !.pc = "read", !.plan = parked]
                 ELSE ladder
<1>1. /\ at[a].pc = "gather" /\ UNCHANGED <<world, match, log, enriches, jobs, saved, person>>
      /\ store' = store \cup IF chosen # None THEN Ids(Surfaced) ELSE Ids(ladder.seen)
      /\ at' = [at EXCEPT ![a] = me]
  BY DEF Gather, Surfaced
<1>2. at[a] \in AttemptRows /\ at[a].job \in Jobs /\ MatchTyped
  BY <1>1 DEF MatchInv, MatchTyped, AttemptHolds
<1>3. Surfaced \subseteq Cands /\ Ids(Surfaced) \subseteq Entities
  BY <1>2, SurfacedAreCands, IdsAreCompanies DEF MatchTyped
<1>4. /\ ladder.seen \subseteq Cands
      /\ ~Exhausted(ladder) => /\ ladder \in AttemptRows
                               /\ ladder.pc = "round" /\ ladder.job = at[a].job /\ InRound(ladder)
  BY <1>2, ResumeHolds
<1>5. Ids(ladder.seen) \subseteq Entities
  BY <1>4, IdsAreCompanies
<1>6. chosen # None => chosen \in Ids(Surfaced)
  <2> SUFFICES ASSUME chosen # None PROVE chosen \in Ids(Surfaced)
    OBVIOUS
  <2>1. PICK c \in {Facts(id) : id \in Ids(Surfaced)} : chosen = c.id
    BY GateChoosesACandidate
  <2>2. PICK id \in Ids(Surfaced) : c = Facts(id)
    BY <2>1
  <2>3. Facts(id).id = id
    BY <1>2, <1>3, FactsAreOwn DEF MatchTyped
  <2> QED
    BY <2>1, <2>2, <2>3
<1> HIDE DEF chosen, ladder
<1>7. store' \subseteq Entities /\ store \subseteq store'
  BY <1>1, <1>2, <1>3, <1>5 DEF MatchTyped
<1>8. "read" \in Steps /\ "" \in {"", "ceiling"} /\ "accepted" \in Statuses
  BY DEF Steps, Statuses
<1>9. me \in AttemptRows /\ AttemptHolds(a)'
  <2>1. CASE chosen # None
    <3>1. chosen \in Entities \cup {None} /\ "rules" \in {"rules", "agents"}
      BY <1>3, <1>6, <2>1
    <3>2. /\ accepted \in Plans /\ accepted.entity = chosen /\ accepted.cands = Surfaced
          /\ accepted.status = "accepted"
          /\ chosen # None => accepted.evidence = SettledEvidenceFor(chosen)
      BY <1>3, <1>8, <3>1 DEF Plan, Plans, Evidences
    <3> HIDE DEF accepted
    <3>3. SaysWhatItSaw(accepted)
      BY <1>6, <2>1, <3>2 DEF SaysWhatItSaw
    <3>4. me \in AttemptRows /\ me.pc = "read" /\ me.job = at[a].job /\ me.plan = accepted
      BY <1>2, <1>8, <2>1, <3>2 DEF AttemptRows
    <3> HIDE DEF me
    <3> QED
      BY <1>1, <1>2, <2>1, <3>2, <3>3, <3>4, TurnsToSettle
  <2>2. CASE chosen = None /\ Exhausted(ladder)
    <3>1. parked \in Plans /\ parked.status # "accepted" /\ parked.entity = None
      BY <1>4, <1>8, ParkedIsPlan
    <3> HIDE DEF parked
    <3>2. SaysWhatItSaw(parked)
      BY <3>1 DEF SaysWhatItSaw
    <3>3. me \in AttemptRows /\ me.pc = "read" /\ me.job = at[a].job /\ me.plan = parked
      BY <1>2, <1>8, <2>2, <3>1 DEF AttemptRows
    <3> HIDE DEF me
    <3> QED
      BY <1>1, <1>2, <3>1, <3>2, <3>3, TurnsToSettle
  <2>3. CASE chosen = None /\ ~Exhausted(ladder)
    <3>1. me = ladder
      BY <2>3
    <3> HIDE DEF me
    <3>2. at'[a] = ladder
      BY <1>1, <3>1 DEF MatchInv, MatchTyped
    <3>3. InRound(at[a])'
      BY <1>1, <1>4, <2>3, <3>2, WorldStands DEF InRound, Ids
    <3> QED
      BY <1>2, <1>4, <2>3, <3>1, <3>2, <3>3 DEF AttemptHolds, Settling
  <2> QED
    BY <2>1, <2>2, <2>3
<1> HIDE DEF me
<1> QED
  BY <1>1, <1>2, <1>7, <1>9, AttemptStep DEF MatchTyped

-----------------------------------------------------------------------------
(* A Round.                                                                *)

LEMMA RoundKeeps ==
  ASSUME MatchInv, NEW a \in Attempts, NEW r, NEW e,
         NEW found, found \subseteq Findable(at[a].roundN), NEW lost, NEW ceiling \in BOOLEAN,
         Round(a, r, e, found, lost, ceiling)
  PROVE  MatchInv'
<1> DEFINE was == at[a]
           seen == Absorb(was.seen, EntityIdsIn(found, {r, e}), lost)
           agreed == IF r = e THEN r ELSE None
           why == IF ceiling THEN "ceiling" ELSE ""
           accepted == Plan("accepted", agreed, "agents", seen, "")
           parked == Parked(seen, why)
           settles == [was EXCEPT !.pc = "read", !.seen = {}, !.plan = accepted]
           parks == [was EXCEPT !.pc = "read", !.seen = {}, !.plan = parked]
           next == [was EXCEPT !.seen = seen, !.objection = Objection(r, e, agreed),
                               !.roundN = was.roundN + 1]
           me == IF Held(agreed, seen) THEN settles
                 ELSE IF ceiling \/ was.roundN = MaxRounds THEN parks ELSE next
<1>1. /\ was.pc = "round" /\ UNCHANGED <<world, match, log, enriches, jobs, person>>
      /\ store' = store \cup Ids(seen)
      /\ at' = [at EXCEPT ![a] = me]
      /\ saved' = IF Held(agreed, seen) \/ ceiling THEN saved
                  ELSE [saved EXCEPT ![was.job][was.roundN] = Boundary(next.objection, seen)]
  BY DEF Round
<1>2. was \in AttemptRows /\ was.job \in Jobs /\ InRound(was) /\ MatchTyped
  BY <1>1 DEF MatchInv, MatchTyped, AttemptHolds
<1>3. was.roundN \in 1..MaxRounds /\ MaxRounds \in Nat /\ was.seen \subseteq Cands
      /\ ToSet(Prepass) \subseteq Ids(was.seen)
  BY <1>1, <1>2, MatchBounds DEF InRound, AttemptRows
<1>4. /\ seen \subseteq Cands /\ ToSet(Prepass) \subseteq Ids(seen)
  <2>1. \A c \in EntityIdsIn(found, {r, e}) : c.id \in Entities \ Ids(was.seen) => c \in Cands
    BY <1>3, RoundFindsCands
  <2>2. seen \subseteq Cands /\ Ids(was.seen) \subseteq Ids(seen)
    BY <1>3, <2>1, AbsorbKeeps
  <2> QED
    BY <1>3, <2>2
<1>5. Ids(seen) \subseteq Entities
  BY <1>4, IdsAreCompanies
<1>6. Objection(r, e, agreed) = TRUE
  BY AlwaysObjects
<1> HIDE DEF was, seen, agreed
<1>7. store' \subseteq Entities /\ store \subseteq store'
  BY <1>1, <1>2, <1>5 DEF MatchTyped
<1>8. "read" \in Steps /\ "accepted" \in Statuses /\ why \in {"", "ceiling"} /\ "" \in {"", "ceiling"}
  BY DEF Steps, Statuses
<1>9. next.objection = TRUE /\ next.seen = seen /\ next.roundN = was.roundN + 1 /\ next.pc = "round"
      /\ next.job = was.job
  BY <1>1, <1>2, <1>6 DEF AttemptRows
<1>10. saved' \in [Jobs -> [1..MaxRounds -> Ladders \cup {NoLadder}]]
  <2>1. Boundary(next.objection, seen) \in Ladders
    BY <1>4, <1>9 DEF Boundary, Ladders
  <2> HIDE DEF next
  <2>2. ASSUME NEW ladder \in Ladders
        PROVE  [saved EXCEPT ![was.job][was.roundN] = ladder]
                  \in [Jobs -> [1..MaxRounds -> Ladders \cup {NoLadder}]]
    BY <1>2, <1>3 DEF MatchTyped
  <2> QED
    BY <1>1, <1>2, <2>1, <2>2 DEF MatchTyped
<1>11. CASE Held(agreed, seen)
  <2>1. agreed \in Ids(seen)
    BY <1>11 DEF Held
  <2>2. agreed \in Entities /\ agreed # None
    BY <1>5, <2>1, NoneIsNobody
  <2>3. /\ accepted \in Plans /\ accepted.entity = agreed /\ accepted.cands = seen
        /\ accepted.status = "accepted"
        /\ accepted.evidence = SettledEvidenceFor(agreed)
    BY <1>4, <1>8, <2>2 DEF Plan, Plans, Evidences
  <2> HIDE DEF accepted
  <2>4. SaysWhatItSaw(accepted)
    BY <2>1, <2>3 DEF SaysWhatItSaw
  <2>5. me = settles
    BY <1>11
  <2> HIDE DEF me
  <2>6. me \in AttemptRows /\ me.pc = "read" /\ me.job = was.job /\ me.plan = accepted
    BY <1>2, <1>8, <2>3, <2>5 DEF AttemptRows
  <2>7. AttemptHolds(a)'
    BY <1>1, <1>2, <2>2, <2>3, <2>4, <2>6, TurnsToSettle DEF was
  <2> QED
    BY <1>1, <1>2, <1>7, <1>10, <2>6, <2>7, AttemptStep DEF MatchTyped
<1>12. CASE ~Held(agreed, seen) /\ (ceiling \/ was.roundN = MaxRounds)
  <2>1. parked \in Plans /\ parked.status # "accepted" /\ parked.entity = None
    BY <1>4, <1>8, ParkedIsPlan
  <2> HIDE DEF parked
  <2>2. SaysWhatItSaw(parked)
    BY <2>1 DEF SaysWhatItSaw
  <2>3. me = parks
    BY <1>12
  <2> HIDE DEF me
  <2>4. me \in AttemptRows /\ me.pc = "read" /\ me.job = was.job /\ me.plan = parked
    BY <1>2, <1>8, <2>1, <2>3 DEF AttemptRows
  <2>5. AttemptHolds(a)'
    BY <1>1, <1>2, <2>1, <2>2, <2>4, TurnsToSettle DEF was
  <2> QED
    BY <1>1, <1>2, <1>7, <1>10, <2>4, <2>5, AttemptStep DEF MatchTyped
<1>13. CASE ~Held(agreed, seen) /\ ~(ceiling \/ was.roundN = MaxRounds)
  <2>1. was.roundN + 1 \in 1..MaxRounds /\ was.roundN + 1 \in 0..MaxRounds
    BY <1>3, <1>13
  <2>2. next \in AttemptRows
    BY <1>2, <1>4, <1>6, <2>1 DEF AttemptRows
  <2>3. me = next
    BY <1>13
  <2> HIDE DEF me, next
  <2>4. at'[a] = next
    BY <1>1, <2>3 DEF MatchInv, MatchTyped
  <2>5. InRound(at[a])'
    BY <1>1, <1>4, <1>9, <2>1, <2>4, WorldStands DEF InRound, Ids
  <2>6. AttemptHolds(a)'
    BY <1>2, <1>9, <2>4, <2>5 DEF AttemptHolds, Settling
  <2> QED
    BY <1>1, <1>2, <1>7, <1>10, <2>2, <2>3, <2>6, AttemptStep DEF MatchTyped
<1> QED
  BY <1>11, <1>12, <1>13

LEMMA SomeRoundKeeps == ASSUME MatchInv, NEW a \in Attempts, SomeRound(a) PROVE MatchInv'
<1>1. \E r, e : \E found \in SUBSET Findable(at[a].roundN), ceiling \in BOOLEAN : \E lost :
        Round(a, r, e, found, lost, ceiling)
  BY Zenon DEF SomeRound
<1> QED
  BY <1>1, RoundKeeps

-----------------------------------------------------------------------------
(* Settling, and what follows.                                             *)

\* A settlement writes the row and the attempt row of its plan.
LEMMA SettleSays ==
  ASSUME MatchInv, NEW p, NEW fresh, Settle(p, fresh), world' = world, store' = store,
         p.status \in Statuses, p.entity \in Entities \cup {None},
         p.by \in {"rules", "agents", "human"}, p.cands \subseteq Cands,
         p.status = "accepted" => p.entity # None,
         p.by # "human" => SaysWhatItSaw(p),
         p.by # "human" /\ p.entity # None => p.evidence = SettledEvidenceFor(p.entity)
  PROVE  /\ LogGrows /\ log' \in Seq(LogRows') /\ RowFollows' /\ LogHolds'
         /\ p.status = "accepted" =>
           \E i \in 1..Len(log') : log'[i].status = "accepted" /\ log'[i].entity = p.entity
         /\ enriches' = enriches => EnrichesHold'
<1> DEFINE row == [by |-> p.by, status |-> p.status, entity |-> p.entity, cands |-> p.cands]
<1>1. log \in Seq(LogRows) /\ log' = Append(log, row) /\ row \in LogRows
  BY DEF MatchInv, MatchTyped, Settle, Append1, LogRows
<1>2. LogGrows
  BY <1>1 DEF LogGrows
<1>3. log' \in Seq(LogRows')
  BY <1>1, WorldStands
<1>4. /\ Len(log) \in Nat /\ Len(log') = Len(log) + 1 /\ log'[Len(log')] = row
      /\ DOMAIN log = 1..Len(log) /\ DOMAIN log' = 1..Len(log')
      /\ \A i \in 1..Len(log) : log'[i] = log[i]
  BY <1>1
<1>5. /\ row.by = p.by /\ row.status = p.status /\ row.entity = p.entity /\ row.cands = p.cands
  OBVIOUS
<1> HIDE DEF row
<1>6. LogHolds'
  <2>1. \A i \in DOMAIN log' : log'[i].by # "human" => SaysWhatItSaw(log'[i])
    <3> SUFFICES ASSUME NEW i \in DOMAIN log', log'[i].by # "human" PROVE SaysWhatItSaw(log'[i])
      OBVIOUS
    <3>1. CASE i \in 1..Len(log)
      BY <1>4, <3>1 DEF MatchInv, LogHolds
    <3>2. CASE i = Len(log')
      BY <1>4, <1>5, <3>2 DEF SaysWhatItSaw
    <3> QED
      BY <1>4, <3>1, <3>2
  <2> QED
    BY <2>1 DEF LogHolds, SaysWhatItSaw, Ids
<1>7. p.status = "accepted" =>
           \E i \in 1..Len(log') : log'[i].status = "accepted" /\ log'[i].entity = p.entity
  BY <1>4, <1>5
<1>8. enriches' = enriches => EnrichesHold'
  <2> SUFFICES ASSUME enriches' = enriches, NEW e \in enriches
               PROVE  e.n \in 0..Len(log') /\ \E i \in 1..e.n : /\ log'[i].status = "accepted"
                                                             /\ log'[i].entity = e.entity
    BY DEF EnrichesHold, AcceptedBy
  <2>1. e.n \in 0..Len(log) /\ AcceptedBy(e.n, e.entity)
    BY DEF MatchInv, EnrichesHold
  <2> QED
    BY <1>1, <1>2, <2>1, AcceptanceStays
<1>9. RowFollows'
  <2> DEFINE settled == IF p.entity = None THEN [country |-> None, source |-> None]
                        ELSE SettledCountry(p.evidence, Facts(p.entity).country)
  <2>1. match' = [status |-> p.status, entity |-> p.entity, by |-> p.by,
                  country |-> settled.country, source |-> settled.source]
    BY DEF Settle, MatchRow
  <2>2. /\ match'.status = p.status /\ match'.entity = p.entity /\ match'.by = p.by
        /\ match'.country = settled.country /\ match'.source = settled.source
    BY <2>1
  <2>3. p.entity = None \/ p.entity \in store
    BY DEF Settle
  <2>4. p.entity # None /\ p.by # "human" =>
          settled = SettledCountry(SettledEvidenceFor(p.entity), Facts(p.entity).country)
    OBVIOUS
  <2> HIDE DEF settled
  <2>5. \A id : Facts(id)' = Facts(id) /\ SettledEvidenceFor(id)' = SettledEvidenceFor(id)
    BY WorldStands
  <2> QED
    BY <2>2, <2>3, <2>4, <2>5 DEF RowFollows
<1> QED
  BY <1>2, <1>3, <1>6, <1>7, <1>8, <1>9

LEMMA SettleReadKeeps == ASSUME MatchInv, NEW a \in Attempts, SettleRead(a) PROVE MatchInv'
<1> DEFINE me == [at[a] EXCEPT !.pc = "write", !.fresh = match = NoMatch]
<1>1. at[a] \in AttemptRows /\ at[a].pc = "read" /\ at[a].job \in Jobs /\ Settling(at[a])
  BY DEF MatchInv, MatchTyped, AttemptHolds, SettleRead
<1>2. "write" \in Steps /\ (match = NoMatch) \in BOOLEAN
  BY DEF Steps
<1>3. at' = [at EXCEPT ![a] = me] /\ UNCHANGED <<world, rows, jobs, saved, person>>
  BY <1>1 DEF SettleRead, MatchInv, MatchTyped
<1>4. me \in AttemptRows /\ me.pc = "write" /\ me.job = at[a].job /\ me.plan = at[a].plan
  BY <1>1, <1>2 DEF AttemptRows
<1> HIDE DEF me
<1>5. at'[a] = me
  BY <1>3 DEF MatchInv, MatchTyped
<1>6. Settling(at[a])'
  BY <1>1, <1>3, <1>4, <1>5, WorldStands DEF Settling, SaysWhatItSaw, Ids
<1>7. AttemptHolds(a)'
  BY <1>1, <1>4, <1>5, <1>6 DEF AttemptHolds, InRound
<1> QED
  BY <1>3, <1>4, <1>7, AttemptStep DEF MatchInv, MatchTyped, rows

LEMMA SettleWriteKeeps == ASSUME MatchInv, NEW a \in Attempts, SettleWrite(a) PROVE MatchInv'
<1> DEFINE p == at[a].plan
           me == [at[a] EXCEPT !.pc = "chain"]
<1>1. at[a] \in AttemptRows /\ at[a].pc = "write" /\ at[a].job \in Jobs /\ Settling(at[a])
  BY DEF MatchInv, MatchTyped, AttemptHolds, SettleWrite
<1>2. /\ p \in Plans /\ SaysWhatItSaw(p) /\ (p.status = "accepted" => p.entity # None)
      /\ p.entity # None => p.evidence = SettledEvidenceFor(p.entity)
  BY <1>1 DEF Settling
<1>3. /\ p.status \in Statuses /\ p.entity \in Entities \cup {None} /\ p.cands \subseteq Cands
      /\ p.by \in {"rules", "agents", "human"}
  BY <1>2 DEF Plans
<1>4. /\ Settle(p, at[a].fresh) /\ UNCHANGED <<world, store, enriches, jobs, saved, person>>
      /\ at' = [at EXCEPT ![a] = me]
  BY <1>1 DEF SettleWrite, MatchInv, MatchTyped
<1>5. "chain" \in Steps
  BY DEF Steps
<1>6. me \in AttemptRows /\ me.pc = "chain" /\ me.job = at[a].job /\ me.plan = p
  BY <1>1, <1>5 DEF AttemptRows
<1> HIDE DEF p, me
<1>7. /\ LogGrows /\ log' \in Seq(LogRows') /\ RowFollows' /\ LogHolds' /\ EnrichesHold'
      /\ p.status = "accepted" =>
           \E i \in 1..Len(log') : log'[i].status = "accepted" /\ log'[i].entity = p.entity
  BY <1>2, <1>3, <1>4, SettleSays
<1>8. at'[a] = me
  BY <1>4 DEF MatchInv, MatchTyped
<1>9. Settling(at[a])'
  BY <1>2, <1>4, <1>6, <1>8, WorldStands DEF Settling, SaysWhatItSaw, Ids
<1>10. AttemptHolds(a)'
  <2>1. p.status = "accepted" => AcceptedBy(Len(log), at[a].plan.entity)'
    BY <1>6, <1>7, <1>8 DEF AcceptedBy
  <2> QED
    BY <1>1, <1>6, <1>8, <1>9, <2>1 DEF AttemptHolds, InRound
<1>11. \A b \in Attempts : AttemptHolds(b)'
  BY <1>4, <1>7, <1>10, OneMoves
<1>12. PersonHolds'
  <2> SUFFICES ASSUME person.pc = "open", person.entity # None
               PROVE  \E i \in 1..Len(log') : log'[i].status = "accepted" /\ log'[i].entity = person.entity
    BY <1>4 DEF PersonHolds, AcceptedBy
  <2>1. log \in Seq(LogRows) /\ Len(log) \in 0..Len(log) /\ AcceptedBy(Len(log), person.entity)
    BY DEF MatchInv, MatchTyped, PersonHolds
  <2> QED
    BY <1>7, <2>1, AcceptanceStays
<1>13. MatchTyped'
  BY <1>4, <1>6, <1>7, WorldStands DEF MatchInv, MatchTyped
<1> QED
  BY <1>7, <1>11, <1>12, <1>13 DEF MatchInv

LEMMA ChainKeeps == ASSUME MatchInv, NEW a \in Attempts, Chain(a) PROVE MatchInv'
<1> DEFINE p == at[a].plan
           new == [by |-> at[a].job, n |-> Len(log), entity |-> p.entity]
           s == IF p.why = "" THEN "done" ELSE "terminated"
<1>1. /\ at[a].pc = "chain" /\ UNCHANGED <<world, store, match, log, saved, person>>
      /\ at' = [at EXCEPT ![a] = Over] /\ SetJob(at[a].job, s)
      /\ enriches' \subseteq enriches \cup {new}
      /\ p.status # "accepted" => enriches' = enriches
  BY DEF Chain, End
<1>2. new.n = Len(log) /\ new.entity = p.entity
  OBVIOUS
<1>3. s \in JobStates
  BY DEF JobStates
<1> HIDE DEF new, s
<1>4. Len(log) \in 0..Len(log) /\ (p.status = "accepted" => AcceptedBy(Len(log), p.entity))
  BY <1>1 DEF MatchInv, MatchTyped, AttemptHolds
<1>5. \A e \in enriches' : e.n \in 0..Len(log) /\ AcceptedBy(e.n, e.entity)
  <2>1. \A e \in enriches : e.n \in 0..Len(log) /\ AcceptedBy(e.n, e.entity)
    BY DEF MatchInv, EnrichesHold
  <2>2. p.status = "accepted" => new.n \in 0..Len(log) /\ AcceptedBy(new.n, new.entity)
    BY <1>2, <1>4
  <2> QED
    BY <1>1, <2>1, <2>2
<1>6. EnrichesHold'
  BY <1>1, <1>5 DEF EnrichesHold, AcceptedBy
<1>7. at'[a] = Over
  BY <1>1 DEF MatchInv, MatchTyped
<1>8. AttemptHolds(a)'
  BY <1>7, IdleAndOver DEF AttemptHolds, InRound, Settling
<1>9. LogGrows
  BY <1>1 DEF LogGrows
<1>10. MatchTyped'
  BY <1>1, <1>3, IdleAndOver, SetJobTyped, WorldStands DEF MatchInv, MatchTyped
<1> QED
  BY <1>1, <1>6, <1>8, <1>9, <1>10, OneMoves, RowsStand DEF MatchInv

-----------------------------------------------------------------------------
(* The ways a Job comes, and the person.                                   *)

LEMMA JobsKeep ==
  ASSUME MatchInv, NEW j \in Jobs,
         OpenAnother(j) \/ KeepAndRequeue(j) \/ Retry(j) \/ ChatSettles(j)
  PROVE  MatchInv'
<1>1. UNCHANGED <<world, rows, at, person>>
  BY DEF OpenAnother, KeepAndRequeue, Retry, ChatSettles
<1>2. "queued" \in JobStates
  BY DEF JobStates
<1>3. jobs' \in [Jobs -> [state : JobStates, trigger : {"pipeline", "settlement"}]]
  <2>1. CASE SetJob(j, "queued")
    BY <1>2, <2>1, SetJobTyped DEF MatchInv
  <2>2. CASE ChatSettles(j)
    BY <1>2, <2>2 DEF ChatSettles, MatchInv, MatchTyped
  <2> QED
    BY <2>1, <2>2 DEF OpenAnother, KeepAndRequeue, Retry
<1>4. saved' \in [Jobs -> [1..MaxRounds -> Ladders \cup {NoLadder}]]
  BY DEF MatchInv, MatchTyped, OpenAnother, KeepAndRequeue, Retry, ChatSettles
<1> QED
  BY <1>1, <1>3, <1>4, JobsStep

\* An attempt row is one.
LEMMA LogRowsAre ==
  ASSUME MatchTyped
  PROVE  \A i \in DOMAIN log : /\ log[i].status \in Statuses
                              /\ log[i].entity \in Entities \cup {None}
                              /\ log[i].cands \subseteq Cands
<1> SUFFICES ASSUME NEW i \in DOMAIN log
             PROVE  /\ log[i].status \in Statuses
                    /\ log[i].entity \in Entities \cup {None}
                    /\ log[i].cands \subseteq Cands
  OBVIOUS
<1>1. log \in Seq(LogRows)
  BY DEF MatchTyped
<1>2. log[i] \in LogRows
  BY <1>1
<1> QED
  BY <1>2 DEF LogRows

\* Whom a page offers is a company.
LEMMA OfferedAreCompanies == ASSUME MatchTyped PROVE Offered \subseteq Entities
<1>1. \A i \in DOMAIN log : log[i].cands \subseteq Cands
  BY LogRowsAre
<1> QED
  BY <1>1 DEF Offered, Cands

LEMMA PersonSettlesKeeps == ASSUME MatchInv, PersonSettles PROVE MatchInv'
<1>1. PICK id \in Offered \cup store \cup {None} :
        /\ Settle([status |-> IF id = None THEN "not_found" ELSE "accepted",
                   entity |-> id, by |-> "human",
                   evidence |-> NoEvidence, cands |-> {}], FALSE)
        /\ person' = [pc |-> "open", entity |-> id]
  BY DEF PersonSettles
<1>2. UNCHANGED <<world, store, enriches, jobs, saved, at>>
  BY DEF PersonSettles
<1> DEFINE p == [status |-> IF id = None THEN "not_found" ELSE "accepted",
                 entity |-> id, by |-> "human", evidence |-> NoEvidence, cands |-> {}]
<1>3. id \in Entities \cup {None}
  BY OfferedAreCompanies DEF MatchInv, MatchTyped
<1>4. /\ p.status \in Statuses /\ p.entity \in Entities \cup {None} /\ p.by = "human"
      /\ p.cands \subseteq Cands /\ (p.status = "accepted" => p.entity # None) /\ p.entity = id
      /\ p.entity # None => p.status = "accepted"
  BY <1>3 DEF Statuses
<1>5. Settle(p, FALSE)
  BY <1>1
<1> HIDE DEF p
<1>6. /\ LogGrows /\ log' \in Seq(LogRows') /\ RowFollows' /\ LogHolds' /\ EnrichesHold'
      /\ p.status = "accepted" =>
           \E i \in 1..Len(log') : log'[i].status = "accepted" /\ log'[i].entity = p.entity
  BY <1>2, <1>4, <1>5, SettleSays
<1>7. PersonHolds'
  <2>1. person'.entity = id
    BY <1>1
  <2> QED
    BY <1>4, <1>6, <2>1 DEF PersonHolds, AcceptedBy
<1>8. MatchTyped'
  BY <1>1, <1>2, <1>3, <1>6, WorldStands DEF MatchInv, MatchTyped
<1> QED
  BY <1>2, <1>6, <1>7, <1>8, NoneMoves DEF MatchInv

LEMMA PersonGoesOnKeeps == ASSUME MatchInv, PersonOpens \/ PersonLost PROVE MatchInv'
<1> DEFINE new == [by |-> "human", n |-> Len(log), entity |-> person.entity]
<1>1. /\ UNCHANGED <<world, store, match, log, jobs, saved, at>>
      /\ person.pc = "open" /\ person' = [pc |-> "done", entity |-> None]
      /\ enriches' = enriches \/ (person.entity # None /\ enriches' = enriches \cup {new})
  BY DEF PersonOpens, PersonLost, rows
<1>2. new.n = Len(log) /\ new.entity = person.entity
  OBVIOUS
<1> HIDE DEF new
<1>3. EnrichesHold'
  <2>1. \A e \in enriches : e.n \in 0..Len(log) /\ AcceptedBy(e.n, e.entity)
    BY DEF MatchInv, EnrichesHold
  <2>2. person.entity # None => new.n \in 0..Len(log) /\ AcceptedBy(new.n, new.entity)
    BY <1>1, <1>2 DEF MatchInv, MatchTyped, PersonHolds
  <2>3. \A e \in enriches' : e.n \in 0..Len(log) /\ AcceptedBy(e.n, e.entity)
    BY <1>1, <2>1, <2>2
  <2> QED
    BY <1>1, <2>3 DEF EnrichesHold, AcceptedBy
<1>4. PersonHolds'
  <2>1. person'.entity = None
    BY <1>1
  <2> QED
    BY <2>1 DEF PersonHolds
<1>5. MatchTyped'
  BY <1>1, WorldStands DEF MatchInv, MatchTyped
<1>6. LogGrows
  BY <1>1 DEF LogGrows
<1> QED
  BY <1>1, <1>3, <1>4, <1>5, <1>6, NoneMoves, RowsStand DEF MatchInv

-----------------------------------------------------------------------------
(* The invariant, and what it says.                                        *)

LEMMA MatchKeeps == MatchInv /\ [Next]_vars => MatchInv'
<1> SUFFICES ASSUME MatchInv, [Next]_vars PROVE MatchInv'
  OBVIOUS
<1>1. CASE UNCHANGED vars
  BY <1>1, JobsStep DEF vars, rows, MatchInv, MatchTyped
<1>2. ASSUME NEW a \in Attempts, Attempt(a) PROVE MatchInv'
  BY <1>2, ClaimKeeps, GatherKeeps, SomeRoundKeeps, EndingsKeep, SettleReadKeeps,
     SettleWriteKeeps, ChainKeeps, CrashKeeps DEF Attempt
<1> QED
  BY <1>1, <1>2, JobsKeep, PersonSettlesKeeps, PersonGoesOnKeeps DEF Next

LEMMA MatchHolds == Spec => []MatchInv
  BY MatchBegins, MatchKeeps, PTL DEF Spec

\* An attempt never plays a Round past the last, a Job is one of the Supplier's
\* and an accepted Match is of a company with a local row.
THEOREM MatchTypes == Spec => []TypeOK
<1>1. MatchInv => TypeOK
  <2> SUFFICES ASSUME MatchInv PROVE TypeOK
    OBVIOUS
  <2>1. MatchTyped /\ RowFollows
    BY DEF MatchInv
  <2>2. /\ world \in DOMAIN Worlds /\ store \subseteq Entities
        /\ person.pc \in {"page", "open", "done"}
        /\ \A j \in Jobs : jobs[j].state \in JobStates
    BY <2>1 DEF MatchTyped
  <2>3. /\ match.status = "accepted" => match.entity \in store
        /\ match = NoMatch \/ match.by \in {"rules", "agents", "human"}
    BY <2>1 DEF RowFollows, NoMatch
  <2>4. \A i \in DOMAIN log :
          /\ log[i].status \in {"accepted", "needs_review", "not_found"}
          /\ log[i].entity \in Entities \cup {None}
    BY <2>1, LogRowsAre DEF Statuses
  <2>5. ASSUME NEW j \in Jobs, NEW n \in 1..MaxRounds PROVE Ids(saved[j][n].found) \subseteq Entities
    <3>1. saved \in [Jobs -> [1..MaxRounds -> Ladders \cup {NoLadder}]]
      BY <2>1 DEF MatchTyped
    <3>2. saved[j] \in [1..MaxRounds -> Ladders \cup {NoLadder}]
      BY <2>5, <3>1
    <3>3. saved[j][n] \in Ladders \/ saved[j][n] = NoLadder
      BY <2>5, <3>2
    <3>4. saved[j][n].found \subseteq Cands
      <4>1. NoLadder.found = {}
        BY DEF NoLadder
      <4>2. \A ladder \in Ladders : ladder.found \subseteq Cands
        BY DEF Ladders
      <4> QED
        BY <3>3, <4>1, <4>2
    <3> QED
      BY <3>4, IdsAreCompanies
  <2>6. \A a \in Attempts : at[a].job \in Jobs \cup {None} /\ at[a].roundN \in 0..MaxRounds
    BY <2>1 DEF MatchTyped, AttemptRows
  <2> QED
    BY <2>2, <2>3, <2>4, <2>5, <2>6 DEF TypeOK
<1> QED
  BY <1>1, MatchHolds, PTL

\* The company that a settlement of rules or agents binds is a candidate of its
\* own attempt, under the rung that surfaced it, and scored in the country that
\* matched: over any number of Rounds, restarts, Jobs and lost fetches.
THEOREM MatchSettledAsExamined == Spec => []SettledAsExamined
<1>1. MatchInv => SettledAsExamined
  <2> SUFFICES ASSUME MatchInv PROVE SettledAsExamined
    OBVIOUS
  <2>1. MatchTyped /\ RowFollows /\ LogHolds
    BY DEF MatchInv
  <2>2. AcceptedWasExamined
    BY <2>1 DEF AcceptedWasExamined, LogHolds, SaysWhatItSaw, Ids
  <2>3. RungIsTheCandidates
    <3>1. \A i \in DOMAIN log : log[i].cands \subseteq Cands
      BY <2>1, LogRowsAre
    <3> QED
      BY <3>1 DEF RungIsTheCandidates, Cands
  <2>4. ScoredWhereItMatched
    <3> DEFINE c == Facts(match.entity)
               evidence == SettledEvidenceFor(match.entity)
    <3> SUFFICES ASSUME log # <<>>, match.entity # None, match.by # "human", match.source # "gleif",
                        RunDiscriminators(Roster, c)["country"] = "pass"
                 PROVE  match.country = Roster.country
      BY DEF ScoredWhereItMatched
    <3>1. /\ match.entity \in Entities
          /\ LET settled == SettledCountry(evidence, c.country)
             IN  match.country = settled.country /\ match.source = settled.source
      BY <2>1 DEF RowFollows
    <3>2. c.addresses \in Seq(ToSet(c.addresses))
      BY <2>1, <3>1, FactsAreOwn DEF MatchTyped
    <3>3. Anchored(Roster, c).country = "pass"
      BY DEF RunDiscriminators, DiscriminatorNames
    <3>4. SameCountry(Roster.country, Anchored(Roster, c).at.country) = "pass"
      BY <3>2, <3>3, AnchoredIsCompared
    <3>5. Anchored(Roster, c).at.country = Roster.country /\ Roster.country # None
      BY <3>4 DEF SameCountry
    <3>6. evidence.anchored = Roster.country
      BY <3>5 DEF SettledEvidenceFor
    <3> HIDE DEF evidence, c
    <3>7. evidence.lei = None \/ evidence.gleif = None
      BY <3>1 DEF SettledCountry
    <3> QED
      BY <3>1, <3>5, <3>6, <3>7 DEF SettledCountry
  <2> QED
    BY <2>2, <2>3, <2>4 DEF SettledAsExamined
<1> QED
  BY <1>1, MatchHolds, PTL

\* The objection of the Round before reaches every later one, through a
\* checkpoint and another worker too.
THEOREM MatchRoundsAreArgued == Spec => []EveryRoundIsArgued
<1>1. MatchInv => EveryRoundIsArgued
  BY DEF MatchInv, AttemptHolds, InRound, EveryRoundIsArgued
<1> QED
  BY <1>1, MatchHolds, PTL

\* No company is enriched that was not accepted when its enrich Job was
\* inserted, by a worker or for the person.
THEOREM MatchEnrichesTheAccepted == Spec => []EnrichFollowsAcceptance
<1>1. MatchInv => EnrichFollowsAcceptance
  BY DEF MatchInv, EnrichesHold, AcceptedBy, EnrichFollowsAcceptance
<1> QED
  BY <1>1, MatchHolds, PTL
=============================================================================
