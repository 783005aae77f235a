------------------------------ MODULE Scoring ------------------------------
(* The six Criteria and the Score (src/domain/scoring/*.ts,                 *)
(* src/domain/score.ts), the Shortlist of one Category                      *)
(* (src/db/queries/shortlist.ts) and the weights a link carries             *)
(* (src/lib/view-state.ts, src/components/weight-rail.tsx).                 *)
(*                                                                          *)
(* Everything here is a pure function.  A Criterion's value is a number of  *)
(* eighths of a point, 0..800, so that the hop discounts are exact; a       *)
(* quotient of the code is rounded down.  A Score is kept as the fraction   *)
(* it is.                                                                   *)
EXTENDS Integers, FiniteSets, Sequences, SequencesExt

Unknown == -1
Point == 8
Full == 100 * Point

Least(a, b) == IF a < b THEN a ELSE b
Clamp100(v) == IF v < 0 THEN 0 ELSE Least(v, Full)
SumOver(S, val(_)) == FoldSet(LAMBDA x, y : val(x) + y, 0, S)

----------------------------------------------------------------------------
(* Risk factors.  A factor's name is the set of its words and whether it    *)
(* begins with psa_, which says that it was recorded on a Twin; its level   *)
(* is 1 (relevant) to 3 (high), or 0; "country" says it is the country's.   *)

PinningFamilies ==
    {{"sanctioned"}, {"sanctions"}, {"export", "controls"}, {"forced", "labor"},
     {"military", "end", "use"}, {"conflict", "minerals"}, {"percent", "rule"}}
    \cup {{w} : w \in {"bis", "meu", "ofac", "wro", "xinjiang", "sheffield", "aeca", "isn", "meti",
                       "mofa", "ndaa", "1260h", "cmic", "fsb", "ilab", "russian"}}

VariantOf(f) ==
    LET found == SelectSeq(<<"subtier", "indirect", "adjacent", "direct">>, LAMBDA v : v \in f.words)
    IN IF found = <<>> THEN "bare" ELSE Head(found)

EffectiveLevel(f) ==
    CASE VariantOf(f) = "subtier" -> 0
      [] VariantOf(f) \in {"indirect", "adjacent"} -> IF f.level = 0 THEN 0 ELSE f.level - 1
      [] OTHER -> f.level

WorstLevel(F) == FoldSet(LAMBDA f, m : IF EffectiveLevel(f) > m THEN EffectiveLevel(f) ELSE m, 0, F)

IsPinningFamily(f) == \E family \in PinningFamilies : family \subseteq f.words
IsDisqualifying(f) == ~f.psa /\ EffectiveLevel(f) = 3 /\ IsPinningFamily(f)

(* A Twin's factor that the company carries itself is one fact.             *)
KeepTheTwin(F) == {f \in F : f.psa \/ ~\E g \in F : g.psa /\ g.words = f.words}     \* fault
DedupePsaAgainstBase(F) == {f \in F : f.psa => ~\E g \in F : ~g.psa /\ g.words = f.words}

Deduction(level) == <<0, 8, 20, 40>>[level + 1] * Point
StateOwnershipDeduction == 25 * Point

----------------------------------------------------------------------------
(* The bands of data confidence.                                            *)

ExpectedEnrichments == 6

DataConfidence(sources, present) ==
    CASE sources >= 15 /\ present = ExpectedEnrichments -> "strong"
      [] ~(sources >= 15 /\ present = ExpectedEnrichments) /\ sources >= 5 /\ present >= 3 -> "adequate"
      [] OTHER -> "thin"

BandOf(p) == IF p.accepted THEN DataConfidence(p.sources, p.present) ELSE "thin"

(* Compliance risk. *)
ScoredFactors(p) == DedupePsaAgainstBase({f \in p.factors : ~f.country})

AveragePoints(F) ==                                             \* fault
    IF F = {} THEN 0 ELSE SumOver(F, LAMBDA f : Deduction(EffectiveLevel(f))) \div Cardinality(F)
FactorPoints(F) == SumOver(F, LAMBDA f : Deduction(EffectiveLevel(f)))

Pinned(p) == p.sanctioned \/ \E f \in ScoredFactors(p) : IsDisqualifying(f)

ComplianceRisk(p) ==
    IF BandOf(p) = "thin" THEN Unknown
    ELSE IF Pinned(p) THEN 0
    ELSE Clamp100(Full - FactorPoints(ScoredFactors(p))
                       - (IF p.pep THEN Deduction(2) ELSE 0)
                       - (IF p.closed THEN Deduction(1) ELSE 0))

(* The badge a Score carries. *)
Disqualifying(p) == p.sanctioned \/ \E f \in p.factors : IsDisqualifying(f)

(* Media signal: serious flags weigh 3 each, moderate 1, neither 0.5.       *)
Weight(article) ==          \* in halves
    CASE article.serious > 0 -> 6 * article.serious
      [] article.serious = 0 /\ article.moderate > 0 -> 2 * article.moderate
      [] OTHER -> 1

MediaScore(halves) == Full - 20 * Least(halves, 40)

PerArticle(articles) ==                                         \* fault
    IF articles = <<>> THEN 0 ELSE FoldSeq(LAMBDA a, n : Weight(a) + n, 0, articles) \div Len(articles)
WeightedCount(articles) == FoldSeq(LAMBDA a, n : Weight(a) + n, 0, articles)

MediaSignal(p) ==
    IF ~p.ran \/ BandOf(p) = "thin" THEN Unknown
    ELSE MediaScore(WeightedCount(p.articles))

----------------------------------------------------------------------------
(* Network exposure: one deduction per entity on a current ownership Path.  *)

HopDiscount(hop) == <<8, 4, 2, 1>>[IF hop < 1 THEN 1 ELSE Least(hop, 4)]    \* eighths

(* Every sighting of an entity: the one-hop owners first, then the Paths.   *)
(* An owner's level is that of all its factors, a Path's of the company's   *)
(* own.                                                                     *)
Sightings(n) ==
    LET level(p) == IF p.sanctioned THEN 3 ELSE WorstLevel(DedupePsaAgainstBase({f \in p.factors : ~f.country})) IN
    [i \in DOMAIN n.owners |-> [id |-> n.owners[i].id, level |-> WorstLevel(n.owners[i].factors), hop |-> 1, own |-> TRUE]]
        \o [i \in DOMAIN n.paths |-> [id |-> n.paths[i].id, level |-> level(n.paths[i]), hop |-> n.paths[i].hop,
                                      own |-> n.paths[i].own]]

(* The fold of the sightings of one entity, in the order they come.         *)
AnyShorterHop(agg, s) ==                                        \* fault
    [level |-> IF s.level > agg.level THEN s.level ELSE agg.level,
     deductible |-> agg.deductible \/ s.own, hop |-> Least(agg.hop, s.hop)]
FoldSighting(agg, s) ==
    [level |-> IF s.level > agg.level THEN s.level ELSE agg.level,
     deductible |-> agg.deductible \/ s.own,
     hop |-> CASE s.own -> IF ~agg.deductible \/ s.hop < agg.hop THEN s.hop ELSE agg.hop
               [] ~s.own /\ ~agg.deductible -> Least(agg.hop, s.hop)
               [] OTHER -> agg.hop]

DedupeNetworkCandidates(seen) ==
    LET start(s) == [level |-> s.level, deductible |-> s.own, hop |-> s.hop]
        of(id) == SelectSeq(seen, LAMBDA s : s.id = id)
    IN [id \in {seen[i].id : i \in DOMAIN seen} |->
           FoldLeft(FoldSighting, start(Head(of(id))), Tail(of(id)))]

NetworkPoints(entities) ==
    SumOver({id \in DOMAIN entities : entities[id].deductible /\ entities[id].level > 0},
            LAMBDA id : (Deduction(entities[id].level) * HopDiscount(entities[id].hop)) \div Point)

StateOwnership(owners) ==
    Cardinality({i \in DOMAIN owners : owners[i].state}) * StateOwnershipDeduction

(* Two empty reads answer "nothing here" unless something casts doubt.      *)
NetworkUnknown(n) == n.ownerEdges > 0 \/ n.psaCount > 0 \/ n.band = "thin"

NetworkExposure(n) ==
    IF \/ n.owners # <<>> /\ n.gap
       \/ n.owners = <<>> /\ n.paths = <<>> /\ NetworkUnknown(n)
    THEN Unknown
    ELSE Clamp100(Full - NetworkPoints(DedupeNetworkCandidates(Sightings(n))) - StateOwnership(n.owners))

----------------------------------------------------------------------------
(* Country, tariff and distance.                                            *)

(* Six indicators at fixed sub-weights, the first on a scale of 1 to 5 (in  *)
(* hundredths here), the others 0 to 100.                                   *)
SubWeight == <<35, 20, 15, 10, 10, 10>>
NormaliseIndicator(i, raw) == Clamp100(IF i = 1 THEN 2 * (raw - 100) ELSE Point * raw)

DivideByAll(present) == 100                                     \* fault
TotalSubWeight(present) == SumOver(present, LAMBDA i : SubWeight[i])

CountryResilience(indicators) ==
    LET present == DOMAIN indicators IN
    IF present = {} THEN Unknown
    ELSE Clamp100(SumOver(present, LAMBDA i : NormaliseIndicator(i, indicators[i]) * SubWeight[i])
                  \div TotalSubWeight(present))

(* The MFN rate in tenths of a percent, anchored at 10 %; the distance in   *)
(* kilometres, anchored at 8 000.                                           *)
TariffExposure(rate) == IF rate = Unknown THEN Unknown ELSE Full - Point * Least(rate, 100)
Proximity(km) == IF km = Unknown THEN Unknown ELSE Full - Least(km, 8000) \div 10

----------------------------------------------------------------------------
(* The Score.                                                               *)

WeightedCriteria ==
    {"compliance_risk", "network_exposure", "country_resilience", "tariff_exposure", "proximity", "media_signal"}

DefaultWeights ==
    [k \in WeightedCriteria |->
        CASE k = "compliance_risk" -> 28 [] k = "proximity" -> 11 [] k = "media_signal" -> 10 [] OTHER -> 17]

(* Missing keys are filled from the Program's default and then from the     *)
(* code's; a negative one is replaced by the code's.                        *)
NormaliseWeights(supplied, programDefault) ==
    LET value(k) == IF k \in DOMAIN supplied THEN supplied[k]
                    ELSE IF k \in DOMAIN programDefault THEN programDefault[k] ELSE DefaultWeights[k]
    IN [k \in WeightedCriteria |-> IF value(k) >= 0 THEN value(k) ELSE DefaultWeights[k]]

NoScore == [num |-> 0, den |-> 0]

(* Only the Criteria with a value carry weight.                             *)
NeutralFifty(outcomes, w) ==                                    \* fault
    [num |-> SumOver(WeightedCriteria, LAMBDA k : w[k] * (IF outcomes[k] = Unknown THEN Full \div 2 ELSE outcomes[k])),
     den |-> SumOver(WeightedCriteria, LAMBDA k : w[k])]
Assemble(outcomes, w) ==
    LET computed == {k \in WeightedCriteria : outcomes[k] # Unknown}
        total == SumOver(computed, LAMBDA k : w[k])
    IN IF total = 0 THEN NoScore
       ELSE [num |-> SumOver(computed, LAMBDA k : outcomes[k] * w[k]), den |-> total]

(* scoreSupplier: no settled Match, no Criterion; no Category, no Score.    *)
ScoreSupplier(accepted, hasCategory, outcomes, w) ==
    IF accepted /\ hasCategory THEN Assemble(outcomes, w) ELSE NoScore

(* The stored row a page of one Category reads for a Criterion: its own row *)
(* before the one at no Category, the first of several.                     *)
AnyCategory == "any"

FirstRow(best, row, cat) == IF best = <<>> THEN <<row>> ELSE best           \* fault
TakeRow(best, row, cat) ==
    IF row.cat # AnyCategory /\ cat # AnyCategory /\ row.cat # cat THEN best
    ELSE IF best = <<>> \/ (row.cat # AnyCategory /\ best[1].cat = AnyCategory) THEN <<row>>
    ELSE best

StoredRow(rows, key, cat) ==
    FoldLeft(LAMBDA best, row : IF row.key = key THEN TakeRow(best, row, cat) ELSE best, <<>>, rows)

ScoreFromStoredValues(accepted, hasCategory, rows, cat, w) ==
    LET of(k) == StoredRow(rows, k, cat)
    IN ScoreSupplier(accepted, hasCategory,
                     [k \in WeightedCriteria |-> IF of(k) = <<>> THEN Unknown ELSE of(k)[1].value], w)

(* The rows an enrich Job leaves current: tariff at each Category, the rest *)
(* at none.                                                                 *)
StoredValues(outcomes, tariffs) ==
    {[key |-> k, cat |-> AnyCategory, value |-> outcomes[k]] : k \in WeightedCriteria \ {"tariff_exposure"}}
    \cup {[key |-> "tariff_exposure", cat |-> c, value |-> tariffs[c]] : c \in DOMAIN tariffs}

----------------------------------------------------------------------------
(* The Shortlist: bidders are [name, score, compliance, country]; a name is *)
(* a Supplier's, and names are numbered alphabetically.                     *)

HigherScore(a, b) == a.score.num * b.score.den > b.score.num * a.score.den
SameScore(a, b) == a.score.num * b.score.den = b.score.num * a.score.den

(* Score, then compliance, then name. *)
Precedes(a, b) ==
    \/ HigherScore(a, b)
    \/ SameScore(a, b) /\ a.compliance > b.compliance
    \/ SameScore(a, b) /\ a.compliance = b.compliance /\ a.name < b.name

(* One decimal is displayed. *)
Displayed(a) == (20 * a.score.num + Point * a.score.den) \div (2 * Point * a.score.den)

(* The bidders that have a Score, in that order, each after those that      *)
(* precede it.                                                              *)
Scored(B) == {b \in B : b.score # NoScore}
Place(b, B) == 1 + Cardinality({c \in Scored(B) \ {b} : Precedes(c, b)})
Sorted(B) == [i \in 1..Cardinality(Scored(B)) |-> CHOOSE b \in Scored(B) : Place(b, B) = i]

(* Equal displayed Scores share a rank, and the next one skips what they    *)
(* took.                                                                    *)
RankNext(acc, b) ==
    LET tied == acc # <<>> /\ Displayed(b) = Displayed(Last(acc).row) IN
    Append(acc, [row |-> b, rank |-> IF tied THEN Last(acc).rank ELSE Len(acc) + 1])
BuildShortlist(B) == FoldLeft(RankNext, <<>>, Sorted(B))

(* A facet that is empty asks nothing. *)
MatchesFacets(b, facets) ==
    /\ facets.country # {} => b.country \in facets.country
    /\ facets.band # {} =>
         (IF b.score = NoScore THEN "none"
          ELSE IF b.score.num >= 80 * Point * b.score.den THEN "high"
          ELSE IF b.score.num >= 60 * Point * b.score.den THEN "mid" ELSE "low") \in facets.band

FilterFirst(B, facets) ==                                       \* fault
    LET rows == BuildShortlist({b \in B : MatchesFacets(b, facets)}) IN
    {[name |-> rows[i].row.name, rank |-> rows[i].rank, visible |-> TRUE] : i \in DOMAIN rows}
LoadShortlist(B, facets) ==
    LET rows == BuildShortlist(B) IN
    {[name |-> rows[i].row.name, rank |-> rows[i].rank, visible |-> MatchesFacets(rows[i].row, facets)]
        : i \in DOMAIN rows}

(* "n of m": the rank a Supplier's page states. *)
RankSentence(B, name) ==
    LET mine == {r \in LoadShortlist(B, [country |-> {}, band |-> {}]) : r.name = name} IN
    IF mine = {} THEN 0 ELSE (CHOOSE r \in mine : TRUE).rank

----------------------------------------------------------------------------
(* The link: only the weights that differ from the Program's default are    *)
(* written, each under its own key; an illegal one is dropped when read.    *)
IsWhatIf(weights, programDefault) ==
    \E k \in WeightedCriteria : weights[k] # NormaliseWeights(<<>>, programDefault)[k]

WriteMissingOnly(weights, programDefault) ==                    \* fault
    LET kept == WeightedCriteria \ DOMAIN programDefault IN [k \in kept |-> weights[k]]
ToSearchParams(weights, programDefault) ==
    LET base == NormaliseWeights(<<>>, programDefault)
        changed == {k \in WeightedCriteria : weights[k] # base[k]}
    IN [k \in changed |-> weights[k]]

ParseViewState(params, programDefault) ==
    LET legal == {k \in DOMAIN params : k \in WeightedCriteria /\ params[k] >= 0}
    IN NormaliseWeights([k \in legal |-> params[k]], programDefault)
=============================================================================
