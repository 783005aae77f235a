------------------------------- MODULE Checks -------------------------------
(* The code checks of a submitted document                                  *)
(* (src/domain/validation/submit-checks.ts, number-fidelity.ts), the        *)
(* evidence they read (buildEvidence, buildFrozenInputs of                  *)
(* src/jobs/assess.ts, resolveCitations of src/jobs/publish.ts, the         *)
(* concentrations of src/jobs/recommend.ts) and the page of a citation      *)
(* (src/db/queries/citations.ts).                                           *)
(*                                                                          *)
(* A text is the sequence of its words and a name a sequence of words, so   *)
(* that a name never matches a part of a word.  A sentence is [section,     *)
(* words, figures, cites, pick].                                            *)
EXTENDS Integers, FiniteSets, Sequences, SequencesExt

Score == INSTANCE Scoring

NoValue == "none"
OfSection(sentences, wanted) == SelectSeq(sentences, LAMBDA s : s.section \in wanted)
TextOf(sentences) == FoldLeft(LAMBDA text, s : text \o s.words, <<>>, sentences)

----------------------------------------------------------------------------
(* Names in a text.                                                         *)

(* Every place the name stands whole. *)
OccurrencesOf(text, name) ==
    {<<i, i + Len(name)>> : i \in {k \in 1..Len(text) : name # <<>> /\ k + Len(name) - 1 <= Len(text)
                                                        /\ SubSeq(text, k, k + Len(name) - 1) = name}}

(* ... and not inside a mention of a longer name that contains it.          *)
AnyMention(text, name, everyName) == OccurrencesOf(text, name) # {}                 \* fault
NamesSupplier(text, name, everyName) ==
    LET inside == UNION {OccurrencesOf(text, other) :
                            other \in {o \in everyName : o # name /\ OccurrencesOf(o, name) # {}}}
    IN \E mine \in OccurrencesOf(text, name) :
           ~\E span \in inside : span[1] <= mine[1] /\ mine[2] <= span[2]

(* A Criterion is named by all its words or by its key, which is one word.  *)
HeadWord(text, criterion) == Head(criterion.words) \in ToSet(text)                  \* fault
LimitsNames(text, criterion) ==
    criterion.key \in ToSet(text) \/ OccurrencesOf(text, criterion.words) # {}

----------------------------------------------------------------------------
(* Citations.  A citation is [kind, id], a Shortlist's id the pair of its   *)
(* Program and its Category; the store maps a live one to its cells.        *)

BareKey(c) == IF c.kind = "shortlist" THEN [kind |-> "shortlist"] ELSE c            \* fault
CitationKey(c) == c

(* The row of a family enrichment carries the figures of its family Paths:  *)
(* how many they are, and how far the read of one of them reached, the one  *)
(* that comes first of a query that asks for no order; "reachable" maps     *)
(* them to their reach.  No other enrichment carries any.                   *)
WithFamilyCoverage(row, source, reachable, first) ==
    IF source # "sayari_ownership_family" THEN row
    ELSE row \cup {[kind |-> "number", n |-> 1000 * Cardinality(DOMAIN reachable)]}
             \cup (IF DOMAIN reachable = {} THEN {} ELSE {[kind |-> "number", n |-> 1000 * reachable[first]]})

Lookup(store, c) == IF c \in DOMAIN store THEN <<store[c]>> ELSE <<>>

(* One look-up a key, whatever was found.                                   *)
ResolveCitations(store, cites) ==
    LET step(found, c) ==
            IF CitationKey(c) \in DOMAIN found THEN found
            ELSE [k \in DOMAIN found \cup {CitationKey(c)} |->
                     IF k \in DOMAIN found THEN found[k] ELSE Lookup(store, c)]
    IN FoldLeft(step, <<>>, cites)

RowsOf(sentence, found) ==
    UNION {found[CitationKey(c)][1] : c \in {x \in ToSet(sentence.cites) :
                                                CitationKey(x) \in DOMAIN found /\ found[CitationKey(x)] # <<>>}}

CheckCitationsResolve(sentences, found) ==
    \E i \in DOMAIN sentences :
        \/ sentences[i].cites = <<>>
        \/ \E c \in ToSet(sentences[i].cites) : CitationKey(c) \notin DOMAIN found \/ found[CitationKey(c)] = <<>>

(* Where the page of a sentence lands for a citation; the sentence of       *)
(* another Program is not shown at all.                                     *)
LoadSentenceEvidence(sentence, programOf, program, store) ==
    IF programOf # program THEN NoValue
    ELSE [i \in DOMAIN sentence.cites |-> [kind |-> sentence.cites[i].kind,
                                           dangling |-> Lookup(store, sentence.cites[i]) = <<>>]]

----------------------------------------------------------------------------
(* Number fidelity, in thousandths.  A figure is [kind, n, decimals,        *)
(* percent] or [kind, s]; a cell is a number, a string (an identifier or a  *)
(* numeral), prose with the numbers in it, or a date.                       *)

NumbersIn(cells) ==
    {c.n : c \in {x \in cells : x.kind \in {"number", "numeral"}}}
    \cup UNION {c.numbers : c \in {x \in cells : x.kind = "prose"}}
StringsIn(cells) == {c.s : c \in {x \in cells : x.kind \in {"string", "numeral"}}}
DaysIn(cells) == {c.s : c \in {x \in cells : x.kind = "date"}}

Distance(a, b) == IF a > b THEN a - b ELSE b - a
ToleranceFor(decimals) == <<500, 50, 5>>[decimals + 1]

MatchesFigure(n, f) ==
    \/ Distance(n, f.n) <= ToleranceFor(f.decimals)
    \/ f.percent /\ Distance(100 * n, f.n) <= ToleranceFor(f.decimals)

(* One to ten are words, not figures. *)
ProseNumber(f) == f.decimals = 0 /\ ~f.percent /\ f.n <= 10000

CheckNumberFidelity(figures, cells) ==
    {f \in figures :
        CASE f.kind = "date" -> f.s \notin DaysIn(cells)
          [] f.kind = "identifier" -> f.s \notin StringsIn(cells)
          [] OTHER -> ~ProseNumber(f) /\ ~\E n \in NumbersIn(cells) : MatchesFigure(n, f)}

(* The frozen inputs and the rows the sentence itself cites.                *)
CandidatesOfDocument(sentence, sentences, frozen, found) ==                         \* fault
    frozen \cup UNION {RowsOf(s, found) : s \in ToSet(sentences)}
CandidatesFrom(sentence, sentences, frozen, found) == frozen \cup RowsOf(sentence, found)

CheckNumbers(sentences, frozen, found) ==
    \E i \in DOMAIN sentences :
        CheckNumberFidelity(sentences[i].figures, CandidatesFrom(sentences[i], sentences, frozen, found)) # {}

----------------------------------------------------------------------------
(* What the checks know of a Supplier.  A snapshot is [name, accepted,      *)
(* entity, cats, rows, badge, outcome]: rows the stored Criterion rows of   *)
(* Scoring, outcome the last standard Assessment's.                         *)

ScoreIn(snapshot, cat, weights) ==
    Score!ScoreFromStoredValues(snapshot.accepted, cat \in snapshot.cats, snapshot.rows, cat, weights)

ScoredAnywhere(snapshot, weights) ==                                                \* fault
    IF \E i \in DOMAIN snapshot.rows : snapshot.rows[i].value # Score!Unknown THEN snapshot.cats ELSE {}
CategoriesWithScore(snapshot, weights) ==
    {cat \in snapshot.cats : ScoreIn(snapshot, cat, weights) # Score!NoScore}

BuildEvidence(snapshots, weights) ==
    [id \in DOMAIN snapshots |->
        LET s == snapshots[id] IN
        [name |-> s.name, accepted |-> s.accepted, entity |-> s.entity, cats |-> s.cats,
         scored |-> CategoriesWithScore(s, weights), disqualifying |-> s.badge,
         objected |-> s.outcome = "published_with_objections",
         onShortlist |-> s.accepted /\ s.cats # {}]]

UnknownCriteria(snapshots) ==
    UNION {{snapshots[id].rows[i].key : i \in {j \in DOMAIN snapshots[id].rows :
                                                snapshots[id].rows[j].value = Score!Unknown}} : id \in DOMAIN snapshots}

(* What is frozen beside a draft: the Scores, per Category, and the rank    *)
(* each Supplier holds in each of its Categories, none where it has none.   *)
Bidders(snapshots, cat, weights) ==
    {[name |-> id, score |-> ScoreIn(snapshots[id], cat, weights), compliance |-> 0, country |-> NoValue] :
        id \in {x \in DOMAIN snapshots : cat \in snapshots[x].cats}}

FreezeShortlist(snapshots, cat, weights) ==
    LET ranked == Score!BuildShortlist(Bidders(snapshots, cat, weights)) IN
    [id \in {x \in DOMAIN snapshots : cat \in snapshots[x].cats} |->
        IF \E i \in DOMAIN ranked : ranked[i].row.name = id
        THEN (CHOOSE r \in ToSet(ranked) : r.row.name = id).rank ELSE 0]

----------------------------------------------------------------------------
(* The checks of a Recommendation.  A pick is [supplier, role, rank].       *)

Awards(picks) == SelectSeq(picks, LAMBDA p : p.role = "award")
Eligible(p, cat, evidence) ==
    /\ p.supplier \in DOMAIN evidence
    /\ evidence[p.supplier].accepted
    /\ cat \in evidence[p.supplier].cats
    /\ cat \in evidence[p.supplier].scored
    /\ evidence[p.supplier].disqualifying => p.role \notin {"award", "second_source"}

CheckPickLegality(picks, sentences, cat, evidence) ==
    \/ Len(picks) > 3
    \/ Len(Awards(picks)) > 1
    \/ \E i \in DOMAIN picks : ~Eligible(picks[i], cat, evidence)
    \/ /\ \E i \in DOMAIN Awards(picks) : Awards(picks)[i].rank # 1
       /\ ~\E s \in ToSet(sentences) :
             s.section = "rationale" /\ \E c \in ToSet(s.cites) : c.kind \in {"criterion_value", "shortlist"}

EveryName(evidence) == {evidence[id].name : id \in DOMAIN evidence}

CheckUpstreamDisclosure(sentences, evidence) ==
    \E id \in DOMAIN evidence :
        /\ evidence[id].onShortlist /\ evidence[id].objected
        /\ ~NamesSupplier(TextOf(OfSection(sentences, {"open_questions"})), evidence[id].name, EveryName(evidence))

(* The award against each second source: joined by a Path, or not.          *)
SecondSources(picks) == {p \in ToSet(picks) : p.role = "second_source"}
JoinsOfTheFirst(picks, evidence, joined) ==                                         \* fault
    {p.supplier : p \in {x \in SecondSources(picks) :
                            {evidence[Head(picks).supplier].entity, evidence[x.supplier].entity} \in joined}}
FindConcentrations(picks, evidence, joined) ==
    IF Awards(picks) = <<>> THEN {}
    ELSE LET award == Head(Awards(picks)).supplier IN
         {p.supplier : p \in {x \in SecondSources(picks) :
                                /\ {award, x.supplier} \subseteq DOMAIN evidence
                                /\ NoValue \notin {evidence[award].entity, evidence[x.supplier].entity}
                                /\ {evidence[award].entity, evidence[x.supplier].entity} \in joined}}

CheckConcentration(picks, sentences, concentrations, evidence) ==
    \E id \in concentrations :
        /\ \E p \in SecondSources(picks) : p.supplier = id
        /\ ~NamesSupplier(TextOf(OfSection(sentences, {"conditions", "open_questions"})),
                          evidence[id].name, EveryName(evidence))

(* dissent is never written; a condition attaches to one of the picks.      *)
CheckSections(sentences, required) ==
    \/ \E section \in required : TextOf(OfSection(sentences, {section})) = <<>>
    \/ OfSection(sentences, {"dissent"}) # <<>>

CheckConditions(picks, sentences) ==
    \E i \in DOMAIN sentences :
        /\ sentences[i].pick # NoValue
        /\ sentences[i].section # "conditions" \/ ~\E p \in ToSet(picks) : p.supplier = sentences[i].pick

(* A tariff section must own to what the rate is not. *)
CheckCaveats(sentences, caveat) ==
    LET tariff == OfSection(sentences, {"tariff"}) IN
    tariff # <<>> /\ ToSet(TextOf(tariff)) \cap caveat = {}

CheckRecommendation(d, cat, evidence, joined, frozen, found, caveat) ==
    {kind \in {"citations", "number_fidelity", "caveats", "required_sections", "pick_legality",
               "upstream_disclosure", "concentration", "conditions"} :
        CASE kind = "citations" -> CheckCitationsResolve(d.sentences, found)
          [] kind = "number_fidelity" -> CheckNumbers(d.sentences, frozen, found)
          [] kind = "caveats" -> CheckCaveats(d.sentences, caveat)
          [] kind = "required_sections" ->
                CheckSections(d.sentences, {"headline"}) \/ Len(OfSection(d.sentences, {"headline"})) # 1
          [] kind = "pick_legality" -> CheckPickLegality(d.picks, d.sentences, cat, evidence)
          [] kind = "upstream_disclosure" -> CheckUpstreamDisclosure(d.sentences, evidence)
          [] kind = "concentration" ->
                CheckConcentration(d.picks, d.sentences, FindConcentrations(d.picks, evidence, joined), evidence)
          [] OTHER -> CheckConditions(d.picks, d.sentences)}

(* The checks of an Assessment: the badge forces one of two verdicts, and   *)
(* the limits own up to every Criterion that is unknown.                    *)
CheckLimitsNamesUnknowns(sentences, unknown) ==
    \E c \in unknown : ~LimitsNames(TextOf(OfSection(sentences, {"limits"})), c)

NotRecommended(verdict) == verdict # "recommend"                                    \* fault
ForcedVerdict(verdict) == verdict \in {"do_not_shortlist", "escalate"}

CheckAssessment(d, supplier, evidence, unknown, frozen, found, caveat) ==
    {kind \in {"citations", "number_fidelity", "caveats", "required_sections", "limits", "disqualifying_badge"} :
        CASE kind = "citations" -> CheckCitationsResolve(d.sentences, found)
          [] kind = "number_fidelity" -> CheckNumbers(d.sentences, frozen, found)
          [] kind = "caveats" -> CheckCaveats(d.sentences, caveat)
          [] kind = "required_sections" ->
                \/ CheckSections(d.sentences, {"identity", "limits"})
                \/ OfSection(d.sentences, {"tariff"}) # <<>> /\ evidence[supplier].cats = {}
          [] kind = "limits" -> CheckLimitsNamesUnknowns(d.sentences, unknown)
          [] OTHER -> evidence[supplier].disqualifying /\ ~ForcedVerdict(d.verdict)}
=============================================================================
