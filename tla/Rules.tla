-------------------------------- MODULE Rules --------------------------------
(* The pure rules of the program, asked one question at a time: a step asks *)
(* one area about one of its Inputs, and the invariants say of the answer   *)
(* what the area promises, most of them against a second definition that    *)
(* does not go the way of the code.                                         *)
EXTENDS Integers, FiniteSets, Sequences, SequencesExt

CONSTANTS
    Inputs,                 \* from each area to the set of its inputs
    None, Numbers, Generic  \* those of Discriminators, Graph and Networks

S == INSTANCE Scoring
G == INSTANCE Graph
Pick == INSTANCE Settle
Old == INSTANCE Staleness
Doc == INSTANCE Checks
Disc == INSTANCE Discriminators
Net == INSTANCE Networks
Page == INSTANCE Answers
Cat == INSTANCE Catalog

VARIABLE case               \* [area, in]: what was asked last

Start == [area |-> "none", in |-> <<>>]
Init == case = Start
Ask(area) == \E input \in Inputs[area] : case' = [area |-> area, in |-> input]
Next == case = Start /\ \E area \in DOMAIN Inputs : Ask(area)
Spec == Init /\ [][Next]_case

Asked(area) == case.area = area
x == case.in

(* What may be asked of some areas: what the program can come to ask them.  *)
Only(area, Legal(_)) == area \in DOMAIN Inputs => \A input \in Inputs[area] : Legal(input)

(* A tool of the registry; a list that some Job takes from it.              *)
ASSUME ToolInputs == Only("tool", LAMBDA t : t \in Cat!AllTools)
ASSUME LoopInputs ==
    Only("loop", LAMBDA l : /\ l.round = 0 => l.loop \in Cat!Loops /\ l.role \in Cat!Roles
                            /\ l.round # 0 => l.round \in 1..3)
(* The groups of a citation are keys of its schema.                         *)
ASSUME CiteInputs == Only("cite", LAMBDA groups : groups \subseteq Cat!CitationGroups)
(* The rows of graph_path, each with the count its last read gave.          *)
ASSUME EnvelopeInputs ==
    Only("envelope", LAMBDA rows : /\ DOMAIN rows = 1..Len(rows) /\ Len(rows) \in Nat
                                   /\ \A i \in DOMAIN rows : rows[i].reachable \in Nat)
(* The rows an enrich Job left current, in any order.                       *)
ASSUME StoredInputs ==
    Only("stored", LAMBDA s : /\ s.outcomes = [k \in S!WeightedCriteria |-> s.outcomes[k]]
                              /\ S!AnyCategory \notin DOMAIN s.tariffs
                              /\ s.rows \in Seq(S!StoredValues(s.outcomes, s.tariffs))
                              /\ \A r \in S!StoredValues(s.outcomes, s.tariffs) : \E i \in DOMAIN s.rows : s.rows[i] = r)
(* Each Supplier bids once; a Score there is has some weight under it.      *)
ASSUME ShortlistInputs ==
    Only("shortlist", LAMBDA s :
        /\ IsFiniteSet(s.bidders)
        /\ \A b \in s.bidders : /\ b.score \in {S!NoScore} \cup [num : Nat, den : Nat \ {0}]
                                 /\ b.compliance \in Int /\ b.name \in Nat
        /\ \A b, c \in s.bidders : b.name = c.name => b = c)
(* The rail's weights; the Program's default may leave some out.            *)
ASSUME LinkInputs ==
    Only("link", LAMBDA l : /\ l.weights \in [S!WeightedCriteria -> Nat]
                            /\ \A k \in DOMAIN l.default : l.default[k] \in Int)
(* Moments are counted from one.                                            *)
ASSUME StaleInputs == Only("stale", LAMBDA s : s.at \in Nat /\ \A r \in s.rows : r.seen \in Nat)
(* A version freezes no value that reads as none, and no sentence is empty. *)
IsFunction(f) == f = [k \in DOMAIN f |-> f[k]]
IsVersion(v) ==
    /\ IsFunction(v.frozen) /\ \A path \in DOMAIN v.frozen : v.frozen[path] # Old!Absent
    /\ IsFunction(v.picks)
    /\ v.sentences \in Seq(ToSet(v.sentences)) /\ \A s \in ToSet(v.sentences) : s.words # <<>>
ASSUME DiffInputs == Only("diff", LAMBDA d : IsVersion(d.before) /\ IsVersion(d.after))
(* What the attempts at one Match recorded of each company they saw. *)
IsCandidate(c) ==
    /\ c = [id |-> c.id, label |-> c.label, address |-> c.address, sources |-> c.sources, verdicts |-> c.verdicts]
    /\ c.sources \in Nat /\ c.verdicts \in Seq(ToSet(c.verdicts))
ASSUME ChoiceInputs ==
    Only("choices", LAMBDA m : m.rows \in Seq(ToSet(m.rows)) /\ \A c \in ToSet(m.rows) : IsCandidate(c))
(* The addresses of a record, in the order it lists them. *)
ASSUME AddressInputs == Only("address", LAMBDA r : r.addresses \in Seq(ToSet(r.addresses)))
(* A newcomer without an LEI: its addresses name no place, or the one there *)
(* is names the town of the row and nothing rules the record out.          *)
ASSUME GateInputs ==
    Only("gate", LAMBDA g :
        /\ g.newcomer.lei = None /\ g.newcomer.addresses \in Seq(ToSet(g.newcomer.addresses))
        /\ IF g.silent
           THEN \A a \in ToSet(g.newcomer.addresses) :
                   a.country = None /\ Disc!Words(a.city) = {} /\ Disc!Words(a.postcode) = {}
           ELSE /\ Len(g.newcomer.addresses) = 1 /\ g.roster.address # None
                /\ Disc!ContainsWords(g.roster.address, g.newcomer.addresses[1].city)
                /\ \A d \in Disc!DiscriminatorNames : Disc!RunDiscriminators(g.roster, g.newcomer)[d] # "fail")

LeastOf(T) == CHOOSE n \in T : \A m \in T : n <= m
MostOf(T) == CHOOSE n \in T : \A m \in T : m <= n
Occurs(seq, Test(_)) == Cardinality({i \in DOMAIN seq : Test(seq[i])})

-----------------------------------------------------------------------------
(* Scoring.                                                                *)

(* A Supplier carries the disqualifying badge exactly when Compliance risk *)
(* is pinned to 0 by what is its own (risk-factors.ts, criteria.ts), the   *)
(* country's factors aside: a Twin's fact neither pins nor hides one.      *)
BadgeIsThePin ==
    Asked("profile") =>
        LET own == [x EXCEPT !.factors = {f \in @ : ~f.country}] IN S!Disqualifying(own) <=> S!Pinned(own)

(* However many Paths lead to an entity and in whatever order they were    *)
(* read, Network exposure deducts for it once: its worst level, discounted *)
(* for the shortest of the current ownership Paths (criteria.ts).          *)
OneDeductionPerEntity ==
    Asked("network") =>
        LET seen == S!Sightings(x)
            of(id) == {i \in DOMAIN seen : seen[i].id = id}
            owned == {id \in {seen[i].id : i \in DOMAIN seen} : \E i \in of(id) : seen[i].own}
            points(id) == S!Deduction(MostOf({seen[i].level : i \in of(id)}))
                            * S!HopDiscount(LeastOf({seen[i].hop : i \in {j \in of(id) : seen[j].own}}))
            deducted == {id \in owned : \E i \in of(id) : seen[i].level > 0}
        IN S!NetworkExposure(x) # S!Unknown =>
               S!NetworkExposure(x) = S!Clamp100(S!Full - S!StateOwnership(x.owners)
                                                 - S!SumOver(deducted, LAMBDA id : points(id) \div S!Point))

(* One more finding never makes a Supplier look better: not a risk factor, *)
(* a mark of its Profile nor an article; but for a factor of its own that  *)
(* takes the place of its Twin's worse one (criteria.ts, anchors.ts).      *)
MoreRiskNeverScoresHigher ==
    LET never(less, more) == S!Unknown \notin {less, more} => more <= less
        displaces(f) == \E g \in x.factors : g.psa /\ ~f.psa /\ g.words = f.words /\ g.level > f.level
    IN /\ Asked("profile") =>
              /\ \A f \in {g \in x.factors : ~displaces(g)} :
                     never(S!ComplianceRisk([x EXCEPT !.factors = @ \ {f}]), S!ComplianceRisk(x))
              /\ never(S!ComplianceRisk([x EXCEPT !.sanctioned = FALSE, !.pep = FALSE, !.closed = FALSE]), S!ComplianceRisk(x))
       /\ Asked("media") =>
              \A i \in DOMAIN x.articles : never(S!MediaSignal([x EXCEPT !.articles = RemoveAt(@, i)]), S!MediaSignal(x))

(* Who is scored as an owner owns now: the window of the company's own     *)
(* payload says so, or, of somebody it does not name under that type, the  *)
(* second read.  What the window says is never replaced, and the set is    *)
(* called complete only if that read answered or nothing was missing       *)
(* (enrich.ts, parse-relationships.ts).                                    *)
OwnersAreCurrent ==
    Asked("owners") =>
        LET upward == {"has_shareholder", "has_beneficial_owner", "subsidiary_of"}
            read == G!OwnersRead(x.body, x.typed, 1)
            scored == {<<o.type, o.id>> : o \in read.owners}
            window == UNION {{<<o.type, item.to, ~item.former /\ ~o.former, o.record>> :
                                 o \in item.occurrences} : item \in x.body.items}
            holdings == {w \in window : w[1] \in upward /\ w[3]}
            current == {<<w[1], w[2]>> : w \in holdings}
            named == {<<w[1], w[2]>> : w \in window}
            second == IF x.typed = None THEN {}
                      ELSE UNION {{<<p.steps[1].field, p.steps[1].to>> :
                               o \in {v \in p.occurrences : ~v.former}} : p \in ToSet(x.typed)}
            claimed(t) == IF t \in DOMAIN x.body.counts THEN x.body.counts[t] ELSE 0
            short(t) == t \in upward /\ claimed(t) > Cardinality({h \in holdings : h[1] = t})
            exposure == S!NetworkExposure(
                [owners |-> SetToSeq({[id |-> o.id, factors |-> {}, state |-> FALSE] : o \in read.owners}),
                 gap |-> read.gapCoverage = "unknown", paths |-> <<>>, ownerEdges |-> 0, psaCount |-> 0, band |-> "strong"])
        IN /\ current \subseteq scored
           /\ scored \ current \subseteq second \ named
           /\ \A s \in second \ named : short(s[1]) => s \in scored
           /\ \A s \in scored \ current : Cardinality({o \in read.owners : <<o.type, o.id>> = s}) = 1
           /\ read.gapCoverage = "complete" => x.typed # None \/ \A t \in upward : ~short(t)
           /\ read.gapCoverage = "unknown" /\ scored # {} => exposure = S!Unknown

(* A Score lies between the worst and the best Criterion that is known: a  *)
(* Criterion nobody could compute pulls it nowhere (score.ts).             *)
MeanOfWhatIsKnown ==
    Asked("outcomes") =>
        LET w == x.weights
            known == {k \in S!WeightedCriteria : x.values[k] # S!Unknown /\ w[k] > 0}
            score == S!ScoreSupplier(TRUE, TRUE, x.values, w)
        IN IF known = {} THEN score = S!NoScore
           ELSE /\ LeastOf({x.values[k] : k \in known}) * score.den <= score.num
                /\ score.num <= MostOf({x.values[k] : k \in known}) * score.den

(* The same indicators give the same resilience whichever are missing: it  *)
(* never leaves the range of those that are there (criteria.ts).           *)
ResilienceOfWhatIsKnown ==
    Asked("indicators") =>
        LET values == {S!NormaliseIndicator(i, x[i]) : i \in DOMAIN x} IN
        IF values = {} THEN S!CountryResilience(x) = S!Unknown
        ELSE S!CountryResilience(x) \in LeastOf(values)..MostOf(values)

(* The page of a Category scores a Supplier from stored rows as the Job    *)
(* that stored them scored it for that Category, in whatever order the     *)
(* rows come back (score.ts, enrich-supplier.ts).                          *)
PageAgreesWithJob ==
    Asked("stored") =>
        \A cat \in DOMAIN x.tariffs :
            S!ScoreFromStoredValues(TRUE, TRUE, x.rows, cat, S!DefaultWeights)
              = S!Assemble([x.outcomes EXCEPT !["tariff_exposure"] = x.tariffs[cat]], S!DefaultWeights)

(* A rank is the Supplier's place among every bidder of the Category: one  *)
(* more than those that display a better Score, whatever the facets hide,  *)
(* and its own page states the same one (shortlist.ts).                    *)
RanksAreOfTheWholeCategory ==
    Asked("shortlist") =>
        LET scored == {b \in x.bidders : b.score # S!NoScore}
            rank(b) == 1 + Cardinality({c \in scored : S!Displayed(c) > S!Displayed(b)})
        IN /\ S!LoadShortlist(x.bidders, x.facets)
                = {[name |-> b.name, rank |-> rank(b), visible |-> S!MatchesFacets(b, x.facets)] : b \in scored}
           /\ \A b \in scored : S!RankSentence(x.bidders, b.name) = rank(b)

(* A link reproduces the ranking it was copied from: read back, it gives   *)
(* the weights of the rail, and says it is a what-if exactly when it is,   *)
(* as the chip over a version does (view-state.ts, staleness.ts).          *)
LinkReproducesTheRanking ==
    Asked("link") =>
        LET params == S!ToSearchParams(x.weights, x.default) IN
        /\ S!ParseViewState(params, x.default) = x.weights
        /\ S!IsWhatIf(x.weights, x.default) <=> DOMAIN params # {}
        /\ S!IsWhatIf(x.weights, x.default) <=> Old!IsViewingWhatIf(x.weights, S!NormaliseWeights(<<>>, x.default))

(* Chat ranks by the rail the person is looking at unless it was asked for *)
(* other weights, and says so (reads.ts).                                  *)
RailIsAnswered ==
    Asked("link") =>
        LET params == S!ToSearchParams(x.weights, x.default) IN
        /\ Cat!ShortlistWeights(<<>>, params, x.default) = x.weights
        /\ Cat!ShortlistIsWhatIf(<<>>, params, x.default) <=> S!IsWhatIf(x.weights, x.default)

(* A Score is of what is known about the Supplier and counts a fact once:   *)
(* nothing missing, foreign or seen again moves it (criteria.ts, score.ts). *)
ScoreCountsFactsOnce ==
    /\ BadgeIsThePin /\ OneDeductionPerEntity /\ MoreRiskNeverScoresHigher /\ OwnersAreCurrent
    /\ MeanOfWhatIsKnown /\ ResilienceOfWhatIsKnown

(* There is one ranking: the Job, the page under any facets, a copied link  *)
(* and the chat beside it all give it (score.ts, shortlist.ts,              *)
(* view-state.ts, reads.ts).                                                *)
OneRanking ==
    PageAgreesWithJob /\ RanksAreOfTheWholeCategory /\ LinkReproducesTheRanking /\ RailIsAnswered

-----------------------------------------------------------------------------
(* Settling a parked row.                                                  *)

Shown(c) == ToSet(c.listed) \cup UNION {ToSet(g) : g \in c.groups}

(* Every verdict any attempt recorded, of whichever reader, reaches the    *)
(* person: beside its candidate, or once above the list and then true of   *)
(* every candidate (needs-review.ts, settle-choices.ts).                   *)
NothingHidden ==
    Asked("choices") =>
        LET c == Pick!SettleChoices(x.name, Pick!LoadParkedRow(x.rows)) IN
        \A row \in ToSet(x.rows) : \A r \in ToSet(row.verdicts) :
            IF r.of \in DOMAIN c.shared THEN c.shared[r.of] = r.verdict
            ELSE \E shown \in Shown(c) :
                    /\ shown.id = row.id /\ r.of \in DOMAIN shown.verdicts
                    /\ LET told == shown.verdicts[r.of] IN
                       IF told.disputed THEN r \in told.reports ELSE told.verdict = r.verdict /\ r.by \in told.by

(* Every company any attempt saw is offered exactly once, a record of a    *)
(* security never folded into another nor listed before a company          *)
(* (settle-match.ts, settle-choices.ts).                                   *)
OfferedOnce ==
    Asked("choices") =>
        LET c == Pick!SettleChoices(x.name, Pick!LoadParkedRow(x.rows))
            lists == {c.listed} \cup c.groups
        IN /\ \A id \in Pick!CandidatesSeen(x.rows) :
                  Cardinality({p \in lists \X DOMAIN x.rows : p[2] \in DOMAIN p[1] /\ p[1][p[2]].id = id}) = 1
           /\ \A g \in c.groups : \A k \in DOMAIN g : ~g[k].caution
           /\ \A k \in DOMAIN c.listed, l \in DOMAIN c.listed :
                  k < l /\ c.listed[k].caution => c.listed[l].caution

(* The page says that the checks tell all the companies apart, or none,    *)
(* when that is so of what was recorded of them, whatever is stated once   *)
(* above the list (settle-choices.ts).                                     *)
TieIsTold ==
    Asked("choices") =>
        LET seen == Pick!CandidatesSeen(x.rows)
            reports(id) == FoldLeft(LAMBDA all, r : IF r.id = id THEN all \o r.verdicts ELSE all, <<>>, x.rows)
            reads(id) == LET all == reports(id) IN
                {<<all[i].of, all[i].verdict>> : i \in {k \in DOMAIN all : \A j \in 1..(k - 1) : all[j].of # all[k].of}}
            said == Pick!SettleAnswer(x.name, Pick!LoadParkedRow(x.rows))
        IN Cardinality(seen) > 1 =>
              /\ said = "tells all apart" <=> \A a, b \in seen : a # b => reads(a) # reads(b)
              /\ said = "separates none" <=> \A a, b \in seen : reads(a) = reads(b)

(* Whatever is offered settles, and nothing settles on a record nobody     *)
(* offered and nobody read (settle-request.ts, settle-by-hand.ts).         *)
EveryChoiceSettles ==
    Asked("form") =>
        LET answer == Pick!SettleRowByHand(x.form, x.offered, x.store) IN
        /\ x.form.choice = "entity" /\ x.form.entity \in x.offered => answer.ok /\ answer.entity = x.form.entity
        /\ x.form.choice = "not_found" => answer.ok
        /\ answer.ok /\ answer.kind # "not_found" => answer.entity \in x.offered \cup x.store

-----------------------------------------------------------------------------
(* Staleness and the difference of two versions.                           *)

(* A dismissal silences both indicators at the moment it is taken and      *)
(* nothing later: inputs that move again light the one, evidence that      *)
(* comes later, about something cited and not explained by a number that   *)
(* moved, the other (staleness.ts).                                        *)
DismissalIsAWatermark ==
    Asked("stale") =>
        LET taken == [to |-> x.at, inputs |-> x.then]
            seen == {r \in x.rows : r.seen <= x.at}
            before == Old!ComputeStaleness(x.version, x.then, seen, taken)
            after == Old!ComputeStaleness(x.version, x.now, x.rows, taken)
            told == Old!ComputeStaleness(x.version, x.now, x.rows, Old!NoDismissal)
        IN /\ ~before.moved /\ ~before.arrived
           /\ x.now # x.then => after.moved = told.moved
           /\ after.rows = {r \in told.rows : r.seen > x.at}

(* A difference accounts for every sentence of both versions exactly once  *)
(* (version-diff.ts).                                                      *)
DiffAccountsForEverySentence ==
    Asked("diff") =>
        LET diff == Old!DiffVersions(x.before, x.after)
            words == {s.words : s \in ToSet(x.before.sentences) \cup ToSet(x.after.sentences)}
        IN \A w \in words :
              /\ Occurs(diff.sentences, LAMBDA c : c.from = w) = Occurs(x.before.sentences, LAMBDA s : s.words = w)
              /\ Occurs(diff.sentences, LAMBDA c : c.to = w) = Occurs(x.after.sentences, LAMBDA s : s.words = w)

(* A difference is called empty only when the two versions froze the same  *)
(* inputs, made the same picks and say the same (version-diff.ts).         *)
EmptyIsNoDifference ==
    Asked("diff") =>
        (Old!DiffVersions(x.before, x.after).empty =>
            /\ x.before.frozen = x.after.frozen /\ x.before.picks = x.after.picks
            /\ {<<s.section, s.words>> : s \in ToSet(x.before.sentences)}
                 = {<<s.section, s.words>> : s \in ToSet(x.after.sentences)}
            /\ Len(x.before.sentences) = Len(x.after.sentences))

(* What changed since a version is told, once, until a person dismisses it  *)
(* (staleness.ts, version-diff.ts).                                         *)
ChangesAreTold == DismissalIsAWatermark /\ DiffAccountsForEverySentence /\ EmptyIsNoDifference

-----------------------------------------------------------------------------
(* The checks of a submission.                                             *)

(* Each of some names has a place of its own in a text.                    *)
OwnPlaces(text, places) ==
    LET spans == UNION {places[n] : n \in DOMAIN places} IN
    \E at \in [DOMAIN places -> spans] :
        /\ \A n \in DOMAIN places : at[n] \in places[n]
        /\ \A m, n \in DOMAIN places : m # n => ~(at[m][1] <= at[n][1] /\ at[n][2] <= at[m][2])

(* A Recommendation that passes speaks of every bidder whose Assessment    *)
(* was published over an objection, each in a place of its own: a name     *)
(* that is part of another's does not count (submit-checks.ts).            *)
NothingVanishes ==
    Asked("names") =>
        (~Doc!CheckUpstreamDisclosure(x.sentences, x.evidence) =>
            LET text == Doc!TextOf(Doc!OfSection(x.sentences, {"open_questions"}))
                owed == {id \in DOMAIN x.evidence : x.evidence[id].onShortlist /\ x.evidence[id].objected}
            IN OwnPlaces(text, [id \in owed |-> Doc!OccurrencesOf(text, x.evidence[id].name)]))

(* An Assessment that passes owns up, in its limits, to every Criterion    *)
(* that is unknown, each by its own words (submit-checks.ts).              *)
LimitsAdmitUnknowns ==
    Asked("limits") =>
        (~Doc!CheckLimitsNamesUnknowns(x.sentences, x.unknown) =>
            LET text == Doc!TextOf(Doc!OfSection(x.sentences, {"limits"})) IN
            OwnPlaces(text, [c \in x.unknown |->
                        Doc!OccurrencesOf(text, c.words) \cup Doc!OccurrencesOf(text, <<c.key>>)]))

(* Number fidelity passes a document exactly when every figure in it is    *)
(* one that a frozen input, or a row its own sentence cites, rounds to at  *)
(* the decimals it is printed with (number-fidelity.ts, submit-checks.ts). *)
FiguresAreBacked ==
    Asked("figures") =>
        LET found == Doc!ResolveCitations(x.store, FoldLeft(LAMBDA all, s : all \o s.cites, <<>>, x.sentences))
            cells(s) == x.frozen \cup UNION {x.store[c] : c \in ToSet(s.cites) \cap DOMAIN x.store}
            unit(f) == <<1000, 100, 10>>[f.decimals + 1]
            nearest(n, f) == \A k \in {f.n - unit(f), f.n + unit(f)} : Doc!Distance(n, f.n) <= Doc!Distance(n, k)
            backed(f, s) == \E c \in cells(s) : nearest(c.n, f) \/ (f.percent /\ nearest(100 * c.n, f))
        IN Doc!CheckNumbers(x.sentences, x.frozen, found)
             <=> \E s \in ToSet(x.sentences) : \E f \in s.figures : ~Doc!ProseNumber(f) /\ ~backed(f, s)

(* A document passes exactly when every sentence cites something and every *)
(* citation of it stands by itself on a row that exists; the page then     *)
(* shows none of them dangling (publish.ts, citations.ts).                 *)
CitationsAreLive ==
    Asked("citations") =>
        LET found == Doc!ResolveCitations(x.store, FoldLeft(LAMBDA all, s : all \o s.cites, <<>>, x.sentences))
            shown(s) == Doc!LoadSentenceEvidence(s, "p", "p", x.store)
        IN Doc!CheckCitationsResolve(x.sentences, found)
             <=> \E s \in ToSet(x.sentences) : s.cites = <<>> \/ \E i \in DOMAIN s.cites : shown(s)[i].dangling

(* Whoever a Recommendation may pick holds a rank in the frozen Shortlist  *)
(* of that very Category, and nobody disqualified is awarded               *)
(* (submit-checks.ts, assess.ts).                                          *)
PicksAreRanked ==
    Asked("picks") =>
        LET w == S!DefaultWeights
            evidence == Doc!BuildEvidence(x.snapshots, w)
            frozen == Doc!FreezeShortlist(x.snapshots, x.cat, w)
        IN ~Doc!CheckPickLegality(x.picks, <<>>, x.cat, evidence) =>
               \A p \in ToSet(x.picks) :
                   /\ p.supplier \in DOMAIN frozen /\ frozen[p.supplier] >= 1
                   /\ p.role = "award" => ~x.snapshots[p.supplier].badge

(* Whoever the page draws as joined to the award beside the conditions is  *)
(* spoken of in them or in the open questions, each in a place of its own, *)
(* whatever the order of the picks (recommend.ts, submit-checks.ts,        *)
(* recommendation-page.ts).                                                *)
JoinedAwardsAreTold ==
    Asked("award") =>
        LET evidence == Doc!BuildEvidence(x.snapshots, S!DefaultWeights)
            found == Doc!ResolveCitations(x.store, FoldLeft(LAMBDA all, s : all \o s.cites, <<>>, x.sentences))
            draft == [picks |-> x.picks, sentences |-> x.sentences]
            picked == [i \in DOMAIN x.picks |-> [role |-> x.picks[i].role, entity |-> evidence[x.picks[i].supplier].entity]]
            entities == {evidence[id].entity : id \in DOMAIN evidence}
            walked == {[root |-> e, to |-> f] : e, f \in entities}
            drawn == {p.to : p \in Page!LoadConcentrationPaths(picked, {w \in walked : {w.root, w.to} \in x.joined})}
            owed == {id \in DOMAIN evidence : evidence[id].entity \in drawn}
            text == Doc!TextOf(Doc!OfSection(x.sentences, {"conditions", "open_questions"}))
        IN Doc!CheckRecommendation(draft, "a", evidence, x.joined, {}, found, {}) = {} =>
               OwnPlaces(text, [id \in owed |-> Doc!OccurrencesOf(text, evidence[id].name)])

(* A Supplier whose Compliance risk is pinned to 0 is never one that its   *)
(* own page says to take forward, by whatever Assessment was let through,  *)
(* nor the leader its Category's page is content with (submit-checks.ts,   *)
(* assess.ts, supplier-answer.ts, category-answer.ts).                     *)
BadgeIsNeverRecommended ==
    Asked("verdict") =>
        LET snapshots == "s1" :> [x.snapshot EXCEPT !.badge = S!Disqualifying(x.profile)]
            evidence == Doc!BuildEvidence(snapshots, S!DefaultWeights)
            found == Doc!ResolveCitations(x.store, FoldLeft(LAMBDA all, s : all \o s.cites, <<>>, x.sentences))
            draft == [verdict |-> x.verdict, sentences |-> x.sentences]
            unknown == {c \in x.criteria : c.key \in Doc!UnknownCriteria(snapshots)}
            page(outcome) == Page!SupplierAnswer([match |-> "accepted", outcome |-> outcome, verdict |-> x.verdict,
                                                  score |-> 500, absent |-> "none"])
        IN S!Pinned(x.profile) =>
               /\ Doc!CheckAssessment(draft, "s1", evidence, unknown, {}, found, {}) = {} =>
                      \A outcome \in {"passed", "published_with_objections"} : page(outcome).tone # "ok"
               /\ Page!LeadAnswer(<<[score |-> 500, disqualifying |-> evidence["s1"].disqualifying]>>).tone = "stop"

(* A document that passes the code checks admits what is missing, and what  *)
(* it states is backed by what it cites (submit-checks.ts,                  *)
(* number-fidelity.ts, publish.ts).                                         *)
ChecksHoldTheDraft ==
    /\ NothingVanishes /\ LimitsAdmitUnknowns /\ FiguresAreBacked /\ CitationsAreLive /\ PicksAreRanked
    /\ JoinedAwardsAreTold /\ BadgeIsNeverRecommended

-----------------------------------------------------------------------------
(* Discriminators.                                                         *)

(* The three rungs of an address are read off one address: no Match is     *)
(* settled on the country of one building and the street of another        *)
(* (address-ladder.ts).                                                    *)
RungsAreOneBuilding ==
    Asked("address") =>
        LET best == Disc!CompareAddresses(x.roster, x.addresses, {}) IN
        x.addresses # <<>> =>
            \E a \in ToSet(x.addresses) :
                /\ best = Disc!CompareAddress(x.roster, a, {})
                /\ \A b \in ToSet(x.addresses) : Disc!Rank(Disc!CompareAddress(x.roster, b, {})) <= Disc!Rank(best)

(* A record that places itself nowhere never stands in the way of plain    *)
(* code, and one that stands at the same address always does               *)
(* (auto-accept.ts).                                                       *)
GateIgnoresSilence ==
    Asked("gate") =>
        LET alone == Disc!EvaluateAutoAccept(x.roster, x.candidates)
            joined == Disc!EvaluateAutoAccept(x.roster, x.candidates \cup {x.newcomer})
        IN IF x.silent THEN joined = alone ELSE joined = None

(* Whoever settles a row, code or a person, settles it on all that is known *)
(* of one company (auto-accept.ts, address-ladder.ts, settle-choices.ts,    *)
(* settle-by-hand.ts).                                                      *)
SettledOnAllThatIsKnown ==
    /\ RungsAreOneBuilding /\ GateIgnoresSilence
    /\ NothingHidden /\ OfferedOnce /\ TieIsTold /\ EveryChoiceSettles

-----------------------------------------------------------------------------
(* Networks.                                                               *)

(* What is drawn of a Network past the cap hangs together: every entity on *)
(* the diagram that any Path ties to a root is tied to it by edges that    *)
(* are drawn (network-map-inner.tsx).                                      *)
NothingFloats ==
    Asked("map") =>
        LET analysis == Net!BuildNetworkElements(x.roots, x.paths, x.cap)
            drawn == Net!VisibleElements(analysis, {})
            reached == Net!BfsDepths(ToSet(x.roots), drawn.nodes, SetToSeq(drawn.edges))
        IN \A n \in drawn.nodes : analysis.depths[n] # Net!Unreached => reached[n] # Net!Unreached

(* Whichever clusters are open, every entity is drawn or counted in one    *)
(* closed cluster, and an edge is missing only because an end of it is     *)
(* (network-map-inner.tsx).                                                *)
EveryEntityIsCounted ==
    Asked("map") =>
        LET analysis == Net!BuildNetworkElements(x.roots, x.paths, x.cap)
            drawn(opened) == Net!VisibleElements(analysis, opened)
            hidden(opened) == UNION {c.members : c \in drawn(opened).clusters}
        IN \A opened \in SUBSET {c.id : c \in analysis.clusters} :
              /\ drawn(opened).nodes \cap hidden(opened) = {}
              /\ drawn(opened).nodes \cup hidden(opened) = analysis.nodes
              /\ S!SumOver(drawn(opened).clusters, LAMBDA c : Cardinality(c.members)) = Cardinality(hidden(opened))
              /\ \A e \in analysis.edges \ drawn(opened).edges : {e.from, e.to} \cap hidden(opened) # {}

(* Two bidders whose families or watchlists end at one company are drawn   *)
(* joined to it from both ends, and nobody else is (family-paths.ts,       *)
(* shortlist.ts, concentration-map.ts).                                    *)
JoinIsDrawnFromBothEnds ==
    Asked("joins") =>
        LET map == Net!BuildConcentrationMap(x.bidders, Net!ComputeConcentration(x.bidders, x.paths))
            ends(b) == {p.terminal : p \in {q \in x.paths : q.root = b.entity /\ q.kind \in {"family", "watchlist"}}}
            due == UNION {{<<b.entity, t>> : t \in ends(b) \cap UNION {ends(c) :
                              c \in {y \in x.bidders : y.entity # b.entity /\ y.entity # None}}} :
                          b \in {y \in x.bidders : y.entity # None}}
        IN {<<p.root, p.terminal>> : p \in map.paths} = due /\ map.roots = {d[1] : d \in due}

(* Every reader of the Paths of one Profile sees the same ones in the same *)
(* order, and whoever looks from the other end of one finds it there       *)
(* (family-paths.ts).                                                      *)
ReadersAgree ==
    Asked("paths") =>
        LET network(root) == Net!LoadNetworkPaths(x.paths, root)
            through(e) == Net!LoadPathsThroughEntity(x.paths, e)
            ofKind(root, k) == SelectSeq(network(root), LAMBDA p : p.kind = k)
        IN \A root \in {p.root : p \in x.paths} :
              /\ \A k \in ToSet(Net!KindOrder) : ofKind(root, k) = Net!LoadPathRows(x.paths, root, {k})
              /\ ofKind(root, "family") = Net!LoadFamilyPaths(x.paths, root)
              /\ ofKind(root, "shortest_path") = Net!LoadShortestPathPaths(x.paths, root)
              /\ \A p \in ToSet(network(root)) :
                     /\ [row |-> p, role |-> "root"] \in through(root)
                     /\ p.terminal # root => [row |-> p, role |-> "terminal"] \in through(p.terminal)
              /\ \A t \in through(root) : t.row \in ToSet(network(t.row.root))

(* Whoever takes points off Network exposure holds or is held today: the   *)
(* Paths that are not ownership all the way, a Twin's step aside, or not   *)
(* any more, leave a Score where it is (family-paths.ts, criteria.ts).     *)
OnlyOwnershipDeducts ==
    Asked("paths") =>
        LET exposure(rows) ==
                S!NetworkExposure(
                    [owners |-> <<>>, gap |-> FALSE, ownerEdges |-> 0, psaCount |-> 0, band |-> "strong",
                     paths |-> [i \in DOMAIN rows |->
                                  [id |-> rows[i].row.terminal, factors |-> x.factors, sanctioned |-> FALSE,
                                   hop |-> rows[i].row.hop, own |-> rows[i].viaOwnership]]])
            held(e) == ~e.former /\ e.type \in {"has_subsidiary", "subsidiary_of", "shareholder_of", "has_shareholder"}
            steps(p) == SelectSeq(p.edges, LAMBDA e : e.type # "possibly_same_as")
            tied == {p \in x.paths : /\ p.kind \in {"family", "watchlist"}
                                     /\ steps(p) # <<>> /\ \A e \in ToSet(steps(p)) : held(e)}
        IN \A root \in {p.root : p \in x.paths} :
               exposure(Net!LoadNetworkExposurePaths(x.paths, root)) = exposure(Net!LoadNetworkExposurePaths(tied, root))

-----------------------------------------------------------------------------
(* Pages and tools.                                                        *)

(* The card of a Category is about the version that the Recommendation     *)
(* page opens on: the accepted one once there is one; it calls it settled  *)
(* only if a person accepted it, or nobody marked it and the reviewer had  *)
(* no objection (category-page.ts, recommendation-page.ts).                *)
PagesAgreeOnTheDecision ==
    Asked("versions") =>
        LET card == Page!LoadCategoryPage(x.ranked, x.versions)
            page == Page!LoadRecommendationPage(x.versions, 0)
            accepted == {v \in ToSet(x.versions) : v.mark = "accepted"}
        IN /\ card.version = page.version /\ ~page.pinned
           /\ accepted # {} => card.version \in accepted
           /\ Page!RecommendationAnswer(x.ranked, card.version).tone = "ok" =>
                  card.version.mark = "accepted" \/ (card.version.mark = "none" /\ card.version.outcome = "passed")

(* A Supplier is counted as waiting on a person exactly when its own page  *)
(* leads with the choice, whatever else there is to say                    *)
(* (derive-program-page.ts, supplier-answer.ts).                           *)
NamedWhereItWaits ==
    Asked("supplier") =>
        (Page!Waiting(<<x>>) # {} <=> Page!SupplierAnswer(x) = Page!Answer("you", "choose the company"))

(* Whichever version is opened, the strip over it says what is in force:   *)
(* nothing is said only over the version in force with none after it, that *)
(* another is accepted only when one is, and newer ones are told against   *)
(* an accepted one, as its wording says (recommendation-mark.ts,           *)
(* recommendation-page.ts).                                                *)
StripTellsWhatIsInForce ==
    Asked("versions") /\ x.versions # <<>> =>
        LET accepted == {v \in ToSet(x.versions) : v.mark = "accepted"}
            newest(V) == CHOOSE v \in V : \A w \in V : w.n <= v.n
            inForce == newest(IF accepted # {} THEN accepted ELSE ToSet(x.versions))
        IN \A asked \in 0..Len(x.versions) + 1 :
              LET page == Page!LoadRecommendationPage(x.versions, asked)
                  strip == Page!VersionStrip(page, x.versions)
              IN /\ strip = "none" <=> page.version = inForce /\ page.version = newest(ToSet(x.versions))
                 /\ strip = "another is accepted" <=> accepted # {} /\ page.version \notin accepted
                 /\ strip \in {"a newer version", "newer versions"} => Page!MarkHeader(page.version).badge = "accepted"
                 /\ Page!MarkHeader(page.version).tone = "good" <=> page.version \in accepted

(* The panel of a Program counts what its buttons would queue, nobody      *)
(* falls between two stages, nobody accepted is in two, and the page says  *)
(* that every Category is argued only when every Category's own page shows *)
(* an argument and nobody waits on a person (runs.ts, program-answer.ts).  *)
WorkIsCountedOnce ==
    Asked("program") =>
        LET page == Page!LoadProgramPage(x.suppliers, x.versionsOf, x.runs, x.now)
            queued(stage) == Page!SuppliersNeeding(x.suppliers, stage)
            lists == <<Page!Unresolved(x.suppliers), Page!Waiting(x.suppliers), queued("enrich"), queued("assess")>>
            on(s) == {i \in DOMAIN lists : s \in lists[i]}
            ranked == <<[score |-> 500, disqualifying |-> FALSE]>>
            argued(c) == \A a \in ToSet(Page!LoadCategoryPage(ranked, x.versionsOf[c]).answers) : a.said # "nobody wrote one"
        IN /\ page.work = [unresolved |-> Cardinality(lists[1]), unenriched |-> Cardinality(lists[3]),
                           unassessed |-> Cardinality(lists[4])]
           /\ \A s \in DOMAIN x.suppliers :
                  /\ on(s) = {} => x.suppliers[s].match = "not_found" \/ (x.suppliers[s].values /\ x.suppliers[s].assessed)
                  /\ x.suppliers[s].match = "accepted" => Cardinality(on(s)) <= 1
           /\ page.answers = <<Page!Answer("ok", "every category")>> =>
                  lists[2] = {} /\ \A c \in DOMAIN x.versionsOf : argued(c)

(* The phases of a Run add up to it, the newest Run that still polls is    *)
(* the one the pages point at, and no Run waits on a Job out of everyone's *)
(* reach: it is queued, or started lately, or behind a worker that was     *)
(* seen, or offered to be put back (runs.ts, runs-page.ts).                *)
RunsAddUp ==
    Asked("runs") =>
        LET jobs == FoldLeft(LAMBDA all, run : all \o run, <<>>, x.runs)
            up == Page!WorkerSeemsUp(jobs, x.now)
            moving == {i \in DOMAIN x.runs : Page!RunProgress(x.runs[i]).active}
        IN /\ Page!ActiveRun(x.runs) = (IF moving = {} THEN {} ELSE {LeastOf(moving)})
           /\ \A i \in DOMAIN x.runs :
                 LET run == x.runs[i]
                     whole == Page!RunProgress(run)
                     phases == Page!RunPhases(run)
                     add(Of(_)) == S!SumOver(DOMAIN phases, LAMBDA k : Of(phases[k]))
                     list == Page!LoadRuns(run)
                 IN /\ add(LAMBDA p : p.total) = whole.total /\ whole.total = list.jobCount
                    /\ add(LAMBDA p : p.settled) = whole.settled
                    /\ whole.active <=> whole.settled < whole.total
                    /\ whole.active <=> \E k \in DOMAIN phases : phases[k].active
                    /\ list.failed + list.terminated <= Cardinality(Page!RetryableJobs(run, up, x.now))
                    /\ \A j \in Page!InState(run, {"running"}) :
                          up \/ x.now - run[j].started <= 30 \/ j \in Page!RetryableJobs(run, up, x.now)
           /\ Page!RunsAnswer(x.runs) = <<Page!Answer("ok", "everything finished")>> =>
                  Page!InState(jobs, {"queued", "cancelled"}) = {}

(* A page hides nothing that another shows: companies past the cap, joins,  *)
(* the decision in force and the rows that wait on a person                 *)
(* (network-map-inner.tsx, family-paths.ts, category-page.ts,               *)
(* supplier-answer.ts).                                                     *)
PagesHideNothing ==
    /\ NothingFloats /\ EveryEntityIsCounted /\ JoinIsDrawnFromBothEnds
    /\ ReadersAgree /\ OnlyOwnershipDeducts
    /\ PagesAgreeOnTheDecision /\ StripTellsWhatIsInForce
    /\ NamedWhereItWaits /\ WorkIsCountedOnce /\ RunsAddUp

(* What chat is offered that goes out, stores a row or starts a Job is     *)
(* behind a confirmation (lookups.ts, enqueues.ts).                        *)
SpendingIsAsked ==
    Asked("tool") =>
        (x \in Cat!ForSurface("chat") /\ (x.calls \cup x.stores # {} \/ x.starts # "none") => x.confirm)

(* The registry boots, and every tool a loop is handed declares that a Job *)
(* may hold it (registry.ts).                                              *)
OfferedWhereDeclared ==
    Asked("loop") => Cat!Boots /\
        \A t \in (IF x.round = 0 THEN Cat!ForNarrativeRole(x.loop, x.role) ELSE Cat!ForMatchRound(x.round)) :
            "job" \in t.surfaces

(* What a tool starts is worked off: its kind is one the worker runs, but  *)
(* for the dossier that the MCP client writes, which boot warns of         *)
(* (registry.ts, config/constants.ts).                                    *)
EveryStartIsWorked ==
    Asked("tool") =>
        \/ x.starts \in Cat!RunnableJobKinds \cup {"none"}
        \/ x.starts = "dossier" /\ x.name \in Cat!EnqueueKindWarnings

(* The proposer's tools hand out an id for every kind of evidence its      *)
(* sentences are to cite: without the pair of Program and Category nobody  *)
(* can cite a Shortlist (reads.ts, writes.ts).                             *)
CitationsCanBeMade ==
    Asked("loop") /\ x.round = 0 =>
        {"entity", "match", "enrichment", "criterion_value", "program", "category"}
            \subseteq UNION {t.hands : t \in Cat!ForNarrativeRole(x.loop, x.role)}

(* A citation that the schema admits and that finds a row can be stored    *)
(* (writes.ts, narrative.ts).                                              *)
CitationsFitTheTable ==
    Asked("cite") => (Cat!CitedSentence("identity", {x}) /\ Cat!ResolvesTo(x) # "none" => Cat!OneTargetGroup(x))

(* The figures that a Network states of its family are the ones a sentence *)
(* that cites the family's enrichment is checked against, whichever of its *)
(* rows comes first: how many Paths it holds always, and how far it reached*)
(* unless a later read has confirmed some of them, which moves that figure *)
(* and not the enrichment (reads.ts, publish.ts, family-members.ts).       *)
EnvelopeIsBacked ==
    Asked("envelope") =>
        LET group == Cat!SupplierNetwork(x)["family"]
            own == {i \in DOMAIN x : x[i].kind = "family" /\ x[i].enrichment = group.enrichment}
            row(first) == Doc!WithFamilyCoverage({}, "sayari_ownership_family", [i \in own |-> x[i].reachable], first)
            backed(n, first) == \E c \in row(first) : c.n = 1000 * n
        IN \A first \in own :
               /\ backed(group.explored, first)
               /\ (\A i, j \in own : x[i].reachable = x[j].reachable) => backed(group.reachable, first)

(* The tools fit the loops that hold them: what spends is asked, and what   *)
(* must be cited can be fetched, submitted, stored and checked              *)
(* (registry.ts, reads.ts, writes.ts, publish.ts).                          *)
ToolsFitTheirLoops ==
    /\ SpendingIsAsked /\ OfferedWhereDeclared /\ EveryStartIsWorked /\ CitationsCanBeMade
    /\ CitationsFitTheTable /\ EnvelopeIsBacked
=============================================================================
