------------------------------- MODULE MCRules -------------------------------
(* Rules over small sets of inputs, for TLC.                                *)
EXTENDS Rules

CONSTANTS DE, US, berlin, bonn, main, oak, acme, five

UpTo(n, set) == UNION {[1..k -> set] : k \in 0..n}

-----------------------------------------------------------------------------
(* Scoring.                                                                *)

Factor(psa, words, level, country) == [psa |-> psa, words |-> words, level |-> level, country |-> country]
Factors ==
    {Factor(FALSE, {"sanctioned"}, 3, FALSE), Factor(TRUE, {"sanctioned"}, 3, FALSE),
     Factor(FALSE, {"sanctioned", "adjacent"}, 3, FALSE), Factor(FALSE, {"forced", "labor", "subtier"}, 3, FALSE),
     Factor(TRUE, {"export", "controls"}, 3, FALSE), Factor(FALSE, {"export", "controls"}, 2, FALSE),
     Factor(FALSE, {"cpi"}, 3, TRUE)}
Profiles ==
    [accepted : BOOLEAN, sources : {3, 20}, present : {6}, factors : {F \in SUBSET Factors : Cardinality(F) <= 3},
     sanctioned : BOOLEAN, pep : BOOLEAN, closed : BOOLEAN, ran : {TRUE}, articles : {<<>>}]
MCMedia ==
    [accepted : {TRUE}, sources : {3, 20}, present : {6}, factors : {{}}, sanctioned : {FALSE}, pep : {FALSE},
     closed : {FALSE}, ran : BOOLEAN, articles : UpTo(3, [serious : 0..2, moderate : {0, 1, 4}])]

Owner(factors, state) == [id |-> 1, factors |-> factors, state |-> state]
Slight == {Factor(FALSE, {"regulatory"}, 1, FALSE)}
Grave == {Factor(FALSE, {"sanctioned"}, 3, FALSE)}
MCNetworks ==
    [owners : {<<>>, <<Owner(Slight, FALSE)>>, <<Owner({}, TRUE)>>}, gap : {FALSE},
     paths : UpTo(3, [id : {1, 2}, factors : {Slight, Grave}, sanctioned : {FALSE}, hop : {1, 3}, own : BOOLEAN])
             \cup UpTo(2, [id : {1, 2}, factors : SUBSET (Grave \cup {Factor(TRUE, {"sanctioned"}, 2, FALSE),
                                                                   Factor(FALSE, {"cpi"}, 3, TRUE)}),
                           sanctioned : BOOLEAN, hop : {2}, own : {TRUE}]),
     ownerEdges : {0}, psaCount : {0}, band : {"strong"}]

\* A window of at most two companies and a second read of at most two paths.
Item(to, former, occurrences) == [to |-> to, former |-> former, whole |-> TRUE, occurrences |-> occurrences]
Occurrence(type, former, record) == [type |-> type, former |-> former, record |-> record]
Items ==
    {Item(to, former, {Occurrence(type, again, "r1")}) :
        to \in {2, 3}, former \in BOOLEAN, again \in BOOLEAN,
        type \in {"has_shareholder", "subsidiary_of", "owner_of", "has_officer"}}
    \cup {Item(2, FALSE, {Occurrence("has_shareholder", FALSE, "r1"), Occurrence(type, again, "r2")}) :
             again \in BOOLEAN, type \in {"has_shareholder", "subsidiary_of"}}
TypedPath(to, type, former, target) ==
    [target |-> IF target THEN [to |-> to, whole |-> TRUE] ELSE None,
     steps |-> <<[field |-> type, to |-> to, whole |-> TRUE, former |-> former, record |-> None]>>,
     occurrences |-> {[former |-> former, record |-> None]}]
TypedPaths == {TypedPath(to, type, former, to = 2) :
                  to \in {2, 3}, type \in {"has_shareholder", "subsidiary_of"}, former \in BOOLEAN}
MCOwners ==
    [body : [items : {{}} \cup {{i, j} : i \in Items, j \in Items},
             counts : {<<>>, "has_shareholder" :> 1, ("has_shareholder" :> 2) @@ ("subsidiary_of" :> 1)}],
     typed : {None, <<>>} \cup {<<p>> : p \in TypedPaths}]

Weights(c, p) == [S!DefaultWeights EXCEPT !["compliance_risk"] = c, !["proximity"] = p]
Outcomes ==
    [values : [S!WeightedCriteria -> {S!Proximity(km) : km \in {S!Unknown, 0, 9000}}],
     weights : {S!DefaultWeights, Weights(0, 40), [k \in S!WeightedCriteria |-> IF k = "proximity" THEN 5 ELSE 0]}]
MCIndicators == UNION {[D -> {100, 260, 500}] : D \in {E \in SUBSET (1..6) : Cardinality(E) <= 3}}

\* Two Categories' tariffs and the rows at none, in several orders.
Stored ==
    {[outcomes |-> o, tariffs |-> t,
      rows |-> LET all == S!StoredValues(o, t)
                   base == SetToSeq({r \in all : r.cat = S!AnyCategory})
                   a == SetToSeq({r \in all : r.cat = "a"})
                   b == SetToSeq({r \in all : r.cat = "b"})
               IN CASE order = 1 -> a \o b \o base [] order = 2 -> b \o base \o a
                    [] order = 3 -> Reverse(base) \o b \o a [] OTHER -> base \o a \o b] :
        o \in {[k \in S!WeightedCriteria |-> IF k = "compliance_risk" THEN v ELSE 400] : v \in {S!Unknown, 0}},
        t \in [{"a", "b"} -> {S!TariffExposure(rate) : rate \in {S!Unknown, 0, 100}}], order \in 1..4}

Ratio(num, den) == [num |-> num, den |-> den]
Bidder(n, score, compliance, country) == [name |-> n, score |-> score, compliance |-> compliance, country |-> country]
Scores == {S!NoScore, Ratio(480, 1), Ratio(2401, 5), Ratio(640, 1)}
Shortlists ==
    [bidders : {{Bidder(1, s[1], 0, "DE"), Bidder(2, s[2], 0, c), Bidder(3, s[3], 800, "US")} :
                    s \in [1..3 -> Scores], c \in {"DE", "US"}},
     facets : [country : {{}, {"DE"}}, band : {{}, {"mid"}}]]

Links ==
    [weights : {[k \in S!WeightedCriteria |->
                    CASE k = "compliance_risk" -> w[1] [] k = "proximity" -> w[2] [] k = "media_signal" -> w[3]
                      [] OTHER -> 17] : w \in [1..3 -> {0, 10, 28}]},
     default : {<<>>, [k \in {"compliance_risk"} |-> 0], [k \in S!WeightedCriteria |-> 10]}]

-----------------------------------------------------------------------------
(* Settlement, staleness and difference.                                   *)

Verdict(of, verdict, by) == [of |-> of, verdict |-> verdict, by |-> by]
Verdicts ==
    {<<>>, <<Verdict("street", "pass", "code")>>,
     <<Verdict("street", "pass", "code"), Verdict("street", "fail", "agent")>>,
     <<Verdict("street", "fail", "code"), Verdict("country", "pass", "agent")>>}
Candidates(verdicts) ==
    [label : {<<"acme", "motors">>, <<"acme", "adr">>}, address : {<<>>, <<"main">>}, sources : {1, 2},
     verdicts : verdicts]
\* Each row with the company of the first row that has its id.
Sources(n) == {f \in [1..n -> 1..n] : \A i \in 1..n : f[i] <= i /\ f[f[i]] = f[i]}
Recorded(cs, of) ==
    [i \in DOMAIN cs |-> [id |-> of[i], label |-> cs[of[i]].label, address |-> cs[of[i]].address,
                          sources |-> cs[of[i]].sources, verdicts |-> cs[i].verdicts]]
MCChoices ==
    UNION {{[name |-> <<"acme", "motors">>, rows |-> Recorded(cs, of)] : of \in Sources(Len(cs))} :
        cs \in UpTo(2, Candidates(Verdicts)) \cup [1..3 -> {c \in Candidates(Verdicts) :
                    c.address = <<"main">> /\ Len(c.verdicts) # 1 /\ (c.sources = 1 \/ c.verdicts = <<>>)}]}

Forms ==
    [form : [choice : {"entity", "other", "not_found", ""}, entity : {"c1", "c9"},
             typed : {"c1", "c8", "c9", "", "ill-formed"}],
     offered : {{}, {"c1", "c2"}}, store : SUBSET {"c1", "c9"}]

Frozen == [compared : {<<"score", "s1">> :> 1, <<"score", "s1">> :> 2, (<<"score", "s1">> :> 1) @@ (<<"score", "s2">> :> 5)},
           other : {1, 2}]
Row(subject, seen) == [subject |-> subject, kind |-> "news", seen |-> seen]
Stale ==
    [version : [at : {1}, frozen : {f \in Frozen : f.other = 1}, cited : {{"s1"}, {"s1", "s2"}}],
     then : Frozen, now : Frozen, at : {2, 3},
     rows : SUBSET {Row("s1", 1), Row("s1", 3), Row("s2", 2), Row("s2", 4)}]

Sentences == [section : {"rationale"}, words : {<<1, 2, 3>>, <<1, 2, 4>>, <<5>>}, cites : {{"c1"}, {"c2"}}]
MCVersion(sentences) == [frozen : {<<>>}, picks : {<<>>}, sentences : sentences]
Differences ==
    [before : MCVersion(UpTo(2, Sentences)), after : MCVersion(UpTo(2, Sentences))]
    \cup LET bare == [frozen : {<<>>, "f" :> 1, ("f" :> 1) @@ ("g" :> 2)},
                      picks : {<<>>, "s1" :> [role |-> "award", rank |-> 1], "s1" :> [role |-> "award", rank |-> 2]},
                      sentences : {<<>>}]
         IN [before : bare, after : bare]

-----------------------------------------------------------------------------
(* The checks.                                                             *)

Sentence(section, words, figures, cites) ==
    [section |-> section, words |-> words, figures |-> figures, cites |-> cites, pick |-> Doc!NoValue]
Named(name, objected) ==
    [name |-> name, accepted |-> TRUE, entity |-> "e", cats |-> {"a"}, scored |-> {"a"}, disqualifying |-> FALSE,
     objected |-> objected, onShortlist |-> TRUE]
Names ==
    {[sentences |-> <<Sentence(section, text, {}, <<>>)>>,
      evidence |-> ("s1" :> Named(<<"acme">>, o[1])) @@ ("s2" :> Named(<<"acme", "motors">>, o[2]))
                   @@ ("s3" :> Named(<<"motors">>, o[3]))] :
        section \in {"open_questions", "rationale"}, text \in UpTo(4, {"acme", "motors", "and"}), o \in [1..3 -> BOOLEAN]}

Criterion(key, words) == [key |-> key, words |-> words]
Limits ==
    {[sentences |-> <<Sentence("limits", text, {}, <<>>)>>, unknown |-> u] :
        text \in UpTo(4, {"network", "tariff", "exposure", "network_exposure"}),
        u \in SUBSET {Criterion("network_exposure", <<"network", "exposure">>),
                      Criterion("tariff_exposure", <<"tariff", "exposure">>)}}

Figure(n, decimals, percent) == [kind |-> "number", n |-> n, decimals |-> decimals, percent |-> percent]
Cell(n) == [kind |-> "number", n |-> n]
Cite(kind, id) == [kind |-> kind, id |-> id]
Figures ==
    {[sentences |-> <<Sentence("rationale", <<>>, {f}, cites), Sentence("rationale", <<>>, {}, <<Cite("record", "r2")>>)>>,
      frozen |-> frozen, store |-> (Cite("record", "r1") :> {Cell(r1)}) @@ (Cite("record", "r2") :> {Cell(12000)})] :
        f \in {Figure(12000, 0, FALSE), Figure(3000, 0, FALSE), Figure(11500, 1, FALSE), Figure(42000, 0, TRUE)},
        cites \in {<<Cite("record", "r1")>>, <<Cite("record", "r2")>>, <<>>},
        frozen \in {{}, {Cell(421)}, {Cell(11450)}}, r1 \in {11499, 11500, 11560, 12400, 12600, 415, 42000}}

Citations == {Cite("shortlist", <<"p", "a">>), Cite("shortlist", <<"p", "b">>), Cite("match", <<"s1">>)}
Cited ==
    {[sentences |-> [i \in DOMAIN cites |-> Sentence("rationale", <<>>, {}, cites[i])], store |-> [c \in live |-> {}]] :
        cites \in UpTo(2, UpTo(2, Citations)), live \in SUBSET Citations}

Value(key, cat, value) == [key |-> key, cat |-> cat, value |-> value]
Snapshot(accepted, cats, values, badge) ==
    [name |-> <<"acme">>, accepted |-> accepted, entity |-> "e", cats |-> cats, badge |-> badge, outcome |-> "passed",
     rows |-> <<Value("tariff_exposure", "a", values[1]), Value("tariff_exposure", "b", values[2]),
                Value("compliance_risk", "any", S!Unknown)>>]
Picking ==
    {[snapshots |-> ("s1" :> one) @@ ("s2" :> Snapshot(TRUE, {"a", "b"}, <<400, 800>>, FALSE)), cat |-> cat, picks |-> picks] :
        one \in {Snapshot(accepted, cats, values, badge) :
                    accepted \in BOOLEAN, cats \in SUBSET {"a", "b"}, values \in [1..2 -> {S!Unknown, 600}], badge \in BOOLEAN},
        cat \in {"a", "b"},
        picks \in UpTo(2, [supplier : {"s1", "s2", "s3"}, role : {"award", "second_source"}, rank : {1}])}

Joinable(name, entity) == [Snapshot(TRUE, {"a"}, <<400, 800>>, FALSE) EXCEPT !.name = name, !.entity = entity]
Said == UpTo(2, {"acme", "motors", "and"})
        \cup {<<"acme", "and", "motors">>, <<"acme", "motors", "and", "acme">>, <<"motors", "and", "acme", "motors">>}
Awarding ==
    {[snapshots |-> ("s1" :> Joinable(<<"acme">>, "e1")) @@ ("s2" :> Joinable(<<"acme", "motors">>, "e2"))
                    @@ ("s3" :> Joinable(<<"motors">>, e)),
      picks |-> picks, joined |-> joined, store |-> Cite("match", <<"s1">>) :> {},
      sentences |-> <<Sentence("headline", <<"and">>, {}, <<Cite("match", <<"s1">>)>>),
                      Sentence(section, text, {}, <<Cite("match", <<"s1">>)>>)>>] :
        e \in {"e3", "none"}, section \in {"conditions", "open_questions", "rationale"}, text \in Said,
        joined \in SUBSET {{"e1", "e2"}, {"e1", "e3"}, {"e2", "e3"}},
        picks \in {p \in UNION {[1..n -> [supplier : {"s1", "s2", "s3"}, role : {"award", "second_source"}, rank : {1}]] : n \in 2..3} :
                     /\ Cardinality({p[i].supplier : i \in DOMAIN p}) = Len(p)
                     /\ Cardinality({i \in DOMAIN p : p[i].role = "award"}) = 1}}

Judged ==
    {[profile |-> profile, verdict |-> verdict, sentences |-> sentences, criteria |-> {Criterion("compliance_risk", <<"compliance">>)},
      snapshot |-> Snapshot(TRUE, {"a"}, <<400, 800>>, FALSE), store |-> Cite("match", <<"s1">>) :> {}] :
        profile \in {p \in Profiles : p.accepted /\ p.sources = 20},
        verdict \in {"recommend", "recommend_with_conditions", "escalate", "do_not_shortlist"},
        sentences \in {[i \in DOMAIN said |-> Sentence(said[i], <<"compliance">>, {}, <<Cite("match", <<"s1">>)>>)] :
                          said \in {<<"identity", "limits">>, <<"limits">>}}}

-----------------------------------------------------------------------------
(* Discriminators.                                                         *)

Address(country, city, line) == [country |-> country, city |-> city, postcode |-> None, line |-> line]
MCRoster == [name |-> {acme}, address |-> {berlin, main, five}, country |-> DE]
Addresses == {Address(c, town, line) : c \in {DE, US, None}, town \in {{berlin}, {bonn}, None}, line \in {{main, five}, {oak}, None}}
Addressed == [roster : {MCRoster}, addresses : UpTo(2, Addresses)]

Record(id, addresses, lei) ==
    [id |-> id, label |-> {acme}, aliases |-> {}, addresses |-> addresses, marked |-> {}, owners |-> {},
     lei |-> lei, gleif |-> IF lei = None THEN None
                            ELSE [jurisdiction |-> DE, legalCity |-> {berlin}, hqCity |-> None],
     nonOperatingName |-> FALSE, nonOperatingPurpose |-> FALSE, operating |-> TRUE, statesPurpose |-> TRUE,
     closed |-> FALSE, latestStatus |-> "live"]
Here == Record(1, <<Address(DE, {berlin}, {main, five})>>, 1)
Others == {Record(2, <<Address(US, {bonn}, {oak})>>, None), Record(3, <<Address(DE, {bonn}, None)>>, None)}
Silent == {[Record(4, <<>>, None) EXCEPT !.statesPurpose = p] : p \in BOOLEAN}
          \cup {Record(5, <<Address(None, None, {oak})>>, None)}
Placed == {Record(6, <<Address(DE, {berlin}, None)>>, None), Record(7, <<Address(None, {berlin}, {main})>>, None)}
Gate ==
    [roster : {MCRoster}, candidates : {{Here} \cup o : o \in SUBSET Others}, newcomer : Silent, silent : {TRUE}]
    \cup [roster : {MCRoster}, candidates : SUBSET ({Here} \cup Others), newcomer : Placed, silent : {FALSE}]

-----------------------------------------------------------------------------
(* Networks, pages and tools.                                              *)

Edge(id, from, to) == [id |-> id, from |-> from, to |-> to, type |-> "has_subsidiary", former |-> FALSE]
Path(root, terminal, kind, edges) == [root |-> root, terminal |-> terminal, kind |-> kind, hop |-> 1, edges |-> edges]
MapPaths ==
    {Path(1, 2, "family", <<Edge(1, 1, 2)>>), Path(1, 3, "family", <<Edge(1, 1, 2), Edge(2, 2, 3)>>),
     Path(1, 4, "watchlist", <<Edge(3, 4, 1)>>), Path(1, 5, "family", <<Edge(3, 4, 1), Edge(4, 4, 5)>>),
     Path(1, 6, "watchlist", <<>>), Path(1, 3, "watchlist", <<Edge(3, 4, 1), Edge(5, 4, 3)>>),
     Path(1, 7, "family", <<Edge(6, 8, 7)>>)}
Maps ==
    [roots : {<<1>>, <<1, 2>>, <<9, 1>>}, paths : {SetToSeq(P) : P \in SUBSET MapPaths}, cap : {2, 3, 5}]

JoinPaths ==
    {Path(10, 20, "family", <<>>), Path(10, 20, "watchlist", <<>>), Path(11, 20, "watchlist", <<>>),
     Path(11, 21, "supply_chain", <<>>), Path(12, 21, "family", <<>>), Path(10, 21, "family", <<>>)}
MCJoins ==
    [bidders : {{[id |-> i, entity |-> e[i]] : i \in 1..3} : e \in [1..3 -> {None, 10, 11, 12}]}, paths : SUBSET JoinPaths]

Step(type, former) == [id |-> 1, from |-> 10, to |-> 11, type |-> type, former |-> former]
Stretch(root, terminal, kind, hop, edges) ==
    [root |-> root, terminal |-> terminal, kind |-> kind, hop |-> hop, edges |-> edges]
Chains == {<<>>, <<Step("has_subsidiary", FALSE)>>, <<Step("has_subsidiary", TRUE)>>, <<Step("possibly_same_as", FALSE)>>,
           <<Step("possibly_same_as", FALSE), Step("has_shareholder", FALSE)>>,
           <<Step("has_subsidiary", FALSE), Step("ships_to", FALSE)>>}
Stretches ==
    {Stretch(10, t, k, h, c) : t \in {20, 21}, k \in {"family", "watchlist", "shortest_path"}, h \in {1, 2}, c \in Chains}
    \cup {Stretch(20, 10, "family", 1, <<Step("has_subsidiary", FALSE)>>), Stretch(10, 10, "watchlist", 1, <<>>)}
SameRow(p, q) == p.root = q.root /\ p.terminal = q.terminal /\ p.kind = q.kind
MCPaths ==
    [paths : {P \in {{p, q} : p, q \in Stretches} : \A p, q \in P : SameRow(p, q) => p = q}, factors : {Grave}]

Marks == {"none", "accepted", "rejected", "needs_work"}
Versions ==
    {[versions |-> vs, ranked |-> ranked] :
        vs \in {[i \in 1..n |-> [n |-> n + 1 - i, outcome |-> o[i], mark |-> m[i]]] :
                    n \in 0..3, o \in [1..3 -> {"passed", "published_with_objections"}],
                    m \in {f \in [1..3 -> Marks] : Cardinality({i \in 1..3 : f[i] = "accepted"}) <= 1}},
        ranked \in {<<>>, <<[score |-> 700, disqualifying |-> FALSE], [score |-> 690, disqualifying |-> FALSE]>>}}
MCSuppliers ==
    [match : {"none", "accepted", "needs_review", "not_found"},
     outcome : {"none", "passed", "published_with_objections"},
     verdict : {"recommend", "recommend_with_conditions", "escalate", "do_not_shortlist"},
     score : {Page!NoScore, 700}, absent : {"no_category", "nothing"}]

JobRow(kind, state, started, ours) == [kind |-> kind, state |-> state, started |-> started, ours |-> ours]
JobRows ==
    {JobRow(k, "queued", Page!NoScore, FALSE) : k \in {"resolve", "enrich"}}
    \cup {JobRow(k, "running", at, FALSE) : k \in {"resolve", "enrich"}, at \in {1, 20, 38}}
    \cup {JobRow("enrich", state, 1, ours) : state \in {"failed"}, ours \in BOOLEAN}
    \cup {JobRow("enrich", state, at, FALSE) : state \in {"done", "terminated", "cancelled", "paused_on_budget"}, at \in {1, 38}}
MCRuns == [runs : UpTo(1, UpTo(2, JobRows)) \cup [1..2 -> [1..1 -> JobRows]] \cup {<<[i \in 1..3 |-> j[i]]>> : j \in
               [1..3 -> {r \in JobRows : r.state \in {"queued", "running", "done"}}]}, now : {40}]
Programs ==
    [suppliers : UpTo(2, [match : {"none", "accepted", "needs_review", "not_found"}, values : BOOLEAN, assessed : BOOLEAN]),
     versionsOf : [{"a", "b"} -> {<<>>, <<[n |-> 1, outcome |-> "passed", mark |-> "none"]>>}],
     runs : {<<>>, <<<<JobRow("enrich", "running", 38, FALSE)>>>>, <<<<JobRow("enrich", "done", 38, FALSE)>>>>}, now : {40}]

Handed ==
    [loop : Cat!Loops, role : {"proposer"}, round : {0}] \cup [loop : Cat!Loops, role : {"evaluator"}, round : {0}]
    \cup [loop : {"match"}, role : {"proposer"}, round : 1..3]
\* A later read of the family may have moved the reach of a Path that "e1" found.
Envelopes ==
    UpTo(3, {[kind |-> k, enrichment |-> e[1], reachable |-> e[2], to |-> t, chain |-> <<>>] :
                k \in {"family", "watchlist"}, e \in {<<"e1", 7>>, <<"e1", 90>>, <<"e2", 90>>}, t \in {1, 2}})

MCInputs ==
    [profile |-> Profiles, media |-> MCMedia, network |-> MCNetworks, owners |-> MCOwners, outcomes |-> Outcomes, indicators |-> MCIndicators, stored |-> Stored,
     shortlist |-> Shortlists, link |-> Links, choices |-> MCChoices, form |-> Forms, stale |-> Stale, diff |-> Differences,
     names |-> Names, limits |-> Limits, figures |-> Figures, citations |-> Cited, picks |-> Picking,
     address |-> Addressed, gate |-> Gate, map |-> Maps, joins |-> MCJoins, paths |-> MCPaths, award |-> Awarding, verdict |-> Judged,
     program |-> Programs, runs |-> MCRuns, versions |-> Versions,
     supplier |-> MCSuppliers, tool |-> Cat!AllTools, loop |-> Handed, cite |-> SUBSET Cat!CitationGroups,
     envelope |-> Envelopes]
=============================================================================
