------------------------------ MODULE Catalog ------------------------------
(* The tools there are (src/tools/catalog/*.ts), the lists the registry     *)
(* derives from them (src/tools/registry.ts) and what a submission may say. *)
(*                                                                          *)
(* A tool is what it declares of itself (the fields of Tools!Tool) and what *)
(* its handler does: the row it objects without, the upstreams it calls,    *)
(* the tables it stores a row in, the kinds of row whose id its reply hands *)
(* the model to cite, and the kind of the Job it starts.  What a reply says *)
(* besides is left out, but for two that decide something: the ranking chat *)
(* is answered from and the envelope of a Network.                          *)
EXTENDS Integers, FiniteSets, Sequences, SequencesExt

T == INSTANCE Tools
Score == INSTANCE Scoring

Everywhere == {"chat", "job", "mcp"}
People == {"chat", "mcp"}

Declared(name, family, effect, spends, slow, surfaces, confirm) ==
    [name |-> name, family |-> family, effect |-> effect, spends |-> spends, slow |-> slow,
     surfaces |-> surfaces, confirm |-> confirm]
Does(needs, calls, stores, hands, starts) ==
    [needs |-> needs, calls |-> calls, stores |-> stores, hands |-> hands, starts |-> starts]
DefineTool(declared, does) ==
    [name |-> declared.name, family |-> declared.family, effect |-> declared.effect, spends |-> declared.spends,
     slow |-> declared.slow, surfaces |-> declared.surfaces, confirm |-> declared.confirm,
     needs |-> does.needs, calls |-> does.calls, stores |-> does.stores, hands |-> does.hands, starts |-> does.starts]

----------------------------------------------------------------------------
(* Reads: of rows alone, at no cost.                                        *)

Read(name, surfaces, needs, hands) ==
    DefineTool(Declared(name, "read", "read", FALSE, FALSE, surfaces, FALSE), Does(needs, {}, {}, hands, "none"))

GetProgram == Read("get_program", Everywhere, "program", {"program", "category"})
CategoryForPeople == Read("get_category", People, "category", {"program", "category"})                     \* fault
GetCategory == Read("get_category", Everywhere, "category", {"program", "category"})

(* The Categories of a Supplier come as code and name, without their ids,   *)
(* and its enrichments do not come at all.                                  *)
ProjectSupplierCard == {"match", "entity", "criterion_value"}
GetSupplier == Read("get_supplier", Everywhere, "supplier", ProjectSupplierCard)
(* Each member's own record and company, each group's own enrichment.       *)
GetSupplierNetwork == Read("get_supplier_network", Everywhere, "accepted match", {"entity", "record", "enrichment"})
GetEntity == Read("get_entity", Everywhere, "entity", {"entity"})
GetRecord == Read("get_record", Everywhere, "record", {"record"})

GetShortlist == Read("get_shortlist", Everywhere, "category", {})
CompareSuppliers == Read("compare_suppliers", People, "none", {"criterion_value", "program"})
GetTrace == Read("get_trace", People, "none", {})
ListNeedsReview == Read("list_needs_review", People, "none", {"match", "entity", "program"})
ListLeads == Read("list_leads", People, "none", {"program", "category"})
GetUsage == Read("get_usage", People, "none", {})

(* One Supplier's ids; without the two last, no Shortlist can be cited.     *)
BriefWithoutPair == {"match", "entity", "criterion_value"}                          \* fault
BriefFor == {"match", "entity", "criterion_value", "program", "category"}
GetAssessmentBrief == Read("get_assessment_brief", {"job"}, "none", BriefFor)
GetRecommendationBrief == Read("get_recommendation_brief", {"job"}, "none", BriefFor)

FindSupplierByName == Read("find_supplier_by_name", T!FindSupplierByName.surfaces, "none", {})

PageReads == {GetProgram, GetCategory, GetSupplier, GetSupplierNetwork, GetEntity, GetRecord}
OtherReads == {GetShortlist, CompareSuppliers, GetTrace, ListNeedsReview, ListLeads, GetUsage,
               GetAssessmentBrief, GetRecommendationBrief}

----------------------------------------------------------------------------
(* The rungs of the Match loop, and the raw lookups.  Every one of them     *)
(* goes out; those chat is offered carry a gate that says what it costs.    *)

Rung(name, source) ==
    DefineTool(Declared(name, "read", "read", TRUE, FALSE, {"job"}, FALSE), Does("none", {source}, {}, {}, "none"))

FindCandidatesByNameTown == Rung("find_candidates_by_name_town", "sayari")
FindCandidatesByAddress == Rung("find_candidates_by_address", "sayari")
FindLeiByName == Rung("find_lei_by_name", "external")
JoinLei == Rung("join_lei", "external")
MatchRungTools == {FindCandidatesByNameTown, FindCandidatesByAddress, FindLeiByName, JoinLei}

Gated(name, source, surfaces, stores, hands) ==
    DefineTool(Declared(name, "read", "read", TRUE, FALSE, surfaces, TRUE), Does("none", {source}, stores, hands, "none"))
Slow(name) ==
    DefineTool(Declared(name, "read", "read", TRUE, TRUE, {"job", "mcp"}, FALSE), Does("none", {"sayari"}, {}, {}, "none"))

SayariResolve == Gated("sayari_resolve", "sayari", People, {}, {})
SayariSearchEntity == Gated("sayari_search_entity", "sayari", People, {}, {})
SayariGetEntity == Gated("sayari_get_entity", "sayari", Everywhere, {}, {})

(* The one lookup that stores what it read, under the id it was asked for:  *)
(* a record has no row until it is fetched here.                            *)
FreeRecord ==                                                                       \* fault
    DefineTool(Declared("sayari_get_record", "read", "read", FALSE, FALSE, Everywhere, FALSE),
               Does("none", {"sayari"}, {"record"}, {"record"}, "none"))
SayariGetRecord == Gated("sayari_get_record", "sayari", Everywhere, {"record"}, {"record"})

SayariOwnership == Slow("sayari_ownership")
SayariWatchlist == Slow("sayari_watchlist")
SayariShortestPath == Slow("sayari_shortest_path")
SayariSearchBuyers == Slow("sayari_search_buyers")
SayariSearchShipments == Slow("sayari_search_shipments")
SayariUpstream == Slow("sayari_upstream")
SayariNegativeNews == Slow("sayari_negative_news")
SayariTradeSearch == Slow("sayari_trade_search")

GleifJoinLei == Gated("gleif_join_lei", "external", People, {}, {})
GleifSearchName == Gated("gleif_search_name", "external", People, {}, {})
WorldbankIndicator == Gated("worldbank_indicator", "external", People, {}, {})
UsitcTariff == Gated("usitc_tariff", "external", People, {}, {})
NominatimGeocode == Gated("nominatim_geocode", "external", People, {}, {})

RawLookups ==
    {SayariResolve, SayariSearchEntity, SayariGetEntity, SayariGetRecord, SayariOwnership, SayariWatchlist,
     SayariShortestPath, SayariNegativeNews, SayariTradeSearch, SayariSearchBuyers, SayariSearchShipments,
     SayariUpstream, GleifJoinLei, GleifSearchName, WorldbankIndicator, UsitcTariff, NominatimGeocode}

----------------------------------------------------------------------------
(* The agents' writes: a handler hands its input back, and the Job that     *)
(* reads the call does the writing.                                         *)

Submit(name) ==
    DefineTool(Declared(name, "submit", "write", FALSE, FALSE, {"job"}, FALSE), Does("none", {}, {}, {}, "none"))

SubmitMatchProposal == Submit("submit_match_proposal")
SubmitMatchVerdict == Submit("submit_match_verdict")
SubmitAssessment == Submit("submit_assessment")
SubmitRecommendation == Submit("submit_recommendation")
SubmitEvaluation == Submit("submit_evaluation")
SubmitLeadClassification == Submit("submit_lead_classification")
SubmitDossier ==
    DefineTool(Declared("submit_dossier", "submit_dossier", "write", FALSE, FALSE, {"mcp"}, FALSE),
               Does("none", {}, {}, {}, "none"))
AgentWrites ==
    {SubmitMatchProposal, SubmitMatchVerdict, SubmitAssessment, SubmitRecommendation, SubmitEvaluation,
     SubmitLeadClassification, SubmitDossier}

(* The Job starts of Tools, and the one that spends nothing itself.         *)
Start(name, t) ==
    DefineTool(Declared(name, t.family, t.effect, t.spends, t.slow, t.surfaces, t.confirm),
               Does(IF t.supplier THEN "supplier" ELSE "none", {}, {"run", "job"}, {}, t.kind))
EnqueueMatchSettlement ==
    DefineTool(Declared("enqueue_match_settlement", "enqueue", "write", FALSE, FALSE, {"chat"}, TRUE),
               Does("supplier", {}, {"run", "job"}, {}, "resolve"))
JobStarts ==
    {Start("enqueue_enrichment", T!EnqueueEnrichment(FALSE)), Start("enqueue_reassess", T!EnqueueReassess),
     Start("enqueue_rerun_recommendation", T!EnqueueRerunRecommendation),
     Start("enqueue_deep_traversal", T!EnqueueDeepTraversal(4)), Start("enqueue_discover", T!EnqueueDiscover),
     Start("enqueue_check_every_pair", T!EnqueueCheckEveryPair(3)), Start("enqueue_trade", T!EnqueueTrade),
     Start("enqueue_dossier", T!EnqueueDossier), EnqueueMatchSettlement}

NavigateTo ==
    DefineTool(Declared("navigate_to", "navigate", "client", FALSE, FALSE, T!NavigateTo.surfaces, FALSE),
               Does("none", {}, {}, {}, "none"))

AllTools ==
    PageReads \cup OtherReads \cup MatchRungTools \cup RawLookups \cup AgentWrites \cup JobStarts
    \cup {NavigateTo, FindSupplierByName}

Named(names) == {t \in AllTools : t.name \in names}

----------------------------------------------------------------------------
(* The lists.                                                               *)

Loops == {"assess", "recommend"}
Roles == {"proposer", "evaluator"}

NarrativeReads(loop) ==
    IF loop = "assess"
    THEN {"get_supplier", "get_supplier_network", "get_assessment_brief", "get_entity"}
    ELSE {"get_shortlist", "get_supplier", "get_supplier_network", "get_recommendation_brief", "get_category"}

NarrativeWrites(loop, role) ==
    CASE role = "evaluator" -> {"submit_evaluation"}
      [] role = "proposer" /\ loop = "assess" -> {"submit_assessment"}
      [] OTHER -> {"submit_recommendation"}

NarrativeProfile(loop, role) == NarrativeReads(loop) \cup NarrativeWrites(loop, role)
ForNarrativeRole(loop, role) == Named(NarrativeProfile(loop, role))

(* The second rungs are not on the table in Round 1.                        *)
MatchRungsByRound(n) ==
    CASE n = 1 -> {"find_candidates_by_name_town"}
      [] n \in {2, 3} -> {"find_candidates_by_address", "find_lei_by_name", "join_lei"}
      [] OTHER -> {}
MatchCommonTools ==
    {"get_supplier", "sayari_get_entity", "sayari_get_record", "submit_match_proposal", "submit_match_verdict"}
ForMatchRound(n) == Named(MatchRungsByRound(n) \cup MatchCommonTools)

DossierProfile ==
    {"get_supplier", "sayari_get_entity", "sayari_get_record", "sayari_ownership", "sayari_watchlist",
     "sayari_negative_news", "submit_dossier"}
ForSurface(surface) == {t \in AllTools : surface \in t.surfaces}

(* What boot looks at in the lists: that every name is there, that the      *)
(* Dossier's are offered over MCP, and who holds the evaluation.            *)
Present(names) == names \subseteq {t.name : t \in AllTools}
CheckDossierProfile == Present(DossierProfile) /\ \A t \in Named(DossierProfile) : "mcp" \in t.surfaces
CheckRoundRungs == Present(MatchCommonTools \cup UNION {MatchRungsByRound(n) : n \in 1..3})
CheckNarrativeProfiles ==
    LET holders == {h \in Loops \X Roles : "submit_evaluation" \in NarrativeProfile(h[1], h[2])} IN
    /\ \A loop \in Loops, role \in Roles : Present(NarrativeProfile(loop, role))
    /\ "submit_evaluation" \notin DossierProfile \cup MatchCommonTools \cup UNION {MatchRungsByRound(n) : n \in 1..3}
    /\ holders = Loops \X {"evaluator"}
Boots ==
    /\ \A t \in AllTools : T!Legal(t)
    /\ CheckDossierProfile /\ CheckRoundRungs /\ CheckNarrativeProfiles

(* Named at boot and not refused: a Job kind that no worker runs.           *)
KindsOfThePipeline == {"resolve", "enrich", "fetch_entity", "assess", "recommend", "discover"}    \* fault
RunnableJobKinds == {"resolve", "enrich", "fetch_entity", "assess", "recommend", "discover", "traverse", "trade", "pairs"}
EnqueueKindWarnings == {t.name : t \in {s \in AllTools : s.starts \notin RunnableJobKinds \cup {"none"}}}

----------------------------------------------------------------------------
(* What a submission may say.                                               *)

FirstOf(indices) == CHOOSE i \in indices : \A j \in indices : i <= j

CitationGroups == {"entity", "record", "enrichment", "criterion_value", "match", "shortlist"}

(* The table's constraint; the schema's is weaker by the citation of        *)
(* nothing, which resolves to no row.                                       *)
OneTargetGroup(groups) == Cardinality(groups) = 1
AnyTargets(groups) == TRUE                                                          \* fault
CitationTarget(groups) == Cardinality(groups) <= 1

(* The first group named is the one that is looked up.                      *)
LookupOrder == <<"entity", "record", "enrichment", "criterion_value", "match", "shortlist">>
ResolvesTo(groups) ==
    LET named == {i \in DOMAIN LookupOrder : LookupOrder[i] \in groups} IN
    IF named = {} THEN "none" ELSE LookupOrder[FirstOf(named)]

(* The sections a sentence may be filed under, and those a row may have:    *)
(* nobody submits a dissent.                                                *)
SentenceSections ==
    {"identity", "compliance", "network", "country", "tariff", "media", "limits",
     "headline", "rationale", "conditions", "open_questions", "dissent"}
CitedSentence(section, cites) ==
    section \in SentenceSections \ {"dissent"} /\ cites # {} /\ \A c \in cites : CitationTarget(c)

----------------------------------------------------------------------------
(* The ranking chat is answered from: the vector it was asked for, else the *)
(* rail the person looks at, else the Program's own.                        *)

ProgramDefaultOnly(asked, rail, programDefault) == Score!NormaliseWeights(asked, programDefault)    \* fault
ShortlistWeights(asked, rail, programDefault) ==
    Score!NormaliseWeights(IF asked # <<>> THEN asked ELSE Score!ParseViewState(rail, programDefault), programDefault)
ShortlistIsWhatIf(asked, rail, programDefault) ==
    asked # <<>> \/ Score!IsWhatIf(Score!ParseViewState(rail, programDefault), programDefault)

(* A Network as the model is shown it: a group to each kind of Path, in the *)
(* order they are stored, under the enrichment that found the first one,    *)
(* whose own Paths are what the group says was explored.  A path is [kind,  *)
(* enrichment, reachable, to, chain], an edge of its chain [record]; a      *)
(* group is the set of its places in the list of paths.                     *)
NetworkPathKinds == {"family", "watchlist", "shortest_path", "deep_traversal", "supply_chain"}

(* A member is cited to the record of the last edge of its chain.           *)
ProjectFamilyMembers(paths, group) ==
    {[entity |-> paths[i].to, enrichment |-> paths[i].enrichment,
      record |-> IF paths[i].chain = <<>> THEN "none" ELSE Last(paths[i].chain).record] : i \in group}

WholeGroup(paths, group) == group                                                   \* fault
OwnPaths(paths, group) == {i \in group : paths[i].enrichment = paths[FirstOf(group)].enrichment}
ProjectNetworkGroup(paths, group) ==
    [enrichment |-> IF group = {} THEN "none" ELSE paths[FirstOf(group)].enrichment,
     explored |-> Cardinality(OwnPaths(paths, group)),
     reachable |-> Max({0} \cup {paths[i].reachable : i \in OwnPaths(paths, group)}),
     members |-> ProjectFamilyMembers(paths, group)]
SupplierNetwork(paths) ==
    [k \in NetworkPathKinds |-> ProjectNetworkGroup(paths, {i \in DOMAIN paths : paths[i].kind = k})]
=============================================================================
