----------------------------- MODULE RulesProofs -----------------------------
(***************************************************************************)
(* Proofs about Rules, for every constant that meets its assumptions: the  *)
(* Inputs may be any sets of tools, loops, citations, Paths, versions,     *)
(* stored rows and links.  The one step asks one question, so the          *)
(* invariant (Typed) only says that what was asked is an input; the work   *)
(* is in the rules.  A list of the code is a fold: FoldExists gives the    *)
(* fold that FoldLeft chooses, whose state after k elements is its step of *)
(* the state after k - 1 (DiffRun, StoredRowIs), and AllNumbers carries a  *)
(* claim along it.  The last part is what OneRanking needs of rows and     *)
(* links: the row a page reads is the one its Job scored, and a link       *)
(* carries the weights it was made of (LinkIsRead).                        *)
(***************************************************************************)
EXTENDS Rules, FiniteSetTheorems, FunctionTheorems, WellFoundedInduction, SequenceTheorems, TLAPS

-----------------------------------------------------------------------------
(* Numbers.                                                                *)

\* A set of naturals that is not empty has a least element.
LEMMA LeastNumber ==
    ASSUME NEW T, T \subseteq Nat, T # {}
    PROVE  \E n \in T : \A m \in T : n <= m
<1> DEFINE R == OpToRel(<, Nat)
<1>1. IsWellFoundedOn(R, Nat)
  BY NatLessThanWellFounded
<1>2. \E n \in T : \A m \in T : ~(<<m, n>> \in R)
  <2> HIDE DEF R
  <2> QED BY <1>1, WFMin
<1>3. ASSUME NEW m \in Nat, NEW n \in Nat, m < n PROVE <<m, n>> \in R
  BY <1>3 DEF OpToRel
<1> HIDE DEF R
<1>4. PICK n \in T : \A m \in T : ~(<<m, n>> \in R)
  BY <1>2
<1>5. ASSUME NEW m \in T PROVE n <= m
  <2>1. m \in Nat /\ n \in Nat
    BY SMT
  <2>2. ~(m < n)
    BY <1>3, <1>4, <2>1
  <2> QED BY <2>1, <2>2, SMT
<1> QED BY <1>4, <1>5

\* What holds of 0 and of the next number of each holds of every number.
LEMMA AllNumbers ==
    ASSUME NEW T, 0 \in T, \A n \in Nat : n \in T => n + 1 \in T
    PROVE  Nat \subseteq T
<1> SUFFICES ASSUME NEW k \in Nat, k \notin T PROVE FALSE
  OBVIOUS
<1> DEFINE missing == {n \in Nat : n \notin T}
<1>1. PICK n \in missing : \A m \in missing : n <= m
  <2>1. missing \subseteq Nat /\ missing # {}
    OBVIOUS
  <2> HIDE DEF missing
  <2> QED BY <2>1, LeastNumber
<1>2. n # 0 /\ n - 1 \in Nat /\ n - 1 \notin missing
  BY <1>1, SMT
<1>3. n - 1 \in T /\ (n - 1) + 1 \in T
  BY <1>2, SMT
<1>4. (n - 1) + 1 = n
  BY <1>1, SMT
<1> QED BY <1>1, <1>3, <1>4

\* Max of a set of numbers up to n is in it and bounds it.
LEMMA MaxOf ==
    ASSUME NEW n \in Nat, NEW s \in SUBSET (1..n), s # {}
    PROVE  Max(s) \in s /\ \A m \in s : m <= Max(s)
<1> DEFINE gaps == {n - m : m \in s}
<1>1. gaps \subseteq Nat /\ gaps # {}
  <2>1. PICK m \in s : TRUE
    OBVIOUS
  <2>2. n - m \in gaps
    BY <2>1
  <2>3. ASSUME NEW h \in gaps PROVE h \in Nat
    BY <2>3, SMT
  <2> QED BY <2>2, <2>3
<1>2. PICK g \in gaps : \A h \in gaps : g <= h
  <2> HIDE DEF gaps
  <2> QED BY <1>1, LeastNumber
<1>3. PICK top \in s : g = n - top
  BY <1>2
<1>4. ASSUME NEW m \in s PROVE top >= m
  <2>1. n - m \in gaps
    OBVIOUS
  <2> QED BY <1>2, <1>3, <2>1, SMT
<1>5. \E a \in s : \A m \in s : a >= m
  BY <1>4
<1>6. Max(s) \in s /\ \A m \in s : Max(s) >= m
  BY <1>5, Zenon DEF Max
<1> QED BY <1>6, SMT

-----------------------------------------------------------------------------
(* What is asked; the table of the tools.                                  *)

Typed == case = Start \/ \E area \in DOMAIN Inputs : \E input \in Inputs[area] : case = [area |-> area, in |-> input]

\* A state asks nothing yet, or one area about one of its Inputs.
LEMMA TypedInductive == Spec => []Typed
<1>1. Init => Typed
  BY DEF Init, Typed
<1>2. Typed /\ [Next]_case => Typed'
  BY DEF Typed, Next, Ask
<1> QED BY <1>1, <1>2, PTL DEF Spec

\* What was asked is an input of the area it was asked of.
LEMMA AskedInput ==
    ASSUME Typed, NEW area, Asked(area), area # "none"
    PROVE  area \in DOMAIN Inputs /\ x \in Inputs[area]
BY DEF Typed, Asked, x, Start

(* One row of the table. *)
Lists(t, name, surfaces, starts) ==
    /\ t.name = name /\ t.surfaces = surfaces /\ t.starts = starts
    /\ Cat!T!Legal(t)
    /\ "chat" \in surfaces /\ (t.calls \cup t.stores # {} \/ starts # "none") => t.confirm

\* A read for everybody: no confirmation to ask for (reads.ts).
LEMMA ReadIsListed ==
    ASSUME NEW name, NEW surfaces, NEW needs, NEW hands
    PROVE  Lists(Cat!Read(name, surfaces, needs, hands), name, surfaces, "none")
BY DEF Lists, Cat!T!Legal, Cat!Read, Cat!DefineTool, Cat!Declared, Cat!Does

\* A rung of the match ladder: a tool of a Job only (lookups.ts).
LEMMA RungIsListed ==
    ASSUME NEW name, NEW source
    PROVE  Lists(Cat!Rung(name, source), name, {"job"}, "none")
BY DEF Lists, Cat!T!Legal, Cat!Rung, Cat!DefineTool, Cat!Declared, Cat!Does

\* A look-up that chat must confirm (lookups.ts).
LEMMA GatedIsListed ==
    ASSUME NEW name, NEW source, NEW surfaces, "chat" \in surfaces, NEW stores, NEW hands
    PROVE  Lists(Cat!Gated(name, source, surfaces, stores, hands), name, surfaces, "none")
BY DEF Lists, Cat!T!Legal, Cat!Gated, Cat!DefineTool, Cat!Declared, Cat!Does

\* A look-up too slow for chat (lookups.ts).
LEMMA SlowIsListed ==
    ASSUME NEW name
    PROVE  Lists(Cat!Slow(name), name, {"job", "mcp"}, "none")
BY DEF Lists, Cat!T!Legal, Cat!Slow, Cat!DefineTool, Cat!Declared, Cat!Does

\* What a Job submits (writes.ts).
LEMMA SubmitIsListed ==
    ASSUME NEW name
    PROVE  Lists(Cat!Submit(name), name, {"job"}, "none")
BY Zenon DEF Lists, Cat!T!Legal, Cat!Submit, Cat!DefineTool, Cat!Declared, Cat!Does

\* What starts a Job is offered in chat alone, confirmed (enqueues.ts).
LEMMA StartIsListed ==
    ASSUME NEW name, NEW kind, NEW trigger, NEW supplier, NEW calls
    PROVE  Lists(Cat!Start(name, Cat!T!JobStart(kind, trigger, supplier, calls)), name, {"chat"}, kind)
BY ZenonT(30) DEF Lists, Cat!T!Legal, Cat!Start, Cat!T!JobStart, Cat!DefineTool, Cat!Declared, Cat!Does

\* The reads a Job may cite from, by name (reads.ts).
LEMMA PageReadsListed ==
    /\ Lists(Cat!GetProgram, "get_program", Cat!Everywhere, "none")
    /\ Lists(Cat!GetCategory, "get_category", Cat!Everywhere, "none")
    /\ Lists(Cat!GetSupplier, "get_supplier", Cat!Everywhere, "none")
    /\ Lists(Cat!GetSupplierNetwork, "get_supplier_network", Cat!Everywhere, "none")
    /\ Lists(Cat!GetEntity, "get_entity", Cat!Everywhere, "none")
    /\ Lists(Cat!GetRecord, "get_record", Cat!Everywhere, "none")
BY ReadIsListed, Zenon DEF Cat!GetProgram, Cat!GetCategory, Cat!GetSupplier, Cat!GetSupplierNetwork, Cat!GetEntity, Cat!GetRecord

\* The other reads, by name (reads.ts, lookups.ts).
LEMMA OtherReadsListed ==
    /\ Lists(Cat!GetShortlist, "get_shortlist", Cat!Everywhere, "none")
    /\ Lists(Cat!CompareSuppliers, "compare_suppliers", Cat!People, "none")
    /\ Lists(Cat!GetTrace, "get_trace", Cat!People, "none")
    /\ Lists(Cat!ListNeedsReview, "list_needs_review", Cat!People, "none")
    /\ Lists(Cat!ListLeads, "list_leads", Cat!People, "none")
    /\ Lists(Cat!GetUsage, "get_usage", Cat!People, "none")
    /\ Lists(Cat!GetAssessmentBrief, "get_assessment_brief", {"job"}, "none")
    /\ Lists(Cat!GetRecommendationBrief, "get_recommendation_brief", {"job"}, "none")
    /\ Lists(Cat!FindSupplierByName, "find_supplier_by_name", Cat!T!FindSupplierByName.surfaces, "none")
BY ReadIsListed, Zenon DEF Cat!GetShortlist, Cat!CompareSuppliers, Cat!GetTrace, Cat!ListNeedsReview, Cat!ListLeads,
   Cat!GetUsage, Cat!GetAssessmentBrief, Cat!GetRecommendationBrief, Cat!FindSupplierByName

\* The rungs, by name (lookups.ts).
LEMMA RungsListed ==
    /\ Lists(Cat!FindCandidatesByNameTown, "find_candidates_by_name_town", {"job"}, "none")
    /\ Lists(Cat!FindCandidatesByAddress, "find_candidates_by_address", {"job"}, "none")
    /\ Lists(Cat!FindLeiByName, "find_lei_by_name", {"job"}, "none")
    /\ Lists(Cat!JoinLei, "join_lei", {"job"}, "none")
BY RungIsListed, Zenon DEF Cat!FindCandidatesByNameTown, Cat!FindCandidatesByAddress, Cat!FindLeiByName, Cat!JoinLei

\* The confirmed look-ups, by name (lookups.ts).
LEMMA GatedListed ==
    /\ Lists(Cat!SayariResolve, "sayari_resolve", Cat!People, "none")
    /\ Lists(Cat!SayariSearchEntity, "sayari_search_entity", Cat!People, "none")
    /\ Lists(Cat!SayariGetEntity, "sayari_get_entity", Cat!Everywhere, "none")
    /\ Lists(Cat!SayariGetRecord, "sayari_get_record", Cat!Everywhere, "none")
    /\ Lists(Cat!GleifJoinLei, "gleif_join_lei", Cat!People, "none")
    /\ Lists(Cat!GleifSearchName, "gleif_search_name", Cat!People, "none")
    /\ Lists(Cat!WorldbankIndicator, "worldbank_indicator", Cat!People, "none")
    /\ Lists(Cat!UsitcTariff, "usitc_tariff", Cat!People, "none")
    /\ Lists(Cat!NominatimGeocode, "nominatim_geocode", Cat!People, "none")
<1>1. "chat" \in Cat!People /\ "chat" \in Cat!Everywhere
  BY DEF Cat!People, Cat!Everywhere
<1> QED
  BY <1>1, GatedIsListed, Zenon DEF Cat!SayariResolve, Cat!SayariSearchEntity, Cat!SayariGetEntity, Cat!SayariGetRecord,
     Cat!GleifJoinLei, Cat!GleifSearchName, Cat!WorldbankIndicator, Cat!UsitcTariff, Cat!NominatimGeocode

\* The slow look-ups, by name (lookups.ts).
LEMMA SlowListed ==
    /\ Lists(Cat!SayariOwnership, "sayari_ownership", {"job", "mcp"}, "none")
    /\ Lists(Cat!SayariWatchlist, "sayari_watchlist", {"job", "mcp"}, "none")
    /\ Lists(Cat!SayariShortestPath, "sayari_shortest_path", {"job", "mcp"}, "none")
    /\ Lists(Cat!SayariSearchBuyers, "sayari_search_buyers", {"job", "mcp"}, "none")
    /\ Lists(Cat!SayariSearchShipments, "sayari_search_shipments", {"job", "mcp"}, "none")
    /\ Lists(Cat!SayariUpstream, "sayari_upstream", {"job", "mcp"}, "none")
    /\ Lists(Cat!SayariNegativeNews, "sayari_negative_news", {"job", "mcp"}, "none")
    /\ Lists(Cat!SayariTradeSearch, "sayari_trade_search", {"job", "mcp"}, "none")
BY SlowIsListed, Zenon DEF Cat!SayariOwnership, Cat!SayariWatchlist, Cat!SayariShortestPath, Cat!SayariSearchBuyers,
   Cat!SayariSearchShipments, Cat!SayariUpstream, Cat!SayariNegativeNews, Cat!SayariTradeSearch

\* The submissions, by name (writes.ts).
LEMMA WritesListed ==
    /\ Lists(Cat!SubmitMatchProposal, "submit_match_proposal", {"job"}, "none")
    /\ Lists(Cat!SubmitMatchVerdict, "submit_match_verdict", {"job"}, "none")
    /\ Lists(Cat!SubmitAssessment, "submit_assessment", {"job"}, "none")
    /\ Lists(Cat!SubmitRecommendation, "submit_recommendation", {"job"}, "none")
    /\ Lists(Cat!SubmitEvaluation, "submit_evaluation", {"job"}, "none")
    /\ Lists(Cat!SubmitLeadClassification, "submit_lead_classification", {"job"}, "none")
    /\ Lists(Cat!SubmitDossier, "submit_dossier", {"mcp"}, "none")
<1>1. Lists(Cat!SubmitDossier, "submit_dossier", {"mcp"}, "none")
  BY DEF Lists, Cat!T!Legal, Cat!SubmitDossier, Cat!DefineTool, Cat!Declared, Cat!Does
<1> QED
  BY <1>1, SubmitIsListed, Zenon DEF Cat!SubmitMatchProposal, Cat!SubmitMatchVerdict, Cat!SubmitAssessment,
     Cat!SubmitRecommendation, Cat!SubmitEvaluation, Cat!SubmitLeadClassification

StartNames ==
    {"enqueue_enrichment", "enqueue_reassess", "enqueue_rerun_recommendation", "enqueue_deep_traversal",
     "enqueue_discover", "enqueue_check_every_pair", "enqueue_trade", "enqueue_dossier", "enqueue_match_settlement"}

\* The starts, by name; all but the dossier are of a kind the worker runs
\* (enqueues.ts, config/constants.ts).
LEMMA JobStartsListed ==
    \A t \in Cat!JobStarts : t.name \in StartNames /\
        \E kind \in Cat!RunnableJobKinds \cup {"dossier"} :
            Lists(t, t.name, {"chat"}, kind) /\ (kind = "dossier" => t.name = "enqueue_dossier")
<1>1. Lists(Cat!EnqueueMatchSettlement, "enqueue_match_settlement", {"chat"}, "resolve")
  BY DEF Lists, Cat!T!Legal, Cat!EnqueueMatchSettlement, Cat!DefineTool, Cat!Declared, Cat!Does
<1>2. /\ Lists(Cat!Start("enqueue_enrichment", Cat!T!EnqueueEnrichment(FALSE)), "enqueue_enrichment", {"chat"}, "enrich")
      /\ Lists(Cat!Start("enqueue_reassess", Cat!T!EnqueueReassess), "enqueue_reassess", {"chat"}, "assess")
      /\ Lists(Cat!Start("enqueue_rerun_recommendation", Cat!T!EnqueueRerunRecommendation),
               "enqueue_rerun_recommendation", {"chat"}, "recommend")
      /\ Lists(Cat!Start("enqueue_deep_traversal", Cat!T!EnqueueDeepTraversal(4)),
               "enqueue_deep_traversal", {"chat"}, "traverse")
      /\ Lists(Cat!Start("enqueue_discover", Cat!T!EnqueueDiscover), "enqueue_discover", {"chat"}, "discover")
      /\ Lists(Cat!Start("enqueue_check_every_pair", Cat!T!EnqueueCheckEveryPair(3)),
               "enqueue_check_every_pair", {"chat"}, "pairs")
      /\ Lists(Cat!Start("enqueue_trade", Cat!T!EnqueueTrade), "enqueue_trade", {"chat"}, "trade")
      /\ Lists(Cat!Start("enqueue_dossier", Cat!T!EnqueueDossier), "enqueue_dossier", {"chat"}, "dossier")
  BY StartIsListed, Zenon DEF Cat!T!EnqueueEnrichment, Cat!T!EnqueueReassess, Cat!T!EnqueueRerunRecommendation,
     Cat!T!EnqueueDeepTraversal, Cat!T!EnqueueDiscover, Cat!T!EnqueueCheckEveryPair, Cat!T!EnqueueTrade, Cat!T!EnqueueDossier
<1>3. {"resolve", "enrich", "assess", "recommend", "traverse", "discover", "pairs", "trade", "dossier"}
        \subseteq Cat!RunnableJobKinds \cup {"dossier"}
  BY DEF Cat!RunnableJobKinds
<1>4. \A t, name, surfaces, kind : Lists(t, name, surfaces, kind) => t.name = name
  BY DEF Lists
<1>5. ASSUME NEW t \in Cat!JobStarts, NEW name \in StartNames, NEW kind \in Cat!RunnableJobKinds \cup {"dossier"},
             Lists(t, name, {"chat"}, kind), kind = "dossier" => name = "enqueue_dossier"
      PROVE  t.name \in StartNames /\
                 \E k \in Cat!RunnableJobKinds \cup {"dossier"} :
                     Lists(t, t.name, {"chat"}, k) /\ (k = "dossier" => t.name = "enqueue_dossier")
  BY <1>4, <1>5
<1>6. ASSUME NEW t \in Cat!JobStarts
      PROVE  \E name \in StartNames, kind \in Cat!RunnableJobKinds \cup {"dossier"} :
                 Lists(t, name, {"chat"}, kind) /\ (kind = "dossier" => name = "enqueue_dossier")
  <2>1. /\ Lists(t, "enqueue_enrichment", {"chat"}, "enrich") \/ Lists(t, "enqueue_reassess", {"chat"}, "assess")
           \/ Lists(t, "enqueue_rerun_recommendation", {"chat"}, "recommend")
           \/ Lists(t, "enqueue_deep_traversal", {"chat"}, "traverse") \/ Lists(t, "enqueue_discover", {"chat"}, "discover")
           \/ Lists(t, "enqueue_check_every_pair", {"chat"}, "pairs") \/ Lists(t, "enqueue_trade", {"chat"}, "trade")
           \/ Lists(t, "enqueue_dossier", {"chat"}, "dossier")
           \/ Lists(t, "enqueue_match_settlement", {"chat"}, "resolve")
    BY <1>1, <1>2, Zenon DEF Cat!JobStarts
  <2> QED BY <1>3, <2>1 DEF StartNames
<1> QED BY <1>5, <1>6

-----------------------------------------------------------------------------
(* The tools of a loop.                                                    *)

\* The one tool the browser runs (registry.ts).
LEMMA NavigateListed == Lists(Cat!NavigateTo, "navigate_to", {"chat"}, "none")
BY DEF Lists, Cat!T!Legal, Cat!NavigateTo, Cat!T!NavigateTo, Cat!DefineTool, Cat!Declared, Cat!Does

(* Every tool is a row of the table. *)
JobNames ==
    {"get_supplier", "get_supplier_network", "get_assessment_brief", "get_entity", "get_shortlist",
     "get_recommendation_brief", "get_category", "submit_evaluation", "submit_assessment", "submit_recommendation",
     "find_candidates_by_name_town", "find_candidates_by_address", "find_lei_by_name", "join_lei",
     "sayari_get_entity", "sayari_get_record", "submit_match_proposal", "submit_match_verdict"}
Fits(t) ==
    /\ t.name \in JobNames => "job" \in t.surfaces
    /\ t.name \in Cat!DossierProfile => "mcp" \in t.surfaces
    /\ Cat!T!Legal(t)
    /\ "chat" \in t.surfaces /\ (t.calls \cup t.stores # {} \/ t.starts # "none") => t.confirm
    /\ t.starts \in Cat!RunnableJobKinds \cup {"none"} \/ (t.starts = "dossier" /\ t.name = "enqueue_dossier")

\* Every tool of the registry is listed on its surfaces, asks before it
\* spends, and starts what is worked (registry.ts).
LEMMA EveryToolFits == \A t \in Cat!AllTools : Fits(t)
<1>1. \A t \in Cat!PageReads : Fits(t)
  BY PageReadsListed DEF Cat!PageReads, Lists, Fits, JobNames, Cat!DossierProfile, Cat!Everywhere
<1>2. \A t \in Cat!OtherReads \cup {Cat!FindSupplierByName} : Fits(t)
  BY OtherReadsListed DEF Cat!OtherReads, Lists, Fits, JobNames, Cat!DossierProfile, Cat!Everywhere, Cat!People
<1>3. \A t \in Cat!MatchRungTools : Fits(t)
  BY RungsListed DEF Cat!MatchRungTools, Lists, Fits, JobNames, Cat!DossierProfile
<1>4. \A t \in Cat!RawLookups : Fits(t)
  BY GatedListed, SlowListed DEF Cat!RawLookups, Lists, Fits, JobNames, Cat!DossierProfile, Cat!Everywhere, Cat!People
<1>5. \A t \in Cat!AgentWrites : Fits(t)
  BY WritesListed DEF Cat!AgentWrites, Lists, Fits, JobNames, Cat!DossierProfile
<1>6. \A t \in Cat!JobStarts : Fits(t)
  <2>1. ASSUME NEW t \in Cat!JobStarts PROVE t.name \notin JobNames \cup Cat!DossierProfile
    BY JobStartsListed, <2>1 DEF StartNames, JobNames, Cat!DossierProfile
  <2> QED BY <2>1, JobStartsListed DEF Lists, Fits
<1>7. Fits(Cat!NavigateTo)
  BY NavigateListed DEF Lists, Fits, JobNames, Cat!DossierProfile
<1> QED BY <1>1, <1>2, <1>3, <1>4, <1>5, <1>6, <1>7, Zenon DEF Cat!AllTools

\* Every name a loop is given is that of a tool of the registry that a Job
\* may hold (registry.ts).
LEMMA EveryNameIsATool == Cat!Present(JobNames \cup Cat!DossierProfile)
<1> DEFINE names == {t.name : t \in Cat!AllTools}
<1>1. \A t \in Cat!PageReads \cup Cat!OtherReads \cup Cat!MatchRungTools \cup Cat!RawLookups \cup Cat!AgentWrites : t.name \in names
  BY DEF Cat!AllTools
<1> HIDE DEF names
<1>2. {"get_category", "get_supplier", "get_supplier_network", "get_entity"} \subseteq names
  BY <1>1, PageReadsListed DEF Lists, Cat!PageReads
<1>3. {"get_shortlist", "get_assessment_brief", "get_recommendation_brief"} \subseteq names
  BY <1>1, OtherReadsListed DEF Lists, Cat!OtherReads
<1>4. {"find_candidates_by_name_town", "find_candidates_by_address", "find_lei_by_name", "join_lei"} \subseteq names
  BY <1>1, RungsListed DEF Lists, Cat!MatchRungTools
<1>5. {"sayari_get_entity", "sayari_get_record"} \subseteq names
  BY <1>1, GatedListed DEF Lists, Cat!RawLookups
<1>6. {"sayari_ownership", "sayari_watchlist", "sayari_negative_news"} \subseteq names
  BY <1>1, SlowListed DEF Lists, Cat!RawLookups
<1>7. {"submit_evaluation", "submit_assessment", "submit_recommendation", "submit_match_proposal",
       "submit_match_verdict", "submit_dossier"} \subseteq names
  BY <1>1, WritesListed DEF Lists, Cat!AgentWrites
<1>8. JobNames \cup Cat!DossierProfile \subseteq names
  BY <1>2, <1>3, <1>4, <1>5, <1>6, <1>7 DEF JobNames, Cat!DossierProfile
<1> QED BY <1>8 DEF names, Cat!Present

\* So is every name of the profiles of the narrative roles (registry.ts).
LEMMA ProfilesAreJobNames ==
    /\ \A loop \in Cat!Loops, role \in Cat!Roles : Cat!NarrativeProfile(loop, role) \subseteq JobNames
    /\ \A n : Cat!MatchRungsByRound(n) \cup Cat!MatchCommonTools \subseteq JobNames
BY DEF Cat!Loops, Cat!Roles, Cat!NarrativeProfile, Cat!NarrativeReads, Cat!NarrativeWrites, JobNames,
   Cat!MatchRungsByRound, Cat!MatchCommonTools

\* The checks the registry makes at boot pass (registry.ts).
LEMMA BootsHolds == Cat!Boots
<1>1. \A t \in Cat!AllTools : Cat!T!Legal(t)
  BY EveryToolFits DEF Fits
<1>2. Cat!CheckDossierProfile
  BY EveryToolFits, EveryNameIsATool DEF Fits, Cat!CheckDossierProfile, Cat!Present, Cat!Named
<1>3. Cat!CheckRoundRungs
  BY EveryNameIsATool, ProfilesAreJobNames DEF Cat!CheckRoundRungs, Cat!Present
<1>4. Cat!CheckNarrativeProfiles
  <2>1. \A loop \in Cat!Loops, role \in Cat!Roles : Cat!Present(Cat!NarrativeProfile(loop, role))
    BY EveryNameIsATool, ProfilesAreJobNames DEF Cat!Present
  <2>2. "submit_evaluation" \notin Cat!DossierProfile \cup Cat!MatchCommonTools \cup UNION {Cat!MatchRungsByRound(n) : n \in 1..3}
    BY DEF Cat!DossierProfile, Cat!MatchCommonTools, Cat!MatchRungsByRound
  <2>3. {h \in Cat!Loops \X Cat!Roles : "submit_evaluation" \in Cat!NarrativeProfile(h[1], h[2])} = Cat!Loops \X {"evaluator"}
    BY DEF Cat!Loops, Cat!Roles, Cat!NarrativeProfile, Cat!NarrativeReads, Cat!NarrativeWrites
  <2> QED BY <2>1, <2>2, <2>3 DEF Cat!CheckNarrativeProfiles
<1> QED BY <1>1, <1>2, <1>3, <1>4 DEF Cat!Boots

\* SpendingIsAsked and EveryStartIsWorked, of every tool there is
\* (lookups.ts, enqueues.ts).
LEMMA SpendingIsAskedHolds == Typed => SpendingIsAsked /\ EveryStartIsWorked
<1> SUFFICES ASSUME Typed, Asked("tool") PROVE SpendingIsAsked /\ EveryStartIsWorked
  BY DEF SpendingIsAsked, EveryStartIsWorked
<1>1. x \in Cat!AllTools
  BY AskedInput, ToolInputs DEF Only
<1>2. Fits(x)
  BY <1>1, EveryToolFits
<1>3. SpendingIsAsked
  BY <1>2 DEF SpendingIsAsked, Fits, Cat!ForSurface
<1>4. EveryStartIsWorked
  BY <1>1, <1>2 DEF EveryStartIsWorked, Fits, Cat!EnqueueKindWarnings, Cat!RunnableJobKinds
<1> QED BY <1>3, <1>4

\* OfferedWhereDeclared: a loop holds only tools a Job may (registry.ts).
LEMMA OfferedWhereDeclaredHolds == Typed => OfferedWhereDeclared
<1> SUFFICES ASSUME Typed, Asked("loop") PROVE OfferedWhereDeclared
  BY DEF OfferedWhereDeclared
<1>1. /\ x.round = 0 => x.loop \in Cat!Loops /\ x.role \in Cat!Roles
      /\ x.round # 0 => x.round \in 1..3
  BY AskedInput, LoopInputs DEF Only
<1>2. ASSUME NEW t \in (IF x.round = 0 THEN Cat!ForNarrativeRole(x.loop, x.role) ELSE Cat!ForMatchRound(x.round))
      PROVE  "job" \in t.surfaces
  <2>1. t \in Cat!AllTools /\ t.name \in JobNames
    BY <1>1, <1>2, ProfilesAreJobNames DEF Cat!ForNarrativeRole, Cat!ForMatchRound, Cat!Named
  <2> QED BY <2>1, EveryToolFits DEF Fits
<1> QED BY <1>2, BootsHolds DEF OfferedWhereDeclared

\* CitationsCanBeMade: its tools hand out every id a sentence cites
\* (reads.ts, writes.ts).
LEMMA CitationsCanBeMadeHolds == Typed => CitationsCanBeMade
<1> SUFFICES ASSUME Typed, Asked("loop"), x.round = 0 PROVE CitationsCanBeMade
  BY DEF CitationsCanBeMade
<1> DEFINE held == Cat!ForNarrativeRole(x.loop, x.role)
<1>1. x.loop \in Cat!Loops /\ x.role \in Cat!Roles
  BY AskedInput, LoopInputs DEF Only
<1>2. Cat!GetSupplierNetwork \in held
  BY <1>1, PageReadsListed DEF Cat!ForNarrativeRole, Cat!Named, Cat!AllTools, Cat!PageReads, Lists,
     Cat!NarrativeProfile, Cat!NarrativeReads, Cat!Loops
<1>3. Cat!GetAssessmentBrief \in held \/ Cat!GetRecommendationBrief \in held
  BY <1>1, OtherReadsListed DEF Cat!ForNarrativeRole, Cat!Named, Cat!AllTools, Cat!OtherReads, Lists,
     Cat!NarrativeProfile, Cat!NarrativeReads, Cat!Loops
<1>4. /\ Cat!GetSupplierNetwork.hands = {"entity", "record", "enrichment"}
      /\ Cat!GetAssessmentBrief.hands = Cat!BriefFor
      /\ Cat!GetRecommendationBrief.hands = Cat!BriefFor
  BY DEF Cat!GetSupplierNetwork, Cat!GetAssessmentBrief, Cat!GetRecommendationBrief, Cat!Read, Cat!DefineTool,
     Cat!Declared, Cat!Does
<1> HIDE DEF held
<1>5. Cat!GetSupplierNetwork.hands \subseteq UNION {t.hands : t \in held}
  BY <1>2
<1>6. Cat!BriefFor \subseteq UNION {t.hands : t \in held}
  BY <1>3, <1>4
<1>7. {"entity", "match", "enrichment", "criterion_value", "program", "category"} \subseteq UNION {t.hands : t \in held}
  BY <1>4, <1>5, <1>6 DEF Cat!BriefFor
<1> QED BY <1>7 DEF CitationsCanBeMade, held

\* CitationsFitTheTable: what the schema admits has one target, whichever
\* groups it names (writes.ts, narrative.ts).
LEMMA CitationsFitTheTableHolds == Typed => CitationsFitTheTable
<1> SUFFICES ASSUME Typed, Asked("cite"), Cat!CitedSentence("identity", {x}), Cat!ResolvesTo(x) # "none"
             PROVE  Cat!OneTargetGroup(x)
  BY DEF CitationsFitTheTable
<1>1. x \subseteq Cat!CitationGroups
  BY AskedInput, CiteInputs DEF Only
<1>2. IsFiniteSet(x)
  <2>1. IsFiniteSet(Cat!CitationGroups)
    <3>1a. \A a, b : IsFiniteSet({a, b})
      <4> TAKE a, b
      <4>1. IsFiniteSet({a} \cup {b})
        BY FS_Singleton, FS_AddElement, Zenon
      <4>2. {a, b} = {a} \cup {b}
        OBVIOUS
      <4> QED BY <4>1, <4>2, Zenon
    <3>2. Cat!CitationGroups = {"entity", "record"} \cup {"enrichment", "criterion_value"} \cup {"match", "shortlist"}
      BY DEF Cat!CitationGroups
    <3> QED BY <3>1a, <3>2, FS_Union
  <2> QED BY <1>1, <2>1, FS_Subset
<1>3a. Cat!Cardinality(x) = Cardinality(x)
  BY DEF Cat!Cardinality, Cardinality
<1>3. Cardinality(x) <= 1 /\ Cardinality(x) \in Nat
  BY <1>2, <1>3a, FS_CardinalityType DEF Cat!CitedSentence, Cat!CitationTarget
<1>4. x # {}
  BY DEF Cat!ResolvesTo
<1>5. Cardinality(x) # 0
  BY <1>2, <1>4, FS_EmptySet
<1> QED BY <1>3, <1>3a, <1>5 DEF Cat!OneTargetGroup

-----------------------------------------------------------------------------
(* The envelope of a Network.                                              *)

\* EnvelopeIsBacked: however many rows there are and in whatever order
\* (reads.ts, publish.ts).
LEMMA EnvelopeIsBackedHolds == Typed => EnvelopeIsBacked
<1> DEFINE group == Cat!SupplierNetwork(x)["family"]
           family == {i \in DOMAIN x : x[i].kind = "family"}
           own == {i \in DOMAIN x : x[i].kind = "family" /\ x[i].enrichment = group.enrichment}
           reach == [i \in own |-> x[i].reachable]
           row(first) == Doc!WithFamilyCoverage({}, "sayari_ownership_family", reach, first)
<1> SUFFICES ASSUME Typed, Asked("envelope"), NEW first \in own
             PROVE  /\ \E c \in row(first) : c.n = 1000 * group.explored
                    /\ (\A i, j \in own : x[i].reachable = x[j].reachable)
                           => \E c \in row(first) : c.n = 1000 * group.reachable
  BY Zenon DEF EnvelopeIsBacked
<1>1. /\ DOMAIN x = 1..Len(x) /\ Len(x) \in Nat
      /\ \A i \in DOMAIN x : x[i].reachable \in Nat
  BY AskedInput, EnvelopeInputs DEF Only
<1>2. group = Cat!ProjectNetworkGroup(x, family)
  BY DEF Cat!SupplierNetwork, Cat!NetworkPathKinds
<1>3. family # {} /\ family \subseteq DOMAIN x
  OBVIOUS
<1>4. /\ group.enrichment = x[Cat!FirstOf(family)].enrichment
      /\ group.explored = Cat!Cardinality(Cat!OwnPaths(x, family))
      /\ group.reachable = Cat!Max({0} \cup {x[i].reachable : i \in Cat!OwnPaths(x, family)})
  BY <1>2, <1>3 DEF Cat!ProjectNetworkGroup
<1>5. Cat!OwnPaths(x, family) = own
  BY <1>4 DEF Cat!OwnPaths
<1>6. DOMAIN reach = own /\ reach[first] = x[first].reachable /\ own # {}
  OBVIOUS
<1>7. row(first) = {[kind |-> "number", n |-> 1000 * Cardinality(own)], [kind |-> "number", n |-> 1000 * x[first].reachable]}
  <2>1. Doc!Cardinality(own) = Cardinality(own)
    BY DEF Doc!Cardinality, Cardinality
  <2> HIDE DEF own
  <2> QED BY <1>6, <2>1 DEF Doc!WithFamilyCoverage
<1>8. group.explored = Cardinality(own)
  <2>1. Cat!Cardinality(own) = Cardinality(own)
    BY DEF Cat!Cardinality, Cardinality
  <2> QED BY <1>4, <1>5, <2>1
<1>9. \E c \in row(first) : c.n = 1000 * group.explored
  <2> HIDE DEF own, row, group
  <2> QED BY <1>7, <1>8
<1>10. ASSUME \A i, j \in own : x[i].reachable = x[j].reachable
       PROVE  group.reachable = x[first].reachable
  <2>1. {x[i].reachable : i \in own} = {x[first].reachable}
    BY <1>10
  <2>2. x[first].reachable \in Nat
    BY <1>1
  <2>3. group.reachable = Cat!Max({0} \cup {x[first].reachable})
    BY <1>4, <1>5, <2>1
  <2> DEFINE r == x[first].reachable
  <2> HIDE DEF r, own, group
  <2>4. r \in Nat /\ group.reachable = Cat!Max({0} \cup {r})
    BY <2>2, <2>3 DEF r
  <2>5. Cat!Max({0} \cup {r}) \in {0} \cup {r} /\ \A y \in {0} \cup {r} : Cat!Max({0} \cup {r}) >= y
    <3>1. \E y \in {0} \cup {r} : \A z \in {0} \cup {r} : y >= z
      BY <2>4
    <3> QED BY <3>1, Zenon DEF Cat!Max
  <2>6. group.reachable = r
    BY <2>4, <2>5
  <2> QED BY <2>6 DEF r
<1>11. ASSUME \A i, j \in own : x[i].reachable = x[j].reachable
       PROVE  \E c \in row(first) : c.n = 1000 * group.reachable
  <2>1. group.reachable = x[first].reachable
    BY <1>10, <1>11
  <2> DEFINE told == [kind |-> "number", n |-> 1000 * group.reachable]
  <2>2. told.n = 1000 * group.reachable
    OBVIOUS
  <2>3. told = [kind |-> "number", n |-> 1000 * x[first].reachable]
    BY <2>1
  <2>4. told \in row(first)
    <3> DEFINE here == [kind |-> "number", n |-> 1000 * x[first].reachable]
               all == [kind |-> "number", n |-> 1000 * Cardinality(own)]
               said == row(first)
    <3>1. said = {all, here}
      BY <1>7
    <3> HIDE DEF here, all, said
    <3>2. here \in said
      BY <3>1
    <3> QED BY <2>3, <3>2 DEF here, said
  <2> HIDE DEF own, row, group, told
  <2> QED BY <2>2, <2>4, Zenon
<1> QED BY <1>9, <1>11

\* The tools fit the loops that hold them, for every tool, every role and
\* round, every citation and every list of Paths (registry.ts, reads.ts,
\* writes.ts, publish.ts).
THEOREM RulesTools == Spec => []ToolsFitTheirLoops
<1>1. Typed => ToolsFitTheirLoops
  BY SpendingIsAskedHolds, OfferedWhereDeclaredHolds, CitationsCanBeMadeHolds, CitationsFitTheTableHolds,
     EnvelopeIsBackedHolds DEF ToolsFitTheirLoops
<1> QED BY <1>1, TypedInductive, PTL

-----------------------------------------------------------------------------
(* Folds.                                                                  *)

\* An element that bounds the set is its Max.
LEMMA MaxIs ==
    ASSUME NEW n \in Nat, NEW s \in SUBSET (1..n), NEW top \in s, \A m \in s : m <= top
    PROVE  Max(s) = top
<1>1. s # {} /\ s \subseteq Int /\ \A m \in s : m <= top
  OBVIOUS
<1>2. Max(s) \in s /\ \A m \in s : m <= Max(s)
  BY <1>1, MaxOf
<1> DEFINE big == Max(s)
<1>3. big \in s /\ \A m \in s : m <= big
  BY <1>2
<1> HIDE DEF big
<1>4. big \in Int /\ top \in Int /\ big <= top /\ top <= big
  BY <1>1, <1>3
<1>5. big = top
  BY <1>4
<1> QED BY <1>5 DEF big

\* The Max of 1..k is k.
LEMMA MaxOfRun ==
    ASSUME NEW k \in Nat \ {0}
    PROVE  Max(1..k) = k
<1>1. 1..k \in SUBSET (1..k) /\ k \in 1..k /\ (\A j \in 1..k : j <= k)
  OBVIOUS
<1> QED BY <1>1, MaxIs

FoldsTo(g, m, V, base, F) ==
    /\ g \in [SUBSET (1..m) -> V]
    /\ \A s \in SUBSET (1..m) : g[s] = IF s = {} THEN base ELSE F[<<g[s \ {Max(s)}], Max(s)>>]

\* There is a fold over 1..n of a step F that keeps to V.
LEMMA FoldExists ==
    ASSUME NEW V, NEW base \in V, NEW n \in Nat, NEW F, \A v \in V, k \in 1..n : F[<<v, k>>] \in V
    PROVE  \E g : FoldsTo(g, n, V, base, F)
<1> DEFINE T == {m \in Nat : m <= n => \E g : FoldsTo(g, m, V, base, F)}
<1>1. 0 \in T
  <2> DEFINE g == [s \in SUBSET (1..0) |-> base]
  <2>1. SUBSET (1..0) = {{}}
    OBVIOUS
  <2>2. FoldsTo(g, 0, V, base, F)
    BY <2>1 DEF FoldsTo
  <2> QED BY <2>2
<1>2. ASSUME NEW m \in Nat, m \in T PROVE m + 1 \in T
  <2> SUFFICES ASSUME m + 1 <= n PROVE \E g : FoldsTo(g, m + 1, V, base, F)
    OBVIOUS
  <2>0. n \in Nat
    OBVIOUS
  <2>1. PICK f : FoldsTo(f, m, V, base, F)
    BY <1>2, <2>0
  <2> DEFINE g == [s \in SUBSET (1..(m + 1)) |-> IF m + 1 \in s THEN F[<<f[s \ {m + 1}], m + 1>>] ELSE f[s]]
  <2>2. ASSUME NEW s \in SUBSET (1..(m + 1)) PROVE s \ {m + 1} \in SUBSET (1..m)
    OBVIOUS
  <2>3. ASSUME NEW s \in SUBSET (1..(m + 1)), m + 1 \in s
        PROVE  /\ Max(s) = m + 1 /\ g[s] = F[<<g[s \ {Max(s)}], Max(s)>>] /\ g[s] \in V
    <3>1. Max(s) = m + 1
      <4>1. \A j \in s : j <= m + 1
        OBVIOUS
      <4>2. m + 1 \in Nat
        OBVIOUS
      <4> QED BY <2>3, <4>1, <4>2, MaxIs
    <3>2. g[s \ {m + 1}] = f[s \ {m + 1}] /\ f[s \ {m + 1}] \in V
      BY <2>1, <2>2 DEF FoldsTo
    <3>3. m + 1 \in 1..n
      BY <2>0
    <3> QED BY <2>3, <3>1, <3>2, <3>3
  <2>4. ASSUME NEW s \in SUBSET (1..(m + 1)), m + 1 \notin s
        PROVE  /\ g[s] = IF s = {} THEN base ELSE F[<<g[s \ {Max(s)}], Max(s)>>]
               /\ g[s] \in V
    <3>1. s \in SUBSET (1..m) /\ g[s] = f[s]
      BY <2>2, <2>4
    <3>2. f[s] \in V /\ f[s] = IF s = {} THEN base ELSE F[<<f[s \ {Max(s)}], Max(s)>>]
      BY <2>1, <3>1 DEF FoldsTo
    <3>3. g[s \ {Max(s)}] = f[s \ {Max(s)}]
      BY <2>4
    <3> QED BY <3>1, <3>2, <3>3
  <2>5. FoldsTo(g, m + 1, V, base, F)
    <3>1. g \in [SUBSET (1..(m + 1)) -> V]
      BY <2>3, <2>4
    <3> HIDE DEF g
    <3> QED BY <2>3, <2>4, <3>1 DEF FoldsTo
  <2> HIDE DEF g
  <2> QED BY <2>5
<1>3. n \in T
  <2> HIDE DEF T
  <2> QED BY <1>1, <1>2, AllNumbers
<1> QED BY <1>3

Stays(F, V, n) == \A v \in V, k \in 1..n : F[<<v, k>>] \in V
Unrolled(fold, H, n, base) == \A s \in SUBSET (1..n) : fold[s] = IF s = {} THEN base ELSE H[s]
StepsBy(H, fold, F, V, n) ==
    \A s \in SUBSET (1..n) : s # {} /\ fold[s \ {Max(s)}] \in V => H[s] = F[<<fold[s \ {Max(s)}], Max(s)>>]
Runs(fold, F, V, n, base) ==
    /\ fold[1..0] = base
    /\ \A k \in 0..n : fold[1..k] \in V
    /\ \A k \in 1..n : fold[1..k] = F[<<fold[1..(k - 1)], k>>]

\* A fold whose step keeps to V when its state does goes from each state to
\* the next.
LEMMA FoldRuns ==
    ASSUME NEW V, NEW base \in V, NEW n \in Nat, NEW F, Stays(F, V, n),
           NEW fold, NEW H, Unrolled(fold, H, n, base), StepsBy(H, fold, F, V, n)
    PROVE  Runs(fold, F, V, n, base)
<1>1. fold[1..0] = base
  <2>1. 1..0 = {} /\ 1..0 \in SUBSET (1..n)
    BY SMT
  <2> QED BY <2>1 DEF Unrolled
<1>2. ASSUME NEW k \in 1..n, fold[1..(k - 1)] \in V
      PROVE  fold[1..k] = F[<<fold[1..(k - 1)], k>>] /\ fold[1..k] \in V
  <2>1. 1..k \in SUBSET (1..n) /\ 1..k # {} /\ k \in Nat \ {0} /\ (1..k) \ {k} = 1..(k - 1)
    OBVIOUS
  <2>2. Max(1..k) = k
    BY <2>1, MaxOfRun
  <2>3. fold[1..k] = H[1..k]
    BY <2>1 DEF Unrolled
  <2>4. H[1..k] = F[<<fold[1..(k - 1)], k>>]
    BY <1>2, <2>1, <2>2 DEF StepsBy
  <2>5. F[<<fold[1..(k - 1)], k>>] \in V
    BY <1>2 DEF Stays
  <2> QED BY <2>3, <2>4, <2>5
<1>3. \A k \in 0..n : fold[1..k] \in V
  <2> DEFINE T == {k \in Nat : k <= n => fold[1..k] \in V}
  <2>1. 0 \in T
    BY <1>1
  <2>2. ASSUME NEW k \in Nat, k \in T PROVE k + 1 \in T
    <3> SUFFICES ASSUME k + 1 <= n PROVE fold[1..(k + 1)] \in V
      OBVIOUS
    <3>1. k + 1 \in 1..n /\ (k + 1) - 1 = k /\ fold[1..k] \in V
      BY <2>2
    <3> QED BY <1>2, <3>1
  <2> HIDE DEF T
  <2>3. Nat \subseteq T
    BY <2>1, <2>2, AllNumbers
  <2> QED BY <2>3 DEF T
<1>4. \A k \in 1..n : fold[1..k] = F[<<fold[1..(k - 1)], k>>]
  <2> SUFFICES ASSUME NEW k \in 1..n PROVE fold[1..k] = F[<<fold[1..(k - 1)], k>>]
    OBVIOUS
  <2>1. k - 1 \in 0..n
    OBVIOUS
  <2> QED BY <1>2, <1>3, <2>1
<1> QED BY <1>1, <1>3, <1>4 DEF Runs

-----------------------------------------------------------------------------
(* The difference of two versions, as a fold.                              *)

DiffStep(acc, s) ==
    LET i == Old!Counterpart(s, acc.remaining) IN
    IF i = 0
    THEN [acc EXCEPT !.out = Append(@, [change |-> "removed", from |-> s.words, to |-> <<>>])]
    ELSE [remaining |-> Old!TakeOut(acc.remaining, i),
          out |-> Append(acc.out, [change |-> IF acc.remaining[i].words = s.words THEN "unchanged" ELSE "reworded",
                                   from |-> s.words, to |-> acc.remaining[i].words])]
DiffStart(after) == [remaining |-> after, out |-> <<>>]
DiffAdded(remaining) == [i \in DOMAIN remaining |-> [change |-> "added", from |-> <<>>, to |-> remaining[i].words]]
DiffFold(before, after) ==
    CHOOSE g : g = [s \in SUBSET (DOMAIN before) |->
                       IF s = {} THEN DiffStart(after) ELSE DiffStep(g[s \ {Max(s)}], before[Max(s)])]

\* The difference of two versions is the end of one fold over the sentences
\* of the earlier one (staleness.ts).
LEMMA DiffIsFold ==
    ASSUME NEW before, NEW after
    PROVE  LET end == DiffFold(before, after)[DOMAIN before] IN
           Old!DiffSentences(before, after) = end.out \o DiffAdded(end.remaining)
BY Zenon DEF DiffFold, DiffStart, DiffStep, DiffAdded, Old!DiffSentences, Old!FoldLeft, Old!MapThenFoldSet, Old!Max, Max

\* Taking a sentence out leaves the others, in order.
LEMMA TakenOut ==
    ASSUME NEW W, NEW s \in Seq(W), NEW i \in 1..Len(s)
    PROVE  /\ Old!RemoveAt(s, i) \in Seq(W)
           /\ Len(Old!RemoveAt(s, i)) = Len(s) - 1
           /\ \A j \in 1..(Len(s) - 1) : Old!RemoveAt(s, i)[j] = IF j < i THEN s[j] ELSE s[j + 1]
<1> DEFINE head == SubSeq(s, 1, i - 1)
           tail == SubSeq(s, i + 1, Len(s))
<1>1. head \in Seq(W) /\ Len(head) = i - 1 /\ \A j \in 1..(i - 1) : head[j] = s[j]
  OBVIOUS
<1>2. tail \in Seq(W) /\ Len(tail) = Len(s) - i /\ \A j \in 1..(Len(s) - i) : tail[j] = s[i + j]
  OBVIOUS
<1>3. Old!RemoveAt(s, i) = head \o tail
  BY DEF Old!RemoveAt
<1>3a. Len(s) \in Nat /\ i \in 1..Len(s)
  OBVIOUS
<1> HIDE DEF head, tail
<1>4. head \o tail \in Seq(W) /\ Len(head \o tail) = Len(s) - 1
  <2>1. head \o tail \in Seq(W)
    BY <1>1, <1>2
  <2>2. Len(head \o tail) = Len(head) + Len(tail)
    BY <1>1, <1>2, ConcatProperties
  <2>3. (i - 1) + (Len(s) - i) = Len(s) - 1
    BY <1>3a
  <2> QED BY <1>1, <1>2, <2>1, <2>2, <2>3
<1>5. ASSUME NEW j \in 1..(Len(s) - 1) PROVE (head \o tail)[j] = IF j < i THEN s[j] ELSE s[j + 1]
  <2>1. CASE j < i
    BY <1>1, <1>2, <2>1
  <2>2. CASE ~(j < i)
    <3>1. j - (i - 1) \in 1..(Len(s) - i) /\ i + (j - (i - 1)) = j + 1
      BY <2>2
    <3>2. (head \o tail)[j] = tail[j - (i - 1)]
      BY <1>1, <1>2, <2>2, <3>1
    <3> QED BY <1>2, <2>2, <3>1, <3>2
  <2> QED BY <2>1, <2>2
<1> QED BY <1>3, <1>4, <1>5

\* The counterpart of a sentence is one that remains, of its section, and
\* is the first that says the same if one does (staleness.ts).
LEMMA CounterpartIs ==
    ASSUME NEW W, NEW remaining \in Seq(W), NEW s
    PROVE  LET i == Old!Counterpart(s, remaining) IN
           i = 0 \/ (i \in 1..Len(remaining) /\ remaining[i].section = s.section)
<1> DEFINE same == {i \in DOMAIN remaining : Old!Aligned(remaining[i], s)}
           near == {i \in DOMAIN remaining : remaining[i].section = s.section /\ Old!Similar(remaining[i], s)}
           first(T) == CHOOSE i \in T : \A j \in T : i <= j
<1>1. Old!Counterpart(s, remaining) = IF same # {} THEN first(same) ELSE IF near # {} THEN first(near) ELSE 0
  BY DEF Old!Counterpart
<1>2. same \subseteq 1..Len(remaining) /\ near \subseteq 1..Len(remaining)
  BY SMT
<1>3. ASSUME NEW T, T \subseteq 1..Len(remaining), T # {} PROVE first(T) \in T
  <2>1. T \subseteq Nat
    BY <1>3
  <2>2. \E i \in T : \A j \in T : i <= j
    BY <1>3, <2>1, LeastNumber
  <2> QED BY <2>2
<1>4. \A i \in same \cup near : remaining[i].section = s.section
  BY DEF Old!Aligned
<1> HIDE DEF same, near, first
<1> QED BY <1>1, <1>2, <1>3, <1>4

DiffEntries(U, W) ==
    [change : {"removed", "unchanged", "reworded"}, from : {s.words : s \in U}, to : {t.words : t \in W} \cup {<<>>}]
DiffStates(U, W) == [remaining : Seq(W), out : Seq(DiffEntries(U, W))]

\* A step of the difference keeps its state typed.
LEMMA DiffStepTyped ==
    ASSUME NEW U, NEW W, NEW acc \in DiffStates(U, W), NEW s \in U
    PROVE  LET i == Old!Counterpart(s, acc.remaining)
               next == DiffStep(acc, s)
           IN /\ next \in DiffStates(U, W)
              /\ Len(next.out) = Len(acc.out) + 1
              /\ \A j \in 1..Len(acc.out) : next.out[j] = acc.out[j]
              /\ next.out[Len(acc.out) + 1].from = s.words
              /\ i = 0 => /\ next.remaining = acc.remaining
                          /\ next.out[Len(acc.out) + 1].to = <<>>
                          /\ next.out[Len(acc.out) + 1].change = "removed"
              /\ i # 0 => /\ i \in 1..Len(acc.remaining)
                          /\ acc.remaining[i].section = s.section
                          /\ next.remaining = Old!RemoveAt(acc.remaining, i)
                          /\ next.out[Len(acc.out) + 1].to = acc.remaining[i].words
                          /\ next.out[Len(acc.out) + 1].change
                               = IF acc.remaining[i].words = s.words THEN "unchanged" ELSE "reworded"
<1> DEFINE i == Old!Counterpart(s, acc.remaining)
           next == DiffStep(acc, s)
<1>1. acc.remaining \in Seq(W) /\ acc.out \in Seq(DiffEntries(U, W))
      /\ acc = [remaining |-> acc.remaining, out |-> acc.out]
  BY DEF DiffStates
<1>2. i = 0 \/ (i \in 1..Len(acc.remaining) /\ acc.remaining[i].section = s.section)
  BY <1>1, CounterpartIs
<1> HIDE DEF i
<1>3. CASE i = 0
  <2> DEFINE e == [change |-> "removed", from |-> s.words, to |-> <<>>]
  <2>1. next = [remaining |-> acc.remaining, out |-> Append(acc.out, e)]
    BY <1>1, <1>3 DEF DiffStep, i
  <2>2. e \in DiffEntries(U, W)
    BY DEF DiffEntries
  <2>3. e.from = s.words /\ e.to = <<>> /\ e.change = "removed"
    OBVIOUS
  <2> HIDE DEF e, next
  <2>4. next.remaining = acc.remaining /\ next.out = Append(acc.out, e) /\ next \in DiffStates(U, W)
    BY <1>1, <2>1, <2>2 DEF DiffStates
  <2>5. Len(next.out) = Len(acc.out) + 1 /\ (\A j \in 1..Len(acc.out) : next.out[j] = acc.out[j])
        /\ next.out[Len(acc.out) + 1] = e
    BY <1>1, <2>2, <2>4
  <2> QED BY <1>3, <2>3, <2>4, <2>5 DEF i, next
<1>4. CASE i # 0
  <2> DEFINE e == [change |-> IF acc.remaining[i].words = s.words THEN "unchanged" ELSE "reworded",
                   from |-> s.words, to |-> acc.remaining[i].words]
  <2>0. i \in 1..Len(acc.remaining) /\ acc.remaining[i] \in W
    BY <1>1, <1>2, <1>4
  <2>1. next = [remaining |-> Old!RemoveAt(acc.remaining, i), out |-> Append(acc.out, e)]
    BY <1>1, <1>4 DEF DiffStep, i, Old!TakeOut
  <2>2. e \in DiffEntries(U, W)
    BY <2>0 DEF DiffEntries
  <2>3. e.from = s.words /\ e.to = acc.remaining[i].words
        /\ e.change = IF acc.remaining[i].words = s.words THEN "unchanged" ELSE "reworded"
    OBVIOUS
  <2> HIDE DEF e, next
  <2>4. /\ next.remaining = Old!RemoveAt(acc.remaining, i) /\ next.out = Append(acc.out, e)
        /\ next \in DiffStates(U, W)
    BY <1>1, <2>0, <2>1, <2>2, TakenOut DEF DiffStates
  <2>5. Len(next.out) = Len(acc.out) + 1 /\ (\A j \in 1..Len(acc.out) : next.out[j] = acc.out[j])
        /\ next.out[Len(acc.out) + 1] = e
    BY <1>1, <2>2, <2>4
  <2> QED BY <1>2, <1>4, <2>3, <2>4, <2>5 DEF i, next
<1> QED BY <1>3, <1>4

\* The state after k sentences is the step of the state after k - 1.
LEMMA DiffRun ==
    ASSUME NEW U, NEW W, NEW before \in Seq(U), NEW after \in Seq(W)
    PROVE  LET acc(k) == DiffFold(before, after)[1..k] IN
           /\ acc(0) = DiffStart(after)
           /\ \A k \in 0..Len(before) : acc(k) \in DiffStates(U, W)
           /\ \A k \in 1..Len(before) : acc(k) = DiffStep(acc(k - 1), before[k])
<1> DEFINE n == Len(before)
           V == DiffStates(U, W)
           F == [p \in V \X (1..n) |-> DiffStep(p[1], before[p[2]])]
           base == DiffStart(after)
           Eq(g) == g = [s \in SUBSET (DOMAIN before) |->
                            IF s = {} THEN base ELSE DiffStep(g[s \ {Max(s)}], before[Max(s)])]
           fold == DiffFold(before, after)
           H == [s \in SUBSET (1..n) |-> DiffStep(fold[s \ {Max(s)}], before[Max(s)])]
<1>0. n \in Nat /\ DOMAIN before = 1..n /\ (\A k \in 1..n : before[k] \in U)
  OBVIOUS
<1>1. base \in V
  BY DEF DiffStart, DiffStates
<1>2. ASSUME NEW v \in V, NEW k \in 1..n PROVE F[<<v, k>>] = DiffStep(v, before[k]) /\ F[<<v, k>>] \in V
  <2>1. F[<<v, k>>] = DiffStep(v, before[k])
    OBVIOUS
  <2>2. DiffStep(v, before[k]) \in V
    BY <1>0, DiffStepTyped
  <2> QED BY <2>1, <2>2
<1>h. \A s \in SUBSET (1..n) : H[s] = DiffStep(fold[s \ {Max(s)}], before[Max(s)])
  OBVIOUS
<1> HIDE DEF n, V, F, base, H
<1>3. PICK g : FoldsTo(g, n, V, base, F)
  BY <1>0, <1>1, <1>2, FoldExists
<1>4. ASSUME NEW s \in SUBSET (1..n), s # {} PROVE Max(s) \in 1..n /\ s \ {Max(s)} \in SUBSET (1..n)
  BY <1>0, <1>4, MaxOf
<1>5. ASSUME NEW s \in SUBSET (1..n)
      PROVE  g[s] = IF s = {} THEN base ELSE DiffStep(g[s \ {Max(s)}], before[Max(s)])
  <2>1. CASE s = {}
    BY <1>3, <2>1 DEF FoldsTo
  <2>2. CASE s # {}
    <3>1. Max(s) \in 1..n /\ g[s \ {Max(s)}] \in V
      BY <1>3, <1>4, <2>2 DEF FoldsTo
    <3>2. g[s] = F[<<g[s \ {Max(s)}], Max(s)>>]
      BY <1>3, <2>2 DEF FoldsTo
    <3> QED BY <1>2, <2>2, <3>1, <3>2
  <2> QED BY <2>1, <2>2
<1>6. Eq(g)
  <2>1. g = [s \in SUBSET (1..n) |-> g[s]]
    BY <1>3 DEF FoldsTo
  <2>2. g = [s \in SUBSET (1..n) |-> IF s = {} THEN base ELSE DiffStep(g[s \ {Max(s)}], before[Max(s)])]
    BY <1>5, <2>1, Zenon
  <2> QED BY <1>0, <2>2
<1>7. Eq(fold)
  <2>1. \E h : Eq(h)
    BY <1>6
  <2>2. fold = CHOOSE h : Eq(h)
    BY DEF DiffFold, base
  <2> HIDE DEF Eq, fold
  <2> QED BY <2>1, <2>2
<1> HIDE DEF fold
<1>8. Unrolled(fold, H, n, base)
  BY <1>0, <1>7, <1>h DEF Unrolled
<1>9. Stays(F, V, n)
  BY <1>2 DEF Stays
<1>10. StepsBy(H, fold, F, V, n)
  <2> SUFFICES ASSUME NEW s \in SUBSET (1..n), s # {}, fold[s \ {Max(s)}] \in V
               PROVE  H[s] = F[<<fold[s \ {Max(s)}], Max(s)>>]
    BY DEF StepsBy
  <2>1. Max(s) \in 1..n
    BY <1>4
  <2> QED BY <1>2, <1>h, <2>1
<1>11. Runs(fold, F, V, n, base)
  BY <1>0, <1>1, <1>8, <1>9, <1>10, FoldRuns
<1>12. \A k \in 1..n : fold[1..k] = DiffStep(fold[1..(k - 1)], before[k])
  <2> SUFFICES ASSUME NEW k \in 1..n PROVE fold[1..k] = DiffStep(fold[1..(k - 1)], before[k])
    OBVIOUS
  <2>1. k - 1 \in 0..n
    BY <1>0
  <2> QED BY <1>2, <1>11, <2>1 DEF Runs
<1> QED BY <1>11, <1>12 DEF Runs, fold, n, V, base

-----------------------------------------------------------------------------
(* Counting.                                                               *)

\* Of a list without its i-th sentence, a count is one less exactly when
\* that sentence counted.
LEMMA CountTaken ==
    ASSUME NEW n \in Nat, NEW i \in 1..n, NEW H \in SUBSET (1..n), NEW K \in SUBSET (1..(n - 1)),
           \A j \in 1..(n - 1) : j \in K <=> IF j < i THEN j \in H ELSE j + 1 \in H
    PROVE  /\ Cardinality(K) = IF i \in H THEN Cardinality(H) - 1 ELSE Cardinality(H)
           /\ Cardinality(H) \in Nat /\ Cardinality(K) \in Nat
<1>1. IsFiniteSet(H) /\ IsFiniteSet(K)
  <2>1. IsFiniteSet(1..n) /\ IsFiniteSet(1..(n - 1))
    BY FS_Interval
  <2>2. K \in SUBSET (1..(n - 1))
    OBVIOUS
  <2> QED BY <2>1, <2>2, FS_Subset
<1> DEFINE f == [j \in K |-> IF j < i THEN j ELSE j + 1]
<1>2. f \in Bijection(K, H \ {i})
  <2>1. ASSUME NEW j \in K PROVE f[j] \in H \ {i}
    BY <2>1
  <2>2. ASSUME NEW j \in K, NEW l \in K, f[j] = f[l] PROVE j = l
    BY <2>2
  <2>3. ASSUME NEW h \in H \ {i} PROVE \E j \in K : f[j] = h
    <3>1. CASE h < i
      <4>1. h \in K
        BY <3>1
      <4> QED BY <3>1, <4>1
    <3>2. CASE ~(h < i)
      <4>0. h \in Nat /\ i \in Nat /\ h > i /\ h <= n
        BY <3>2
      <4>1. h - 1 \in 1..(n - 1) /\ ~(h - 1 < i) /\ (h - 1) + 1 = h
        BY <4>0
      <4>2. h - 1 \in K
        BY <4>1
      <4> QED BY <4>1, <4>2
    <3> QED BY <3>1, <3>2
  <2>4. f \in [K -> H \ {i}]
    BY <2>1
  <2> HIDE DEF f
  <2> QED BY <2>2, <2>3, <2>4, Fun_IsBij
<1>3. Cardinality(H \ {i}) = Cardinality(K)
  BY <1>1, <1>2, FS_Bijection DEF ExistsBijection
<1>4. Cardinality(H \ {i}) = IF i \in H THEN Cardinality(H) - 1 ELSE Cardinality(H)
  BY <1>1, FS_RemoveElement
<1> QED BY <1>1, <1>3, <1>4, FS_CardinalityType

Follows(C, A, m, B, n) ==
    /\ m \in Nat /\ n \in Nat /\ A \in SUBSET (1..m) /\ B \in SUBSET (1..n) /\ C \in SUBSET (1..(m + n))
    /\ \A j \in 1..(m + n) : j \in C <=> IF j <= m THEN j \in A ELSE j - m \in B

\* A count over a list is that over its two parts.
LEMMA CountShifted ==
    ASSUME NEW C, NEW A, NEW m, NEW B, NEW n, Follows(C, A, m, B, n)
    PROVE  Cardinality(C) = Cardinality(A) + Cardinality(B)
<1>0. /\ m \in Nat /\ n \in Nat /\ A \in SUBSET (1..m) /\ B \in SUBSET (1..n) /\ C \in SUBSET (1..(m + n))
      /\ \A j \in 1..(m + n) : j \in C <=> IF j <= m THEN j \in A ELSE j - m \in B
  BY DEF Follows
<1> DEFINE D == {j \in 1..(m + n) : ~(j <= m) /\ j - m \in B}
           f == [j \in D |-> j - m]
<1>1. IsFiniteSet(A) /\ IsFiniteSet(B) /\ IsFiniteSet(D)
  <2>1. IsFiniteSet(1..m) /\ IsFiniteSet(1..n) /\ IsFiniteSet(1..(m + n))
    BY <1>0, FS_Interval
  <2>2. D \in SUBSET (1..(m + n))
    OBVIOUS
  <2> HIDE DEF D
  <2> QED BY <1>0, <2>1, <2>2, FS_Subset
<1>2. f \in Bijection(D, B)
  <2>1. ASSUME NEW j \in D PROVE f[j] \in B
    BY <1>0, <2>1
  <2>2. ASSUME NEW j \in D, NEW l \in D, f[j] = f[l] PROVE j = l
    BY <1>0, <2>2
  <2>3. ASSUME NEW b \in B PROVE \E j \in D : f[j] = b
    <3>1. b \in Nat /\ b >= 1 /\ b <= n
      BY <1>0
    <3>2. m + b \in 1..(m + n) /\ ~(m + b <= m) /\ (m + b) - m = b
      BY <1>0, <3>1
    <3>3. m + b \in D
      BY <3>1, <3>2
    <3> QED BY <3>2, <3>3
  <2>4. f \in [D -> B]
    BY <2>1
  <2> HIDE DEF f, D
  <2> QED BY <2>2, <2>3, <2>4, Fun_IsBij
<1>3. Cardinality(B) = Cardinality(D)
  BY <1>1, <1>2, FS_Bijection DEF ExistsBijection
<1>4. C = A \cup D
  <2>1. ASSUME NEW j \in C PROVE j \in A \cup D
    BY <1>0, <2>1
  <2>2. ASSUME NEW j \in A PROVE j \in C
    <3>1. j \in 1..(m + n) /\ j <= m
      BY <1>0, <2>2
    <3> QED BY <1>0, <2>2, <3>1
  <2>3. ASSUME NEW j \in D PROVE j \in C
    BY <1>0, <2>3
  <2> QED BY <2>1, <2>2, <2>3
<1>5. A \cap D = {}
  BY <1>0
<1> HIDE DEF D, f
<1>6. Cardinality(A \cap D) = 0
  BY <1>5, FS_EmptySet
<1>7. Cardinality(A \cup D) = Cardinality(A) + Cardinality(D) - Cardinality(A \cap D)
  BY <1>1, FS_Union
<1>8. Cardinality(A) \in Nat /\ Cardinality(D) \in Nat
  BY <1>1, FS_CardinalityType
<1> QED BY <1>3, <1>4, <1>6, <1>7, <1>8

\* One more entry adds one to a count exactly when it counts.
LEMMA CountAppended ==
    ASSUME NEW n \in Nat, NEW H \in SUBSET (1..n),
           NEW P, P \in BOOLEAN, NEW K, K = IF P THEN H \cup {n + 1} ELSE H
    PROVE  Cardinality(K) = (IF P THEN Cardinality(H) + 1 ELSE Cardinality(H)) /\ Cardinality(H) \in Nat
<1>1. IsFiniteSet(1..n)
  BY FS_Interval
<1>2. IsFiniteSet(H)
  BY <1>1, FS_Subset
<1>3. n + 1 \notin H
  BY SMT
<1> QED BY <1>2, <1>3, FS_AddElement, FS_CardinalityType

-----------------------------------------------------------------------------
(* What the difference tells.                                              *)

Saying(seq, w) == {i \in DOMAIN seq : seq[i].words = w}
Becoming(out, w) == {i \in DOMAIN out : out[i].to = w}
Leaving(out, w) == {i \in DOMAIN out : out[i].from = w}
Claims(seq) == {<<seq[i].section, seq[i].words>> : i \in DOMAIN seq}
Quiet(out) == \A i \in DOMAIN out : out[i].change = "unchanged"

\* A step moves one sentence from what remains to what was told, and tells
\* the earlier one once (staleness.ts).
LEMMA StepKeepsCount ==
    ASSUME NEW U, NEW W, NEW acc \in DiffStates(U, W), NEW s \in U, NEW w, w # <<>>
    PROVE  LET next == DiffStep(acc, s) IN
           Cardinality(Becoming(next.out, w)) + Cardinality(Saying(next.remaining, w))
             = Cardinality(Becoming(acc.out, w)) + Cardinality(Saying(acc.remaining, w))
<1> DEFINE i == Old!Counterpart(s, acc.remaining)
           next == DiffStep(acc, s)
           n == Len(acc.out)
           m == Len(acc.remaining)
<1>1. /\ acc.remaining \in Seq(W) /\ n \in Nat /\ m \in Nat
      /\ DOMAIN acc.out = 1..n /\ DOMAIN acc.remaining = 1..m
  BY DEF DiffStates
<1>2. /\ next \in DiffStates(U, W)
      /\ Len(next.out) = n + 1
      /\ \A j \in 1..n : next.out[j] = acc.out[j]
      /\ i = 0 => next.remaining = acc.remaining /\ next.out[n + 1].to = <<>>
      /\ i # 0 => /\ i \in 1..m
                  /\ next.remaining = Old!RemoveAt(acc.remaining, i)
                  /\ next.out[n + 1].to = acc.remaining[i].words
  BY DiffStepTyped
<1>3. DOMAIN next.out = 1..(n + 1)
  BY <1>1, <1>2 DEF DiffStates
<1> HIDE DEF next, i, n, m
<1> DEFINE P == next.out[n + 1].to = w
           H == Becoming(acc.out, w)
           K == Becoming(next.out, w)
<1>4. Cardinality(K) = (IF P THEN Cardinality(H) + 1 ELSE Cardinality(H)) /\ Cardinality(H) \in Nat
  <2>1. H \in SUBSET (1..n)
    BY <1>1 DEF Becoming
  <2>2. K = IF P THEN H \cup {n + 1} ELSE H
    BY <1>1, <1>2, <1>3 DEF Becoming
  <2>3. P \in BOOLEAN
    OBVIOUS
  <2> HIDE DEF P, H, K
  <2> QED BY <1>1, <2>1, <2>2, <2>3, CountAppended
<1>5. CASE i = 0
  <2>1. ~P
    BY <1>2, <1>5
  <2> QED BY <1>2, <1>4, <1>5, <2>1 DEF next
<1>6. CASE i # 0
  <2> DEFINE A == Saying(acc.remaining, w)
             B == Saying(next.remaining, w)
  <2>1. /\ Len(next.remaining) = m - 1
        /\ next.remaining \in Seq(W)
        /\ \A j \in 1..(m - 1) : next.remaining[j] = IF j < i THEN acc.remaining[j] ELSE acc.remaining[j + 1]
    BY <1>1, <1>2, <1>6, TakenOut DEF m
  <2>2. A \in SUBSET (1..m) /\ i \in 1..m /\ (i \in A <=> acc.remaining[i].words = w)
    BY <1>1, <1>2, <1>6 DEF Saying
  <2>3. B \in SUBSET (1..(m - 1)) /\ \A j \in 1..(m - 1) : j \in B <=> IF j < i THEN j \in A ELSE j + 1 \in A
    <3>1. DOMAIN next.remaining = 1..(m - 1)
      BY <2>1
    <3>2. ASSUME NEW j \in 1..(m - 1)
          PROVE  j \in B <=> IF j < i THEN j \in A ELSE j + 1 \in A
      <4>1. j \in 1..m /\ j + 1 \in 1..m
        BY <1>1, <3>2
      <4> QED BY <1>1, <2>1, <3>1, <4>1 DEF Saying
    <3>3. B \subseteq 1..(m - 1)
      BY <3>1 DEF Saying
    <3> HIDE DEF A, B
    <3> QED BY <3>2, <3>3
  <2>4. P <=> i \in A
    BY <1>2, <1>6, <2>2
  <2> HIDE DEF A, B
  <2>5. Cardinality(B) = (IF i \in A THEN Cardinality(A) - 1 ELSE Cardinality(A))
        /\ Cardinality(A) \in Nat /\ Cardinality(B) \in Nat
    <3>1. m \in Nat /\ i \in 1..m /\ A \in SUBSET (1..m) /\ B \in SUBSET (1..(m - 1))
      BY <1>1, <2>2, <2>3
    <3>2. \A j \in 1..(m - 1) : j \in B <=> IF j < i THEN j \in A ELSE j + 1 \in A
      BY <2>3
    <3> HIDE DEF P, H, K
    <3> QED BY ONLY <3>1, <3>2, CountTaken
  <2>6. Cardinality(K) + Cardinality(B) = Cardinality(H) + Cardinality(A)
    <3> HIDE DEF P, H, K
    <3> QED BY <1>4, <2>4, <2>5
  <2> QED BY <2>6 DEF A, B, next
<1> QED BY <1>5, <1>6

\* What a step says of a sentence is true of the two versions (staleness.ts).
LEMMA StepKeepsClaims ==
    ASSUME NEW U, NEW W, NEW acc \in DiffStates(U, W), NEW s \in U
    PROVE  LET next == DiffStep(acc, s) IN
           Quiet(next.out) =>
               /\ Quiet(acc.out)
               /\ Len(next.remaining) = Len(acc.remaining) - 1
               /\ {<<s.section, s.words>>} \cup Claims(next.remaining) = Claims(acc.remaining)
<1> DEFINE i == Old!Counterpart(s, acc.remaining)
           next == DiffStep(acc, s)
           n == Len(acc.out)
           m == Len(acc.remaining)
<1> SUFFICES ASSUME Quiet(next.out)
             PROVE  /\ Quiet(acc.out)
                    /\ Len(next.remaining) = m - 1
                    /\ {<<s.section, s.words>>} \cup Claims(next.remaining) = Claims(acc.remaining)
  OBVIOUS
<1>1. /\ acc.remaining \in Seq(W) /\ n \in Nat /\ m \in Nat
      /\ DOMAIN acc.out = 1..n /\ DOMAIN acc.remaining = 1..m
  BY DEF DiffStates
<1>2. /\ next \in DiffStates(U, W)
      /\ Len(next.out) = n + 1
      /\ \A j \in 1..n : next.out[j] = acc.out[j]
      /\ i = 0 => next.out[n + 1].change = "removed"
      /\ i # 0 => /\ i \in 1..m
                  /\ acc.remaining[i].section = s.section
                  /\ next.remaining = Old!RemoveAt(acc.remaining, i)
                  /\ next.out[n + 1].change = IF acc.remaining[i].words = s.words THEN "unchanged" ELSE "reworded"
  BY DiffStepTyped
<1>3. DOMAIN next.out = 1..(n + 1)
  BY <1>1, <1>2 DEF DiffStates
<1> HIDE DEF next, i, n, m
<1>4. next.out[n + 1].change = "unchanged"
  <2>1. n + 1 \in DOMAIN next.out
    BY <1>1, <1>3
  <2> QED BY <2>1 DEF Quiet
<1>5. i # 0 /\ i \in 1..m /\ acc.remaining[i].section = s.section /\ acc.remaining[i].words = s.words
  BY <1>2, <1>4
<1>6. Quiet(acc.out)
  BY <1>1, <1>2, <1>3 DEF Quiet
<1>7. /\ Len(next.remaining) = m - 1
      /\ next.remaining \in Seq(W)
      /\ \A j \in 1..(m - 1) : next.remaining[j] = IF j < i THEN acc.remaining[j] ELSE acc.remaining[j + 1]
  <2>1. /\ Len(Old!RemoveAt(acc.remaining, i)) = m - 1
        /\ Old!RemoveAt(acc.remaining, i) \in Seq(W)
        /\ \A j \in 1..(m - 1) : Old!RemoveAt(acc.remaining, i)[j] = IF j < i THEN acc.remaining[j] ELSE acc.remaining[j + 1]
    BY <1>1, <1>5, TakenOut DEF m
  <2>2. next.remaining = Old!RemoveAt(acc.remaining, i)
    BY <1>2, <1>5
  <2> QED BY <2>1, <2>2
<1>8. DOMAIN next.remaining = 1..(m - 1)
  BY <1>7
<1>9. ASSUME NEW j \in 1..m, j # i PROVE <<acc.remaining[j].section, acc.remaining[j].words>> \in Claims(next.remaining)
  <2>1. CASE j < i
    <3>1. j \in 1..(m - 1) /\ next.remaining[j] = acc.remaining[j]
      BY <1>1, <1>5, <1>7, <2>1
    <3> QED BY <1>8, <3>1 DEF Claims
  <2>2. CASE ~(j < i)
    <3>1. j - 1 \in 1..(m - 1) /\ ~(j - 1 < i) /\ (j - 1) + 1 = j
      BY <1>1, <1>5, <1>9, <2>2
    <3>2. next.remaining[j - 1] = acc.remaining[j]
      BY <1>7, <3>1
    <3> QED BY <1>8, <3>1, <3>2 DEF Claims
  <2> QED BY <2>1, <2>2
<1>10. ASSUME NEW j \in 1..(m - 1) PROVE <<next.remaining[j].section, next.remaining[j].words>> \in Claims(acc.remaining)
  <2>1. j \in 1..m /\ j + 1 \in 1..m
    BY <1>1
  <2> QED BY <1>1, <1>7, <2>1 DEF Claims
<1>11. <<s.section, s.words>> \in Claims(acc.remaining)
  BY <1>1, <1>5 DEF Claims
<1>12. ASSUME NEW c \in Claims(acc.remaining) PROVE c \in {<<s.section, s.words>>} \cup Claims(next.remaining)
  <2>1. PICK j \in 1..m : c = <<acc.remaining[j].section, acc.remaining[j].words>>
    BY <1>1, <1>12 DEF Claims
  <2>2. CASE j = i
    BY <1>5, <2>1, <2>2
  <2>3. CASE j # i
    BY <1>9, <2>1, <2>3
  <2> QED BY <2>2, <2>3
<1>13. ASSUME NEW c \in Claims(next.remaining) PROVE c \in Claims(acc.remaining)
  <2>1. PICK j \in 1..(m - 1) : c = <<next.remaining[j].section, next.remaining[j].words>>
    BY <1>8, <1>13 DEF Claims
  <2> QED BY <1>10, <2>1
<1>14. {<<s.section, s.words>>} \cup Claims(next.remaining) = Claims(acc.remaining)
  BY <1>11, <1>12, <1>13
<1> QED BY <1>6, <1>7, <1>14

\* Every sentence of both versions is told once, and as what it is
\* (staleness.ts).
LEMMA DiffAccounts ==
    ASSUME NEW U, NEW W, NEW before \in Seq(U), NEW after \in Seq(W), NEW w, w # <<>>
    PROVE  LET diff == Old!DiffSentences(before, after) IN
           /\ Cardinality(Leaving(diff, w)) = Cardinality(Saying(before, w))
           /\ Cardinality(Becoming(diff, w)) = Cardinality(Saying(after, w))
<1> DEFINE n == Len(before)
           acc(k) == DiffFold(before, after)[1..k]
           end == acc(n)
           added == DiffAdded(end.remaining)
           diff == Old!DiffSentences(before, after)
           m == Len(end.remaining)
           total(k) == Cardinality(Becoming(acc(k).out, w)) + Cardinality(Saying(acc(k).remaining, w))
<1>0. n \in Nat /\ DOMAIN before = 1..n
  OBVIOUS
<1>1. /\ acc(0) = DiffStart(after)
      /\ \A k \in 0..n : acc(k) \in DiffStates(U, W)
      /\ \A k \in 1..n : acc(k) = DiffStep(acc(k - 1), before[k])
  BY DiffRun
<1>2. diff = end.out \o added
  BY <1>0, DiffIsFold
<1> HIDE DEF acc, n
<1>3. ASSUME NEW k \in Nat, k + 1 <= n
      PROVE  /\ k \in 0..n /\ k + 1 \in 1..n /\ acc(k) \in DiffStates(U, W) /\ before[k + 1] \in U
             /\ acc(k + 1) = DiffStep(acc(k), before[k + 1])
  <2>1. k \in 0..n /\ k + 1 \in 1..n /\ (k + 1) - 1 = k
    BY <1>0, <1>3
  <2>2. before[k + 1] \in U
    BY <2>1 DEF n
  <2> QED BY <1>1, <2>1, <2>2
<1>4. ASSUME NEW k \in 0..n
      PROVE  /\ Len(acc(k).out) = k
             /\ \A j \in 1..k : acc(k).out[j].from = before[j].words
             /\ total(k) = Cardinality(Saying(after, w))
  <2> DEFINE Fine(l) == /\ Len(acc(l).out) = l
                        /\ \A j \in 1..l : acc(l).out[j].from = before[j].words
                        /\ total(l) = Cardinality(Saying(after, w))
             T == {l \in Nat : l <= n => Fine(l)}
  <2>1. 0 \in T
    <3>1. acc(0).out = <<>> /\ acc(0).remaining = after
      BY <1>1 DEF DiffStart
    <3>2. Becoming(<<>>, w) = {}
      BY DEF Becoming
    <3>3. Cardinality(Saying(after, w)) \in Nat
      <4>1. Saying(after, w) \in SUBSET (1..Len(after)) /\ Len(after) \in Nat
        BY DEF Saying
      <4>2. IsFiniteSet(1..Len(after))
        BY <4>1, FS_Interval
      <4> QED BY <4>1, <4>2, FS_Subset, FS_CardinalityType
    <3>4. total(0) = Cardinality(Saying(after, w))
      <4>1. total(0) = Cardinality({}) + Cardinality(Saying(after, w))
        BY <3>1, <3>2
      <4>2. Cardinality({}) = 0
        BY FS_EmptySet
      <4> HIDE DEF total
      <4> QED BY <3>3, <4>1, <4>2
    <3> HIDE DEF total
    <3> QED BY <3>1, <3>4
  <2>2. ASSUME NEW l \in Nat, l \in T PROVE l + 1 \in T
    <3> SUFFICES ASSUME l + 1 <= n PROVE Fine(l + 1)
      OBVIOUS
    <3>1. Fine(l)
      BY <1>0, <2>2
    <3>2. acc(l) \in DiffStates(U, W) /\ before[l + 1] \in U /\ acc(l + 1) = DiffStep(acc(l), before[l + 1])
      BY <1>3
    <3>3. /\ Len(acc(l + 1).out) = l + 1
          /\ \A j \in 1..l : acc(l + 1).out[j] = acc(l).out[j]
          /\ acc(l + 1).out[l + 1].from = before[l + 1].words
      <4> DEFINE here == acc(l)
                 said == before[l + 1]
      <4>1. here \in DiffStates(U, W) /\ said \in U
        BY <3>2
      <4> HIDE DEF here, said
      <4>2. /\ Len(DiffStep(here, said).out) = Len(here.out) + 1
            /\ \A j \in 1..Len(here.out) : DiffStep(here, said).out[j] = here.out[j]
            /\ DiffStep(here, said).out[Len(here.out) + 1].from = said.words
        BY ONLY <4>1, DiffStepTyped
      <4> QED BY <3>1, <3>2, <4>2 DEF here, said
    <3>4. total(l + 1) = total(l)
      BY <3>2, StepKeepsCount
    <3> HIDE DEF total
    <3>5. ASSUME NEW j \in 1..(l + 1) PROVE acc(l + 1).out[j].from = before[j].words
      BY <3>1, <3>3
    <3> QED BY <3>1, <3>3, <3>4, <3>5
  <2> HIDE DEF Fine
  <2>3. T = {l \in Nat : l <= n => Fine(l)}
    OBVIOUS
  <2> HIDE DEF T
  <2>4. Nat \subseteq T
    BY <2>1, <2>2, AllNumbers
  <2>5. Fine(k)
    BY <1>0, <2>3, <2>4
  <2> QED BY <2>5 DEF Fine
<1>5. /\ end \in DiffStates(U, W) /\ Len(end.out) = n
      /\ \A j \in 1..n : end.out[j].from = before[j].words
      /\ Cardinality(Becoming(end.out, w)) + Cardinality(Saying(end.remaining, w)) = Cardinality(Saying(after, w))
  BY <1>0, <1>1, <1>4
<1> HIDE DEF end
<1>6. end.remaining \in Seq(W) /\ m \in Nat /\ DOMAIN end.remaining = 1..m /\ DOMAIN end.out = 1..n
      /\ end.out \in Seq(DiffEntries(U, W))
  BY <1>0, <1>5 DEF DiffStates
<1> DEFINE Added == [change : {"added"}, from : {<<>>}, to : {t.words : t \in W}]
<1>7. /\ added \in Seq(Added) /\ Len(added) = m
      /\ \A j \in 1..m : added[j].from = <<>> /\ added[j].to = end.remaining[j].words
  <2>1. added \in [1..m -> Added]
    BY <1>6 DEF DiffAdded
  <2>2. \A j \in 1..m : added[j].from = <<>> /\ added[j].to = end.remaining[j].words
    BY <1>6 DEF DiffAdded
  <2>3. m \in Nat
    BY <1>6
  <2> HIDE DEF added, Added, m
  <2>4. added \in Seq(Added) /\ Len(added) = m
    BY ONLY <2>1, <2>3
  <2> QED BY <2>2, <2>4
<1> HIDE DEF added, Added, m, diff
<1>8. /\ Len(diff) = n + m /\ DOMAIN diff = 1..(n + m)
      /\ \A j \in 1..(n + m) : diff[j] = IF j <= n THEN end.out[j] ELSE added[j - n]
  <2> DEFINE V == DiffEntries(U, W) \cup Added
  <2>1. end.out \in Seq(V) /\ added \in Seq(V)
    BY <1>6, <1>7
  <2> HIDE DEF V
  <2>2. diff \in Seq(V) /\ Len(diff) = Len(end.out) + Len(added)
        /\ \A j \in 1..(Len(end.out) + Len(added)) : diff[j] = IF j <= Len(end.out) THEN end.out[j] ELSE added[j - Len(end.out)]
    <3>1. diff = end.out \o added
      BY <1>2
    <3> QED BY ONLY <2>1, <3>1, ConcatProperties
  <2> QED BY ONLY <1>0, <1>5, <1>6, <1>7, <2>2
<1>9. {i \in DOMAIN diff : diff[i].from = w} = Saying(before, w)
  <2>1. ASSUME NEW i \in 1..(n + m) PROVE diff[i].from = w <=> i \in 1..n /\ before[i].words = w
    <3>1. CASE i <= n
      BY <1>0, <1>5, <1>8, <3>1
    <3>2. CASE ~(i <= n)
      <4>1. i - n \in 1..m /\ i \notin 1..n
        BY <1>0, <1>6, <3>2
      <4> QED BY <1>7, <1>8, <3>2, <4>1
    <3> QED BY <3>1, <3>2
  <2>2. 1..n \subseteq 1..(n + m)
    BY <1>0, <1>6
  <2> QED BY <1>0, <1>8, <2>1, <2>2 DEF Saying
<1>10. Cardinality({i \in DOMAIN diff : diff[i].to = w})
         = Cardinality(Becoming(end.out, w)) + Cardinality(Saying(end.remaining, w))
  <2> DEFINE A == Becoming(end.out, w)
             B == Saying(end.remaining, w)
             C == {i \in DOMAIN diff : diff[i].to = w}
  <2>1. A \in SUBSET (1..n) /\ B \in SUBSET (1..m) /\ C \in SUBSET (1..(n + m))
    BY <1>6, <1>8 DEF Becoming, Saying
  <2>2. ASSUME NEW j \in 1..(n + m) PROVE j \in C <=> IF j <= n THEN j \in A ELSE j - n \in B
    <3>1. CASE j <= n
      <4>1. j \in 1..n
        BY <1>0, <3>1
      <4> QED BY <1>6, <1>8, <3>1, <4>1 DEF Becoming
    <3>2. CASE ~(j <= n)
      <4>1. j - n \in 1..m
        BY <1>0, <1>6, <3>2
      <4> QED BY <1>6, <1>7, <1>8, <3>2, <4>1 DEF Saying
    <3> QED BY <3>1, <3>2
  <2> HIDE DEF A, B, C
  <2>3. n \in Nat /\ m \in Nat
    BY <1>0, <1>6
  <2>4. \A j \in 1..(n + m) : j \in C <=> IF j <= n THEN j \in A ELSE j - n \in B
    BY <2>2
  <2>5. Follows(C, A, n, B, m)
    BY ONLY <2>1, <2>3, <2>4 DEF Follows
  <2>6. Cardinality(C) = Cardinality(A) + Cardinality(B)
    BY ONLY <2>5, CountShifted
  <2> QED BY <2>6 DEF A, B, C
<1>11. Cardinality({i \in DOMAIN diff : diff[i].to = w}) = Cardinality(Saying(after, w))
  BY <1>5, <1>10
<1> QED BY <1>9, <1>11 DEF diff, Leaving, Becoming

\* When every entry says unchanged, the sentences say the same, each as
\* often (staleness.ts).
LEMMA QuietIsSame ==
    ASSUME NEW U, NEW W, NEW before \in Seq(U), NEW after \in Seq(W)
    PROVE  (\A i \in DOMAIN Old!DiffSentences(before, after) : Old!DiffSentences(before, after)[i].change = "unchanged")
           => Claims(before) = Claims(after) /\ Len(before) = Len(after)
<1> DEFINE n == Len(before)
           acc(k) == DiffFold(before, after)[1..k]
           end == acc(n)
           added == DiffAdded(end.remaining)
           diff == Old!DiffSentences(before, after)
           m == Len(end.remaining)
           told(k) == {<<before[j].section, before[j].words>> : j \in 1..k}
<1>0. n \in Nat /\ DOMAIN before = 1..n
  OBVIOUS
<1>1. /\ acc(0) = DiffStart(after)
      /\ \A k \in 0..n : acc(k) \in DiffStates(U, W)
      /\ \A k \in 1..n : acc(k) = DiffStep(acc(k - 1), before[k])
  BY DiffRun
<1> SUFFICES ASSUME \A i \in DOMAIN diff : diff[i].change = "unchanged"
             PROVE  Claims(before) = Claims(after) /\ Len(before) = Len(after)
  OBVIOUS
<1>2. diff = end.out \o added
  BY <1>0, DiffIsFold
<1>2a. \A i \in DOMAIN diff : diff[i].change = "unchanged"
  OBVIOUS
<1> HIDE DEF acc, n
<1>3. ASSUME NEW k \in Nat, k + 1 <= n
      PROVE  /\ k \in 0..n /\ k + 1 \in 1..n /\ acc(k) \in DiffStates(U, W) /\ before[k + 1] \in U
             /\ acc(k + 1) = DiffStep(acc(k), before[k + 1])
  <2>1. k \in 0..n /\ k + 1 \in 1..n /\ (k + 1) - 1 = k
    BY <1>0, <1>3
  <2>2. before[k + 1] \in U
    BY <2>1 DEF n
  <2> QED BY <1>1, <2>1, <2>2
<1>4. ASSUME NEW k \in 0..n
      PROVE  /\ Len(acc(k).out) = k
             /\ Quiet(acc(k).out) => /\ Len(acc(k).remaining) + k = Len(after)
                                     /\ told(k) \cup Claims(acc(k).remaining) = Claims(after)
  <2> DEFINE Fine(l) == /\ Len(acc(l).out) = l
                        /\ Quiet(acc(l).out) => /\ Len(acc(l).remaining) + l = Len(after)
                                                /\ told(l) \cup Claims(acc(l).remaining) = Claims(after)
             T == {l \in Nat : l <= n => Fine(l)}
  <2>1. 0 \in T
    <3>1. acc(0).out = <<>> /\ acc(0).remaining = after
      BY <1>1 DEF DiffStart
    <3>2. told(0) = {}
      OBVIOUS
    <3>3. Len(after) \in Nat
      OBVIOUS
    <3> HIDE DEF told
    <3>4. Fine(0)
      BY <3>1, <3>2, <3>3
    <3> HIDE DEF Fine
    <3> QED BY <3>4
  <2>2. ASSUME NEW l \in Nat, l \in T PROVE l + 1 \in T
    <3> HIDE DEF Fine
    <3> SUFFICES ASSUME l + 1 <= n PROVE Fine(l + 1)
      OBVIOUS
    <3> DEFINE here == acc(l)
               said == before[l + 1]
               next == acc(l + 1)
    <3>1. Fine(l)
      BY <1>0, <2>2
    <3>2. here \in DiffStates(U, W) /\ said \in U /\ next = DiffStep(here, said)
      BY <1>3
    <3>2a. /\ Len(here.out) = l
           /\ Quiet(here.out) => /\ Len(here.remaining) + l = Len(after)
                                 /\ told(l) \cup Claims(here.remaining) = Claims(after)
      BY <3>1 DEF Fine
    <3>5. told(l + 1) = told(l) \cup {<<said.section, said.words>>}
      <4>1. 1..(l + 1) = (1..l) \cup {l + 1}
        OBVIOUS
      <4> QED BY <4>1
    <3>6. here.remaining \in Seq(W)
      BY <3>2 DEF DiffStates
    <3>6a. Len(here.remaining) \in Nat
      BY <3>6
    <3>6b. Len(after) \in Nat
      OBVIOUS
    <3> HIDE DEF here, said, next, told
    <3>3. Len(next.out) = Len(here.out) + 1
      BY ONLY <3>2, DiffStepTyped
    <3>4. Quiet(next.out) =>
              /\ Quiet(here.out)
              /\ Len(next.remaining) = Len(here.remaining) - 1
              /\ {<<said.section, said.words>>} \cup Claims(next.remaining) = Claims(here.remaining)
      BY ONLY <3>2, StepKeepsClaims
    <3>7. /\ Len(next.out) = l + 1
          /\ Quiet(next.out) => /\ Len(next.remaining) + (l + 1) = Len(after)
                                /\ told(l + 1) \cup Claims(next.remaining) = Claims(after)
      <4>1. Len(next.out) = l + 1
        BY <3>2a, <3>3
      <4>2. ASSUME Quiet(next.out)
            PROVE  /\ Len(next.remaining) + (l + 1) = Len(after)
                   /\ told(l + 1) \cup Claims(next.remaining) = Claims(after)
        <5>1. /\ Len(next.remaining) = Len(here.remaining) - 1
              /\ {<<said.section, said.words>>} \cup Claims(next.remaining) = Claims(here.remaining)
              /\ Len(here.remaining) + l = Len(after)
              /\ told(l) \cup Claims(here.remaining) = Claims(after)
          BY <3>2a, <3>4, <4>2
        <5>2. Len(next.remaining) + (l + 1) = Len(after)
          <6> DEFINE left == Len(next.remaining)
                     had == Len(here.remaining)
                     whole == Len(after)
          <6>1. had \in Nat /\ left = had - 1 /\ had + l = whole
            BY <3>6a, <5>1
          <6> HIDE DEF left, had, whole
          <6>2. left + (l + 1) = whole
            BY <6>1
          <6> QED BY <6>2 DEF left, whole
        <5>3. told(l + 1) \cup Claims(next.remaining) = Claims(after)
          BY ONLY <3>5, <5>1
        <5> QED BY <5>2, <5>3
      <4> QED BY <4>1, <4>2
    <3> QED BY <3>7 DEF next, Fine
  <2> HIDE DEF Fine
  <2>3. T = {l \in Nat : l <= n => Fine(l)}
    OBVIOUS
  <2> HIDE DEF T
  <2>4. Nat \subseteq T
    BY <2>1, <2>2, AllNumbers
  <2>5. Fine(k)
    BY <1>0, <2>3, <2>4
  <2> QED BY <2>5 DEF Fine
<1>5. /\ end \in DiffStates(U, W) /\ Len(end.out) = n
      /\ Quiet(end.out) => /\ Len(end.remaining) + n = Len(after)
                           /\ told(n) \cup Claims(end.remaining) = Claims(after)
  BY <1>0, <1>1, <1>4
<1> HIDE DEF end
<1>6. end.remaining \in Seq(W) /\ m \in Nat /\ DOMAIN end.remaining = 1..m /\ DOMAIN end.out = 1..n
      /\ end.out \in Seq(DiffEntries(U, W))
  BY <1>0, <1>5 DEF DiffStates
<1> DEFINE Added == [change : {"added"}, from : {<<>>}, to : {t.words : t \in W}]
<1>7. added \in Seq(Added) /\ Len(added) = m /\ \A j \in 1..m : added[j].change = "added"
  <2>1. added \in [1..m -> Added]
    BY <1>6 DEF DiffAdded
  <2>2. \A j \in 1..m : added[j].change = "added"
    BY <1>6 DEF DiffAdded
  <2>3. m \in Nat
    BY <1>6
  <2> HIDE DEF added, Added, m
  <2>4. added \in Seq(Added) /\ Len(added) = m
    BY ONLY <2>1, <2>3
  <2> QED BY <2>2, <2>4
<1> HIDE DEF added, Added, diff
<1>8. /\ DOMAIN diff = 1..(n + m)
      /\ \A j \in 1..(n + m) : diff[j] = IF j <= n THEN end.out[j] ELSE added[j - n]
  <2> DEFINE V == DiffEntries(U, W) \cup Added
  <2>1. end.out \in Seq(V) /\ added \in Seq(V)
    BY <1>6, <1>7
  <2> HIDE DEF V, m
  <2>2. diff \in Seq(V) /\ Len(diff) = Len(end.out) + Len(added)
        /\ \A j \in 1..(Len(end.out) + Len(added)) : diff[j] = IF j <= Len(end.out) THEN end.out[j] ELSE added[j - Len(end.out)]
    <3>1. diff = end.out \o added
      BY <1>2
    <3> QED BY ONLY <2>1, <3>1, ConcatProperties
  <2> QED BY ONLY <1>0, <1>5, <1>6, <1>7, <2>2
<1>9. m = 0
  <2> HIDE DEF m
  <2> SUFFICES ASSUME m # 0 PROVE FALSE
    OBVIOUS
  <2>1. n + 1 \in 1..(n + m) /\ ~(n + 1 <= n) /\ (n + 1) - n = 1 /\ 1 \in 1..m
    BY <1>0, <1>6
  <2>2. diff[n + 1].change = "added"
    BY <1>7, <1>8, <2>1
  <2> QED BY <1>2a, <1>8, <2>1, <2>2
<1>10. Quiet(end.out)
  <2> HIDE DEF m
  <2>1. ASSUME NEW j \in 1..n PROVE end.out[j].change = "unchanged"
    <3>1. j \in 1..(n + m) /\ j <= n
      BY <1>0, <1>6
    <3> QED BY <1>2a, <1>8, <3>1
  <2> QED BY <1>6, <2>1 DEF Quiet
<1>11. Claims(end.remaining) = {} /\ Len(end.remaining) = 0
  BY <1>6, <1>9 DEF Claims
<1>12. told(n) = Claims(before)
  BY <1>0 DEF Claims
<1> HIDE DEF told
<1>13. Len(after) \in Nat
  OBVIOUS
<1> QED BY <1>0, <1>5, <1>10, <1>11, <1>12, <1>13 DEF n

-----------------------------------------------------------------------------
(* Changes are told.                                                       *)

\* DismissalIsAWatermark, for every version, inputs and rows of evidence
\* (staleness.ts).
LEMMA DismissalIsAWatermarkHolds == Typed => DismissalIsAWatermark
<1> SUFFICES ASSUME Typed, Asked("stale") PROVE DismissalIsAWatermark
  BY DEF DismissalIsAWatermark
<1> DEFINE taken == [to |-> x.at, inputs |-> x.then]
           seen == {r \in x.rows : r.seen <= x.at}
           before == Old!ComputeStaleness(x.version, x.then, seen, taken)
           after == Old!ComputeStaleness(x.version, x.now, x.rows, taken)
           told == Old!ComputeStaleness(x.version, x.now, x.rows, Old!NoDismissal)
<1>1. x.at \in Nat /\ \A r \in x.rows : r.seen \in Nat
  BY AskedInput, StaleInputs DEF Only
<1>2. taken # Old!NoDismissal /\ taken.to = x.at /\ taken.inputs = x.then
  <2>1. taken.to # Old!NoDismissal.to
    BY <1>1 DEF Old!NoDismissal
  <2> QED BY <2>1
<1> HIDE DEF taken
<1>3. ~before.moved
  BY <1>2 DEF Old!ComputeStaleness, Old!InputsDismissed
<1>4. ~before.arrived
  <2>1. Old!SinceDismissal(taken, Old!Arrived(x.version, x.then, seen)) = {}
    BY <1>1, <1>2 DEF Old!SinceDismissal, Old!Arrived
  <2> QED BY <2>1 DEF Old!ComputeStaleness
<1>5. x.now # x.then => after.moved = told.moved
  BY <1>2 DEF Old!ComputeStaleness, Old!InputsDismissed
<1>6. after.rows = {r \in told.rows : r.seen > x.at}
  <2>1. Old!SinceDismissal(taken, Old!Arrived(x.version, x.now, x.rows))
          = {r \in Old!SinceDismissal(Old!NoDismissal, Old!Arrived(x.version, x.now, x.rows)) : r.seen > x.at}
    BY <1>1, <1>2 DEF Old!SinceDismissal
  <2> QED BY <2>1 DEF Old!ComputeStaleness
<1> QED BY <1>3, <1>4, <1>5, <1>6 DEF DismissalIsAWatermark, taken

\* The versions asked about are versions.
LEMMA VersionsAsked ==
    ASSUME Typed, Asked("diff")
    PROVE  /\ IsVersion(x.before) /\ IsVersion(x.after)
           /\ x.before.sentences \in Seq(ToSet(x.before.sentences))
           /\ x.after.sentences \in Seq(ToSet(x.after.sentences))
           /\ \A s \in ToSet(x.before.sentences) \cup ToSet(x.after.sentences) : s.words # <<>>
BY AskedInput, DiffInputs DEF Only, IsVersion

\* DiffAccountsForEverySentence, however many there are (staleness.ts).
LEMMA DiffAccountsHolds == Typed => DiffAccountsForEverySentence
<1> SUFFICES ASSUME Typed, Asked("diff"),
                    NEW w \in {s.words : s \in ToSet(x.before.sentences) \cup ToSet(x.after.sentences)}
             PROVE  LET diff == Old!DiffVersions(x.before, x.after) IN
                    /\ Occurs(diff.sentences, LAMBDA c : c.from = w) = Occurs(x.before.sentences, LAMBDA s : s.words = w)
                    /\ Occurs(diff.sentences, LAMBDA c : c.to = w) = Occurs(x.after.sentences, LAMBDA s : s.words = w)
  BY Zenon DEF DiffAccountsForEverySentence
<1>1. w # <<>>
  BY VersionsAsked
<1> DEFINE said == Old!DiffSentences(x.before.sentences, x.after.sentences)
<1>2. Old!DiffVersions(x.before, x.after).sentences = said
  BY DEF Old!DiffVersions
<1>3. /\ Cardinality({i \in DOMAIN said : said[i].from = w}) = Cardinality(Saying(x.before.sentences, w))
      /\ Cardinality({i \in DOMAIN said : said[i].to = w}) = Cardinality(Saying(x.after.sentences, w))
  <2> DEFINE before == x.before.sentences
             after == x.after.sentences
             U == ToSet(before)
             W == ToSet(after)
  <2>1. before \in Seq(U) /\ after \in Seq(W)
    BY VersionsAsked
  <2> HIDE DEF before, after, U, W
  <2>2. LET diff == Old!DiffSentences(before, after) IN
        /\ Cardinality(Leaving(diff, w)) = Cardinality(Saying(before, w))
        /\ Cardinality(Becoming(diff, w)) = Cardinality(Saying(after, w))
    BY ONLY <1>1, <2>1, DiffAccounts
  <2> QED BY <2>2 DEF before, after, Leaving, Becoming
<1> QED BY <1>2, <1>3 DEF Occurs, Saying

\* EmptyIsNoDifference: nothing to show exactly when nothing differs
\* (staleness.ts).
LEMMA EmptyIsNoDifferenceHolds == Typed => EmptyIsNoDifference
<1> SUFFICES ASSUME Typed, Asked("diff"), Old!DiffVersions(x.before, x.after).empty
             PROVE  /\ x.before.frozen = x.after.frozen /\ x.before.picks = x.after.picks
                    /\ {<<s.section, s.words>> : s \in ToSet(x.before.sentences)}
                         = {<<s.section, s.words>> : s \in ToSet(x.after.sentences)}
                    /\ Len(x.before.sentences) = Len(x.after.sentences)
  BY DEF EmptyIsNoDifference
<1> DEFINE said == Old!DiffSentences(x.before.sentences, x.after.sentences)
<1>1. /\ Old!Changes(x.before.frozen, x.after.frozen) = {}
      /\ Old!DiffPicks(x.before.picks, x.after.picks) = {}
      /\ \A i \in DOMAIN said : said[i].change = "unchanged"
  BY DEF Old!DiffVersions
<1>2. x.before.frozen = x.after.frozen
  <2> DEFINE f == x.before.frozen
             g == x.after.frozen
  <2>1. /\ IsFunction(f) /\ \A p \in DOMAIN f : f[p] # Old!Absent
        /\ IsFunction(g) /\ \A p \in DOMAIN g : g[p] # Old!Absent
    BY VersionsAsked DEF IsVersion
  <2>2. \A p \in DOMAIN f \cup DOMAIN g : Old!At(f, p) = Old!At(g, p)
    BY <1>1 DEF Old!Changes
  <2> HIDE DEF f, g
  <2>3. DOMAIN f = DOMAIN g /\ \A p \in DOMAIN f : f[p] = g[p]
    BY <2>1, <2>2 DEF Old!At
  <2>4. f = g
    BY <2>1, <2>3 DEF IsFunction
  <2> QED BY <2>4 DEF f, g
<1>3. x.before.picks = x.after.picks
  <2> DEFINE f == x.before.picks
             g == x.after.picks
  <2>1. IsFunction(f) /\ IsFunction(g)
    BY VersionsAsked DEF IsVersion
  <2>2. Old!DiffPicks(f, g) = {}
    BY <1>1
  <2> HIDE DEF f, g
  <2>3. DOMAIN f \ DOMAIN g = {} /\ DOMAIN g \ DOMAIN f = {} /\ {k \in DOMAIN f \cap DOMAIN g : f[k] # g[k]} = {}
    BY <2>2, Zenon DEF Old!DiffPicks
  <2>4. f = g
    BY <2>1, <2>3 DEF IsFunction
  <2> QED BY <2>4 DEF f, g
<1>4. Claims(x.before.sentences) = Claims(x.after.sentences) /\ Len(x.before.sentences) = Len(x.after.sentences)
  BY <1>1, VersionsAsked, QuietIsSame
<1>5. ASSUME NEW seq PROVE {<<s.section, s.words>> : s \in ToSet(seq)} = Claims(seq)
  BY DEF Claims, ToSet
<1> QED BY <1>2, <1>3, <1>4, <1>5

\* A person is told of every change since a version and of nothing else, for
\* every pair of versions (staleness.ts).
THEOREM RulesChanges == Spec => []ChangesAreTold
<1>1. Typed => ChangesAreTold
  BY DismissalIsAWatermarkHolds, DiffAccountsHolds, EmptyIsNoDifferenceHolds DEF ChangesAreTold
<1> QED BY <1>1, TypedInductive, PTL

-----------------------------------------------------------------------------
(* The row a page reads.                                                   *)

RowStep(best, row, key, cat) == IF row.key = key THEN S!TakeRow(best, row, cat) ELSE best
RowFold(rows, key, cat) ==
    CHOOSE g : g = [s \in SUBSET (DOMAIN rows) |->
                       IF s = {} THEN <<>> ELSE RowStep(g[s \ {Max(s)}], rows[Max(s)], key, cat)]

\* The row a page reads is the end of a fold over the stored rows (score.ts).
LEMMA StoredRowIsFold ==
    ASSUME NEW rows, NEW key, NEW cat
    PROVE  S!StoredRow(rows, key, cat) = RowFold(rows, key, cat)[DOMAIN rows]
BY Zenon DEF RowFold, RowStep, S!StoredRow, S!FoldLeft, S!MapThenFoldSet, S!Max, Max

\* When only one row counts for a Criterion and it is there, it is read,
\* wherever it stands (score.ts).
LEMMA StoredRowIs ==
    ASSUME NEW All, NEW rows \in Seq(All), NEW key, NEW cat, NEW mine \in All,
           \E i \in DOMAIN rows : rows[i] = mine,
           RowStep(<<>>, mine, key, cat) = <<mine>>, RowStep(<<mine>>, mine, key, cat) = <<mine>>,
           \A row \in All \ {mine} : /\ RowStep(<<>>, row, key, cat) = <<>>
                                     /\ RowStep(<<mine>>, row, key, cat) = <<mine>>
    PROVE  S!StoredRow(rows, key, cat) = <<mine>>
<1> DEFINE n == Len(rows)
           V == {<<>>, <<mine>>}
           F == [p \in V \X (1..n) |-> RowStep(p[1], rows[p[2]], key, cat)]
           base == <<>>
           Eq(g) == g = [s \in SUBSET (DOMAIN rows) |->
                            IF s = {} THEN base ELSE RowStep(g[s \ {Max(s)}], rows[Max(s)], key, cat)]
           fold == RowFold(rows, key, cat)
<1>0. n \in Nat /\ DOMAIN rows = 1..n /\ (\A k \in 1..n : rows[k] \in All)
  OBVIOUS
<1>1. base \in V
  OBVIOUS
<1>2. ASSUME NEW v \in V, NEW k \in 1..n
      PROVE  /\ F[<<v, k>>] = RowStep(v, rows[k], key, cat)
             /\ F[<<v, k>>] = IF rows[k] = mine THEN <<mine>> ELSE v
  <2>1. F[<<v, k>>] = RowStep(v, rows[k], key, cat)
    OBVIOUS
  <2>2. rows[k] \in All
    BY <1>0
  <2>3. RowStep(v, rows[k], key, cat) = IF rows[k] = mine THEN <<mine>> ELSE v
    <3>1. v = <<>> \/ v = <<mine>>
      OBVIOUS
    <3>2. CASE rows[k] = mine
      BY <3>1, <3>2
    <3>3. CASE rows[k] # mine
      <4>1. rows[k] \in All \ {mine}
        BY <2>2, <3>3
      <4> QED BY <3>1, <3>3, <4>1
    <3> QED BY <3>2, <3>3
  <2> QED BY <2>1, <2>3
<1>2c. ASSUME NEW v \in V, NEW k \in 1..n
       PROVE  RowStep(v, rows[k], key, cat) = IF rows[k] = mine THEN <<mine>> ELSE v
  BY <1>2
<1>2a. ASSUME NEW v \in V, NEW k \in 1..n PROVE F[<<v, k>>] \in V
  BY <1>2
<1>2b. <<mine>> \in V
  OBVIOUS
<1> HIDE DEF n, V, F, base
<1>3. PICK g : FoldsTo(g, n, V, base, F)
  BY <1>0, <1>1, <1>2a, FoldExists
<1>4. ASSUME NEW s \in SUBSET (1..n), s # {} PROVE Max(s) \in s /\ s \ {Max(s)} \in SUBSET (1..n)
  BY <1>0, <1>4, MaxOf
<1>5. ASSUME NEW s \in SUBSET (1..n)
      PROVE  g[s] = IF s = {} THEN base ELSE RowStep(g[s \ {Max(s)}], rows[Max(s)], key, cat)
  <2>1. CASE s = {}
    BY <1>3, <2>1 DEF FoldsTo
  <2>2. CASE s # {}
    <3>1. Max(s) \in 1..n /\ g[s \ {Max(s)}] \in V
      BY <1>3, <1>4, <2>2 DEF FoldsTo
    <3>2. g[s] = F[<<g[s \ {Max(s)}], Max(s)>>]
      BY <1>3, <2>2 DEF FoldsTo
    <3> QED BY <1>2, <2>2, <3>1, <3>2
  <2> QED BY <2>1, <2>2
<1>6. Eq(g)
  <2>1. g = [s \in SUBSET (1..n) |-> g[s]]
    BY <1>3 DEF FoldsTo
  <2>2. g = [s \in SUBSET (1..n) |-> IF s = {} THEN base ELSE RowStep(g[s \ {Max(s)}], rows[Max(s)], key, cat)]
    BY <1>5, <2>1, Zenon
  <2> QED BY <1>0, <2>2
<1>7. Eq(fold)
  <2>1. \E h : Eq(h)
    BY <1>6
  <2>2. fold = CHOOSE h : Eq(h)
    BY DEF RowFold, base
  <2> HIDE DEF Eq, fold
  <2> QED BY <2>1, <2>2
<1> HIDE DEF fold
<1>8. ASSUME NEW s \in SUBSET (1..n)
      PROVE  fold[s] = IF s = {} THEN base ELSE RowStep(fold[s \ {Max(s)}], rows[Max(s)], key, cat)
  BY <1>0, <1>7
<1> DEFINE seen(k) == \E i \in 1..k : rows[i] = mine
           T == {k \in Nat : k <= n => fold[1..k] = IF seen(k) THEN <<mine>> ELSE <<>>}
<1>9. 0 \in T
  <2>1. 1..0 = {} /\ 1..0 \in SUBSET (1..n)
    BY SMT
  <2>2. fold[1..0] = base
    BY <1>8, <2>1
  <2> QED BY <2>1, <2>2 DEF base
<1>10. ASSUME NEW k \in Nat, k \in T PROVE k + 1 \in T
  <2> SUFFICES ASSUME k + 1 <= n PROVE fold[1..(k + 1)] = IF seen(k + 1) THEN <<mine>> ELSE <<>>
    OBVIOUS
  <2>0. k + 1 \in 1..n /\ k <= n
    BY <1>0
  <2>1. /\ 1..(k + 1) \in SUBSET (1..n) /\ k + 1 \in 1..(k + 1) /\ (\A j \in 1..(k + 1) : j <= k + 1)
        /\ (1..(k + 1)) \ {k + 1} = 1..k
    BY <1>0, <2>0
  <2>1b. k + 1 \in Nat \ {0}
    BY <2>0
  <2>2. Max(1..(k + 1)) = k + 1
    BY <2>1b, MaxOfRun
  <2>3. 1..(k + 1) # {}
    BY <2>1
  <2>4. fold[1..(k + 1)] = RowStep(fold[1..k], rows[k + 1], key, cat)
    BY <1>8, <2>1, <2>2, <2>3
  <2>5. fold[1..k] = IF seen(k) THEN <<mine>> ELSE <<>>
    BY <1>10, <2>0
  <2>6. fold[1..k] \in V
    BY <1>1, <1>2b, <2>5 DEF base
  <2>7. fold[1..(k + 1)] = IF rows[k + 1] = mine THEN <<mine>> ELSE fold[1..k]
    BY <1>2c, <2>0, <2>4, <2>6
  <2>8. seen(k + 1) <=> seen(k) \/ rows[k + 1] = mine
    <3>1. 1..(k + 1) = (1..k) \cup {k + 1}
      BY <2>0
    <3> QED BY <3>1
  <2> HIDE DEF seen
  <2> QED BY <2>5, <2>7, <2>8
<1>11. n \in T
  <2> HIDE DEF T
  <2> QED BY <1>0, <1>9, <1>10, AllNumbers
<1>12. seen(n)
  BY <1>0
<1>13. fold[1..n] = <<mine>>
  BY <1>0, <1>11, <1>12
<1> QED BY <1>0, <1>13, StoredRowIsFold DEF fold

StoredOf(outcomes, tariffs, key, cat) ==
    [key |-> key, cat |-> IF key = "tariff_exposure" THEN cat ELSE S!AnyCategory,
     value |-> IF key = "tariff_exposure" THEN tariffs[cat] ELSE outcomes[key]]

\* Of what an enrich Job stores, the page of a Category reads its own tariff
\* and the five other rows (score.ts, enrich-supplier.ts).
LEMMA OneRowEach ==
    ASSUME NEW outcomes, NEW tariffs, S!AnyCategory \notin DOMAIN tariffs,
           NEW rows \in Seq(S!StoredValues(outcomes, tariffs)),
           \A r \in S!StoredValues(outcomes, tariffs) : \E i \in DOMAIN rows : rows[i] = r,
           NEW cat \in DOMAIN tariffs, NEW key \in S!WeightedCriteria
    PROVE  S!StoredRow(rows, key, cat) = <<StoredOf(outcomes, tariffs, key, cat)>>
<1> DEFINE All == S!StoredValues(outcomes, tariffs)
           mine == StoredOf(outcomes, tariffs, key, cat)
<1>1. /\ mine \in All /\ mine.key = key
      /\ mine.cat = IF key = "tariff_exposure" THEN cat ELSE S!AnyCategory
  BY DEF StoredOf, S!StoredValues
<1>2. cat # S!AnyCategory
  OBVIOUS
<1>3. \A b : <<b>> # <<>> /\ <<b>>[1] = b
  OBVIOUS
<1>4. RowStep(<<>>, mine, key, cat) = <<mine>> /\ RowStep(<<mine>>, mine, key, cat) = <<mine>>
  <2> HIDE DEF mine
  <2>1. mine.cat = S!AnyCategory \/ mine.cat = cat
    BY <1>1
  <2> QED BY <1>1, <1>2, <1>3, <2>1 DEF RowStep, S!TakeRow
<1>5. ASSUME NEW row \in All \ {mine}
      PROVE  RowStep(<<>>, row, key, cat) = <<>> /\ RowStep(<<mine>>, row, key, cat) = <<mine>>
  <2>1. CASE row.key # key
    BY <2>1 DEF RowStep
  <2>2. CASE row.key = key
    <3>1. key = "tariff_exposure" /\ row.cat \in DOMAIN tariffs /\ row.cat # cat
      <4>1. CASE row \in {[key |-> k, cat |-> S!AnyCategory, value |-> outcomes[k]] :
                             k \in S!WeightedCriteria \ {"tariff_exposure"}}
        BY <2>2, <4>1 DEF StoredOf
      <4>2. CASE row \in {[key |-> "tariff_exposure", cat |-> c, value |-> tariffs[c]] : c \in DOMAIN tariffs}
        BY <2>2, <4>2 DEF StoredOf
      <4> QED BY <4>1, <4>2 DEF S!StoredValues
    <3> QED BY <1>2, <2>2, <3>1 DEF RowStep, S!TakeRow
  <2> QED BY <2>1, <2>2
<1>6. \E i \in DOMAIN rows : rows[i] = mine
  BY <1>1
<1> HIDE DEF All, mine
<1>7. rows \in Seq(All)
  BY DEF All
<1> QED BY <1>1, <1>4, <1>5, <1>6, <1>7, StoredRowIs DEF mine

\* The rows asked about are those a Job stored.
LEMMA AskedStored ==
    ASSUME Typed, Asked("stored")
    PROVE  /\ x.outcomes = [k \in S!WeightedCriteria |-> x.outcomes[k]]
           /\ S!AnyCategory \notin DOMAIN x.tariffs
           /\ x.rows \in Seq(S!StoredValues(x.outcomes, x.tariffs))
           /\ \A r \in S!StoredValues(x.outcomes, x.tariffs) : \E i \in DOMAIN x.rows : x.rows[i] = r
BY AskedInput, StoredInputs DEF Only

\* PageAgreesWithJob, for every outcome, every number of Categories and
\* every order of the rows (score.ts, enrich-supplier.ts).
LEMMA PageAgreesWithJobHolds ==
    ASSUME Typed
    PROVE  PageAgreesWithJob
<1> SUFFICES ASSUME Asked("stored"), NEW cat \in DOMAIN x.tariffs
             PROVE  S!ScoreFromStoredValues(TRUE, TRUE, x.rows, cat, S!DefaultWeights)
                      = S!Assemble([x.outcomes EXCEPT !["tariff_exposure"] = x.tariffs[cat]], S!DefaultWeights)
  BY DEF PageAgreesWithJob
<1> DEFINE outcomes == x.outcomes
           tariffs == x.tariffs
           rows == x.rows
           read == [k \in S!WeightedCriteria |-> IF S!StoredRow(rows, k, cat) = <<>> THEN S!Unknown
                                                 ELSE S!StoredRow(rows, k, cat)[1].value]
           known == [outcomes EXCEPT !["tariff_exposure"] = tariffs[cat]]
<1>1. /\ outcomes = [k \in S!WeightedCriteria |-> outcomes[k]]
      /\ S!AnyCategory \notin DOMAIN tariffs
      /\ rows \in Seq(S!StoredValues(outcomes, tariffs))
      /\ \A r \in S!StoredValues(outcomes, tariffs) : \E i \in DOMAIN rows : rows[i] = r
      /\ cat \in DOMAIN tariffs
  BY AskedStored
<1>2. S!ScoreFromStoredValues(TRUE, TRUE, rows, cat, S!DefaultWeights) = S!Assemble(read, S!DefaultWeights)
  BY DEF S!ScoreFromStoredValues, S!ScoreSupplier
<1> HIDE DEF outcomes, tariffs, rows
<1>3. ASSUME NEW k \in S!WeightedCriteria
      PROVE  read[k] = IF k = "tariff_exposure" THEN tariffs[cat] ELSE outcomes[k]
  <2>1. S!StoredRow(rows, k, cat) = <<StoredOf(outcomes, tariffs, k, cat)>>
    BY <1>1, OneRowEach
  <2>2. \A b : <<b>> # <<>> /\ <<b>>[1] = b
    OBVIOUS
  <2>3. read[k] = StoredOf(outcomes, tariffs, k, cat).value
    BY <2>1, <2>2
  <2> QED BY <2>3 DEF StoredOf
<1>4. "tariff_exposure" \in S!WeightedCriteria
  BY DEF S!WeightedCriteria
<1>5. known = [k \in S!WeightedCriteria |-> IF k = "tariff_exposure" THEN tariffs[cat] ELSE outcomes[k]]
  BY <1>1, <1>4
<1>6. read = known
  BY <1>3, <1>5
<1> HIDE DEF read, known
<1>7. S!ScoreFromStoredValues(TRUE, TRUE, rows, cat, S!DefaultWeights) = S!Assemble(known, S!DefaultWeights)
  BY <1>2, <1>6
<1> QED BY <1>7 DEF known, outcomes, tariffs, rows

-----------------------------------------------------------------------------
(* The link and the rail.                                                  *)

\* The weights asked about are those of a rail.
LEMMA AskedLink ==
    ASSUME Typed, Asked("link")
    PROVE  /\ x.weights \in [S!WeightedCriteria -> Nat]
           /\ \A k \in DOMAIN x.default : x.default[k] \in Int
BY AskedInput, LinkInputs DEF Only

\* The weights of the code are legal.
LEMMA DefaultIsLegal ==
    S!DefaultWeights \in [S!WeightedCriteria -> Nat]
BY DEF S!DefaultWeights

\* Whatever the Program prefers, the weights that come of it are legal
\* (score.ts).
LEMMA NormalisedIsLegal ==
    ASSUME NEW default, \A k \in DOMAIN default : default[k] \in Int
    PROVE  S!NormaliseWeights(<<>>, default) \in [S!WeightedCriteria -> Nat]
<1>1. DOMAIN <<>> = {}
  OBVIOUS
<1>2. ASSUME NEW k \in S!WeightedCriteria
      PROVE  S!DefaultWeights[k] \in Nat
  BY DefaultIsLegal
<1> QED BY <1>1, <1>2 DEF S!NormaliseWeights

\* Legal weights are left as they are (score.ts).
LEMMA LegalIsNormal ==
    ASSUME NEW w \in [S!WeightedCriteria -> Nat], NEW default
    PROVE  S!NormaliseWeights(w, default) = w
<1>1. \A k \in S!WeightedCriteria : k \in DOMAIN w /\ w[k] \in Nat /\ w[k] >= 0
  OBVIOUS
<1>2. S!NormaliseWeights(w, default) = [k \in S!WeightedCriteria |-> w[k]]
  BY <1>1 DEF S!NormaliseWeights
<1> QED BY <1>2

\* What a link carries and the Program fills in are the weights it was made
\* of, and it is empty exactly when they are the default (view-state.ts).
LEMMA LinkIsRead ==
    ASSUME NEW w \in [S!WeightedCriteria -> Nat],
           NEW default, \A k \in DOMAIN default : default[k] \in Int
    PROVE  LET params == S!ToSearchParams(w, default) IN
           /\ S!ParseViewState(params, default) = w
           /\ S!IsWhatIf(w, default) <=> DOMAIN params # {}
<1> DEFINE base == S!NormaliseWeights(<<>>, default)
           changed == {k \in S!WeightedCriteria : w[k] # base[k]}
           params == S!ToSearchParams(w, default)
           legal == {k \in DOMAIN params : k \in S!WeightedCriteria /\ params[k] >= 0}
           kept == [k \in legal |-> params[k]]
           value(supplied, k) == IF k \in DOMAIN supplied THEN supplied[k]
                                 ELSE IF k \in DOMAIN default THEN default[k] ELSE S!DefaultWeights[k]
<1>1. params = [k \in changed |-> w[k]] /\ DOMAIN params = changed
  BY DEF S!ToSearchParams
<1>2. legal = changed /\ kept = params
  <2>1. \A k \in changed : k \in S!WeightedCriteria /\ params[k] = w[k] /\ w[k] >= 0
    BY <1>1
  <2> QED BY <1>1, <2>1
<1>3. DOMAIN <<>> = {}
  OBVIOUS
<1>4. S!ParseViewState(params, default) = S!NormaliseWeights(params, default)
  BY <1>2 DEF S!ParseViewState
<1>5. ASSUME NEW k \in S!WeightedCriteria
      PROVE  (IF value(params, k) >= 0 THEN value(params, k) ELSE S!DefaultWeights[k]) = w[k]
  <2>1. CASE k \in changed
    <3>1. value(params, k) = w[k] /\ w[k] >= 0
      BY <1>1, <2>1
    <3> QED BY <3>1
  <2>2. CASE k \notin changed
    <3>1. w[k] = base[k]
      BY <2>2
    <3>2. value(params, k) = value(<<>>, k)
      BY <1>1, <1>3, <2>2
    <3>3. base[k] = IF value(<<>>, k) >= 0 THEN value(<<>>, k) ELSE S!DefaultWeights[k]
      BY DEF S!NormaliseWeights
    <3> QED BY <3>1, <3>2, <3>3
  <2> QED BY <2>1, <2>2
<1>6. S!NormaliseWeights(params, default)
        = [k \in S!WeightedCriteria |-> IF value(params, k) >= 0 THEN value(params, k) ELSE S!DefaultWeights[k]]
  BY DEF S!NormaliseWeights
<1>7. S!NormaliseWeights(params, default) = w
  <2> HIDE DEF value, params
  <2>1. S!NormaliseWeights(params, default) = [k \in S!WeightedCriteria |-> w[k]]
    BY <1>5, <1>6, Zenon
  <2> QED BY <2>1
<1>8. S!IsWhatIf(w, default) <=> changed # {}
  BY DEF S!IsWhatIf
<1> QED BY <1>1, <1>4, <1>7, <1>8

\* LinkReproducesTheRanking, for all weights and defaults (view-state.ts,
\* staleness.ts).
LEMMA LinkReproducesTheRankingHolds ==
    ASSUME Typed
    PROVE  LinkReproducesTheRanking
<1> SUFFICES ASSUME Asked("link") PROVE LinkReproducesTheRanking
  BY DEF LinkReproducesTheRanking
<1> DEFINE w == x.weights
           default == x.default
           base == S!NormaliseWeights(<<>>, default)
<1>1. w \in [S!WeightedCriteria -> Nat] /\ \A k \in DOMAIN default : default[k] \in Int
  BY AskedLink
<1>2. LinkReproducesTheRanking =
        LET params == S!ToSearchParams(w, default) IN
        /\ S!ParseViewState(params, default) = w
        /\ S!IsWhatIf(w, default) <=> DOMAIN params # {}
        /\ S!IsWhatIf(w, default) <=> Old!IsViewingWhatIf(w, base)
  BY DEF LinkReproducesTheRanking
<1> HIDE DEF w, default
<1>3. base \in [S!WeightedCriteria -> Nat]
  BY <1>1, NormalisedIsLegal
<1>4. S!IsWhatIf(w, default) <=> Old!IsViewingWhatIf(w, base)
  <2>1. S!IsWhatIf(w, default) <=> \E k \in S!WeightedCriteria : w[k] # base[k]
    BY DEF S!IsWhatIf
  <2> HIDE DEF base
  <2>2. Old!IsViewingWhatIf(w, base) <=> \E k \in S!WeightedCriteria : w[k] # base[k]
    BY <1>1, <1>3 DEF Old!IsViewingWhatIf
  <2> QED BY <2>1, <2>2
<1> QED BY <1>1, <1>2, <1>4, LinkIsRead

\* The tools of chat read a link as the pages do (reads.ts).
LEMMA ChatReadsTheRail ==
    /\ \A w, default : Cat!Score!NormaliseWeights(w, default) = S!NormaliseWeights(w, default)
    /\ \A w, default : Cat!Score!ParseViewState(w, default) = S!ParseViewState(w, default)
    /\ \A w, default : Cat!Score!IsWhatIf(w, default) <=> S!IsWhatIf(w, default)
<1>1. \A w, default : Cat!Score!NormaliseWeights(w, default) = S!NormaliseWeights(w, default)
  BY DEF Cat!Score!NormaliseWeights, S!NormaliseWeights, Cat!Score!DefaultWeights, S!DefaultWeights,
         Cat!Score!WeightedCriteria, S!WeightedCriteria
<1>2. Cat!Score!WeightedCriteria = S!WeightedCriteria
  BY DEF Cat!Score!WeightedCriteria, S!WeightedCriteria
<1> QED BY <1>1, <1>2 DEF Cat!Score!ParseViewState, S!ParseViewState, Cat!Score!IsWhatIf, S!IsWhatIf

\* RailIsAnswered, for all weights and defaults (reads.ts).
LEMMA RailIsAnsweredHolds ==
    ASSUME Typed
    PROVE  RailIsAnswered
<1> SUFFICES ASSUME Asked("link") PROVE RailIsAnswered
  BY DEF RailIsAnswered
<1> DEFINE w == x.weights
           default == x.default
           params == S!ToSearchParams(w, default)
<1>1. w \in [S!WeightedCriteria -> Nat] /\ \A k \in DOMAIN default : default[k] \in Int
  BY AskedLink
<1>2. RailIsAnswered = (/\ Cat!ShortlistWeights(<<>>, params, default) = w
                        /\ Cat!ShortlistIsWhatIf(<<>>, params, default) <=> S!IsWhatIf(w, default))
  BY DEF RailIsAnswered
<1> HIDE DEF w, default
<1>3. S!ParseViewState(params, default) = w
  BY <1>1, LinkIsRead
<1> HIDE DEF params
<1>4. Cat!ShortlistWeights(<<>>, params, default) = w
  BY <1>1, <1>3, ChatReadsTheRail, LegalIsNormal DEF Cat!ShortlistWeights
<1>5. Cat!ShortlistIsWhatIf(<<>>, params, default) <=> S!IsWhatIf(w, default)
  BY <1>3, ChatReadsTheRail DEF Cat!ShortlistIsWhatIf
<1> QED BY <1>2, <1>4, <1>5
=============================================================================
