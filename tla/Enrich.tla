------------------------------- MODULE Enrich -------------------------------
(***************************************************************************)
(* The Jobs that read a company from the providers and store what came     *)
(* back: enrich (jobs/enrich-supplier.ts, enrich.ts), traverse             *)
(* (traverse.ts), trade (trade.ts) and pairs (pairs.ts, shortest-path.ts). *)
(* Up to four run at once, two Suppliers may share a company or a country, *)
(* and none of these Jobs keeps a checkpoint: an attempt that stops is run *)
(* again from its first read.                                              *)
(*                                                                         *)
(* A read counts the rows its source already has for its subject, inserts  *)
(* its own under that generation, or adopts the row that got there first,  *)
(* and stores what the body holds, one statement at a time.  The provider  *)
(* does not change its mind: upstream_response is a cache without an age.  *)
(* What a row says of its read's coverage is left out.                     *)
(***************************************************************************)
EXTENDS Graph, Functions

CONSTANTS
    Attempts,      \* runOneJob() calls: the bound on a history
    Worlds,        \* sequence of the worlds below: what there is to read
    Indicators,    \* COUNTRY_INDICATORS, in order
    Criteria,      \* the Criteria a Supplier is given, in order
    MaxNodes,      \* DEEP_TRAVERSAL_MAX_NODES
    MaxHops,       \* DEEP_TRAVERSAL_MAX_HOPS
    PageSize,      \* DEEP_TRAVERSAL_PAGE_SIZE
    OffsetCeiling, \* OFFSET_CEILING of paginate.ts
    CallBudget     \* JOB_CAPS.traverse.toolCalls

ASSUME EnrichBounds ==
    /\ {MaxNodes, PageSize, CallBudget} \subseteq Nat \ {0}
    /\ {MaxHops, OffsetCeiling} \subseteq Nat
    /\ None \notin Nat

\* A world is a record: jobs, [job -> kind, supplier]; profile, [supplier ->
\* entity, country, lei, lines, located], None while no Match is accepted;
\* stored, the companies with a row; replies, [source -> what the body lists];
\* risk, [<<endpoint, company>> -> the factors it is sighted with]; own and gap,
\* a company's own edges and the owners the typed read adds; walk, [direction ->
\* the paths it pages through]; bidders, joins and described, what pairs and
\* trade find; silent, the <<country, indicator>> pairs without a value.
IsList(s) == s \in Seq(ToSet(s))
Replied(w, source) ==
    IF source \in DOMAIN w.replies THEN ToSet(w.replies[source]) ELSE {}

\* Every traversal path a reply, a walk or a join of the world names.
Named(w) ==
    UNION {Replied(w, "sayari_ownership_family"),
           Replied(w, "sayari_ownership_exposure"),
           Replied(w, "sayari_watchlist"),
           ToSet(w.walk["downward"]), ToSet(w.walk["upward"]), Range(w.joins)}

ASSUME ListsAssumption == IsList(Indicators) /\ IsList(Criteria)

\* What the code takes for granted: a Match and a bidder are of a company with a
\* row (foreign keys), a company's own edges begin at one, a walk is of a company
\* (its subject), and what arrives as an array is a sequence.
ASSUME WorldsAssumption ==
    \A n \in DOMAIN Worlds : LET w == Worlds[n] IN
        /\ \A j \in DOMAIN w.jobs :
              /\ j # None
              /\ w.jobs[j].kind \in {"enrich", "traverse", "trade", "pairs"}
              /\ w.jobs[j].supplier \in DOMAIN w.profile
              /\ w.jobs[j].kind = "traverse" =>
                    w.profile[w.jobs[j].supplier] # None
        /\ \A s \in DOMAIN w.profile : w.profile[s] # None =>
              w.profile[s].entity \in w.stored /\ IsList(w.profile[s].lines)
        /\ IsList(w.bidders) /\ ToSet(w.bidders) \subseteq w.stored
        /\ \A e \in w.own \cup w.gap : e.from \in w.stored
        /\ \A x \in DOMAIN w.risk : \A f \in DOMAIN w.risk[x] :
              w.risk[x][f] \in Nat
        /\ \A source \in DOMAIN w.replies : IsList(w.replies[source])
        /\ \A dir \in {"downward", "upward"} : IsList(w.walk[dir])
        /\ \A path \in Named(w) : IsList(path.steps)
        /\ \A segments \in Replied(w, "sayari_supply_chain_upstream") :
              /\ IsList(segments)
              /\ \A i \in DOMAIN segments : segments[i].tier \in Nat \cup {None}

VARIABLES
    world,     \* which of the Worlds this is
    calls,     \* enrichment rows: [<<source, subject, generation>> -> the call]
    items,     \* news_item ids, and country_indicator rows by who wrote them
    risks,     \* entity rows: [id -> its stored risk]
    edges,     \* entity_relationship rows: [edge -> hop_depth]
    paths,     \* graph_path rows: [<<root, terminal, kind>> -> the row]
    values,    \* criterion_value rows: [supplier, key, n, current]
    jobs,      \* [job -> state]
    at         \* [Attempts -> what the attempt holds in memory]

vars == <<world, calls, items, risks, edges, paths, values, jobs, at>>
rows == <<calls, items, risks, edges, paths, values>>

-----------------------------------------------------------------------------
World == Worlds[world]
Jobs == DOMAIN World.jobs
Kind(j) == World.jobs[j].kind
Profile(j) == World.profile[World.jobs[j].supplier]
Empty == [x \in {} |-> x]

NoWalk == [dir |-> "downward", offset |-> 0, left |-> CallBudget,
           found |-> {}, pages |-> <<>>]
Idle == [job |-> None, pc |-> "idle", reads |-> <<>>, body |-> <<>>, k |-> 1,
         gen |-> 0, walk |-> NoWalk, input |-> None, previous |-> None]
Over == [Idle EXCEPT !.pc = "over"]

Init ==
    /\ world \in DOMAIN Worlds
    /\ calls = Empty /\ items = {} /\ edges = Empty /\ paths = Empty
    /\ risks = [e \in World.stored |-> NoRisk]
    /\ values = {}
    /\ jobs = [j \in Jobs |-> "queued"]
    /\ at = [a \in Attempts |-> Idle]

-----------------------------------------------------------------------------
(* The reads of a Job, in order.                                           *)

\* One call: the source and subject its generation is counted under, which of
\* the calls under that counter it is, and what it stores.
Read(source, subject, call, stores) ==
    [source |-> source, subject |-> subject, call |-> call, stores |-> stores]

\* enrichCountry(), enrichLei(), enrichTariff() and enrichGeocode(): one call
\* each, or one for each indicator; what is not known is not asked for, and a
\* geocoder only where Sayari has no coordinate.
CountryReads(country) ==
    IF country = None THEN <<>>
    ELSE [i \in DOMAIN Indicators |->
            Read("world_bank", <<country, Indicators[i]>>, "indicator",
                 "indicators")]
LeiReads(p) ==
    IF p.lei THEN <<Read("gleif", p.entity, "lei", "row")>> ELSE <<>>
TariffReads(p) ==
    [i \in DOMAIN p.lines |-> Read("usitc", p.lines[i], "tariff", "row")]
GeocodeReads(p, supplier) ==
    IF p.located THEN <<>>
    ELSE <<Read("nominatim", supplier, "geocode", "row")>>

\* enrichWatchlist(): the listed companies on either side.
WatchlistRead(e) == Read("sayari_watchlist", e, "watchlist", "paths")

\* fanOutEnrichments(), and readOwnerEdges() last.
EnrichReads(j) ==
    LET p == Profile(j) IN
    <<Read("sayari_negative_news", p.entity, "news", "articles"),
      Read("sayari_ownership_family", p.entity, "family", "paths"),
      WatchlistRead(p.entity),
      Read("sayari_ownership_exposure", p.entity, "exposure", "paths")>>
    \o CountryReads(p.country) \o LeiReads(p) \o TariffReads(p)
    \o GeocodeReads(p, World.jobs[j].supplier)
    \o <<Read("getEntity", p.entity, "own", "window")>>

\* runTradeFootprint(): three calls under one counter.
FootprintReads(e) ==
    [i \in 1..3 |-> Read("sayari_trade_footprint", e,
        <<"searchSuppliers", "searchBuyers", "searchShipments">>[i], "row")]

\* runTradeJob(): the tiers upstream come last, and not_found leaves no row.
TradeReads(e) ==
    FootprintReads(e)
    \o IF "sayari_supply_chain_upstream" \in DOMAIN World.replies
       THEN <<Read("sayari_supply_chain_upstream", e, "tiers", "tiers")>>
       ELSE <<>>

\* runPairsCheck(): one read per pair of bidders on different Profiles, and a
\* pair that nothing joins leaves no row at all.
PairReads(bidders) ==
    LET joined(p) == <<bidders[p[1]], bidders[p[2]]>> \in DOMAIN World.joins
        pairs == SetToSeq({p \in UnorderedPairs(bidders) : joined(p)})
    IN  [i \in DOMAIN pairs |->
            Read("sayari_shortest_path", bidders[pairs[i][1]],
                 bidders[pairs[i][2]], "joint")]

Reads(j) ==
    CASE Kind(j) \in {"enrich", "trade"} /\ Profile(j) = None -> <<>>
      [] Kind(j) = "enrich" /\ Profile(j) # None -> EnrichReads(j)
      [] Kind(j) = "trade" /\ Profile(j) # None -> TradeReads(Profile(j).entity)
      [] Kind(j) = "pairs" -> PairReads(World.bidders)
      [] Kind(j) = "traverse" ->
            <<Read("sayari_deep_traversal", Profile(j).entity, "page", "walk")>>

\* The read an attempt is at, and the row it is recorded in.
Current(a) == Head(at[a].reads)
Row(a) == <<Current(a).source, Current(a).subject, at[a].gen>>
Reply(source) == IF source \in DOMAIN World.replies THEN World.replies[source]
                 ELSE <<>>

\* What is asked for: the two directions of a walk page through one counter.
CallOf(a) ==
    IF Current(a).stores = "walk"
    THEN <<at[a].walk.dir, at[a].walk.offset>> ELSE Current(a).call

\* The list a walk pages through, and the window it asks for.
Window(a) ==
    LET w == at[a].walk
        room == MaxNodes - Cardinality(w.found)
        end == w.offset + (IF room < PageSize THEN room ELSE PageSize)
        last == Len(World.walk[w.dir])
    IN  SubSeq(World.walk[w.dir], w.offset + 1, IF end < last THEN end ELSE last)

\* What there is to store of a reply, in order: articles, values, or members.
Body(a) ==
    LET r == Current(a)
    IN  CASE r.stores = "articles" -> Reply(r.source)
          [] r.stores = "indicators" ->
                IF r.subject \in World.silent THEN <<>> ELSE <<r.subject>>
          [] r.stores = "paths" -> PageMembers(Reply(r.source), r.subject)
          [] r.stores = "tiers" -> TradeMembers(Reply(r.source), r.subject,
                                                World.described)
          [] r.stores = "joint" ->
                PageMembers(<<World.joins[<<r.subject, r.call>>]>>, r.subject)
          [] r.stores = "walk" ->
                MergeMembers(at[a].walk.found, Window(a), r.subject,
                             MaxNodes, MaxHops)
          [] OTHER -> <<>>

-----------------------------------------------------------------------------
(* What is written.                                                        *)

\* upsertEntity() for several companies, as one endpoint sights them.
Upsert(ids, source) ==
    [e \in DOMAIN risks \cup ids |->
        LET was == IF e \in DOMAIN risks THEN risks[e] ELSE NoRisk
        IN  IF e \in ids /\ <<source, e>> \in DOMAIN World.risk
            THEN MergeRisk(was, World.risk[<<source, e>>], source) ELSE was]

Key(e) == [from |-> e.from, to |-> e.to, type |-> e.type, record |-> e.record]
Whole(hops) == SelectSeq(hops, LAMBDA h : h.edge.whole)
Chain(hops) == LET w == Whole(hops) IN [i \in DOMAIN w |-> Key(w[i].edge)]

\* storeRelationships(): an edge already held keeps the nearer of two depths.
\* (Two without a record are never equal to the database; here they are.)
StoreEdges(hops) ==
    LET keys == {Key(h.edge) : h \in hops}
        depth(k) == Min({h.depth : h \in {g \in hops : Key(g.edge) = k}}
                        \cup (IF k \in DOMAIN edges THEN {edges[k]} ELSE {}))
    IN  [k \in DOMAIN edges \cup keys |->
            IF k \in keys THEN depth(k) ELSE edges[k]]

\* Fault: no foreign key.
NeverRefused(hops) == FALSE

\* An edge whose subject has no row is refused by the database.
Refused(hops) ==
    LET w == Whole(hops)
        before(i) == {w[j].edge.to : j \in {n \in DOMAIN w : n < i}}
    IN  \E i \in DOMAIN w : w[i].edge.from \notin DOMAIN risks \cup before(i)

PathKind(a) ==
    LET r == Current(a)
    IN  CASE r.source = "sayari_watchlist" -> "watchlist"
          [] r.stores = "tiers" -> "supply_chain"
          [] r.stores = "joint" -> "shortest_path"
          [] OTHER -> "family"

\* Fault: the evidence is replaced whatever its length.
TakeChain(old, new) ==
    [old EXCEPT !.depth = Min({old.depth, new.depth}), !.chain = new.chain,
                !.filtered = old.filtered \/ new.filtered]

\* Fault: the row is credited to the read that touched it last.
TakeCredit(old, new) ==
    [old EXCEPT !.row = new.row, !.depth = Min({old.depth, new.depth}),
                !.chain = IF new.depth <= old.depth THEN new.chain
                          ELSE old.chain,
                !.filtered = old.filtered \/ new.filtered]

\* conflictSet() of writeGraphPaths(): the shorter chain with its depth; who
\* found the Path first stays.
Merged(old, new) ==
    [old EXCEPT !.depth = Min({old.depth, new.depth}),
                !.chain = IF new.depth <= old.depth THEN new.chain
                          ELSE old.chain,
                !.filtered = old.filtered \/ new.filtered]

WritePath(root, kind, m, row, by, filtered) ==
    LET key == <<root, m.entity, kind>>
        new == [row |-> row, depth |-> m.depth, chain |-> Chain(m.hops),
                by |-> by, filtered |-> filtered]
    IN  paths' = [k \in DOMAIN paths \cup {key} |->
                    IF k # key THEN paths[k]
                    ELSE IF key \in DOMAIN paths THEN Merged(paths[key], new)
                    ELSE new]

-----------------------------------------------------------------------------
(* An attempt, up to the store.                                            *)

Step(a, r) == at' = [at EXCEPT ![a] = r]

\* Where an attempt goes after the read it is at.
After(a) ==
    [at[a] EXCEPT !.k = 1, !.reads = Tail(@), !.body = <<>>,
                  !.pc = IF Len(at[a].reads) > 1 THEN "count"
                         ELSE IF Kind(at[a].job) = "enrich" THEN "score"
                         ELSE "end"]

\* On to the next thing the body holds, or to the next read.
Onward(a) == IF at[a].k < Len(at[a].body) THEN [at[a] EXCEPT !.k = @ + 1]
             ELSE After(a)

\* enrichSupplier() with no accepted Match goes straight to the Criteria.
Claim(a, j) ==
    /\ at[a].pc = "idle" /\ jobs[j] = "queued"
    /\ jobs' = [jobs EXCEPT ![j] = "running"]
    /\ \E reads \in {Reads(j)} :
          Step(a, [Idle EXCEPT !.job = j, !.reads = reads,
                !.pc = IF Kind(j) = "enrich" /\ Profile(j) = None THEN "find"
                       ELSE IF reads = <<>> THEN "end"
                       ELSE IF Kind(j) = "traverse" THEN "page" ELSE "count"])
    /\ UNCHANGED <<world, rows>>

\* An attempt is over: finishJob() writes the row by its id.
Finish(a, state) ==
    /\ jobs' = [jobs EXCEPT ![at[a].job] = state]
    /\ Step(a, Over)

\* A read throws, a ceiling is hit, or the worker is gone.
Stop(a) ==
    /\ at[a].pc \notin {"idle", "over"}
    /\ Finish(a, "failed")
    /\ UNCHANGED <<world, rows>>

\* A person retries, or the sweep takes a live attempt for a dead one.
Requeue(j) ==
    /\ jobs[j] \in {"failed", "running"}
    /\ jobs' = [jobs EXCEPT ![j] = "queued"]
    /\ UNCHANGED <<world, rows, at>>

\* The body arrives, and recordEnrichment() counts what its subject has.
Count(a) ==
    /\ at[a].pc = "count" /\ Current(a).stores # "window"
    /\ Step(a, [at[a] EXCEPT !.pc = "insert", !.body = Body(a),
                !.gen = Cardinality({r \in DOMAIN calls :
                    r[1] = Current(a).source /\ r[2] = Current(a).subject})])
    /\ UNCHANGED <<world, rows, jobs>>

\* The row is inserted, or the one that got there first is adopted.
Insert(a) ==
    /\ at[a].pc = "insert"
    /\ calls' = [r \in DOMAIN calls \cup {Row(a)} |->
                    IF r \in DOMAIN calls THEN calls[r] ELSE CallOf(a)]
    /\ Step(a, IF at[a].body = <<>> /\ Current(a).stores # "walk" THEN After(a)
               ELSE [at[a] EXCEPT !.pc = "store"])
    /\ UNCHANGED <<world, items, risks, edges, paths, values, jobs>>

\* Fault: an article's id says who stored it.
NewsIdOf(a, n) == <<"news", Row(a), n, a>>

\* An article's id is its place in the body of its enrichment.
NewsId(a, n) == <<"news", Row(a), n>>

\* enrichNegativeNews(), one article at a time.
StoreArticle(a) ==
    /\ at[a].pc = "store" /\ Current(a).stores = "articles"
    /\ items' = items \cup {NewsId(a, at[a].k)}
    /\ Step(a, Onward(a))
    /\ UNCHANGED <<world, calls, risks, edges, paths, values, jobs>>

\* enrichCountry(): a value's row has an id of its own, so two Jobs that share
\* a generation leave two; an indicator without a value leaves none.
StoreIndicator(a) ==
    /\ at[a].pc = "store" /\ Current(a).stores = "indicators"
    /\ items' = items \cup {<<"indicator", Row(a), at[a].k, a>>}
    /\ Step(a, Onward(a))
    /\ UNCHANGED <<world, calls, risks, edges, paths, values, jobs>>

\* The endpoint a sighting is credited to.
Endpoint(a) ==
    CASE Current(a).stores = "tiers" -> "supplyChainUpstream"
      [] Current(a).stores = "joint" -> "shortestPath"
      [] Current(a).stores = "walk" ->
            IF at[a].walk.dir = "downward" THEN "ownership" ELSE "ubo"
      [] Current(a).source = "sayari_watchlist" -> "watchlist"
      [] OTHER -> "ownership"

\* storeHopEdges() for the members of a page; what comes before an edge the
\* database refuses stays, and the attempt throws.
StoreHops(ms, endpoint) ==
    LET hops == UNION {ToSet(Whole(ms[i].hops)) : i \in DOMAIN ms}
    IN  /\ \A i \in DOMAIN ms : ~Refused(ms[i].hops)
        /\ risks' = Upsert({h.edge.to : h \in hops}, endpoint)
        /\ edges' = StoreEdges(hops)

\* A path read stores the edges of its members.
StoreEvidence(a) ==
    /\ at[a].pc = "store"
    /\ Current(a).stores \in {"paths", "tiers", "joint"}
    /\ StoreHops(at[a].body, Endpoint(a))
    /\ Step(a, [at[a] EXCEPT !.pc = "path"])
    /\ UNCHANGED <<world, calls, items, paths, values, jobs>>

\* Then a row for each of them.
StorePath(a) ==
    /\ at[a].pc = "path"
    /\ LET m == at[a].body[at[a].k]
       IN  /\ risks' = Upsert({m.entity}, Endpoint(a))
           /\ WritePath(Current(a).subject, PathKind(a), m, Row(a),
                        IF Current(a).stores = "paths" THEN None ELSE at[a].job,
                        Current(a).call = "exposure")
    /\ Step(a, Onward(a))
    /\ UNCHANGED <<world, calls, items, edges, values, jobs>>

\* A chain whose middle is known by id only cannot be stored, this time or
\* any other.
Throws(a) ==
    /\ at[a].pc = "store"
    /\ Current(a).stores \in {"paths", "tiers", "joint", "walk"}
    /\ \E m \in ToSet(at[a].body) : Refused(m.hops)
    /\ Finish(a, "failed")
    /\ UNCHANGED <<world, rows>>

\* loadOwnershipEvidence(): the window of the company's own body, and the typed
\* read when the counts say owners are missing; neither failing ends the Job.
StoreWindow(a) ==
    /\ at[a].pc = "count" /\ Current(a).stores = "window"
    /\ \E gap \in {TRUE, FALSE} :
          LET found == World.own \cup (IF gap THEN World.gap ELSE {})
              hops == {[edge |-> e, depth |-> 1] :
                          e \in {f \in found : f.whole}}
          IN  /\ risks' = Upsert({h.edge.to : h \in hops}, "getEntity")
              /\ edges' = StoreEdges(hops)
    /\ Step(a, After(a))
    /\ UNCHANGED <<world, calls, items, paths, values, jobs>>

-----------------------------------------------------------------------------
(* A walk: runDeepTraversal(), which pages down, then up.                  *)

\* The guards of paginateTraversal() before it asks for a page.
StoppedBy(w) ==
    IF Cardinality(w.found) >= MaxNodes THEN "item_cap"
    ELSE IF w.offset > OffsetCeiling THEN "offset_ceiling"
    ELSE IF w.left = 0 THEN "call_budget" ELSE "no"

Turned(r) ==
    IF r.walk.dir = "downward"
    THEN [r EXCEPT !.pc = "page", !.walk = [@ EXCEPT !.dir = "upward", !.offset = 0]]
    ELSE [r EXCEPT !.pc = IF r.walk.pages = <<>> THEN "end" ELSE "save", !.k = 1]

Page(a) ==
    /\ at[a].pc = "page"
    /\ Step(a, IF StoppedBy(at[a].walk) # "no" THEN Turned(at[a])
               ELSE [at[a] EXCEPT !.pc = "count", !.walk.left = @ - 1])
    /\ UNCHANGED <<world, rows, jobs>>

\* absorbPage(): the members the page adds, and the edges of each.
Absorb(a) ==
    /\ at[a].pc = "store" /\ Current(a).stores = "walk"
    /\ StoreHops(at[a].body, Endpoint(a))
    /\ LET w == at[a].walk
           ms == at[a].body
           more == w.offset + Len(Window(a)) < Len(World.walk[w.dir])
           held == [at[a] EXCEPT !.body = <<>>, !.walk = [w EXCEPT
                !.found = @ \cup {m.entity : m \in ToSet(ms)},
                !.pages = @ \o [i \in DOMAIN ms |->
                    [row |-> Row(a), dir |-> w.dir, member |-> ms[i]]]]]
       IN  Step(a, IF Window(a) # <<>> /\ more
                   THEN [held EXCEPT !.pc = "page",
                             !.walk.offset = @ + Len(Window(a))]
                   ELSE Turned(held))
    /\ UNCHANGED <<world, calls, items, paths, values, jobs>>

\* A find on the way down is family, one on the way up is not.
WalkKind(dir) == IF dir = "downward" THEN "family" ELSE "deep_traversal"

\* The rows are written when the walk is over.
WriteWalk(a) ==
    /\ at[a].pc = "save"
    /\ LET p == at[a].walk.pages[at[a].k]
       IN  /\ risks' = Upsert({p.member.entity}, IF p.dir = "downward"
                                                 THEN "ownership" ELSE "ubo")
           /\ WritePath(Current(a).subject, WalkKind(p.dir), p.member, p.row,
                        at[a].job, FALSE)
    /\ Step(a, IF at[a].k < Len(at[a].walk.pages) THEN [at[a] EXCEPT !.k = @ + 1]
               ELSE [at[a] EXCEPT !.pc = "end"])
    /\ UNCHANGED <<world, calls, items, edges, values, jobs>>

-----------------------------------------------------------------------------
(* The Criteria.                                                           *)

\* latestEnrichmentId(): the newest of a subject's calls.
Latest(source, subject) ==
    LET made == {r \in DOMAIN calls : r[1] = source /\ r[2] = subject}
    IN  IF made = {} THEN None ELSE CHOOSE r \in made :
                                        \A q \in made : q[3] <= r[3]

\* latestNewsItems().
LatestNewsItems(e) ==
    {n \in items : n[1] = "news" /\ n[2] = Latest("sayari_negative_news", e)}

\* Fault: an indicator's generation is taken from its calls, like an article's.
NewestAsked(country) ==
    {c \in ToSet(Indicators) : \E r \in items :
        r[1] = "indicator" /\ r[2] = Latest("world_bank", <<country, c>>)}

\* latestCountryIndicators(): for each code the newest generation that has a
\* row, which an inner join finds; two rows of one generation are one code.
LatestCountryIndicators(country) ==
    {c \in ToSet(Indicators) : \E r \in items :
        r[1] = "indicator" /\ r[2][2] = <<country, c>>}

\* assembleScoringInput(): what the Criteria are computed from.
Score(a) ==
    /\ at[a].pc = "score"
    /\ LET p == Profile(at[a].job)
       IN  Step(a, [at[a] EXCEPT !.pc = "find",
                !.input = [
                    news |-> Cardinality(LatestNewsItems(p.entity)),
                    codes |-> IF p.country = None THEN {}
                              ELSE LatestCountryIndicators(p.country),
                    network |-> {k \in DOMAIN paths : /\ k[1] = p.entity
                        /\ k[3] \in {"family", "watchlist"}}]])
    /\ UNCHANGED <<world, rows, jobs>>

Supplier(a) == World.jobs[at[a].job].supplier
Values(s, key) == {v \in values : v.supplier = s /\ v.key = key}

\* writeCriterionValue(): a current row, if there is one, then how many rows
\* there are, then the row of that generation, then the row before it.
Find(a) ==
    /\ at[a].pc = "find"
    /\ LET current == {v \in Values(Supplier(a), Criteria[at[a].k]) : v.current}
       IN  \E n \in IF current = {} THEN {None} ELSE {v.n : v \in current} :
              Step(a, [at[a] EXCEPT !.pc = "tally", !.previous = n])
    /\ UNCHANGED <<world, rows, jobs>>

Tally(a) ==
    /\ at[a].pc = "tally"
    /\ Step(a, [at[a] EXCEPT !.pc = "write",
                !.gen = Cardinality(Values(Supplier(a), Criteria[at[a].k]))])
    /\ UNCHANGED <<world, rows, jobs>>

\* A generation another Job has written already fails the insert and the Job.
Write(a) ==
    /\ at[a].pc = "write"
    /\ LET key == Criteria[at[a].k]
           taken == \E v \in Values(Supplier(a), key) : v.n = at[a].gen
       IN  IF taken
           THEN Finish(a, "failed") /\ UNCHANGED values
           ELSE /\ values' = values \cup {[supplier |-> Supplier(a), key |-> key,
                                           n |-> at[a].gen, current |-> TRUE]}
                /\ Step(a, [at[a] EXCEPT !.pc = "supersede"])
                /\ UNCHANGED jobs
    /\ UNCHANGED <<world, calls, items, risks, edges, paths>>

\* Fault: whatever is current gives way, the new row too.
EveryRow(a) == Values(Supplier(a), Criteria[at[a].k])

\* The rows that are no longer current: the one the insert superseded.
Superseded(a) ==
    {v \in Values(Supplier(a), Criteria[at[a].k]) : v.n = at[a].previous}

Supersede(a) ==
    /\ at[a].pc = "supersede"
    /\ values' = (values \ Superseded(a))
                 \cup {[v EXCEPT !.current = FALSE] : v \in Superseded(a)}
    /\ Step(a, IF at[a].k < Len(Criteria)
               THEN [at[a] EXCEPT !.pc = "find", !.k = @ + 1]
               ELSE [at[a] EXCEPT !.pc = "end"])
    /\ UNCHANGED <<world, calls, items, risks, edges, paths, jobs>>

\* A trade Job of a Supplier with no accepted Match fails, and has read nothing.
End(a) ==
    /\ at[a].pc = "end"
    /\ Finish(a, IF Kind(at[a].job) = "trade" /\ Profile(at[a].job) = None
                 THEN "failed" ELSE "done")
    /\ UNCHANGED <<world, rows>>

Next ==
    \/ \E j \in Jobs : Requeue(j) \/ \E a \in Attempts : Claim(a, j)
    \/ \E a \in Attempts :
        \/ Stop(a) \/ Count(a) \/ Insert(a) \/ Throws(a)
        \/ StoreArticle(a) \/ StoreIndicator(a) \/ StoreEvidence(a)
        \/ StorePath(a) \/ StoreWindow(a) \/ Page(a) \/ Absorb(a) \/ WriteWalk(a)
        \/ Score(a) \/ Find(a) \/ Tally(a) \/ Write(a) \/ Supersede(a)
        \/ End(a)

Spec == Init /\ [][Next]_vars

-----------------------------------------------------------------------------
(* Types.                                                                  *)

\* The tables: what a row refers to is there, and no key is taken twice.
EntityRelationshipRows ==
    \A k \in DOMAIN edges : {k.from, k.to} \subseteq DOMAIN risks
NewsItemRows == \A n \in items : n[1] = "news" => n[2] \in DOMAIN calls
CountryIndicatorRows ==
    \A n \in items : n[1] = "indicator" => n[2] \in DOMAIN calls
GraphPathRows ==
    \A k \in DOMAIN paths : /\ {k[1], k[2]} \subseteq DOMAIN risks
                          /\ paths[k].row \in DOMAIN calls
                          /\ ToSet(paths[k].chain) \subseteq DOMAIN edges
CriterionValueRows ==
    \A v, u \in values :
        v.supplier = u.supplier /\ v.key = u.key /\ v.n = u.n => v = u

\* Every row is of its table, and an attempt is within its Job.
TypeOK ==
    /\ world \in DOMAIN Worlds
    /\ \A j \in Jobs : jobs[j] \in {"queued", "running", "failed", "done"}
    /\ EntityRelationshipRows /\ NewsItemRows /\ CountryIndicatorRows
    /\ GraphPathRows /\ CriterionValueRows
    /\ \A a \in Attempts : /\ at[a].job \in Jobs \cup {None}
                          /\ at[a].gen \in Nat /\ at[a].k \in Nat
                          /\ at[a].walk.left \in 0..CallBudget

-----------------------------------------------------------------------------
(* What the rows say, whoever ran beside whom.                             *)

\* However many Jobs store one body, a generation holds each of its articles
\* once, so the count behind the media Criterion is never a count of how often
\* it was asked (enrichNegativeNews(), latestNewsItems()).
ArticlesCountedOnce ==
    \A r \in DOMAIN calls : r[1] = "sayari_negative_news" =>
        Cardinality({n \in items : n[1] = "news" /\ n[2] = r})
            <= Len(Reply("sayari_negative_news"))

\* A Supplier is scored on every indicator its country has a value of, even
\* while another Job has opened a newer generation and stored nothing in it
\* (latestCountryIndicators()).
CountryScoredWhole ==
    \A a \in Attempts : at[a].input # None =>
        LET c == Profile(at[a].job).country
        IN  c # None => at[a].input.codes = {i \in ToSet(Indicators) :
                                               <<c, i>> \notin World.silent}

\* A Supplier is scored on every article the provider has of its company, and
\* not on what another Job has stored so far (latestNewsItems()).
NewsScoredWhole ==
    \A a \in Attempts : at[a].input # None /\ Profile(at[a].job) # None =>
        at[a].input.news = Len(Reply("sayari_negative_news"))

\* The routes from a company that the reads of one kind name.
Routes(root, kind) ==
    IF kind = "supply_chain"
    THEN {TradeMember(segments, root, World.described) :
             segments \in Replied(World, "sayari_supply_chain_upstream")}
    ELSE {Member(path, root) : path \in
            CASE kind = "watchlist" -> Replied(World, "sayari_watchlist")
              [] kind = "family" -> Replied(World, "sayari_ownership_family")
                    \cup Replied(World, "sayari_ownership_exposure")
                    \cup ToSet(World.walk["downward"])
              [] kind = "deep_traversal" -> ToSet(World.walk["upward"])
              [] kind = "shortest_path" ->
                    {World.joins[x] : x \in {y \in DOMAIN World.joins : y[1] = root}}}

\* The depth of a Path and the evidence beside it are of one route between its
\* two ends, one that a read of its kind has named, whichever reads found the
\* company and in whatever order (writeGraphPaths()).
EvidenceIsOfTheDepth ==
    \A k \in DOMAIN paths : \E m \in Routes(k[1], k[3]) :
        /\ m.entity = k[2] /\ m.depth = paths[k].depth
        /\ Chain(m.hops) = paths[k].chain

\* A Path is credited to a call that found its terminal and is of its kind:
\* what a person found is never shown as found by the automatic read, nor the
\* other way round (writeGraphPaths() leaves enrichment_id and
\* discovered_by_job alone).
CreditedToItsFinder ==
    \A k \in DOMAIN paths :
        paths[k].by # None <=> paths[k].row[1] \in
            {"sayari_deep_traversal", "sayari_supply_chain_upstream",
             "sayari_shortest_path"}

\* What a read has written stays at least as near as it found it, whoever else
\* writes the same Path while the read is at its next (conflictSet()).
NoneFartherThanFound ==
    \A a \in Attempts :
        LET holds(kind, m) ==
                LET key == <<Current(a).subject, m.entity, kind>>
                IN  key \in DOMAIN paths /\ paths[key].depth <= m.depth
        IN  /\ at[a].pc = "path" =>
                  \A i \in 1..(at[a].k - 1) : holds(PathKind(a), at[a].body[i])
            /\ at[a].pc = "save" =>
                  \A i \in 1..(at[a].k - 1) :
                      LET p == at[a].walk.pages[i]
                      IN  holds(WalkKind(p.dir), p.member)

\* A Path says one thing, whoever wrote it and in whatever order: its evidence
\* is of its depth, the nearest of those found, and its credit is of its call
\* (writeGraphPaths()).
PathsAgreeWithTheirReads ==
    EvidenceIsOfTheDepth /\ NoneFartherThanFound /\ CreditedToItsFinder

\* No read makes a company look safer: a factor once reported stays, at the
\* worst level anyone reported (mergeRiskForUpsert()).
RiskNeverFalls ==
    [][\A e \in DOMAIN risks : \A f \in DOMAIN risks[e] :
           /\ e \in DOMAIN risks' /\ f \in DOMAIN risks'[e]
           /\ risks'[e][f].level >= risks[e][f].level]_vars

\* A Criterion that has a value always has a current one: superseding after the
\* insert may leave two for a while, and never none (writeCriterionValue()).
AlwaysACurrentValue ==
    \A v \in values : \E u \in Values(v.supplier, v.key) : u.current

\* What a Supplier is scored on is there, whole and once, while other Jobs
\* write the same rows: articles, indicators and Criterion values.
ScoredOnWholeReads == ArticlesCountedOnce /\ CountryScoredWhole /\ AlwaysACurrentValue
=============================================================================
