------------------------------ MODULE Networks -------------------------------
(* The readers of graph_path (src/db/queries/family-paths.ts), the          *)
(* concentrations derived from it (shortlist.ts, concentration-map.ts), and *)
(* the diagram drawn over it (src/components/widgets/network-map-inner.tsx).*)
(*                                                                          *)
(* Entities are integers, in the order of their ids.  A Path is             *)
(* [root, terminal, kind, hop, edges], an edge [id, from, to, type, former].*)
EXTENDS Integers, FiniteSets, Sequences, SequencesExt
CONSTANT None
LOCAL G == INSTANCE Graph

KindOrder == <<"family", "watchlist", "shortest_path", "deep_traversal", "supply_chain">>
KindPriority(kind) == CHOOSE i \in DOMAIN KindOrder : KindOrder[i] = kind

----------------------------------------------------------------------------
(* One join, read by kind; every other reader takes all the kinds.          *)

CloserPath(p, q) == p.hop < q.hop \/ (p.hop = q.hop /\ p.terminal <= q.terminal)
LoadPathRows(paths, root, kinds) ==
    SetToSortSeq({p \in paths : p.root = root /\ p.kind \in kinds}, CloserPath)
LoadFamilyPaths(paths, root) == LoadPathRows(paths, root, {"family"})
LoadShortestPathPaths(paths, root) == LoadPathRows(paths, root, {"shortest_path"})
LoadNetworkExposurePaths(paths, root) ==
    LET rows == LoadPathRows(paths, root, {"family", "watchlist"}) IN
    [i \in DOMAIN rows |-> [row |-> rows[i], viaOwnership |-> G!ViaOwnership(rows[i].edges)]]

InKindOrder(p, q) ==
    \/ KindPriority(p.kind) < KindPriority(q.kind)
    \/ p.kind = q.kind /\ CloserPath(p, q)
LoadNetworkPaths(paths, root) == SetToSortSeq({p \in paths : p.root = root}, InKindOrder)
OfItsOwn(paths, entity) ==                                                          \* fault
    {[row |-> p, role |-> "root"] : p \in {q \in paths : q.root = entity}}
LoadPathsThroughEntity(paths, entity) ==
    {[row |-> p, role |-> IF p.root = entity THEN "root" ELSE "terminal"] :
        p \in {q \in paths : entity \in {q.root, q.terminal}}}

----------------------------------------------------------------------------
(* Concentration: a pair of Profiles is joined once by the query, and told  *)
(* to the bidder at each end.  A bidder is [id, entity].                    *)

Joins(bidders, paths) ==
    LET roots == {b.entity : b \in {x \in bidders : x.entity # None}} IN
    IF Cardinality(roots) < 2 THEN {} ELSE G!FindConcentrations(paths, roots)
OfProfile(bidders, entity) == {b \in bidders : b.entity = entity /\ \A c \in bidders : c.entity = entity => c.id <= b.id}
TellsTheFirst(bidders, paths) ==                                                    \* fault
    [b \in bidders |-> {j[1].terminal : j \in {x \in Joins(bidders, paths) : b \in OfProfile(bidders, x[1].root)}}]
ComputeConcentration(bidders, paths) ==
    [b \in bidders |-> {j[1].terminal : j \in {x \in Joins(bidders, paths) :
                            b \in OfProfile(bidders, x[1].root) \cup OfProfile(bidders, x[2].root)}}]

(* Each joined bidder is a root, each join a Path without a citable edge.   *)
BuildConcentrationMap(bidders, with) ==
    LET rows == {b \in bidders : b.entity # None /\ with[b] # {}} IN
    [roots |-> {b.entity : b \in rows},
     paths |-> UNION {{[root |-> b.entity, terminal |-> t, kind |-> "family", hop |-> 0, edges |-> <<>>] :
                          t \in with[b]} : b \in rows}]

----------------------------------------------------------------------------
(* The diagram's edges, each drawn once and filed under the first Path that *)
(* cites it; a Path with none is drawn as one edge nobody can cite.         *)

EdgesOf(path) ==
    IF path.edges = <<>>
    THEN <<[id |-> <<"none", path.root, path.terminal>>, from |-> path.root, to |-> path.terminal, kind |-> path.kind]>>
    ELSE [i \in DOMAIN path.edges |->
            [id |-> <<"edge", path.edges[i].id, 0>>, from |-> path.edges[i].from, to |-> path.edges[i].to,
             kind |-> path.kind]]
CollectEdges(paths) ==
    FoldLeft(LAMBDA drawn, path :
                drawn \o SelectSeq(EdgesOf(path), LAMBDA e : \A f \in ToSet(drawn) : f.id # e.id),
             <<>>, paths)

(* A root is itself; else the first Path that ends at an entity names it;   *)
(* else it is known from an edge alone.                                     *)
CollectNodeMeta(roots, paths, edges) ==
    LET touched == {e.from : e \in ToSet(edges)} \cup {e.to : e \in ToSet(edges)}
        ending(x) == SelectSeq(paths, LAMBDA p : p.terminal = x)
        citing(x) == SelectSeq(edges, LAMBDA e : x \in {e.from, e.to})
    IN [x \in roots \cup touched \cup {p.terminal : p \in ToSet(paths)} |->
            IF x \in roots THEN "root"
            ELSE IF ending(x) # <<>> THEN Head(ending(x)).kind ELSE Head(citing(x)).kind]

(* Distance from the nearest root, whichever way the edges point.           *)
Unreached == 99
BfsDepths(roots, nodes, edges) ==
    LET next(found) == found \cup {e.to : e \in {x \in ToSet(edges) : x.from \in found}}
                             \cup {e.from : e \in {x \in ToSet(edges) : x.to \in found}}
        within[n \in 0..Cardinality(nodes)] == IF n = 0 THEN roots ELSE next(within[n - 1])
    IN [x \in nodes |->
            IF x \notin within[Cardinality(nodes)] THEN Unreached
            ELSE CHOOSE n \in 0..Cardinality(nodes) : x \in within[n] /\ (n = 0 \/ x \notin within[n - 1])]

----------------------------------------------------------------------------
(* Past the cap the closest entities are drawn, and the rest are counted in *)
(* clusters by kind and depth.                                              *)

SelectLayoutPlan(count, cap) == IF count > cap THEN "capped" ELSE "full"
ByKindFirst(meta, depths, a, b) ==                                                  \* fault
    \/ KindPriority(meta[a]) < KindPriority(meta[b])
    \/ meta[a] = meta[b] /\ (depths[a] < depths[b] \/ (depths[a] = depths[b] /\ a <= b))
Closer(meta, depths, a, b) ==
    \/ depths[a] < depths[b]
    \/ /\ depths[a] = depths[b]
       /\ KindPriority(meta[a]) < KindPriority(meta[b]) \/ (meta[a] = meta[b] /\ a <= b)
SkipsOne(sorted, budget) == SubSeq(sorted, budget + 2, Len(sorted))                 \* fault
Overflow(sorted, budget) == SubSeq(sorted, budget + 1, Len(sorted))
PartitionForCap(roots, meta, depths, cap) ==
    LET sorted == SetToSortSeq(DOMAIN meta \ roots, LAMBDA a, b : Closer(meta, depths, a, b))
        room == IF cap > Cardinality(roots) THEN cap - Cardinality(roots) ELSE 0
        budget == IF room < Len(sorted) THEN room ELSE Len(sorted)
        bucket(x) == <<meta[x], IF depths[x] = Unreached THEN 0 ELSE depths[x]>>
        rest == ToSet(Overflow(sorted, budget))
    IN [kept |-> roots \cup ToSet(SubSeq(sorted, 1, budget)),
        clusters |-> {[id |-> b, members |-> {x \in rest : bucket(x) = b}] : b \in {bucket(x) : x \in rest}}]

(* roots is a sequence: the first is the one a cluster hangs from.          *)
BuildNetworkElements(roots, paths, cap) ==
    LET edges == CollectEdges(paths)
        meta == CollectNodeMeta(ToSet(roots), paths, edges)
        depths == BfsDepths(ToSet(roots), DOMAIN meta, edges)
        part == PartitionForCap(ToSet(roots), meta, depths, cap)
        plan == SelectLayoutPlan(Cardinality(DOMAIN meta), cap)
    IN IF roots = <<>>
       THEN [plan |-> "full", nodes |-> {}, edges |-> {}, depths |-> <<>>, clusters |-> {}, kept |-> {}]
       ELSE [plan |-> plan, nodes |-> DOMAIN meta, edges |-> ToSet(edges), depths |-> depths,
             clusters |-> IF plan = "full" THEN {} ELSE part.clusters,
             kept |-> IF plan = "full" THEN DOMAIN meta ELSE part.kept]

(* What is drawn once some clusters are opened; an edge needs both its ends.*)
VisibleElements(analysis, opened) ==
    LET nodes == analysis.kept \cup UNION {c.members : c \in {x \in analysis.clusters : x.id \in opened}} IN
    [nodes |-> nodes,
     edges |-> {e \in analysis.edges : {e.from, e.to} \subseteq nodes},
     clusters |-> {c \in analysis.clusters : c.id \notin opened}]
=============================================================================
