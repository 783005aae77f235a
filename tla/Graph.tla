------------------------------- MODULE Graph --------------------------------
(***************************************************************************)
(* What the enrich, traverse, trade and pairs Jobs make of a payload: the  *)
(* edges of an entity's own body (domain/parse-relationships.ts), the      *)
(* chain of a traversal path (jobs/family-members.ts), one page merged     *)
(* into a walk (jobs/traverse.ts), the tiers of a supply chain             *)
(* (jobs/trade.ts), two sightings of one company's risk (domain/family.ts) *)
(* and what the readers say of a stored Path (queries/family-paths.ts).    *)
(*                                                                         *)
(* A company is an id.  A payload names it whole, with its own fields, or  *)
(* by its id alone; only a whole one can be stored.  Labels, dates, shares *)
(* and countries are left out.                                             *)
(***************************************************************************)
EXTENDS Naturals, Sequences, SequencesExt, FiniteSets, FiniteSetsExt

CONSTANT None      \* null

-----------------------------------------------------------------------------
(* What a relationship type means.                                         *)

OwnerTypes == {"has_shareholder", "has_beneficial_owner", "subsidiary_of"}
OwnedTypes == {"owner_of", "has_subsidiary", "shareholder_of",
               "beneficial_owner_of"}

IsOwnership(type) == type \in OwnerTypes \cup OwnedTypes
IsPossiblySameAs(type) == type = "possibly_same_as"
DirectionOf(type) ==
    CASE type \in OwnerTypes \cup {"branch_of"} -> "upward"
      [] type \in OwnedTypes \cup {"has_branch"} -> "downward"
      [] OTHER -> "lateral"

\* Fault: the direction is forgotten.
EitherOwns(type) == IsOwnership(type)
TargetOwnsSubject(type) == IsOwnership(type) /\ DirectionOf(type) = "upward"

-----------------------------------------------------------------------------
(* The edges of an entity's own payload.                                   *)

Edge(from, to, type, former, record, whole) ==
    [from |-> from, to |-> to, type |-> type, former |-> former,
     record |-> record, whole |-> whole]

\* parseRelationships(): one edge per occurrence of each of the types an item
\* carries; either copy of former is enough; an item without an id is dropped.
ParseRelationships(payload, subject) ==
    UNION {{Edge(subject, item.to, o.type, o.former \/ item.former, o.record,
                 item.whole) : o \in item.occurrences} :
               item \in {i \in payload : i.to # None}}

OwnersOf(edges) == {e \in edges : ~e.former /\ TargetOwnsSubject(e.type)}

\* ownerEdgeGap(): the types the counts claim more owners of than were seen.
\* Fault: a former owner counts as seen.
GapOfAnyTime(counts, edges) ==
    {t \in OwnerTypes \cap DOMAIN counts :
        counts[t] > Cardinality({e \in edges : e.type = t})}
OwnerEdgeGap(counts, edges) ==
    {t \in OwnerTypes \cap DOMAIN counts :
        counts[t] > Cardinality({e \in OwnersOf(edges) : e.type = t})}

-----------------------------------------------------------------------------
(* A traversal path: its steps in order and, mostly, its target.           *)

\* ownershipHopDepth(): sideways steps are not counted, and nobody is at zero.
OwnershipHopDepth(steps) ==
    LET owned == Cardinality({i \in DOMAIN steps :
                                 ~IsPossiblySameAs(steps[i].field)})
    IN  IF owned = 0 THEN 1 ELSE owned

\* terminalEntityOf(): the target, else the last step's entity; only when it
\* came whole, and never the root itself.
TerminalEntityOf(path, root) ==
    LET last == [to |-> path.steps[Len(path.steps)].to,
                 whole |-> path.steps[Len(path.steps)].whole]
        end == IF path.target # None THEN path.target
               ELSE IF path.steps = <<>> THEN [to |-> None, whole |-> FALSE]
               ELSE last
    IN  IF end.whole /\ end.to # root THEN end.to ELSE None

\* How many steps, from the first, name both a type and an entity: one that
\* does not leaves every later step without a subject.
Readable(steps) ==
    LET bad == {i \in DOMAIN steps : \/ steps[i].field = None
                                     \/ steps[i].to = None}
    IN  IF bad = {} THEN Len(steps) ELSE Min(bad) - 1

\* summarisePath(): the citable edges of the readable steps, each with the
\* depth at which it sits.
SummarisePath(steps, root) ==
    [i \in 1..Readable(steps) |->
        [edge |-> Edge(IF i = 1 THEN root ELSE steps[i - 1].to, steps[i].to,
                       steps[i].field, steps[i].former, steps[i].record,
                       steps[i].whole),
         depth |-> OwnershipHopDepth(SubSeq(steps, 1, i))]]

\* parseTypedOwnerEdges(): the first step of each path, to its terminal; one
\* edge per occurrence, or one without a record.
ParseTypedOwnerEdges(paths, root) ==
    LET named == {p \in ToSet(paths) : /\ TerminalEntityOf(p, root) # None
                                       /\ p.steps # <<>>
                                       /\ p.steps[1].field # None}
    IN  UNION {{Edge(root, TerminalEntityOf(p, root), p.steps[1].field,
                     o.former, o.record, TRUE) :
                    o \in IF p.occurrences = {}
                          THEN {[former |-> FALSE, record |-> None]}
                          ELSE p.occurrences} : p \in named}

\* The typed edges the window had not named already, by from, to and type.
NewTypedEdges(window, typed) ==
    LET key(e) == <<e.from, e.to, e.type>>
    IN  {e \in typed : key(e) \notin {key(w) : w \in window}}

\* readOwnerEdges(): an owner for each current occurrence in the window of the
\* body, and one for each company the second read adds.  That read is made when
\* the counts claim more, of the missing types alone; typed is its paths, None
\* when it failed.
OwnersRead(body, typed, subject) ==
    LET window == ParseRelationships(body.items, subject)
        short == OwnerEdgeGap(body.counts, window)
        read == IF short = {} \/ typed = None THEN <<>>
                ELSE SelectSeq(typed, LAMBDA p : p.steps # <<>> /\ p.steps[1].field \in short)
        more == OwnersOf(NewTypedEdges(window,
                                       ParseTypedOwnerEdges(read, subject)))
    IN  [owners |-> {[type |-> e.type, id |-> e.to, record |-> e.record] :
                        e \in OwnersOf(window)}
                    \cup {[type |-> e.type, id |-> e.to, record |-> None] :
                        e \in more},
         gapCoverage |-> IF short # {} /\ typed = None
                         THEN "unknown" ELSE "complete"]

-----------------------------------------------------------------------------
(* One page of paths.                                                      *)

Member(path, root) ==
    [entity |-> TerminalEntityOf(path, root),
     depth |-> OwnershipHopDepth(path.steps),
     hops |-> SummarisePath(path.steps, root)]

\* A Map yields what it holds in the order it was put in: the places of a page,
\* the first of them first.
Ascending(places) ==
    [k \in 1..Cardinality(places) |->
        CHOOSE i \in places : Cardinality({j \in places : j < i}) = k - 1]

\* The byId loop of enrichFamily(), enrichWatchlist() and enrichOwnership():
\* of the paths at these places of a page, the first to each terminal.
FirstToEach(paths, places, root) ==
    LET terminal(i) == TerminalEntityOf(paths[i], root)
        kept == Ascending({i \in places : /\ terminal(i) # None
            /\ \A j \in places : j < i => terminal(j) # terminal(i)})
    IN  [k \in DOMAIN kept |-> Member(paths[kept[k]], root)]

PageMembers(paths, root) == FirstToEach(paths, DOMAIN paths, root)

\* mergeMembers(): what a page adds to a walk that holds some already.  A path
\* past the hop cap does not count, and the node cap ends the page.
MergeMembers(held, paths, root, maxNodes, maxHops) ==
    LET fits(p) == /\ TerminalEntityOf(p, root) \notin held
                   /\ OwnershipHopDepth(p.steps) <= maxHops
        new == FirstToEach(paths, {i \in DOMAIN paths : fits(paths[i])}, root)
        room == IF maxNodes > Cardinality(held)
                THEN maxNodes - Cardinality(held) ELSE 0
    IN  SubSeq(new, 1, IF Len(new) < room THEN Len(new) ELSE room)

-----------------------------------------------------------------------------
(* The tiers of a supply chain.                                            *)

\* syntheticSupplyChainRecordId(): made of what the edge is, and nothing of
\* the run that found it.
SyntheticRecord(root, from, to, tier, hsCodes) ==
    [root |-> root, from |-> from, to |-> to, tier |-> tier, hs |-> hsCodes]

\* summariseTradeTraversalPath(): a segment without an id, or whose company
\* the reply does not describe, ends the chain.
SummariseTradePath(segments, root, described) ==
    LET bad == {i \in DOMAIN segments : segments[i].to \notin described}
        upto == IF bad = {} THEN Len(segments) ELSE Min(bad) - 1
        from(i) == IF i = 1 THEN root ELSE segments[i - 1].to
        tier(i) == IF segments[i].tier = None THEN i
                   ELSE IF segments[i].tier = 0 THEN 1 ELSE segments[i].tier
    IN  [i \in 1..upto |->
            [edge |-> Edge(from(i), segments[i].to, "supplied_by", FALSE,
                           SyntheticRecord(root, from(i), segments[i].to,
                                           tier(i), segments[i].hs), TRUE),
             depth |-> tier(i)]]

\* A path ends at its last readable segment, and at nothing without one.
TradeMember(segments, root, described) ==
    LET hops == SummariseTradePath(segments, root, described)
    IN  IF hops = <<>> THEN [entity |-> None, depth |-> 1, hops |-> hops]
        ELSE [entity |-> Last(hops).edge.to, depth |-> Last(hops).depth,
              hops |-> hops]

\* The byId loop of runSupplyChainUpstreamTradeTraversal().
TradeMembers(paths, root, described) ==
    LET member(i) == TradeMember(paths[i], root, described)
        kept == Ascending({i \in DOMAIN paths : /\ member(i).hops # <<>>
            /\ \A j \in DOMAIN paths : j < i =>
                    member(j).entity # member(i).entity})
    IN  [k \in DOMAIN kept |-> member(kept[k])]

-----------------------------------------------------------------------------
(* Two sightings of one company's risk.                                    *)

\* A stored risk: for each factor its level, 0 when no level is stated, up to
\* 4 for critical, and the endpoints that reported it.
NoRisk == [f \in {} |-> [level |-> 0, sources |-> {}]]

\* Fault: the newest sighting is taken as it is.
TakeSighting(stored, sighting, source) ==
    [f \in DOMAIN sighting |-> [level |-> sighting[f], sources |-> {source}]]

\* mergeRiskForUpsert(): the union of the factors, the worse level of each.
MergeRisk(stored, sighting, source) ==
    [f \in DOMAIN stored \cup DOMAIN sighting |->
        IF f \notin DOMAIN sighting THEN stored[f]
        ELSE IF f \notin DOMAIN stored
        THEN [level |-> sighting[f], sources |-> {source}]
        ELSE [level |-> Max({stored[f].level, sighting[f]}),
              sources |-> stored[f].sources \cup {source}]]

-----------------------------------------------------------------------------
(* What the readers say of a stored Path, whose chain is its edges.        *)

\* viaOwnership: a Path is current ownership all the way, sideways steps
\* aside, and has at least one step that says so.
\* Fault: one step of ownership is enough.
SomeOwnership(chain) == \E e \in ToSet(chain) : IsOwnership(e.type) /\ ~e.former
ViaOwnership(chain) ==
    LET hops == SelectSeq(chain, LAMBDA e : ~IsPossiblySameAs(e.type))
    IN  /\ hops # <<>>
        /\ \A e \in ToSet(hops) : IsOwnership(e.type) /\ ~e.former

\* findConcentrations(): two roots whose families or watchlists end at one
\* company, each pair once; the inner join repeats a terminal for every pair
\* of kinds that reaches it.
FindConcentrations(paths, roots) ==
    {c \in paths \X paths : LET p == c[1] q == c[2] IN
        /\ p.root \in roots /\ q.root \in roots /\ p.root < q.root
        /\ p.terminal = q.terminal
        /\ {p.kind, q.kind} \subseteq {"family", "watchlist"}}

\* unorderedPairs() of pairs.ts: two bidders on one Profile are no pair.
UnorderedPairs(profiles) ==
    {p \in (DOMAIN profiles) \X (DOMAIN profiles) :
        p[1] < p[2] /\ profiles[p[1]] # profiles[p[2]]}
=============================================================================
