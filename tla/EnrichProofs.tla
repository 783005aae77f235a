---------------------------- MODULE EnrichProofs -----------------------------
(***************************************************************************)
(* Proofs about Enrich, for every number of attempts, Jobs, companies and  *)
(* worlds: its types, what a Supplier is scored on, what a Path says and   *)
(* the risk that never falls, from one inductive invariant, EnrichInv.  It *)
(* puts the tables in order (Tables) and says of every attempt what it has *)
(* left to read, what it holds and what it counted (AttemptOK); a step is  *)
(* of one attempt, and the rest keep theirs because rows are only added    *)
(* and a depth only falls (Grown, OthersKeep).                             *)
(***************************************************************************)
EXTENDS Enrich, FiniteSetTheorems, WellFoundedInduction, TLAPS

-----------------------------------------------------------------------------
(* Numbers and lists.                                                      *)

\* A set of naturals that is not empty has a least element.
LEMMA LeastOf ==
  ASSUME NEW S, S \subseteq Nat, S # {}
  PROVE  \E m \in S : \A n \in S : m <= n
<1>1. \E m \in S : \A n \in S : ~ (<<n, m>> \in OpToRel(<, Nat))
  BY NatLessThanWellFounded, WFMin
<1>2. \A m, n \in Nat : <<n, m>> \notin OpToRel(<, Nat) => m <= n
  <2> TAKE m, n \in Nat
  <2>1. <<n, m>> \in Nat \X Nat /\ <<n, m>>[1] = n /\ <<n, m>>[2] = m
    OBVIOUS
  <2> QED
    BY <2>1 DEF OpToRel
<1> QED
  BY <1>1, <1>2

\* Two lists, one after the other.
LEMMA Joined ==
  ASSUME NEW S, NEW s \in Seq(S), NEW t \in Seq(S)
  PROVE  s \o t \in Seq(S) /\ ToSet(s \o t) = ToSet(s) \cup ToSet(t)
<1>1. s \o t \in Seq(S)
  OBVIOUS
<1>2. \A i \in DOMAIN s : i \in DOMAIN (s \o t) /\ (s \o t)[i] = s[i]
  OBVIOUS
<1>3. \A i \in DOMAIN t : /\ Len(s) + i \in DOMAIN (s \o t)
                          /\ (s \o t)[Len(s) + i] = t[i]
  OBVIOUS
<1>4. \A i \in DOMAIN (s \o t) :
        \/ i \in DOMAIN s /\ (s \o t)[i] = s[i]
        \/ i - Len(s) \in DOMAIN t /\ (s \o t)[i] = t[i - Len(s)]
  OBVIOUS
<1> DEFINE u == s \o t
<1> HIDE DEF u
<1>5. ToSet(u) \subseteq ToSet(s) \cup ToSet(t)
  BY <1>4 DEF ToSet, u
<1>6. ToSet(s) \subseteq ToSet(u) /\ ToSet(t) \subseteq ToSet(u)
  BY <1>2, <1>3 DEF ToSet, u
<1> QED
  BY <1>1, <1>5, <1>6 DEF u

\* A list without its first.
LEMMA Rest ==
  ASSUME NEW S, NEW s \in Seq(S), s # <<>>
  PROVE  /\ Head(s) \in S /\ Head(s) \in ToSet(s) /\ Tail(s) \in Seq(S)
         /\ ToSet(s) = {Head(s)} \cup ToSet(Tail(s))
         /\ Len(s) \in Nat \ {0} /\ Len(Tail(s)) = Len(s) - 1
<1>1. Len(s) \in Nat \ {0} /\ Head(s) = s[1] /\ Head(s) \in S /\ 1 \in DOMAIN s
  OBVIOUS
<1>2. Tail(s) \in Seq(S) /\ Len(Tail(s)) = Len(s) - 1
  OBVIOUS
<1>3. \A i \in DOMAIN Tail(s) : i + 1 \in DOMAIN s /\ Tail(s)[i] = s[i + 1]
  OBVIOUS
<1>4. \A i \in DOMAIN s : \/ i = 1
                          \/ i - 1 \in DOMAIN Tail(s) /\ Tail(s)[i - 1] = s[i]
  OBVIOUS
<1> DEFINE u == Tail(s)
<1> HIDE DEF u
<1>5. ToSet(s) \subseteq {Head(s)} \cup ToSet(u)
  BY <1>1, <1>4, ZenonT(30) DEF ToSet, u
<1>6. ToSet(u) \subseteq ToSet(s) /\ Head(s) \in ToSet(s)
  BY <1>1, <1>3 DEF ToSet, u
<1> QED
  BY <1>1, <1>2, <1>5, <1>6 DEF u

\* A list is of what is in it.
LEMMA OfItsOwn ==
  ASSUME NEW S, NEW s \in Seq(S)
  PROVE  s \in Seq(ToSet(s)) /\ ToSet(s) \subseteq S
  BY DEF ToSet

\* A set of places in a list of N is listed once through.
LEMMA EveryPlaceOnce ==
  ASSUME NEW N \in Nat, NEW S, S \subseteq 1..N
  PROVE  Ascending(S) \in Seq(S)
<1> DEFINE Below(i) == {j \in S : j < i}
           n == Cardinality(S)
           place == [i \in S |-> Cardinality(Below(i)) + 1]
<1>0. IsFiniteSet(1..N)
  BY FS_Interval
<1>1. IsFiniteSet(S) /\ n \in Nat
  BY <1>0, FS_Subset, FS_CardinalityType
<1>b. IsFiniteSet(1..n) /\ Cardinality(1..n) = n
  BY <1>1, FS_Interval
<1>2. \A i \in S : Below(i) \subseteq S /\ Below(i) \subseteq S \ {i}
  OBVIOUS
<1>3. \A i, j \in S : i < j => i \in Below(j) /\ Below(i) \subseteq Below(j) \ {i}
  <2> TAKE i, j \in S
  <2> HAVE i < j
  <2>1. \A m \in S : m < i => m < j /\ m # i
    OBVIOUS
  <2> QED
    BY <2>1
<1> HIDE DEF Below
<1>4. \A i \in S : IsFiniteSet(Below(i)) /\ Cardinality(Below(i)) \in Nat
  BY <1>1, <1>2, FS_Subset, FS_CardinalityType
<1>5. \A i \in S : Cardinality(Below(i)) < n
  <2> TAKE i \in S
  <2>1. IsFiniteSet(S \ {i}) /\ Cardinality(S \ {i}) = n - 1
    BY <1>1, FS_RemoveElement
  <2>2. Cardinality(Below(i)) <= Cardinality(S \ {i})
    BY <1>2, <2>1, FS_Subset
  <2> QED
    BY <1>1, <1>4, <2>1, <2>2
<1>6. \A i, j \in S : i < j => Cardinality(Below(i)) < Cardinality(Below(j))
  <2> TAKE i, j \in S
  <2> HAVE i < j
  <2>1. /\ IsFiniteSet(Below(j) \ {i})
        /\ Cardinality(Below(j) \ {i}) = Cardinality(Below(j)) - 1
    BY <1>3, <1>4, FS_RemoveElement
  <2>2. Cardinality(Below(i)) <= Cardinality(Below(j) \ {i})
    BY <1>3, <2>1, FS_Subset
  <2> QED
    BY <1>4, <2>1, <2>2
<1>7. \A i \in S : place[i] = Cardinality(Below(i)) + 1 /\ place[i] \in 1..n
  BY <1>1, <1>4, <1>5
<1>8. place \in Injection(S, 1..n)
  <2>1. place \in [S -> 1..n]
    BY <1>7
  <2>2. \A i, j \in S : place[i] = place[j] => i = j
    <3> TAKE i, j \in S
    <3> HAVE place[i] = place[j]
    <3>1. Cardinality(Below(i)) = Cardinality(Below(j))
      BY <1>4, <1>7
    <3>2. ~(i < j) /\ ~(j < i)
      BY <1>4, <1>6, <3>1
    <3> QED
      BY <3>2
  <2> QED
    BY <2>1, <2>2 DEF Injection, IsInjective
<1>9. place \in Surjection(S, 1..n)
  BY <1>1, <1>b, <1>8, FS_Injection
<1>10. \A k \in 1..n : \E i \in S : Cardinality(Below(i)) = k - 1
  <2> TAKE k \in 1..n
  <2>1. PICK i \in S : place[i] = k
    BY <1>9 DEF Surjection
  <2> QED
    BY <1>4, <1>7, <2>1
<1> DEFINE at_(k) == CHOOSE i \in S : Cardinality(Below(i)) = k - 1
<1>11. \A k \in 1..n : at_(k) \in S
  BY <1>10
<1>12. Ascending(S) = [k \in 1..n |-> at_(k)]
  BY DEF Ascending, Below
<1> HIDE DEF at_
<1> QED
  BY <1>1, <1>11, <1>12

-----------------------------------------------------------------------------
(* What the payloads say.                                                  *)

\* The depth of a path is a number.
LEMMA DepthIsANumber ==
  ASSUME NEW steps, IsList(steps)
  PROVE  OwnershipHopDepth(steps) \in Nat
<1> DEFINE owned == {i \in DOMAIN steps : ~IsPossiblySameAs(steps[i].field)}
<1>1. Len(steps) \in Nat /\ DOMAIN steps = 1..Len(steps)
  BY DEF IsList
<1>a. IsFiniteSet(1..Len(steps))
  BY <1>1, FS_Interval
<1>2. IsFiniteSet(owned)
  BY <1>1, <1>a, FS_Subset
<1>3. Cardinality(owned) \in Nat
  BY <1>2, FS_CardinalityType
<1> QED
  BY <1>3 DEF OwnershipHopDepth

\* And so is the tier of the last segment of a supply chain.
LEMMA TierIsANumber ==
  ASSUME NEW segments, NEW root, NEW described, IsList(segments),
         \A i \in DOMAIN segments : segments[i].tier \in Nat \cup {None}
  PROVE  TradeMember(segments, root, described).depth \in Nat
<1> DEFINE hops == SummariseTradePath(segments, root, described)
           bad == {i \in DOMAIN segments : segments[i].to \notin described}
           upto == IF bad = {} THEN Len(segments) ELSE Min(bad) - 1
           tier(i) == IF segments[i].tier = None THEN i
                      ELSE IF segments[i].tier = 0 THEN 1 ELSE segments[i].tier
           from(i) == IF i = 1 THEN root ELSE segments[i - 1].to
           hop(i) == [edge |-> Edge(from(i), segments[i].to, "supplied_by", FALSE,
                           SyntheticRecord(root, from(i), segments[i].to,
                                           tier(i), segments[i].hs), TRUE),
                      depth |-> tier(i)]
<1>1. Len(segments) \in Nat /\ DOMAIN segments = 1..Len(segments)
  BY DEF IsList
<1>2. upto \in 0..Len(segments)
  <2>1. CASE bad = {}
    BY <1>1, <2>1
  <2>2. CASE bad # {}
    <3>0. bad \subseteq Nat
      BY <1>1
    <3>1. \E m \in bad : \A n \in bad : m <= n
      <4> HIDE DEF bad
      <4> QED
        BY <2>2, <3>0, LeastOf
    <3>2. Min(bad) \in bad
      BY <3>1 DEF Min
    <3> QED
      BY <1>1, <2>2, <3>2
  <2> QED
    BY <2>1, <2>2
<1>3. \A i \in 1..upto : tier(i) \in Nat
  BY <1>1, <1>2
<1>4. hops = [i \in 1..upto |-> hop(i)]
  BY DEF SummariseTradePath
<1>5. \A i \in 1..upto : hop(i).depth = tier(i)
  OBVIOUS
<1> HIDE DEF upto, tier, hop
<1>6. CASE upto = 0
  <2>1. hops = <<>>
    BY <1>4, <1>6
  <2> QED
    BY <2>1 DEF TradeMember
<1>7. CASE upto # 0
  <2>1. Len(hops) = upto /\ hops[upto] = hop(upto) /\ hops # <<>>
    BY <1>2, <1>4, <1>7
  <2>2. Last(hops).depth \in Nat
    BY <1>2, <1>3, <1>5, <1>7, <2>1 DEF Last
  <2> QED
    BY <2>1, <2>2 DEF TradeMember
<1> QED
  BY <1>6, <1>7

\* What the byId loop keeps of the places of a page are members of its paths.
LEMMA MembersAreOfThePage ==
  ASSUME NEW list, NEW places, NEW root, NEW N \in Nat, places \subseteq 1..N,
         NEW S, \A i \in places : Member(list[i], root) \in S
  PROVE  FirstToEach(list, places, root) \in Seq(S)
<1> DEFINE terminal(i) == TerminalEntityOf(list[i], root)
           first == {i \in places : /\ terminal(i) # None
                       /\ \A j \in places : j < i => terminal(j) # terminal(i)}
           kept == Ascending(first)
<1>1. kept \in Seq(first)
  BY EveryPlaceOnce
<1>2. FirstToEach(list, places, root) = [k \in DOMAIN kept |-> Member(list[kept[k]], root)]
  BY DEF FirstToEach
<1> HIDE DEF kept
<1>3. /\ DOMAIN kept = 1..Len(kept) /\ Len(kept) \in Nat
      /\ \A k \in DOMAIN kept : kept[k] \in places
  BY <1>1
<1> DEFINE m(k) == Member(list[kept[k]], root)
<1>4. \A k \in 1..Len(kept) : m(k) \in S
  BY <1>3
<1> HIDE DEF m
<1>5. FirstToEach(list, places, root) = [k \in 1..Len(kept) |-> m(k)]
  BY <1>2, <1>3 DEF m
<1> QED
  BY <1>3, <1>4, <1>5

LEMMA TiersAreOfTheReply ==
  ASSUME NEW list, NEW root, NEW described, IsList(list)
  PROVE  TradeMembers(list, root, described) \in
            Seq({TradeMember(p, root, described) : p \in ToSet(list)})
<1> DEFINE member(i) == TradeMember(list[i], root, described)
           first == {i \in DOMAIN list : /\ member(i).hops # <<>>
            /\ \A j \in DOMAIN list : j < i =>
                    member(j).entity # member(i).entity}
           kept == Ascending(first)
           S == {TradeMember(p, root, described) : p \in ToSet(list)}
<1>0. Len(list) \in Nat /\ DOMAIN list = 1..Len(list)
  BY DEF IsList
<1>1. kept \in Seq(first)
  BY <1>0, EveryPlaceOnce
<1>2. TradeMembers(list, root, described) = [k \in DOMAIN kept |-> member(kept[k])]
  BY DEF TradeMembers
<1> HIDE DEF kept
<1>3. /\ DOMAIN kept = 1..Len(kept) /\ Len(kept) \in Nat
      /\ \A k \in DOMAIN kept : kept[k] \in DOMAIN list
  BY <1>1
<1> DEFINE m(k) == member(kept[k])
<1>4. \A k \in 1..Len(kept) : m(k) \in S
  BY <1>3 DEF ToSet
<1> HIDE DEF m, S
<1>5. TradeMembers(list, root, described) = [k \in 1..Len(kept) |-> m(k)]
  BY <1>2, <1>3 DEF m
<1>6. TradeMembers(list, root, described) \in Seq(S)
  BY <1>3, <1>4, <1>5
<1> QED
  BY <1>6 DEF S

\* What a page adds to a walk are members of its list.
LEMMA MergedAreOfThePage ==
  ASSUME NEW held, NEW list, NEW root, IsList(list), IsFiniteSet(held)
  PROVE  MergeMembers(held, list, root, MaxNodes, MaxHops) \in
            Seq({Member(p, root) : p \in ToSet(list)})
<1> DEFINE fits(p) == /\ TerminalEntityOf(p, root) \notin held
                      /\ OwnershipHopDepth(p.steps) <= MaxHops
           places == {i \in DOMAIN list : fits(list[i])}
           new == FirstToEach(list, places, root)
           room == IF MaxNodes > Cardinality(held)
                   THEN MaxNodes - Cardinality(held) ELSE 0
           S == {Member(p, root) : p \in ToSet(list)}
           upto == IF Len(new) < room THEN Len(new) ELSE room
<1>0. Len(list) \in Nat /\ DOMAIN list = 1..Len(list)
  BY DEF IsList
<1>1. \A i \in places : Member(list[i], root) \in S
  BY DEF ToSet
<1>2. places \subseteq 1..Len(list)
  BY <1>0
<1>3. new \in Seq(S)
  <2> HIDE DEF S, places
  <2> QED
    BY <1>0, <1>1, <1>2, MembersAreOfThePage
<1>4. room \in Nat
  BY FS_CardinalityType, EnrichBounds
<1>5. MergeMembers(held, list, root, MaxNodes, MaxHops) = SubSeq(new, 1, upto)
  BY DEF MergeMembers
<1> HIDE DEF new, room, S
<1>6. upto \in Nat /\ upto <= Len(new)
  BY <1>3, <1>4
<1>7. SubSeq(new, 1, upto) \in Seq(S)
  BY <1>3, <1>6
<1> QED
  BY <1>5, <1>7 DEF S

-----------------------------------------------------------------------------
(* What a Job reads.                                                       *)

\* What the read of a Job may be.
ReadOf(j, r) ==
    /\ r.stores = "articles" => r.source = "sayari_negative_news"
    /\ r.stores \in {"paths", "tiers", "joint", "walk"} => r.subject \in World.stored
    /\ r.stores = "paths" => r.source \in {"sayari_ownership_family",
            "sayari_ownership_exposure", "sayari_watchlist"}
    /\ r.stores = "tiers" => r.source = "sayari_supply_chain_upstream"
    /\ r.stores = "joint" => /\ r.source = "sayari_shortest_path"
                             /\ <<r.subject, r.call>> \in DOMAIN World.joins
    /\ r.stores = "walk" => /\ r.source = "sayari_deep_traversal"
                            /\ r.subject = Profile(j).entity
    /\ r.stores = "walk" <=> Kind(j) = "traverse"
    /\ Kind(j) = "enrich" => Profile(j) # None

IndicatorRead(country, i) ==
    Read("world_bank", <<country, Indicators[i]>>, "indicator", "indicators")

\* What there is to know of the world.
LEMMA OfTheWorld ==
  ASSUME world \in DOMAIN Worlds, NEW j \in Jobs
  PROVE  /\ j # None
         /\ Kind(j) \in {"enrich", "traverse", "trade", "pairs"}
         /\ Kind(j) = "traverse" => Profile(j) # None
         /\ Profile(j) # None => /\ Profile(j).entity \in World.stored
                                 /\ IsList(Profile(j).lines)
         /\ IsList(World.bidders) /\ ToSet(World.bidders) \subseteq World.stored
  BY WorldsAssumption DEF Jobs, World, Kind, Profile

LEMMA ListsJoined ==
  ASSUME NEW s, NEW t, IsList(s), IsList(t)
  PROVE  IsList(s \o t) /\ ToSet(s \o t) = ToSet(s) \cup ToSet(t)
<1> DEFINE S == ToSet(s) \cup ToSet(t)
<1>1. s \in Seq(S) /\ t \in Seq(S)
  BY DEF IsList
<1>2. s \o t \in Seq(S) /\ ToSet(s \o t) = S
  BY <1>1, Joined
<1> QED
  BY <1>2 DEF IsList

LEMMA NoList == IsList(<<>>) /\ ToSet(<<>>) = {}
  BY DEF IsList, ToSet

LEMMA OneList ==
  ASSUME NEW r
  PROVE  IsList(<<r>>) /\ ToSet(<<r>>) = {r}
  BY DEF IsList, ToSet

\* A list made one by one of another.
LEMMA MadeOf ==
  ASSUME NEW n \in Nat, NEW f, f = [i \in 1..n |-> f[i]]
  PROVE  IsList(f) /\ ToSet(f) = {f[i] : i \in 1..n}
<1> DEFINE S == {f[i] : i \in 1..n}
<1>1. DOMAIN f = 1..n
  OBVIOUS
<1>2. ToSet(f) = S
  BY <1>1 DEF ToSet
<1>3. \A i \in 1..n : f[i] \in S
  OBVIOUS
<1> HIDE DEF S
<1>4. f \in Seq(S)
  BY <1>3
<1> QED
  BY <1>2, <1>4 DEF IsList, S

\* The reads of an enrich Job: of the company's own reads, and of each indicator.
LEMMA ReadsOfEnrich ==
  ASSUME world \in DOMAIN Worlds, NEW j \in Jobs, Kind(j) = "enrich", Profile(j) # None
  PROVE  /\ IsList(EnrichReads(j))
         /\ \A r \in ToSet(EnrichReads(j)) : ReadOf(j, r)
         /\ Profile(j).country # None => \A i \in DOMAIN Indicators :
                IndicatorRead(Profile(j).country, i) \in ToSet(EnrichReads(j))
<1> DEFINE p == Profile(j)
           own == <<Read("sayari_negative_news", p.entity, "news", "articles"),
                    Read("sayari_ownership_family", p.entity, "family", "paths"),
                    WatchlistRead(p.entity),
                    Read("sayari_ownership_exposure", p.entity, "exposure", "paths")>>
           country == CountryReads(p.country)
           lei == LeiReads(p)
           tariff == TariffReads(p)
           geo == GeocodeReads(p, World.jobs[j].supplier)
           window == <<Read("getEntity", p.entity, "own", "window")>>
           all == own \o country \o lei \o tariff \o geo \o window
<1>0. p.entity \in World.stored /\ IsList(p.lines)
  BY OfTheWorld
<1>1. IsList(own) /\ \A r \in ToSet(own) : ReadOf(j, r)
  <2>1. \A r \in ToSet(own) : \/ r = own[1] \/ r = own[2] \/ r = own[3] \/ r = own[4]
    BY DEF ToSet
  <2>2. /\ own[1] \in ToSet(own) /\ own[2] \in ToSet(own)
        /\ own[3] \in ToSet(own) /\ own[4] \in ToSet(own)
    BY DEF ToSet
  <2>3. ReadOf(j, own[1]) /\ ReadOf(j, own[2]) /\ ReadOf(j, own[3]) /\ ReadOf(j, own[4])
    BY <1>0 DEF ReadOf, Read, WatchlistRead
  <2>4. own \in Seq(ToSet(own))
    BY <2>2
  <2> QED
    BY <2>1, <2>3, <2>4 DEF IsList
<1>2. /\ IsList(country) /\ \A r \in ToSet(country) : ReadOf(j, r)
      /\ p.country # None => \A i \in DOMAIN Indicators :
                                  IndicatorRead(p.country, i) \in ToSet(country)
  <2>1. CASE p.country = None
    BY <2>1, NoList DEF CountryReads
  <2>2. CASE p.country # None
    <3>1. Len(Indicators) \in Nat /\ DOMAIN Indicators = 1..Len(Indicators)
      BY ListsAssumption DEF IsList
    <3>2. country = [i \in 1..Len(Indicators) |-> IndicatorRead(p.country, i)]
      BY <2>2, <3>1 DEF CountryReads, IndicatorRead
    <3> HIDE DEF country
    <3>3. IsList(country) /\ ToSet(country) = {country[i] : i \in 1..Len(Indicators)}
      BY <3>1, <3>2, MadeOf
    <3>4. \A i \in 1..Len(Indicators) : country[i] = IndicatorRead(p.country, i)
      BY <3>2
    <3>5. \A i \in 1..Len(Indicators) : ReadOf(j, IndicatorRead(p.country, i))
      BY DEF IndicatorRead, ReadOf, Read
    <3> QED
      BY <3>1, <3>3, <3>4, <3>5
  <2> QED
    BY <2>1, <2>2
<1>3. IsList(lei) /\ \A r \in ToSet(lei) : ReadOf(j, r)
  <2>1. ReadOf(j, Read("gleif", p.entity, "lei", "row"))
    BY DEF ReadOf, Read
  <2> QED
    BY <2>1, NoList, OneList DEF LeiReads
<1>4. IsList(tariff) /\ \A r \in ToSet(tariff) : ReadOf(j, r)
  <2>1. Len(p.lines) \in Nat /\ DOMAIN p.lines = 1..Len(p.lines)
    BY <1>0 DEF IsList
  <2> DEFINE line(i) == Read("usitc", p.lines[i], "tariff", "row")
  <2>2. tariff = [i \in 1..Len(p.lines) |-> line(i)]
    BY <2>1 DEF TariffReads
  <2>3. \A i \in 1..Len(p.lines) : ReadOf(j, line(i))
    BY DEF ReadOf, Read
  <2> HIDE DEF tariff, line
  <2>4. IsList(tariff) /\ ToSet(tariff) = {tariff[i] : i \in 1..Len(p.lines)}
    BY <2>1, <2>2, MadeOf
  <2>5. \A i \in 1..Len(p.lines) : tariff[i] = line(i)
    BY <2>2
  <2> QED
    BY <2>3, <2>4, <2>5
<1>5. IsList(geo) /\ \A r \in ToSet(geo) : ReadOf(j, r)
  <2>1. ReadOf(j, Read("nominatim", World.jobs[j].supplier, "geocode", "row"))
    BY DEF ReadOf, Read
  <2> QED
    BY <2>1, NoList, OneList DEF GeocodeReads
<1>6. IsList(window) /\ \A r \in ToSet(window) : ReadOf(j, r)
  <2>1. ReadOf(j, Read("getEntity", p.entity, "own", "window"))
    BY DEF ReadOf, Read
  <2> QED
    BY <2>1, OneList
<1>7. EnrichReads(j) = all
  BY DEF EnrichReads
<1> HIDE DEF own, country, lei, tariff, geo, window
<1>8. IsList(all) /\ ToSet(all) = ToSet(own) \cup ToSet(country) \cup ToSet(lei)
                        \cup ToSet(tariff) \cup ToSet(geo) \cup ToSet(window)
  <2>1. /\ IsList(own \o country)
        /\ ToSet(own \o country) = ToSet(own) \cup ToSet(country)
    BY <1>1, <1>2, ListsJoined
  <2>2. /\ IsList(own \o country \o lei)
        /\ ToSet(own \o country \o lei) = ToSet(own \o country) \cup ToSet(lei)
    BY <1>3, <2>1, ListsJoined
  <2>3. /\ IsList(own \o country \o lei \o tariff)
        /\ ToSet(own \o country \o lei \o tariff) = ToSet(own \o country \o lei) \cup ToSet(tariff)
    BY <1>4, <2>2, ListsJoined
  <2>4. /\ IsList(own \o country \o lei \o tariff \o geo)
        /\ ToSet(own \o country \o lei \o tariff \o geo)
                = ToSet(own \o country \o lei \o tariff) \cup ToSet(geo)
    BY <1>5, <2>3, ListsJoined
  <2>5. /\ IsList(all)
        /\ ToSet(all) = ToSet(own \o country \o lei \o tariff \o geo) \cup ToSet(window)
    BY <1>6, <2>4, ListsJoined
  <2> QED
    BY <2>1, <2>2, <2>3, <2>4, <2>5
<1> QED
  BY <1>1, <1>2, <1>3, <1>4, <1>5, <1>6, <1>7, <1>8

LEMMA ReadsOfTrade ==
  ASSUME world \in DOMAIN Worlds, NEW j \in Jobs, Kind(j) = "trade", Profile(j) # None
  PROVE  /\ IsList(TradeReads(Profile(j).entity))
         /\ \A r \in ToSet(TradeReads(Profile(j).entity)) : ReadOf(j, r)
<1> DEFINE e == Profile(j).entity
           foot(i) == Read("sayari_trade_footprint", e,
                <<"searchSuppliers", "searchBuyers", "searchShipments">>[i], "row")
           feet == FootprintReads(e)
           tiers == IF "sayari_supply_chain_upstream" \in DOMAIN World.replies
                    THEN <<Read("sayari_supply_chain_upstream", e, "tiers", "tiers")>>
                    ELSE <<>>
<1>0. e \in World.stored
  BY OfTheWorld
<1>1. IsList(feet) /\ \A r \in ToSet(feet) : ReadOf(j, r)
  <2>1. feet = [i \in 1..3 |-> foot(i)]
    BY DEF FootprintReads
  <2>2. \A i \in 1..3 : ReadOf(j, foot(i))
    BY DEF ReadOf, Read
  <2> HIDE DEF feet, foot
  <2>3. IsList(feet) /\ ToSet(feet) = {feet[i] : i \in 1..3}
    <3>1. 3 \in Nat /\ feet = [i \in 1..3 |-> feet[i]]
      BY <2>1
    <3> QED
      BY <3>1, MadeOf
  <2>4. \A i \in 1..3 : feet[i] = foot(i)
    BY <2>1
  <2> QED
    BY <2>2, <2>3, <2>4
<1>2. IsList(tiers) /\ \A r \in ToSet(tiers) : ReadOf(j, r)
  <2>1. ReadOf(j, Read("sayari_supply_chain_upstream", e, "tiers", "tiers"))
    BY <1>0 DEF ReadOf, Read
  <2> QED
    BY <2>1, NoList, OneList
<1>3. TradeReads(e) = feet \o tiers
  BY DEF TradeReads
<1> HIDE DEF feet, tiers
<1> QED
  BY <1>1, <1>2, <1>3, ListsJoined

\* A finite set has a list of what is in it.
LEMMA SetAsList ==
  ASSUME NEW S, IsFiniteSet(S)
  PROVE  SetToSeq(S) \in [1..Cardinality(S) -> S] /\ Cardinality(S) \in Nat
<1>1. PICK n \in Nat : \E f \in Bijection(1..n, S) : TRUE
  <2>1. \E n \in Nat : ExistsBijection(1..n, S)
    BY FS_NatBijection
  <2> QED
    BY <2>1 DEF ExistsBijection
<1>2. Cardinality(S) = n
  <2>1. ExistsBijection(1..n, S)
    BY <1>1 DEF ExistsBijection
  <2> QED
    BY <2>1, FS_CountingElements
<1>3. PICK f \in Bijection(1..n, S) : TRUE
  BY <1>1
<1>4. f \in [1..Cardinality(S) -> S] /\ IsInjective(f)
  BY <1>2, <1>3 DEF Bijection, Injection
<1> QED
  BY <1>2, <1>4 DEF SetToSeq

LEMMA ReadsOfPairs ==
  ASSUME world \in DOMAIN Worlds, NEW j \in Jobs, Kind(j) = "pairs"
  PROVE  /\ IsList(PairReads(World.bidders))
         /\ \A r \in ToSet(PairReads(World.bidders)) : ReadOf(j, r)
<1> DEFINE bidders == World.bidders
           S == {p \in UnorderedPairs(bidders) :
                    <<bidders[p[1]], bidders[p[2]]>> \in DOMAIN World.joins}
           pairs == SetToSeq(S)
           n == Cardinality(S)
           pair(i) == Read("sayari_shortest_path", bidders[pairs[i][1]],
                           bidders[pairs[i][2]], "joint")
<1>1. /\ Len(bidders) \in Nat /\ DOMAIN bidders = 1..Len(bidders)
      /\ \A i \in DOMAIN bidders : bidders[i] \in World.stored
  <2>1. IsList(bidders) /\ ToSet(bidders) \subseteq World.stored
    BY OfTheWorld
  <2>2. \A i \in DOMAIN bidders : bidders[i] \in ToSet(bidders)
    BY DEF ToSet
  <2>3. Len(bidders) \in Nat /\ DOMAIN bidders = 1..Len(bidders)
    BY <2>1 DEF IsList
  <2> QED
    BY <2>1, <2>2, <2>3
<1>2. IsFiniteSet(S)
  <2> DEFINE last == Len(bidders)
  <2>0. last \in Nat /\ DOMAIN bidders = 1..last
    BY <1>1
  <2> HIDE DEF last
  <2>a. IsFiniteSet(1..last)
    BY <2>0, FS_Interval
  <2>1. IsFiniteSet(DOMAIN bidders)
    BY <2>0, <2>a
  <2>2. IsFiniteSet((DOMAIN bidders) \X (DOMAIN bidders))
    BY <2>1, FS_Product
  <2>3. S \subseteq (DOMAIN bidders) \X (DOMAIN bidders)
    BY DEF UnorderedPairs
  <2> QED
    BY <2>2, <2>3, FS_Subset
<1>3. pairs \in [1..n -> S] /\ n \in Nat
  BY <1>2, SetAsList
<1>4. \A i \in 1..n : /\ bidders[pairs[i][1]] \in World.stored
                      /\ <<bidders[pairs[i][1]], bidders[pairs[i][2]]>> \in DOMAIN World.joins
  <2> TAKE i \in 1..n
  <2>1. pairs[i] \in S
    BY <1>3
  <2>2. pairs[i][1] \in DOMAIN bidders
    BY <2>1 DEF UnorderedPairs
  <2> QED
    BY <1>1, <2>1, <2>2
<1> HIDE DEF S, pairs, n
<1>5. PairReads(bidders) = [i \in 1..n |-> pair(i)]
  <2>1. PairReads(bidders) = [i \in DOMAIN pairs |-> pair(i)]
    BY DEF PairReads, pairs, S
  <2> QED
    BY <1>3, <2>1
<1>6. \A i \in 1..n : ReadOf(j, pair(i))
  BY <1>4 DEF ReadOf, Read
<1> HIDE DEF pair
<1>7. /\ IsList(PairReads(bidders))
      /\ ToSet(PairReads(bidders)) = {PairReads(bidders)[i] : i \in 1..n}
  BY <1>3, <1>5, MadeOf
<1>8. \A i \in 1..n : PairReads(bidders)[i] = pair(i)
  BY <1>5
<1> QED
  BY <1>6, <1>7, <1>8

\* The reads of a Job are a list, each of its kind; a walk is one read, and an
\* enriched company is read in every indicator of its country.
LEMMA ReadsOfJob ==
  ASSUME world \in DOMAIN Worlds, NEW j \in Jobs
  PROVE  /\ IsList(Reads(j))
         /\ \A r \in ToSet(Reads(j)) : ReadOf(j, r)
         /\ Kind(j) = "traverse" => Reads(j) # <<>>
         /\ Kind(j) = "enrich" /\ Profile(j) = None => Reads(j) = <<>>
         /\ Kind(j) = "enrich" /\ Profile(j) # None /\ Profile(j).country # None =>
                \A i \in DOMAIN Indicators :
                    IndicatorRead(Profile(j).country, i) \in ToSet(Reads(j))
<1>1. CASE Kind(j) \in {"enrich", "trade"} /\ Profile(j) = None
  BY <1>1, NoList DEF Reads
<1>2. CASE Kind(j) = "enrich" /\ Profile(j) # None
  <2>1. Reads(j) = EnrichReads(j)
    BY <1>2 DEF Reads
  <2> QED
    BY <1>2, <2>1, ReadsOfEnrich
<1>3. CASE Kind(j) = "trade" /\ Profile(j) # None
  <2>1. Reads(j) = TradeReads(Profile(j).entity)
    BY <1>3 DEF Reads
  <2> QED
    BY <1>3, <2>1, ReadsOfTrade
<1>4. CASE Kind(j) = "pairs"
  <2>1. Reads(j) = PairReads(World.bidders)
    BY <1>4 DEF Reads
  <2> QED
    BY <1>4, <2>1, ReadsOfPairs
<1>5. CASE Kind(j) = "traverse"
  <2> DEFINE r == Read("sayari_deep_traversal", Profile(j).entity, "page", "walk")
  <2>1. Reads(j) = <<r>>
    BY <1>5 DEF Reads
  <2>2. ReadOf(j, r)
    BY <1>5, OfTheWorld DEF ReadOf, Read
  <2> HIDE DEF r
  <2> QED
    BY <1>5, <2>1, <2>2, OneList
<1> QED
  BY <1>1, <1>2, <1>3, <1>4, <1>5, OfTheWorld

-----------------------------------------------------------------------------
(* What a reply names.                                                     *)

PathKinds == {"watchlist", "family", "deep_traversal", "shortest_path",
              "supply_chain"}

LEMMA RepliesAreLists ==
  ASSUME world \in DOMAIN Worlds
  PROVE  /\ \A source : /\ IsList(Reply(source))
                        /\ ToSet(Reply(source)) = Replied(World, source)
         /\ \A dir \in {"downward", "upward"} : IsList(World.walk[dir])
         /\ \A path \in Named(World) : IsList(path.steps)
         /\ \A segments \in Replied(World, "sayari_supply_chain_upstream") :
              /\ IsList(segments)
              /\ \A i \in DOMAIN segments : segments[i].tier \in Nat \cup {None}
<1>1. \A source \in DOMAIN World.replies : IsList(World.replies[source])
  BY WorldsAssumption DEF World
<1>2. \A source : IsList(Reply(source)) /\ ToSet(Reply(source)) = Replied(World, source)
  BY <1>1, NoList DEF Reply, Replied
<1>3. \A dir \in {"downward", "upward"} : IsList(World.walk[dir])
  BY WorldsAssumption DEF World
<1>4. \A path \in Named(World) : IsList(path.steps)
  BY WorldsAssumption DEF World
<1>5. \A segments \in Replied(World, "sayari_supply_chain_upstream") :
              /\ IsList(segments)
              /\ \A i \in DOMAIN segments : segments[i].tier \in Nat \cup {None}
  BY WorldsAssumption DEF World
<1> QED
  BY <1>2, <1>3, <1>4, <1>5

\* The depth of a route is a number.
LEMMA RoutesHaveDepth ==
  ASSUME world \in DOMAIN Worlds, NEW root, NEW kind \in PathKinds,
         NEW m \in Routes(root, kind)
  PROVE  m.depth \in Nat
<1>1. CASE kind = "supply_chain"
  <2>1. PICK segments \in Replied(World, "sayari_supply_chain_upstream") :
            m = TradeMember(segments, root, World.described)
    BY <1>1 DEF Routes
  <2>2. /\ IsList(segments)
        /\ \A i \in DOMAIN segments : segments[i].tier \in Nat \cup {None}
    BY RepliesAreLists
  <2> QED
    BY <2>1, <2>2, TierIsANumber
<1>2. CASE kind # "supply_chain"
  <2>1. PICK path : path \in Named(World) /\ m = Member(path, root)
    <3>1. CASE kind = "watchlist"
      BY <3>1 DEF Routes, Named
    <3>2. CASE kind = "family"
      BY <3>2 DEF Routes, Named
    <3>3. CASE kind = "deep_traversal"
      BY <3>3 DEF Routes, Named
    <3>4. CASE kind = "shortest_path"
      BY <3>4 DEF Routes, Named, Range
    <3> QED
      BY <1>2, <3>1, <3>2, <3>3, <3>4 DEF PathKinds
  <2>2. OwnershipHopDepth(path.steps) \in Nat
    BY <2>1, RepliesAreLists, DepthIsANumber
  <2> QED
    BY <2>1, <2>2 DEF Member
<1> QED
  BY <1>1, <1>2

\* A window is of the list that is paged through.
LEMMA WindowIsOfTheWalk ==
  ASSUME world \in DOMAIN Worlds, NEW a,
         at[a].walk.dir \in {"downward", "upward"}, at[a].walk.offset \in Nat,
         IsFiniteSet(at[a].walk.found)
  PROVE  /\ IsList(Window(a)) /\ Len(Window(a)) \in Nat
         /\ ToSet(Window(a)) \subseteq ToSet(World.walk[at[a].walk.dir])
<1> DEFINE list == World.walk[at[a].walk.dir]
           S == ToSet(list)
           room == MaxNodes - Cardinality(at[a].walk.found)
           end == at[a].walk.offset + (IF room < PageSize THEN room ELSE PageSize)
           last == Len(list)
           upto == IF end < last THEN end ELSE last
           from == at[a].walk.offset + 1
<1>1. list \in Seq(S)
  BY RepliesAreLists DEF IsList
<1>2. Cardinality(at[a].walk.found) \in Nat
  BY FS_CardinalityType
<1>3. Window(a) = SubSeq(list, from, upto)
  BY DEF Window
<1> HIDE DEF S
<1>4. last \in Nat /\ upto \in Int /\ upto <= Len(list) /\ from \in Nat \ {0}
  <2>1. last \in Nat
    BY <1>1
  <2>2. end \in Int
    <3>1. room \in Int /\ PageSize \in Int /\ at[a].walk.offset \in Int
      BY <1>2, EnrichBounds
    <3> HIDE DEF room
    <3> QED
      BY <3>1
  <2> QED
    BY <2>1, <2>2, SMTT(30)
<1> HIDE DEF list, upto, from, last
<1>5. SubSeq(list, from, upto) \in Seq(S)
  BY <1>1, <1>4
<1>6. Window(a) \in Seq(S) /\ Len(Window(a)) \in Nat
  BY <1>3, <1>5
<1>7. IsList(Window(a)) /\ ToSet(Window(a)) \subseteq S
  BY <1>6, OfItsOwn DEF IsList
<1> QED
  BY <1>6, <1>7 DEF S, list

\* What an attempt has to store of a reply: the articles of the body; an
\* indicator's value, if there is one; routes from the company.
BodyOf(a) ==
    /\ Len(Body(a)) \in Nat /\ DOMAIN Body(a) = 1..Len(Body(a))
    /\ Current(a).stores = "articles" =>
          Len(Body(a)) = Len(Reply("sayari_negative_news"))
    /\ Current(a).stores = "indicators" =>
          (Body(a) # <<>> <=> Current(a).subject \notin World.silent)
    /\ Current(a).stores \in {"paths", "tiers", "joint"} =>
          /\ PathKind(a) \in PathKinds
          /\ \A i \in DOMAIN Body(a) :
                Body(a)[i] \in Routes(Current(a).subject, PathKind(a))
    /\ Current(a).stores = "walk" => \A i \in DOMAIN Body(a) :
          Body(a)[i] \in Routes(Current(a).subject, WalkKind(at[a].walk.dir))

LEMMA BodyHolds ==
  ASSUME world \in DOMAIN Worlds, NEW a, NEW j, ReadOf(j, Current(a)),
         at[a].walk.dir \in {"downward", "upward"}, at[a].walk.offset \in Nat,
         IsFiniteSet(at[a].walk.found)
  PROVE  BodyOf(a)
<1> DEFINE r == Current(a)
           root == r.subject
<1>0. /\ r.stores = "articles" => r.source = "sayari_negative_news"
      /\ r.stores = "paths" => r.source \in {"sayari_ownership_family",
            "sayari_ownership_exposure", "sayari_watchlist"}
      /\ r.stores = "tiers" => r.source = "sayari_supply_chain_upstream"
      /\ r.stores = "joint" => /\ r.source = "sayari_shortest_path"
                               /\ <<root, r.call>> \in DOMAIN World.joins
      /\ r.stores = "walk" => r.source = "sayari_deep_traversal"
  BY DEF ReadOf
<1>1. CASE r.stores = "articles"
  <2>1. Body(a) = Reply("sayari_negative_news")
    BY <1>0, <1>1 DEF Body
  <2>2. IsList(Reply("sayari_negative_news"))
    BY RepliesAreLists
  <2> QED
    BY <1>1, <2>1, <2>2 DEF BodyOf, IsList
<1>2. CASE r.stores = "indicators"
  <2>1. Body(a) = IF root \in World.silent THEN <<>> ELSE <<root>>
    BY <1>2 DEF Body
  <2> HIDE DEF r, root
  <2>2. /\ Len(Body(a)) \in Nat /\ DOMAIN Body(a) = 1..Len(Body(a))
        /\ Body(a) # <<>> <=> root \notin World.silent
    <3>1. CASE root \in World.silent
      BY <2>1, <3>1
    <3>2. CASE root \notin World.silent
      BY <2>1, <3>2
    <3> QED
      BY <3>1, <3>2
  <2> QED
    BY <1>2, <2>2 DEF BodyOf, r, root
<1>3. CASE r.stores = "paths"
  <2> DEFINE list == Reply(r.source)
             S == {Member(list[i], root) : i \in DOMAIN list}
  <2>1. Body(a) = FirstToEach(list, DOMAIN list, root)
    BY <1>3 DEF Body, PageMembers
  <2>2. /\ IsList(list) /\ Len(list) \in Nat /\ DOMAIN list = 1..Len(list)
        /\ ToSet(list) = Replied(World, r.source)
    BY RepliesAreLists DEF IsList
  <2>3. Body(a) \in Seq(S)
    <3>1. \A i \in DOMAIN list : Member(list[i], root) \in S
      OBVIOUS
    <3> HIDE DEF S, list
    <3> QED
      BY <2>1, <2>2, <3>1, MembersAreOfThePage
  <2>4. PathKind(a) = IF r.source = "sayari_watchlist" THEN "watchlist" ELSE "family"
    BY <1>0, <1>3 DEF PathKind
  <2>5. S \subseteq Routes(root, PathKind(a))
    <3>1. \A i \in DOMAIN list : list[i] \in Replied(World, r.source)
      BY <2>2 DEF ToSet
    <3> QED
      BY <1>0, <1>3, <2>4, <3>1 DEF Routes
  <2> HIDE DEF S
  <2>6. /\ Len(Body(a)) \in Nat /\ DOMAIN Body(a) = 1..Len(Body(a))
        /\ \A i \in DOMAIN Body(a) : Body(a)[i] \in S
    BY <2>3
  <2> QED
    BY <1>3, <2>4, <2>5, <2>6 DEF BodyOf, PathKinds
<1>4. CASE r.stores = "tiers"
  <2> DEFINE list == Reply("sayari_supply_chain_upstream")
             S == {TradeMember(p, root, World.described) : p \in ToSet(list)}
  <2>1. Body(a) = TradeMembers(list, root, World.described)
    BY <1>0, <1>4 DEF Body
  <2>2. /\ IsList(list)
        /\ ToSet(list) = Replied(World, "sayari_supply_chain_upstream")
    BY RepliesAreLists
  <2>3. Body(a) \in Seq(S)
    BY <2>1, <2>2, TiersAreOfTheReply
  <2>4. PathKind(a) = "supply_chain"
    BY <1>0, <1>4 DEF PathKind
  <2>5. S = Routes(root, PathKind(a))
    BY <2>2, <2>4 DEF Routes
  <2> HIDE DEF S
  <2>6. /\ Len(Body(a)) \in Nat /\ DOMAIN Body(a) = 1..Len(Body(a))
        /\ \A i \in DOMAIN Body(a) : Body(a)[i] \in S
    BY <2>3
  <2> QED
    BY <1>4, <2>4, <2>5, <2>6 DEF BodyOf, PathKinds
<1>5. CASE r.stores = "joint"
  <2> DEFINE path == World.joins[<<root, r.call>>]
             page == <<path>>
             S == {Member(page[i], root) : i \in 1..1}
  <2>1. Body(a) = FirstToEach(page, DOMAIN page, root)
    BY <1>5 DEF Body, PageMembers
  <2>2. DOMAIN page = 1..1 /\ page[1] = path
    OBVIOUS
  <2>3. Body(a) \in Seq(S)
    <3>1. \A i \in 1..1 : Member(page[i], root) \in S
      OBVIOUS
    <3>2. 1 \in Nat /\ DOMAIN page \subseteq 1..1
      BY <2>2
    <3> HIDE DEF S, page
    <3> QED
      BY <2>1, <2>2, <3>1, <3>2, MembersAreOfThePage
  <2>4. PathKind(a) = "shortest_path"
    BY <1>0, <1>5 DEF PathKind
  <2>5. S \subseteq Routes(root, PathKind(a))
    <3>1. <<root, r.call>>[1] = root
      OBVIOUS
    <3>2. path \in {World.joins[x] : x \in {y \in DOMAIN World.joins : y[1] = root}}
      BY <1>0, <1>5, <3>1
    <3>3. Member(path, root) \in Routes(root, PathKind(a))
      BY <2>4, <3>2 DEF Routes
    <3> QED
      BY <2>2, <3>3
  <2> HIDE DEF S
  <2>6. /\ Len(Body(a)) \in Nat /\ DOMAIN Body(a) = 1..Len(Body(a))
        /\ \A i \in DOMAIN Body(a) : Body(a)[i] \in S
    BY <2>3
  <2> QED
    BY <1>5, <2>4, <2>5, <2>6 DEF BodyOf, PathKinds
<1>6. CASE r.stores = "walk"
  <2> DEFINE w == at[a].walk
             S == {Member(p, root) : p \in ToSet(Window(a))}
  <2>1. Body(a) = MergeMembers(w.found, Window(a), root, MaxNodes, MaxHops)
    BY <1>6 DEF Body
  <2>2. IsList(Window(a)) /\ ToSet(Window(a)) \subseteq ToSet(World.walk[w.dir])
    BY WindowIsOfTheWalk
  <2>3. Body(a) \in Seq(S)
    BY <2>1, <2>2, MergedAreOfThePage
  <2>4. S \subseteq Routes(root, WalkKind(w.dir))
    BY <2>2 DEF Routes, WalkKind
  <2> HIDE DEF S
  <2>5. /\ Len(Body(a)) \in Nat /\ DOMAIN Body(a) = 1..Len(Body(a))
        /\ \A i \in DOMAIN Body(a) : Body(a)[i] \in S
    BY <2>3
  <2> QED
    BY <1>6, <2>4, <2>5 DEF BodyOf
<1>7. CASE r.stores \notin {"articles", "indicators", "paths", "tiers", "joint", "walk"}
  <2>1. Body(a) = <<>>
    BY <1>7 DEF Body
  <2> QED
    BY <1>7, <2>1 DEF BodyOf
<1> QED
  BY <1>1, <1>2, <1>3, <1>4, <1>5, <1>6, <1>7

-----------------------------------------------------------------------------
(* The inductive invariant.                                                *)

Fields == {"job", "pc", "reads", "body", "k", "gen", "walk", "input", "previous"}
WalkFields == {"dir", "offset", "left", "found", "pages"}
Directions == {"downward", "upward"}

\* The Jobs, the calls and the companies with a row.
JobRows == /\ world \in DOMAIN Worlds /\ DOMAIN jobs = Jobs
           /\ \A j \in Jobs : jobs[j] \in {"queued", "running", "failed", "done"}
           /\ IsFiniteSet(DOMAIN calls)
Leveled(risk) == \A f \in DOMAIN risk : risk[f].level \in Nat
CompanyRows == /\ World.stored \subseteq DOMAIN risks
               /\ \A e \in DOMAIN risks : Leveled(risks[e])
               /\ EntityRelationshipRows

\* The Paths.
PathFields == {"row", "depth", "chain", "by", "filtered"}
PathRows == /\ \A k \in DOMAIN paths :
                  /\ k[3] \in PathKinds /\ paths[k].depth \in Nat
                  /\ DOMAIN paths[k] = PathFields
            /\ GraphPathRows /\ EvidenceIsOfTheDepth /\ CreditedToItsFinder

\* An article is of its place in the body, a value of an indicator that has one.
ItemRows ==
    \A n \in items :
        /\ n[2] \in DOMAIN calls
        /\ \/ /\ n[1] = "news" /\ n = <<"news", n[2], n[3]>>
              /\ n[3] \in 1..Len(Reply("sayari_negative_news"))
           \/ n[1] = "indicator" /\ n[2][2] \notin World.silent

\* The values of a Criterion are numbered from zero with none left out, and the
\* last is current.
Numbered(s, key, n) == \E u \in Values(s, key) : u.n = n
ValuesInOrder ==
    \A v \in values :
        /\ DOMAIN v = {"supplier", "key", "n", "current"}
        /\ v.n \in Nat /\ v.current \in BOOLEAN
        /\ \A n \in 0..v.n : Numbered(v.supplier, v.key, n)
        /\ (\A u \in Values(v.supplier, v.key) : u.n <= v.n) => v.current

ValueRows == IsFiniteSet(values) /\ CriterionValueRows /\ ValuesInOrder

Tables == JobRows /\ CompanyRows /\ PathRows /\ ItemRows /\ ValueRows

\* An attempt is a record of its fields.
Shaped(a) ==
    /\ DOMAIN at[a] = Fields /\ DOMAIN at[a].walk = WalkFields
    /\ at[a].job \in Jobs \cup {None} /\ at[a].gen \in Nat
    /\ at[a].k \in Nat \ {0} /\ at[a].walk.left \in 0..CallBudget
    /\ at[a].walk.dir \in Directions /\ at[a].walk.offset \in Nat
    /\ IsFiniteSet(at[a].walk.found) /\ IsList(at[a].walk.pages)

Running(a) == at[a].pc \notin {"idle", "over"}

\* What is left to read is of the Job, and the body is that of the read it is at.
Reading(a) ==
    /\ Running(a) => /\ at[a].job \in Jobs
                     /\ IsList(at[a].reads)
                     /\ ToSet(at[a].reads) \subseteq ToSet(Reads(at[a].job))
    /\ at[a].pc \in {"count", "insert", "store", "path", "page", "save"} =>
          at[a].reads # <<>>
    /\ at[a].pc \in {"page", "save"} => Current(a).stores = "walk"
    /\ at[a].pc = "path" => Current(a).stores \in {"paths", "tiers", "joint"}
    /\ at[a].pc \in {"insert", "store", "path"} => at[a].body = Body(a)
    /\ at[a].pc \in {"count", "insert", "page"} => at[a].k = 1
    /\ at[a].pc \in {"store", "path"} =>
          /\ Row(a) \in DOMAIN calls
          /\ Current(a).stores # "walk" => at[a].k <= Len(at[a].body)
    /\ at[a].pc = "store" /\ Current(a).stores \notin {"articles", "indicators"} =>
          at[a].k = 1
    /\ at[a].pc = "path" => \A i \in DOMAIN at[a].body :
          ToSet(Chain(at[a].body[i].hops)) \subseteq DOMAIN edges
    /\ at[a].pc = "save" => at[a].k <= Len(at[a].walk.pages)
    /\ at[a].pc = "score" => /\ Kind(at[a].job) = "enrich"
                             /\ Profile(at[a].job) # None /\ at[a].reads = <<>>

\* What a walk holds is of calls that were made and of routes from its company.
PageOf(a, p) ==
    /\ p.row \in DOMAIN calls /\ p.row[1] = "sayari_deep_traversal"
    /\ p.dir \in Directions
    /\ p.member \in Routes(Profile(at[a].job).entity, WalkKind(p.dir))
    /\ ToSet(Chain(p.member.hops)) \subseteq DOMAIN edges
Walking(a) == \A p \in ToSet(at[a].walk.pages) : PageOf(a, p)

\* An indicator that has a value is stored, or is still to be read.
Known(country, i) ==
    \E n \in items : n[1] = "indicator" /\ n[2][2] = <<country, Indicators[i]>>
Asked(a) ==
    LET country == Profile(at[a].job).country
    IN  Running(a) /\ Kind(at[a].job) = "enrich" /\ Profile(at[a].job) # None
            /\ country # None =>
        \A i \in DOMAIN Indicators :
            \/ <<country, Indicators[i]>> \in World.silent
            \/ Known(country, i)
            \/ IndicatorRead(country, i) \in ToSet(at[a].reads)
Scoring(a) ==
    at[a].input # None =>
        LET c == Profile(at[a].job).country
        IN  c # None => at[a].input.codes = {i \in ToSet(Indicators) :
                                               <<c, i>> \notin World.silent}

\* The generation an attempt writes follows all that it counted, and what it
\* supersedes is older.
Superseding(a) ==
    LET s == Supplier(a)
        key == Criteria[at[a].k]
    IN  /\ at[a].pc = "tally" /\ at[a].previous # None =>
              Numbered(s, key, at[a].previous)
        /\ at[a].pc \in {"write", "supersede"} =>
              /\ \A n \in 0..(at[a].gen - 1) : Numbered(s, key, n)
              /\ at[a].previous # None => at[a].previous \in 0..(at[a].gen - 1)
        /\ at[a].pc = "supersede" => Numbered(s, key, at[a].gen)

\* What it has written of a body or a walk is as near as it found it.
Holds(a, kind, m) ==
    LET key == <<Current(a).subject, m.entity, kind>>
    IN  m.depth \in Nat /\ key \in DOMAIN paths /\ paths[key].depth <= m.depth
Nearest(a) ==
    /\ at[a].pc = "path" =>
          \A i \in 1..(at[a].k - 1) : Holds(a, PathKind(a), at[a].body[i])
    /\ at[a].pc = "save" =>
          \A i \in 1..(at[a].k - 1) :
              Holds(a, WalkKind(at[a].walk.pages[i].dir), at[a].walk.pages[i].member)

AttemptOK(a) == /\ Shaped(a) /\ Reading(a) /\ Walking(a) /\ Asked(a)
                /\ Scoring(a) /\ Superseding(a) /\ Nearest(a)

EnrichInv == /\ Tables /\ DOMAIN at = Attempts
             /\ \A a \in Attempts : AttemptOK(a)

-----------------------------------------------------------------------------
(* What does not change.                                                   *)

\* The world is read and never written.
LEMMA SameWorld ==
  ASSUME world' = world
  PROVE  /\ World' = World /\ Jobs' = Jobs
         /\ \A j : Kind(j)' = Kind(j) /\ Profile(j)' = Profile(j)
         /\ \A source : Reply(source)' = Reply(source)
         /\ \A root, kind : Routes(root, kind)' = Routes(root, kind)
         /\ \A j : Reads(j)' = Reads(j)
<1>1. World' = World /\ Jobs' = Jobs
  BY DEF World, Jobs
<1>2. \A j : Kind(j)' = Kind(j) /\ Profile(j)' = Profile(j)
  BY <1>1 DEF Kind, Profile
<1>3. \A source : Reply(source)' = Reply(source)
  BY <1>1 DEF Reply
<1>4. \A root, kind : Routes(root, kind)' = Routes(root, kind)
  BY <1>1 DEF Routes
<1>5. \A j : Reads(j)' = Reads(j)
  <2> TAKE j
  <2>1. EnrichReads(j)' = EnrichReads(j)
    BY <1>1, <1>2 DEF EnrichReads
  <2>2. TradeReads(Profile(j).entity)' = TradeReads(Profile(j).entity)
    BY <1>1, <1>2 DEF TradeReads
  <2>3. PairReads(World.bidders)' = PairReads(World.bidders)
    BY <1>1 DEF PairReads
  <2> QED
    BY <1>2, <2>1, <2>2, <2>3 DEF Reads
<1> QED
  BY <1>1, <1>2, <1>3, <1>4, <1>5

\* An attempt whose read and walk are the same has the same to store.
LEMMA SameBody ==
  ASSUME world' = world, NEW a, at'[a].reads = at[a].reads, at'[a].walk = at[a].walk
  PROVE  /\ Current(a)' = Current(a) /\ PathKind(a)' = PathKind(a)
         /\ Window(a)' = Window(a) /\ Body(a)' = Body(a)
<1>1. Current(a)' = Current(a)
  BY DEF Current
<1>2. PathKind(a)' = PathKind(a)
  BY <1>1 DEF PathKind
<1>3. World' = World /\ \A source : Reply(source)' = Reply(source)
  BY SameWorld
<1>4. Window(a)' = Window(a)
  BY <1>3 DEF Window
<1>5. Body(a)' = Body(a)
  BY <1>1, <1>3, <1>4 DEF Body
<1> QED
  BY <1>1, <1>2, <1>4, <1>5

\* The tables only grow, but for the depth of a Path.
Grown ==
    /\ world' = world
    /\ DOMAIN calls \subseteq DOMAIN calls' /\ DOMAIN edges \subseteq DOMAIN edges'
    /\ items \subseteq items'
    /\ \A k \in DOMAIN paths : /\ k \in DOMAIN paths'
                               /\ paths'[k].depth \in Nat
                               /\ paths'[k].depth <= paths[k].depth
    /\ \A v \in values : \E u \in values' :
          u.supplier = v.supplier /\ u.key = v.key /\ u.n = v.n

\* What is written stays found.
LEMMA FoundStays ==
  ASSUME Grown
  PROVE  /\ \A s, key, n : Numbered(s, key, n) =>
                \E u \in values' : u.supplier = s /\ u.key = key /\ u.n = n
         /\ \A country, i : Known(country, i) => Known(country, i)'
<1>1. \A s, key, n : Numbered(s, key, n) =>
                \E u \in values' : u.supplier = s /\ u.key = key /\ u.n = n
  BY DEF Grown, Numbered, Values
<1>2. \A country, i : Known(country, i) => Known(country, i)'
  BY DEF Grown, Known
<1> QED
  BY <1>1, <1>2

\* Another's step leaves an attempt where it is.
LEMMA OthersKeep ==
  ASSUME Grown, PathRows,
         NEW b, at'[b] = at[b], AttemptOK(b)
  PROVE  AttemptOK(b)'
<1> USE DEF AttemptOK
<1>0. world' = world
  BY DEF Grown
<1>1. /\ World' = World /\ Jobs' = Jobs
      /\ \A j : Kind(j)' = Kind(j) /\ Profile(j)' = Profile(j)
      /\ \A source : Reply(source)' = Reply(source)
      /\ \A root, kind : Routes(root, kind)' = Routes(root, kind)
      /\ \A j : Reads(j)' = Reads(j)
  BY <1>0, SameWorld
<1>2. /\ Current(b)' = Current(b) /\ PathKind(b)' = PathKind(b)
      /\ Body(b)' = Body(b)
  BY <1>0, SameBody
<1>3. Running(b)' = Running(b) /\ Row(b)' = Row(b) /\ Supplier(b)' = Supplier(b)
  BY <1>1, <1>2 DEF Running, Row, Supplier
<1>4. Shaped(b)'
  BY <1>1 DEF Shaped
<1>5. Reading(b)'
  <2>1. at'[b].pc = "path" => \A i \in DOMAIN at'[b].body :
          ToSet(Chain(at'[b].body[i].hops)) \subseteq DOMAIN edges'
    BY DEF Reading, Grown
  <2>2. at'[b].pc \in {"store", "path"} => Row(b)' \in DOMAIN calls'
    BY <1>3 DEF Reading, Grown
  <2>3. (Running(b) => /\ at[b].job \in Jobs /\ IsList(at[b].reads)
                       /\ ToSet(at[b].reads) \subseteq ToSet(Reads(at[b].job)))'
    BY <1>1, <1>3 DEF Reading
  <2> QED
    BY <1>1, <1>2, <1>3, <2>1, <2>2, <2>3 DEF Reading
<1>6. Walking(b)'
  BY <1>1 DEF Walking, PageOf, Grown
<1>7. Asked(b)'
  BY <1>1, <1>3, FoundStays DEF Asked
<1>8. Scoring(b)'
  BY <1>1 DEF Scoring
<1>9. Superseding(b)'
  BY <1>3, FoundStays, SMTT(30) DEF Superseding, Numbered, Values
<1>10. Nearest(b)'
  <2>1. \A k \in DOMAIN paths : /\ k \in DOMAIN paths' /\ paths[k].depth \in Nat
                                /\ paths'[k].depth \in Nat
                                /\ paths'[k].depth <= paths[k].depth
    BY DEF Grown, PathRows
  <2> QED
    BY <1>2, <2>1 DEF Nearest, Holds
<1> QED
  BY <1>4, <1>5, <1>6, <1>7, <1>8, <1>9, <1>10

-----------------------------------------------------------------------------
(* What each table keeps.                                                  *)

LEMMA ItemsStay ==
  ASSUME ItemRows, world' = world, items' = items, DOMAIN calls \subseteq DOMAIN calls'
  PROVE  ItemRows'
<1>1. World' = World /\ \A source : Reply(source)' = Reply(source)
  BY SameWorld
<1> QED
  BY <1>1 DEF ItemRows

LEMMA PathsStay ==
  ASSUME PathRows, world' = world, paths' = paths, DOMAIN calls \subseteq DOMAIN calls',
         DOMAIN risks \subseteq DOMAIN risks', DOMAIN edges \subseteq DOMAIN edges'
  PROVE  PathRows'
<1>1. \A root, kind : Routes(root, kind)' = Routes(root, kind)
  BY SameWorld
<1>2. GraphPathRows'
  BY DEF PathRows, GraphPathRows
<1>3. EvidenceIsOfTheDepth'
  BY <1>1 DEF PathRows, EvidenceIsOfTheDepth
<1>4. CreditedToItsFinder'
  BY DEF PathRows, CreditedToItsFinder
<1> QED
  BY <1>2, <1>3, <1>4 DEF PathRows

LEMMA ValuesStay ==
  ASSUME ValueRows, values' = values
  PROVE  ValueRows'
  BY DEF ValueRows, CriterionValueRows, ValuesInOrder, Numbered, Values

LEMMA CompaniesStay ==
  ASSUME CompanyRows, world' = world, risks' = risks, edges' = edges
  PROVE  CompanyRows'
<1>1. World' = World
  BY SameWorld
<1> QED
  BY <1>1 DEF CompanyRows, EntityRelationshipRows

\* A worse level of two is no better than either.
LEMMA WorseOfTwo ==
  ASSUME NEW m \in Nat, NEW n \in Nat
  PROVE  Max({m, n}) \in Nat /\ Max({m, n}) >= m /\ Max({m, n}) >= n
<1>1. \E x \in {m, n} : \A y \in {m, n} : x >= y
  BY m >= n \/ n >= m
<1>2. Max({m, n}) \in {m, n} /\ \A y \in {m, n} : Max({m, n}) >= y
  BY <1>1 DEF Max
<1> QED
  BY <1>2

\* The nearer of two depths is one of them.
LEMMA NearerOfTwo ==
  ASSUME NEW m \in Nat, NEW n \in Nat
  PROVE  Min({m, n}) = IF n <= m THEN n ELSE m
<1>1. \E x \in {m, n} : \A y \in {m, n} : x <= y
  BY m <= n \/ n <= m
<1>2. Min({m, n}) \in {m, n} /\ \A y \in {m, n} : Min({m, n}) <= y
  BY <1>1 DEF Min
<1> QED
  BY <1>2

\* A factor once reported stays, at no lower level.
NoLower(was, now) ==
    \A f \in DOMAIN was : f \in DOMAIN now /\ now[f].level >= was[f].level

\* One sighting more leaves every factor, and none at a lower level.
LEMMA MergeNeverLowers ==
  ASSUME NEW stored, Leveled(stored), NEW sighting, NEW source,
         \A f \in DOMAIN sighting : sighting[f] \in Nat
  PROVE  /\ Leveled(MergeRisk(stored, sighting, source))
         /\ NoLower(stored, MergeRisk(stored, sighting, source))
<1> DEFINE merged == MergeRisk(stored, sighting, source)
<1>1. DOMAIN merged = DOMAIN stored \cup DOMAIN sighting
  BY DEF MergeRisk
<1>2. ASSUME NEW f \in DOMAIN merged
      PROVE  /\ merged[f].level \in Nat
             /\ f \in DOMAIN stored => merged[f].level >= stored[f].level
  <2>1. CASE f \notin DOMAIN sighting
    <3>1. merged[f] = stored[f] /\ f \in DOMAIN stored
      BY <1>1, <2>1 DEF MergeRisk
    <3>2. stored[f].level \in Nat
      BY <3>1 DEF Leveled
    <3> QED
      BY <3>1, <3>2
  <2>2. CASE f \in DOMAIN sighting /\ f \notin DOMAIN stored
    <3>1. merged[f] = [level |-> sighting[f], sources |-> {source}]
      BY <1>1, <2>2 DEF MergeRisk
    <3> QED
      BY <2>2, <3>1
  <2>3. CASE f \in DOMAIN sighting /\ f \in DOMAIN stored
    <3>1. merged[f] = [level |-> Max({stored[f].level, sighting[f]}),
                       sources |-> stored[f].sources \cup {source}]
      BY <1>1, <2>3 DEF MergeRisk
    <3>2. merged[f].level = Max({stored[f].level, sighting[f]})
      BY <3>1
    <3>3. stored[f].level \in Nat /\ sighting[f] \in Nat
      BY <2>3 DEF Leveled
    <3> QED
      BY <3>2, <3>3, WorseOfTwo
  <2> QED
    BY <2>1, <2>2, <2>3
<1> HIDE DEF merged
<1>3. Leveled(merged) /\ NoLower(stored, merged)
  BY <1>1, <1>2 DEF Leveled, NoLower
<1> QED
  BY <1>3 DEF merged

\* So does one for several companies, and it gives each of them a row.
LEMMA UpsertAdds ==
  ASSUME JobRows, CompanyRows, NEW ids, NEW source
  PROVE  /\ DOMAIN Upsert(ids, source) = DOMAIN risks \cup ids
         /\ \A e \in DOMAIN Upsert(ids, source) : Leveled(Upsert(ids, source)[e])
         /\ \A e \in DOMAIN risks : NoLower(risks[e], Upsert(ids, source)[e])
<1> DEFINE up == Upsert(ids, source)
           was(e) == IF e \in DOMAIN risks THEN risks[e] ELSE NoRisk
           now(e) == IF e \in ids /\ <<source, e>> \in DOMAIN World.risk
                     THEN MergeRisk(was(e), World.risk[<<source, e>>], source)
                     ELSE was(e)
<1>1. up = [e \in DOMAIN risks \cup ids |-> now(e)]
  BY DEF Upsert
<1>2. \A x \in DOMAIN World.risk : \A f \in DOMAIN World.risk[x] :
          World.risk[x][f] \in Nat
  BY WorldsAssumption DEF JobRows, World
<1>3. ASSUME NEW e
      PROVE  Leveled(now(e)) /\ NoLower(was(e), now(e))
  <2>1. Leveled(was(e))
    BY DEF CompanyRows, Leveled, NoRisk
  <2>2. NoLower(was(e), was(e))
    BY <2>1 DEF Leveled, NoLower
  <2>3. e \in ids /\ <<source, e>> \in DOMAIN World.risk =>
            \A f \in DOMAIN World.risk[<<source, e>>] : World.risk[<<source, e>>][f] \in Nat
    BY <1>2
  <2> HIDE DEF was
  <2>4. CASE e \in ids /\ <<source, e>> \in DOMAIN World.risk
    BY <2>1, <2>3, <2>4, MergeNeverLowers
  <2>5. CASE ~(e \in ids /\ <<source, e>> \in DOMAIN World.risk)
    BY <2>1, <2>2, <2>5
  <2> QED
    BY <2>4, <2>5
<1>4. \A e \in DOMAIN risks : was(e) = risks[e]
  OBVIOUS
<1> HIDE DEF up, was, now
<1>5. /\ DOMAIN up = DOMAIN risks \cup ids
      /\ \A e \in DOMAIN up : Leveled(up[e])
      /\ \A e \in DOMAIN risks : NoLower(risks[e], up[e])
  BY <1>1, <1>3, <1>4
<1> QED
  BY <1>5 DEF up

\* A step of a risk that never falls.
RiskStands ==
    /\ DOMAIN risks \subseteq DOMAIN risks'
    /\ \A e \in DOMAIN risks : NoLower(risks[e], risks'[e])

LEMMA StoreEdgesAdds ==
  ASSUME NEW hops
  PROVE  DOMAIN StoreEdges(hops) = DOMAIN edges \cup {Key(h.edge) : h \in hops}
  BY DEF StoreEdges

\* Both ends of an edge that is stored have a row.
LEMMA EdgesAreStored ==
  ASSUME JobRows, CompanyRows, world' = world, NEW hops, NEW source,
         risks' = Upsert({h.edge.to : h \in hops}, source),
         edges' = StoreEdges(hops),
         \A h \in hops : h.edge.from \in DOMAIN risks'
  PROVE  /\ CompanyRows' /\ RiskStands
         /\ DOMAIN edges' = DOMAIN edges \cup {Key(h.edge) : h \in hops}
<1> DEFINE ids == {h.edge.to : h \in hops}
<1>1. World' = World
  BY SameWorld
<1>2. PICK to : to = ids
  OBVIOUS
<1>3. risks' = Upsert(to, source)
  BY <1>2
<1>4. /\ DOMAIN risks' = DOMAIN risks \cup to
      /\ \A e \in DOMAIN risks' : Leveled(risks'[e])
      /\ \A e \in DOMAIN risks : NoLower(risks[e], risks'[e])
  BY <1>3, UpsertAdds
<1>5. DOMAIN edges' = DOMAIN edges \cup {Key(h.edge) : h \in hops}
  BY StoreEdgesAdds
<1>6. EntityRelationshipRows'
  <2> SUFFICES ASSUME NEW k \in DOMAIN edges'
               PROVE  k.from \in DOMAIN risks' /\ k.to \in DOMAIN risks'
    BY DEF EntityRelationshipRows
  <2>1. CASE k \in DOMAIN edges
    BY <1>4, <2>1 DEF CompanyRows, EntityRelationshipRows
  <2>2. CASE k \notin DOMAIN edges
    <3>1. PICK h \in hops : k = Key(h.edge)
      BY <1>5, <2>2
    <3>2. k.from = h.edge.from /\ k.to = h.edge.to
      BY <3>1 DEF Key
    <3>3. h.edge.to \in to
      BY <1>2
    <3> QED
      BY <1>4, <3>2, <3>3
  <2> QED
    BY <2>1, <2>2
<1>7. CompanyRows'
  BY <1>1, <1>4, <1>6 DEF CompanyRows
<1> QED
  BY <1>4, <1>5, <1>7 DEF RiskStands

\* The members of a page leave their edges, and every company a row.
LEMMA HopsAreStored ==
  ASSUME JobRows, CompanyRows, world' = world, NEW ms, NEW endpoint,
         StoreHops(ms, endpoint)
  PROVE  /\ CompanyRows' /\ RiskStands /\ DOMAIN edges \subseteq DOMAIN edges'
         /\ \A i \in DOMAIN ms : ToSet(Chain(ms[i].hops)) \subseteq DOMAIN edges'
<1>1. PICK hops : hops = UNION {ToSet(Whole(ms[i].hops)) : i \in DOMAIN ms}
  OBVIOUS
<1>2. /\ risks' = Upsert({h.edge.to : h \in hops}, endpoint)
      /\ edges' = StoreEdges(hops)
      /\ \A i \in DOMAIN ms : ~Refused(ms[i].hops)
  BY <1>1 DEF StoreHops
<1>3. \A i \in DOMAIN ms : \A n \in DOMAIN Whole(ms[i].hops) : Whole(ms[i].hops)[n] \in hops
  BY <1>1 DEF ToSet
<1>4. PICK to : to = {h.edge.to : h \in hops}
  OBVIOUS
<1>5. DOMAIN risks' = DOMAIN risks \cup to
  BY <1>2, <1>4, UpsertAdds
<1>6. ASSUME NEW h \in hops
      PROVE  h.edge.from \in DOMAIN risks'
  <2>1. PICK i \in DOMAIN ms : h \in ToSet(Whole(ms[i].hops))
    BY <1>1
  <2>2. PICK w : w = Whole(ms[i].hops)
    OBVIOUS
  <2>3. PICK n \in DOMAIN w : h = w[n]
    BY <2>1, <2>2 DEF ToSet
  <2>4. h.edge.from \in DOMAIN risks
                \cup {w[j].edge.to : j \in {m \in DOMAIN w : m < n}}
    BY <1>2, <2>2, <2>3 DEF Refused
  <2>5. CASE h.edge.from \in DOMAIN risks
    BY <1>5, <2>5
  <2>6. CASE h.edge.from \in {w[j].edge.to : j \in {m \in DOMAIN w : m < n}}
    <3>1. PICK j \in DOMAIN w : h.edge.from = w[j].edge.to
      BY <2>6
    <3>2. w[j] \in hops
      BY <1>3, <2>2, <2>3, <3>1
    <3> QED
      BY <1>4, <1>5, <3>1, <3>2
  <2> QED
    BY <2>4, <2>5, <2>6
<1>7. /\ CompanyRows' /\ RiskStands
      /\ DOMAIN edges' = DOMAIN edges \cup {Key(h.edge) : h \in hops}
  BY <1>2, <1>6, EdgesAreStored
<1>8. \A i \in DOMAIN ms : ToSet(Chain(ms[i].hops)) \subseteq DOMAIN edges'
  <2> TAKE i \in DOMAIN ms
  <2>1. PICK w : w = Whole(ms[i].hops)
    OBVIOUS
  <2>2. Chain(ms[i].hops) = [n \in DOMAIN w |-> Key(w[n].edge)]
    BY <2>1 DEF Chain
  <2>3. \A n \in DOMAIN w : Key(w[n].edge) \in {Key(h.edge) : h \in hops}
    BY <1>3, <2>1
  <2> QED
    BY <1>7, <2>2, <2>3 DEF ToSet
<1> QED
  BY <1>7, <1>8

-----------------------------------------------------------------------------
(* A Path is written.                                                      *)

\* A Path that is found again keeps its credit, and the evidence of the nearer
\* of its two depths.
LEMMA MergedIsOneOfTwo ==
  ASSUME NEW old, DOMAIN old = PathFields, old.depth \in Nat,
         NEW new, new.depth \in Nat
  PROVE  /\ DOMAIN Merged(old, new) = PathFields
         /\ Merged(old, new).row = old.row /\ Merged(old, new).by = old.by
         /\ \/ /\ new.depth <= old.depth /\ Merged(old, new).depth = new.depth
               /\ Merged(old, new).chain = new.chain
            \/ /\ old.depth < new.depth /\ Merged(old, new).depth = old.depth
               /\ Merged(old, new).chain = old.chain
<1>1. Min({old.depth, new.depth})
          = IF new.depth <= old.depth THEN new.depth ELSE old.depth
  BY NearerOfTwo
<1> DEFINE depth == Min({old.depth, new.depth})
           chain == IF new.depth <= old.depth THEN new.chain ELSE old.chain
           filtered == old.filtered \/ new.filtered
<1>2. Merged(old, new) = [old EXCEPT !.depth = depth, !.chain = chain, !.filtered = filtered]
  BY DEF Merged
<1>3. PICK d : d = depth
  OBVIOUS
<1>4. PICK c : c = chain
  OBVIOUS
<1>5. PICK f : f = filtered
  OBVIOUS
<1> HIDE DEF depth, chain, filtered
<1>6. Merged(old, new) = [old EXCEPT !.depth = d, !.chain = c, !.filtered = f]
  BY <1>2, <1>3, <1>4, <1>5
<1>7. /\ DOMAIN Merged(old, new) = PathFields
      /\ Merged(old, new).row = old.row /\ Merged(old, new).by = old.by
      /\ Merged(old, new).depth = d /\ Merged(old, new).chain = c
  BY <1>6 DEF PathFields
<1>8. CASE new.depth <= old.depth
  BY <1>1, <1>3, <1>4, <1>7, <1>8 DEF depth, chain
<1>9. CASE ~(new.depth <= old.depth)
  <2>1. old.depth < new.depth
    BY <1>9
  <2> QED
    BY <1>1, <1>3, <1>4, <1>7, <1>9, <2>1 DEF depth, chain
<1> QED
  BY <1>8, <1>9

\* What one write leaves of the Path it is of, and of every other.
LEMMA WrittenPath ==
  ASSUME PathRows, NEW root, NEW kind, NEW m, m.depth \in Nat, NEW row, NEW by,
         NEW filtered, WritePath(root, kind, m, row, by, filtered)
  PROVE  LET key == <<root, m.entity, kind>>
         IN  /\ DOMAIN paths' = DOMAIN paths \cup {key}
             /\ \A k \in DOMAIN paths : k # key => paths'[k] = paths[k]
             /\ DOMAIN paths'[key] = PathFields
             /\ IF key \in DOMAIN paths
                THEN paths'[key].row = paths[key].row /\ paths'[key].by = paths[key].by
                ELSE paths'[key].row = row /\ paths'[key].by = by
             /\ \/ /\ key \in DOMAIN paths => m.depth <= paths[key].depth
                   /\ paths'[key].depth = m.depth
                   /\ paths'[key].chain = Chain(m.hops)
                \/ /\ key \in DOMAIN paths /\ paths[key].depth < m.depth
                   /\ paths'[key].depth = paths[key].depth
                   /\ paths'[key].chain = paths[key].chain
<1> DEFINE key == <<root, m.entity, kind>>
           new == [row |-> row, depth |-> m.depth, chain |-> Chain(m.hops),
                   by |-> by, filtered |-> filtered]
<1>1. /\ DOMAIN new = PathFields /\ new.row = row /\ new.depth = m.depth
      /\ new.chain = Chain(m.hops) /\ new.by = by
  BY DEF PathFields
<1>2. paths' = [k \in DOMAIN paths \cup {key} |->
                  IF k # key THEN paths[k]
                  ELSE IF key \in DOMAIN paths THEN Merged(paths[key], new)
                  ELSE new]
  BY DEF WritePath
<1>3. \A k \in DOMAIN paths : paths[k].depth \in Nat /\ DOMAIN paths[k] = PathFields
  BY DEF PathRows
<1> HIDE DEF key, new
<1>4. CASE key \in DOMAIN paths
  <2>2. /\ DOMAIN paths' = DOMAIN paths /\ paths'[key] = Merged(paths[key], new)
        /\ \A k \in DOMAIN paths : k # key => paths'[k] = paths[k]
    BY <1>2, <1>4
  <2>3. /\ DOMAIN paths'[key] = PathFields
        /\ paths'[key].row = paths[key].row /\ paths'[key].by = paths[key].by
        /\ \/ /\ new.depth <= paths[key].depth /\ paths'[key].depth = new.depth
              /\ paths'[key].chain = new.chain
           \/ /\ paths[key].depth < new.depth
              /\ paths'[key].depth = paths[key].depth
              /\ paths'[key].chain = paths[key].chain
    BY <1>1, <1>3, <1>4, <2>2, MergedIsOneOfTwo
  <2> QED
    BY <1>1, <1>4, <2>2, <2>3 DEF key
<1>5. CASE key \notin DOMAIN paths
  <2>2. /\ DOMAIN paths' = DOMAIN paths \cup {key} /\ paths'[key] = new
        /\ \A k \in DOMAIN paths : k # key => paths'[k] = paths[k]
    BY <1>2, <1>5
  <2> QED
    BY <1>1, <1>5, <2>2 DEF key
<1> QED
  BY <1>4, <1>5

\* A route that is written is found from then on, and the Paths stay in order.
LEMMA PathIsWritten ==
  ASSUME PathRows, world \in DOMAIN Worlds, world' = world, calls' = calls,
         edges' = edges, DOMAIN risks \subseteq DOMAIN risks',
         NEW root \in DOMAIN risks', NEW kind \in PathKinds,
         NEW m \in Routes(root, kind), m.entity \in DOMAIN risks',
         NEW row \in DOMAIN calls, NEW by, NEW filtered,
         ToSet(Chain(m.hops)) \subseteq DOMAIN edges,
         by # None <=> row[1] \in {"sayari_deep_traversal",
            "sayari_supply_chain_upstream", "sayari_shortest_path"},
         WritePath(root, kind, m, row, by, filtered)
  PROVE  /\ PathRows'
         /\ \A k \in DOMAIN paths : /\ k \in DOMAIN paths'
                                    /\ paths'[k].depth \in Nat
                                    /\ paths'[k].depth <= paths[k].depth
         /\ m.depth \in Nat /\ <<root, m.entity, kind>> \in DOMAIN paths'
         /\ paths'[<<root, m.entity, kind>>].depth <= m.depth
<1> DEFINE key == <<root, m.entity, kind>>
<1>0. m.depth \in Nat
  BY RoutesHaveDepth
<1>1. /\ DOMAIN paths' = DOMAIN paths \cup {key}
      /\ \A k \in DOMAIN paths : k # key => paths'[k] = paths[k]
      /\ DOMAIN paths'[key] = PathFields
      /\ IF key \in DOMAIN paths
         THEN paths'[key].row = paths[key].row /\ paths'[key].by = paths[key].by
         ELSE paths'[key].row = row /\ paths'[key].by = by
      /\ \/ /\ key \in DOMAIN paths => m.depth <= paths[key].depth
            /\ paths'[key].depth = m.depth /\ paths'[key].chain = Chain(m.hops)
         \/ /\ key \in DOMAIN paths /\ paths[key].depth < m.depth
            /\ paths'[key].depth = paths[key].depth
            /\ paths'[key].chain = paths[key].chain
  BY <1>0, WrittenPath
<1>2. /\ \A r, k : Routes(r, k)' = Routes(r, k)
      /\ key[1] = root /\ key[2] = m.entity /\ key[3] = kind
  BY SameWorld
<1>3. \A k \in DOMAIN paths :
          /\ k[3] \in PathKinds /\ paths[k].depth \in Nat
          /\ DOMAIN paths[k] = PathFields
          /\ k[1] \in DOMAIN risks' /\ k[2] \in DOMAIN risks'
          /\ paths[k].row \in DOMAIN calls
          /\ ToSet(paths[k].chain) \subseteq DOMAIN edges
          /\ \E r \in Routes(k[1], k[3]) :
                /\ r.entity = k[2] /\ r.depth = paths[k].depth
                /\ Chain(r.hops) = paths[k].chain
          /\ paths[k].by # None <=> paths[k].row[1] \in {"sayari_deep_traversal",
                "sayari_supply_chain_upstream", "sayari_shortest_path"}
  BY DEF PathRows, GraphPathRows, EvidenceIsOfTheDepth, CreditedToItsFinder
<1> HIDE DEF key
<1>4. /\ paths'[key].depth \in Nat /\ paths'[key].depth <= m.depth
      /\ paths'[key].row \in DOMAIN calls
      /\ ToSet(paths'[key].chain) \subseteq DOMAIN edges
      /\ paths'[key].by # None <=> paths'[key].row[1] \in {"sayari_deep_traversal",
                "sayari_supply_chain_upstream", "sayari_shortest_path"}
  BY <1>0, <1>1, <1>3
<1>5. \E r \in Routes(root, kind) : /\ r.entity = m.entity
                                    /\ r.depth = paths'[key].depth
                                    /\ Chain(r.hops) = paths'[key].chain
  BY <1>1, <1>2, <1>3
<1>6. \A k \in DOMAIN paths' :
          /\ k[3] \in PathKinds /\ paths'[k].depth \in Nat
          /\ DOMAIN paths'[k] = PathFields
          /\ k[1] \in DOMAIN risks' /\ k[2] \in DOMAIN risks'
          /\ paths'[k].row \in DOMAIN calls
          /\ ToSet(paths'[k].chain) \subseteq DOMAIN edges
          /\ \E r \in Routes(k[1], k[3]) :
                /\ r.entity = k[2] /\ r.depth = paths'[k].depth
                /\ Chain(r.hops) = paths'[k].chain
          /\ paths'[k].by # None <=> paths'[k].row[1] \in {"sayari_deep_traversal",
                "sayari_supply_chain_upstream", "sayari_shortest_path"}
  <2> TAKE k \in DOMAIN paths'
  <2>1. CASE k = key
    BY <1>1, <1>2, <1>4, <1>5, <2>1
  <2>2. CASE k # key
    BY <1>1, <1>3, <2>2
  <2> QED
    BY <2>1, <2>2
<1>7. PathRows'
  BY <1>2, <1>6 DEF PathRows, GraphPathRows, EvidenceIsOfTheDepth, CreditedToItsFinder
<1>8. \A k \in DOMAIN paths : k \in DOMAIN paths' /\ paths'[k].depth <= paths[k].depth
  <2> TAKE k \in DOMAIN paths
  <2>1. CASE k = key
    BY <1>0, <1>1, <1>3, <2>1
  <2>2. CASE k # key
    BY <1>1, <1>3, <2>2
  <2> QED
    BY <2>1, <2>2
<1> QED
  BY <1>0, <1>1, <1>4, <1>6, <1>7, <1>8 DEF key

-----------------------------------------------------------------------------
(* The values of a Criterion.                                              *)

\* Finitely many naturals with none left out are the ones below their count.
LEMMA CountedFromZero ==
  ASSUME NEW N, N \subseteq Nat, IsFiniteSet(N),
         \A n \in N : 0..n \subseteq N
  PROVE  Cardinality(N) \in Nat /\ N = 0..(Cardinality(N) - 1)
<1> DEFINE c == Cardinality(N)
           Out == Nat \ N
<1>1. c \in Nat
  BY FS_CardinalityType
<1> HIDE DEF c
<1>2. Out # {}
  <2> SUFFICES ASSUME Nat \subseteq N
               PROVE  FALSE
    OBVIOUS
  <2>1. 0..c \in SUBSET N
    BY <1>1
  <2>2. Cardinality(0..c) <= Cardinality(N)
    BY <2>1, FS_Subset
  <2>3. Cardinality(0..c) = IF 0 > c THEN 0 ELSE c - 0 + 1
    BY <1>1, FS_Interval
  <2> QED
    BY <1>1, <2>2, <2>3 DEF c
<1>3. PICK least \in Out : \A n \in Out : least <= n
  <2>1. Out \subseteq Nat
    OBVIOUS
  <2> QED
    BY <1>2, <2>1, LeastOf
<1>4. N = 0..(least - 1)
  <2>1. \A n \in 0..(least - 1) : n \in N
    <3> TAKE n \in 0..(least - 1)
    <3>1. n \in Nat /\ ~(least <= n)
      BY <1>3
    <3> QED
      BY <1>3, <3>1
  <2>2. \A n \in N : n \in 0..(least - 1)
    <3> TAKE n \in N
    <3>1. n \in Nat /\ 0..n \subseteq N /\ least \in Nat /\ least \notin N
      BY <1>3
    <3>2. ~(least <= n)
      BY <3>1
    <3> QED
      BY <3>1, <3>2
  <2> QED
    BY <2>1, <2>2
<1>5. Cardinality(0..(least - 1)) = IF 0 > least - 1 THEN 0 ELSE (least - 1) - 0 + 1
  BY <1>3, FS_Interval
<1>6. c = least
  BY <1>3, <1>4, <1>5 DEF c
<1> QED
  BY <1>1, <1>4, <1>6 DEF c

\* How many values a Criterion has is the number of the next one.
LEMMA CountIsNext ==
  ASSUME ValueRows, NEW s, NEW key
  PROVE  LET c == Cardinality(Values(s, key))
         IN  /\ c \in Nat /\ \A n \in 0..(c - 1) : Numbered(s, key, n)
             /\ \A v \in Values(s, key) : v.n \in 0..(c - 1)
<1> DEFINE V == Values(s, key)
           N == {v.n : v \in V}
           f == [v \in V |-> v.n]
<1>1. /\ V \subseteq values /\ \A v \in V : v.supplier = s /\ v.key = key /\ v.n \in Nat
      /\ \A v \in V : \A n \in 0..v.n : Numbered(s, key, n)
  BY DEF Values, ValueRows, ValuesInOrder
<1>2. IsFiniteSet(V)
  <2>1. V \in SUBSET values
    BY <1>1
  <2> QED
    BY <2>1, FS_Subset DEF ValueRows
<1>3. \A v, u \in V : v.n = u.n => v = u
  BY <1>1 DEF ValueRows, CriterionValueRows
<1>4. \A n : Numbered(s, key, n) <=> n \in N
  BY DEF Numbered
<1> HIDE DEF V
<1>5. f \in Bijection(V, N)
  <2>1. f \in Surjection(V, N)
    BY DEF Surjection
  <2>2. f \in Injection(V, N)
    BY <1>3 DEF Injection, IsInjective
  <2> QED
    BY <2>1, <2>2 DEF Bijection
<1>6. ExistsBijection(V, N)
  BY <1>5 DEF ExistsBijection
<1>7. IsFiniteSet(N) /\ Cardinality(N) = Cardinality(V)
  BY <1>2, <1>6, FS_Bijection
<1>8. N \subseteq Nat /\ \A n \in N : 0..n \subseteq N
  BY <1>1, <1>4
<1>9. \A v \in V : v.n \in N
  OBVIOUS
<1> HIDE DEF N, f
<1>10. Cardinality(N) \in Nat /\ N = 0..(Cardinality(N) - 1)
  BY <1>7, <1>8, CountedFromZero
<1> QED
  BY <1>4, <1>7, <1>9, <1>10 DEF V

\* So a Criterion that has a value has a current one, the last.
LEMMA LastIsCurrent ==
  ASSUME ValueRows
  PROVE  AlwaysACurrentValue
<1> SUFFICES ASSUME NEW v \in values
             PROVE  \E u \in Values(v.supplier, v.key) : u.current
  BY DEF AlwaysACurrentValue
<1>1. PICK c : c = Cardinality(Values(v.supplier, v.key))
  OBVIOUS
<1>2. /\ c \in Nat /\ \A n \in 0..(c - 1) : Numbered(v.supplier, v.key, n)
      /\ \A u \in Values(v.supplier, v.key) : u.n \in 0..(c - 1)
  BY <1>1, CountIsNext
<1>3. v.n \in 0..(c - 1)
  BY <1>2 DEF Values
<1>4. PICK u \in Values(v.supplier, v.key) : u.n = c - 1
  BY <1>2, <1>3 DEF Numbered
<1>5. \A x \in Values(v.supplier, v.key) : x.n <= u.n
  BY <1>2, <1>4
<1>6. u \in values /\ u.supplier = v.supplier /\ u.key = v.key
  BY DEF Values
<1>7. u.current
  BY <1>5, <1>6 DEF ValueRows, ValuesInOrder
<1> QED
  BY <1>7

\* A value that is new follows the ones before it, and is current.
LEMMA ValueInserted ==
  ASSUME ValueRows, NEW s, NEW key, NEW gen \in Nat, ~Numbered(s, key, gen),
         \A n \in 0..(gen - 1) : Numbered(s, key, n),
         values' = values \cup {[supplier |-> s, key |-> key, n |-> gen,
                                 current |-> TRUE]}
  PROVE  ValueRows'
<1> DEFINE new == [supplier |-> s, key |-> key, n |-> gen, current |-> TRUE]
<1>1. /\ DOMAIN new = {"supplier", "key", "n", "current"} /\ new.supplier = s
      /\ new.key = key /\ new.n = gen /\ new.current = TRUE
  OBVIOUS
<1>2. values' = values \cup {new}
  OBVIOUS
<1> HIDE DEF new
<1>3. IsFiniteSet(values')
  BY <1>2, FS_AddElement DEF ValueRows
<1>4. \A v \in values : ~(v.supplier = s /\ v.key = key /\ v.n = gen)
  BY DEF Numbered, Values
<1>5. CriterionValueRows'
  BY <1>1, <1>2, <1>4 DEF ValueRows, CriterionValueRows
<1>6. \A x, y, n : Numbered(x, y, n) => Numbered(x, y, n)'
  BY <1>2 DEF Numbered, Values
<1>7. Numbered(s, key, gen)'
  BY <1>1, <1>2 DEF Numbered, Values
<1>8. \A n \in 0..gen : Numbered(s, key, n)'
  BY <1>6, <1>7
<1>9. ValuesInOrder'
  <2> SUFFICES ASSUME NEW v \in values'
               PROVE  (/\ DOMAIN v = {"supplier", "key", "n", "current"}
                       /\ v.n \in Nat /\ v.current \in BOOLEAN
                       /\ \A n \in 0..v.n : Numbered(v.supplier, v.key, n)
                       /\ (\A u \in Values(v.supplier, v.key) : u.n <= v.n) => v.current)'
    BY DEF ValuesInOrder
  <2>1. CASE v = new
    BY <1>1, <1>8, <2>1
  <2>2. CASE v \in values
    <3>1. /\ DOMAIN v = {"supplier", "key", "n", "current"}
          /\ v.n \in Nat /\ v.current \in BOOLEAN
          /\ \A n \in 0..v.n : Numbered(v.supplier, v.key, n)
          /\ (\A u \in Values(v.supplier, v.key) : u.n <= v.n) => v.current
      BY <2>2 DEF ValueRows, ValuesInOrder
    <3>2. Values(v.supplier, v.key) \subseteq Values(v.supplier, v.key)'
      BY <1>2 DEF Values
    <3> QED
      BY <1>6, <3>1, <3>2
  <2> QED
    BY <1>2, <2>1, <2>2
<1> QED
  BY <1>3, <1>5, <1>9 DEF ValueRows

Withdrawn(v) == [v EXCEPT !.current = FALSE]

\* One that is superseded has a later one, and only stops being current.
LEMMA ValueSuperseded ==
  ASSUME ValueRows, NEW s, NEW key, NEW gen \in Nat, NEW previous,
         Numbered(s, key, gen), previous # None => previous \in 0..(gen - 1),
         NEW old, \A v : v \in old <=> v \in Values(s, key) /\ v.n = previous,
         \A u : u \in values' <=>
            \/ u \in values /\ u \notin old
            \/ \E v \in old : u = Withdrawn(v)
  PROVE  /\ ValueRows'
         /\ \A v \in values : \E u \in values' :
               u.supplier = v.supplier /\ u.key = v.key /\ u.n = v.n
<1>1. CASE old = {}
  <2>1. values' = values
    BY <1>1
  <2> QED
    BY <2>1, ValuesStay
<1>2. CASE old # {}
  <2>1. PICK p : p \in old
    BY <1>2
  <2>2. p \in values /\ p.supplier = s /\ p.key = key /\ p.n = previous
    BY <2>1 DEF Values
  <2>3. old = {p}
    BY <2>1, <2>2 DEF Values, ValueRows, CriterionValueRows
  <2>4. PICK q : q = Withdrawn(p)
    OBVIOUS
  <2>5. values' = (values \ {p}) \cup {q}
    BY <2>3, <2>4
  <2>6. DOMAIN p = {"supplier", "key", "n", "current"} /\ p.n \in Nat
    BY <2>2 DEF ValueRows, ValuesInOrder
  <2>7. /\ DOMAIN q = {"supplier", "key", "n", "current"} /\ q.supplier = s
        /\ q.key = key /\ q.n = p.n /\ q.current = FALSE
    BY <2>2, <2>4, <2>6 DEF Withdrawn
  <2>8. p.n < gen
    BY <2>2, <2>6, EnrichBounds
  <2>9. IsFiniteSet(values')
    <3>1. IsFiniteSet(values)
      BY DEF ValueRows
    <3>2. PICK rest : rest = values \ {p}
      OBVIOUS
    <3>3. IsFiniteSet(rest)
      BY <3>1, <3>2, FS_RemoveElement
    <3>4. IsFiniteSet(rest \cup {q})
      BY <3>3, FS_AddElement
    <3> QED
      BY <2>5, <3>2, <3>4
  <2>10. CriterionValueRows'
    BY <2>2, <2>5, <2>7 DEF ValueRows, CriterionValueRows
  <2>11. \A v \in values : \E u \in values' :
            u.supplier = v.supplier /\ u.key = v.key /\ u.n = v.n
    BY <2>2, <2>5, <2>7
  <2>12. \A u \in values' : \E v \in values :
            /\ DOMAIN u = {"supplier", "key", "n", "current"}
            /\ u.supplier = v.supplier /\ u.key = v.key /\ u.n = v.n
            /\ u = v \/ u = q
    <3>1. \A v \in values : DOMAIN v = {"supplier", "key", "n", "current"}
      BY DEF ValueRows, ValuesInOrder
    <3> QED
      BY <2>2, <2>5, <2>7, <3>1
  <2>13. \A x, y, n : Numbered(x, y, n) => Numbered(x, y, n)'
    <3> SUFFICES ASSUME NEW x, NEW y, NEW n, Numbered(x, y, n)
                 PROVE  Numbered(x, y, n)'
      OBVIOUS
    <3>1. PICK v \in values : v.supplier = x /\ v.key = y /\ v.n = n
      BY DEF Numbered, Values
    <3>2. PICK u \in values' : u.supplier = v.supplier /\ u.key = v.key /\ u.n = v.n
      BY <2>11
    <3> QED
      BY <3>1, <3>2 DEF Numbered, Values
  <2>14. ValuesInOrder'
    <3> SUFFICES ASSUME NEW u \in values'
                 PROVE  (/\ DOMAIN u = {"supplier", "key", "n", "current"}
                         /\ u.n \in Nat /\ u.current \in BOOLEAN
                         /\ \A n \in 0..u.n : Numbered(u.supplier, u.key, n)
                         /\ (\A x \in Values(u.supplier, u.key) : x.n <= u.n)
                                => u.current)'
      BY DEF ValuesInOrder
    <3>1. PICK v \in values : /\ DOMAIN u = {"supplier", "key", "n", "current"}
                              /\ u.supplier = v.supplier /\ u.key = v.key
                              /\ u.n = v.n /\ (u = v \/ u = q)
      BY <2>12
    <3>2. /\ v.n \in Nat /\ v.current \in BOOLEAN
          /\ \A n \in 0..v.n : Numbered(v.supplier, v.key, n)
          /\ (\A x \in Values(v.supplier, v.key) : x.n <= v.n) => v.current
      BY DEF ValueRows, ValuesInOrder
    <3>3. ASSUME \A x \in Values(u.supplier, u.key)' : x.n <= u.n
          PROVE  u.current
      <4>1. CASE u = q
        <5>1. Numbered(s, key, gen)'
          BY <2>13
        <5>2. PICK x \in Values(s, key)' : x.n = gen
          BY <5>1 DEF Numbered
        <5>3. gen <= q.n
          BY <2>7, <3>3, <4>1, <5>2
        <5> QED
          BY <2>6, <2>7, <2>8, <5>3
      <4>2. CASE u = v
        <5>1. \A x \in Values(v.supplier, v.key) : x.n <= v.n
          <6> TAKE x \in Values(v.supplier, v.key)
          <6>1. PICK y \in values' : y.supplier = x.supplier /\ y.key = x.key /\ y.n = x.n
            BY <2>11 DEF Values
          <6>2. y \in Values(v.supplier, v.key)'
            BY <6>1 DEF Values
          <6> QED
            BY <3>3, <4>2, <6>1, <6>2
        <5> QED
          BY <3>2, <4>2, <5>1
      <4> QED
        BY <3>1, <4>1, <4>2
    <3>4. u.current \in BOOLEAN
      BY <2>7, <3>1, <3>2
    <3>5. u.n \in Nat
      BY <3>1, <3>2
    <3>6. (\A n \in 0..u.n : Numbered(u.supplier, u.key, n))'
      BY <2>13, <3>1, <3>2
    <3> QED
      BY <3>1, <3>3, <3>4, <3>5, <3>6
  <2> QED
    BY <2>9, <2>10, <2>11, <2>14 DEF ValueRows
<1> QED
  BY <1>1, <1>2

\* The articles of a call are of different places in one body.
LEMMA OnceEach ==
  ASSUME ItemRows, world \in DOMAIN Worlds
  PROVE  ArticlesCountedOnce
<1> SUFFICES ASSUME NEW r \in DOMAIN calls
             PROVE  Cardinality({n \in items : n[1] = "news" /\ n[2] = r})
                        <= Len(Reply("sayari_negative_news"))
  BY DEF ArticlesCountedOnce
<1> DEFINE A == {n \in items : n[1] = "news" /\ n[2] = r}
           last == Len(Reply("sayari_negative_news"))
           f == [n \in A |-> n[3]]
<1>1. last \in Nat
  BY RepliesAreLists DEF IsList
<1>2. \A n \in A : n = <<"news", r, n[3]>> /\ n[3] \in 1..last
  BY DEF ItemRows
<1>3. \A n \in A : \A m \in A : n[3] = m[3] => n = m
  BY <1>2
<1> HIDE DEF A, last
<1>4. f \in Injection(A, 1..last)
  BY <1>2, <1>3 DEF Injection, IsInjective
<1>5. IsFiniteSet(1..last) /\ Cardinality(1..last) = IF 1 > last THEN 0 ELSE last - 1 + 1
  BY <1>1, FS_Interval
<1>6. IsFiniteSet(A) /\ Cardinality(A) <= Cardinality(1..last)
  BY <1>4, <1>5, FS_Injection
<1>7. Cardinality(A) \in Nat
  BY <1>6, FS_CardinalityType
<1> QED
  BY <1>1, <1>5, <1>6, <1>7 DEF A, last

-----------------------------------------------------------------------------
(* An attempt steps.                                                       *)

\* The step of one attempt keeps the invariant if it leaves the tables in order
\* and the attempt what it should be.
LEMMA OneSteps ==
  ASSUME EnrichInv, NEW a \in Attempts, NEW r, Step(a, r), Grown, Tables',
         at'[a] = r => AttemptOK(a)'
  PROVE  EnrichInv'
<1>1. /\ DOMAIN at' = Attempts /\ at'[a] = r
      /\ \A b \in Attempts : b # a => at'[b] = at[b]
  BY DEF EnrichInv, Step
<1>2. ASSUME NEW b \in Attempts, b # a
      PROVE  AttemptOK(b)'
  <2>1. at'[b] = at[b] /\ AttemptOK(b) /\ PathRows
    BY <1>1, <1>2 DEF EnrichInv, Tables
  <2> QED
    BY <2>1, OthersKeep
<1> QED
  BY <1>1, <1>2 DEF EnrichInv

\* A step that leaves every table but the Jobs'.
LEMMA RowsStay ==
  ASSUME Tables, UNCHANGED <<world, rows>>, JobRows'
  PROVE  Tables' /\ Grown /\ RiskStands
<1>1. /\ world' = world /\ calls' = calls /\ items' = items /\ risks' = risks
      /\ edges' = edges /\ paths' = paths /\ values' = values
  BY DEF rows
<1>2. CompanyRows' /\ PathRows' /\ ItemRows' /\ ValueRows'
  BY <1>1, CompaniesStay, PathsStay, ItemsStay, ValuesStay DEF Tables
<1>3. Grown
  BY <1>1 DEF Grown, Tables, PathRows
<1>4. \A e \in DOMAIN risks : Leveled(risks[e])
  BY DEF Tables, CompanyRows
<1>5. \A e \in DOMAIN risks : NoLower(risks[e], risks[e])
  BY <1>4 DEF Leveled, NoLower
<1> QED
  BY <1>1, <1>2, <1>3, <1>5 DEF Tables, RiskStands

\* The Job of a row gets a state.
LEMMA JobSet ==
  ASSUME JobRows, world' = world, calls' = calls, NEW j \in Jobs,
         NEW state \in {"queued", "running", "failed", "done"},
         jobs' = [jobs EXCEPT ![j] = state]
  PROVE  JobRows'
<1>1. Jobs' = Jobs
  BY SameWorld
<1>2. DOMAIN jobs' = DOMAIN jobs /\ \A i \in DOMAIN jobs : jobs'[i] = state \/ jobs'[i] = jobs[i]
  OBVIOUS
<1> QED
  BY <1>1, <1>2 DEF JobRows

LEMMA JobsSame ==
  ASSUME JobRows, world' = world, jobs' = jobs, IsFiniteSet(DOMAIN calls')
  PROVE  JobRows'
<1>1. Jobs' = Jobs
  BY SameWorld
<1> QED
  BY <1>1 DEF JobRows

\* Where an attempt begins, and where it ends.
LEMMA AtRest ==
  /\ DOMAIN NoWalk = WalkFields /\ NoWalk.dir = "downward" /\ NoWalk.offset = 0
  /\ NoWalk.left = CallBudget /\ NoWalk.found = {} /\ NoWalk.pages = <<>>
  /\ DOMAIN Idle = Fields /\ Idle.job = None /\ Idle.pc = "idle"
  /\ Idle.reads = <<>> /\ Idle.body = <<>> /\ Idle.k = 1 /\ Idle.gen = 0
  /\ Idle.walk = NoWalk /\ Idle.input = None /\ Idle.previous = None
<1>1. /\ DOMAIN NoWalk = WalkFields /\ NoWalk.dir = "downward" /\ NoWalk.offset = 0
      /\ NoWalk.left = CallBudget /\ NoWalk.found = {} /\ NoWalk.pages = <<>>
  BY DEF NoWalk, WalkFields
<1>2. /\ DOMAIN Idle = Fields /\ Idle.job = None /\ Idle.pc = "idle"
      /\ Idle.reads = <<>> /\ Idle.body = <<>> /\ Idle.k = 1 /\ Idle.gen = 0
      /\ Idle.walk = NoWalk /\ Idle.input = None /\ Idle.previous = None
  BY DEF Idle, Fields
<1> QED
  BY <1>1, <1>2

\* A walk that has not begun is of its kind.
LEMMA FreshWalk ==
  /\ DOMAIN NoWalk = WalkFields /\ NoWalk.left \in 0..CallBudget
  /\ NoWalk.dir \in Directions /\ NoWalk.offset \in Nat
  /\ IsFiniteSet(NoWalk.found) /\ IsList(NoWalk.pages) /\ ToSet(NoWalk.pages) = {}
<1>1. CallBudget \in Nat
  BY EnrichBounds
<1> QED
  BY <1>1, AtRest, FS_EmptySet, NoList DEF Directions

\* An attempt that is not running asks nothing of the tables.
LEMMA RestingIsOK ==
  ASSUME NEW a, DOMAIN at[a] = Fields, at[a].pc \in {"idle", "over"},
         at[a].job = None, at[a].k = 1, at[a].gen = 0, at[a].walk = NoWalk,
         at[a].input = None
  PROVE  AttemptOK(a)
<1>1. Shaped(a)
  BY FreshWalk DEF Shaped
<1>2. ~Running(a)
  BY DEF Running
<1>3. Reading(a) /\ Asked(a) /\ Scoring(a) /\ Superseding(a) /\ Nearest(a)
  BY <1>2 DEF Reading, Asked, Scoring, Superseding, Nearest
<1>4. Walking(a)
  BY FreshWalk DEF Walking
<1> QED
  BY <1>1, <1>3, <1>4 DEF AttemptOK

LEMMA OverIsOK ==
  ASSUME NEW a, at'[a] = Over
  PROVE  AttemptOK(a)'
<1>1. /\ DOMAIN Over = Fields /\ Over.pc = "over" /\ Over.job = None /\ Over.k = 1
      /\ Over.gen = 0 /\ Over.walk = NoWalk /\ Over.input = None
  BY AtRest DEF Over, Fields
<1>2. /\ DOMAIN at'[a] = Fields /\ at'[a].pc = "over" /\ at'[a].job = None
      /\ at'[a].k = 1 /\ at'[a].gen = 0 /\ at'[a].walk = NoWalk /\ at'[a].input = None
  BY <1>1
<1>3. Shaped(a)'
  BY <1>2, FreshWalk DEF Shaped
<1>4. ~Running(a)'
  BY <1>2 DEF Running
<1>5. Reading(a)' /\ Asked(a)' /\ Scoring(a)' /\ Superseding(a)' /\ Nearest(a)'
  BY <1>2, <1>4 DEF Reading, Asked, Scoring, Superseding, Nearest
<1>6. Walking(a)'
  BY <1>2, FreshWalk DEF Walking
<1> QED
  BY <1>3, <1>5, <1>6 DEF AttemptOK

\* Everything starts in order.
LEMMA InitIsOK ==
  ASSUME Init
  PROVE  EnrichInv
<1>1. DOMAIN at = Attempts /\ \A a \in Attempts : at[a] = Idle
  BY DEF Init
<1>2. \A a \in Attempts : AttemptOK(a)
  BY <1>1, AtRest, RestingIsOK
<1>3. /\ DOMAIN calls = {} /\ items = {} /\ DOMAIN edges = {} /\ DOMAIN paths = {}
      /\ values = {} /\ world \in DOMAIN Worlds
  BY DEF Init, Empty
<1>4. JobRows
  BY <1>3, FS_EmptySet DEF Init, JobRows
<1>5. CompanyRows
  <2>1. DOMAIN risks = World.stored /\ \A e \in DOMAIN risks : risks[e] = NoRisk
    BY DEF Init
  <2>2. Leveled(NoRisk)
    BY DEF Leveled, NoRisk
  <2> QED
    BY <1>3, <2>1, <2>2 DEF CompanyRows, EntityRelationshipRows
<1>6. PathRows /\ ItemRows
  BY <1>3 DEF PathRows, GraphPathRows, EvidenceIsOfTheDepth, CreditedToItsFinder, ItemRows
<1>7. ValueRows
  BY <1>3, FS_EmptySet DEF ValueRows, CriterionValueRows, ValuesInOrder
<1> QED
  BY <1>1, <1>2, <1>4, <1>5, <1>6, <1>7 DEF EnrichInv, Tables

\* The attempt that steps keeps what it reads and holds.
LEMMA OwnKeep ==
  ASSUME Grown, NEW a, AttemptOK(a), Running(a),
         at'[a].job = at[a].job, at'[a].input = at[a].input,
         at'[a].walk.pages = at[a].walk.pages
  PROVE  /\ at[a].job \in Jobs /\ Kind(at[a].job)' = Kind(at[a].job)
         /\ Walking(a)' /\ Scoring(a)'
         /\ at'[a].reads = at[a].reads =>
               /\ Asked(a)' /\ Current(a)' = Current(a)
               /\ (/\ at[a].job \in Jobs /\ IsList(at[a].reads)
                   /\ ToSet(at[a].reads) \subseteq ToSet(Reads(at[a].job)))'
<1>0. world' = world
  BY DEF Grown
<1>1. /\ World' = World /\ Jobs' = Jobs
      /\ \A j : Kind(j)' = Kind(j) /\ Profile(j)' = Profile(j)
      /\ \A root, kind : Routes(root, kind)' = Routes(root, kind)
      /\ \A j : Reads(j)' = Reads(j)
  BY <1>0, SameWorld
<1>2. /\ at[a].job \in Jobs /\ IsList(at[a].reads)
      /\ ToSet(at[a].reads) \subseteq ToSet(Reads(at[a].job))
  BY DEF AttemptOK, Reading
<1>3. Walking(a)'
  BY <1>1 DEF AttemptOK, Walking, PageOf, Grown
<1>4. Scoring(a)'
  BY <1>1 DEF AttemptOK, Scoring
<1>5. at'[a].reads = at[a].reads => Asked(a)'
  BY <1>1, FoundStays DEF AttemptOK, Asked
<1>6. at'[a].reads = at[a].reads => Current(a)' = Current(a)
  BY DEF Current
<1> QED
  BY <1>1, <1>2, <1>3, <1>4, <1>5, <1>6

-----------------------------------------------------------------------------
(* The read an attempt is at.                                              *)

LEMMA CurrentIs ==
  ASSUME JobRows, NEW a, AttemptOK(a), Running(a), at[a].reads # <<>>
  PROVE  /\ at[a].job \in Jobs /\ at[a].job # None
         /\ ReadOf(at[a].job, Current(a)) /\ BodyOf(a)
         /\ IsList(Tail(at[a].reads))
         /\ ToSet(at[a].reads) = {Current(a)} \cup ToSet(Tail(at[a].reads))
         /\ Len(at[a].reads) > 1 <=> Tail(at[a].reads) # <<>>
<1> DEFINE reads == at[a].reads
           j == at[a].job
<1>1. j \in Jobs /\ IsList(reads) /\ ToSet(reads) \subseteq ToSet(Reads(j))
  BY DEF AttemptOK, Reading
<1>2. world \in DOMAIN Worlds /\ j # None /\ \A r \in ToSet(Reads(j)) : ReadOf(j, r)
  BY <1>1, OfTheWorld, ReadsOfJob DEF JobRows
<1>3. PICK s : s = reads
  OBVIOUS
<1>4. s \in Seq(ToSet(s)) /\ s # <<>>
  BY <1>1, <1>3 DEF IsList
<1>5. /\ Head(s) \in ToSet(s) /\ IsList(Tail(s))
      /\ ToSet(s) = {Head(s)} \cup ToSet(Tail(s))
      /\ Len(s) > 1 <=> Tail(s) # <<>>
  <2>1. PICK S : S = ToSet(s)
    OBVIOUS
  <2>2. /\ Head(s) \in ToSet(s) /\ Tail(s) \in Seq(S)
        /\ ToSet(s) = {Head(s)} \cup ToSet(Tail(s))
        /\ Len(s) \in Nat \ {0} /\ Len(Tail(s)) = Len(s) - 1
    BY <1>4, <2>1, Rest
  <2>3. PICK t : t = Tail(s)
    OBVIOUS
  <2>4. IsList(t)
    BY <2>2, <2>3, OfItsOwn DEF IsList
  <2>5. t \in Seq(S)
    BY <2>2, <2>3
  <2>6. Len(t) > 0 <=> t # <<>>
    BY <2>5
  <2> QED
    BY <2>2, <2>3, <2>4, <2>6
<1>6. Current(a) = Head(s)
  BY <1>3 DEF Current
<1>7. ReadOf(j, Current(a))
  BY <1>1, <1>2, <1>3, <1>5, <1>6
<1>8. BodyOf(a)
  BY <1>2, <1>7, BodyHolds DEF AttemptOK, Shaped, Directions
<1> QED
  BY <1>1, <1>2, <1>3, <1>5, <1>6, <1>7, <1>8

\* On to the next read: the one that is left has nothing more to tell, and after
\* the last comes the scoring of an enriched company.
LEMMA AfterIsOK ==
  ASSUME JobRows, Grown, NEW a, AttemptOK(a), Running(a), at[a].reads # <<>>,
         at'[a] = After(a),
         \A country : \A i \in DOMAIN Indicators :
            Current(a) = IndicatorRead(country, i) =>
                <<country, Indicators[i]>> \in World.silent \/ Known(country, i)'
  PROVE  AttemptOK(a)'
<1> DEFINE pc == IF Len(at[a].reads) > 1 THEN "count"
                 ELSE IF Kind(at[a].job) = "enrich" THEN "score" ELSE "end"
<1>0. world' = world
  BY DEF Grown
<1>1. DOMAIN at[a] = Fields
  BY DEF AttemptOK, Shaped
<1>2. /\ DOMAIN at'[a] = Fields /\ at'[a].job = at[a].job /\ at'[a].pc = pc
      /\ at'[a].reads = Tail(at[a].reads) /\ at'[a].body = <<>> /\ at'[a].k = 1
      /\ at'[a].gen = at[a].gen /\ at'[a].walk = at[a].walk
      /\ at'[a].input = at[a].input /\ at'[a].previous = at[a].previous
  <2>1. PICK p : p = pc
    OBVIOUS
  <2> HIDE DEF pc
  <2>2. After(a) = [at[a] EXCEPT !.k = 1, !.reads = Tail(at[a].reads),
                                 !.body = <<>>, !.pc = p]
    BY <2>1 DEF After, pc
  <2> QED
    BY <1>1, <2>1, <2>2 DEF Fields
<1>3. /\ at[a].job \in Jobs /\ at[a].job # None
      /\ ReadOf(at[a].job, Current(a))
      /\ IsList(Tail(at[a].reads))
      /\ ToSet(at[a].reads) = {Current(a)} \cup ToSet(Tail(at[a].reads))
      /\ Len(at[a].reads) > 1 <=> Tail(at[a].reads) # <<>>
  BY CurrentIs
<1>4. /\ World' = World /\ Jobs' = Jobs
      /\ \A j : Kind(j)' = Kind(j) /\ Profile(j)' = Profile(j)
      /\ \A j : Reads(j)' = Reads(j)
  BY <1>0, SameWorld
<1>5. pc \in {"count", "score", "end"}
  OBVIOUS
<1>6. /\ pc = "count" => Tail(at[a].reads) # <<>>
      /\ pc = "score" => Kind(at[a].job) = "enrich" /\ Tail(at[a].reads) = <<>>
  BY <1>3
<1> HIDE DEF pc
<1>7. Shaped(a)'
  BY <1>2, <1>3, <1>4 DEF AttemptOK, Shaped
<1>8. Walking(a)' /\ Scoring(a)'
  BY <1>2, OwnKeep
<1>9. Reading(a)'
  <2>1. ToSet(at[a].reads) \subseteq ToSet(Reads(at[a].job))
    BY DEF AttemptOK, Reading
  <2>2. ToSet(at'[a].reads) \subseteq ToSet(Reads(at[a].job))
    BY <1>2, <1>3, <2>1
  <2>3. pc = "score" => Profile(at[a].job) # None
    BY <1>3, <1>6 DEF ReadOf
  <2>4. at'[a].pc \in {"count", "score", "end"}
    BY <1>2, <1>5
  <2> QED
    BY <1>2, <1>3, <1>4, <1>6, <2>2, <2>3, <2>4 DEF Reading
<1>10. Asked(a)'
  <2>1. PICK c : c = Profile(at[a].job).country
    OBVIOUS
  <2>2. (Profile(at[a].job).country)' = c
    BY <1>2, <1>4, <2>1
  <2> SUFFICES ASSUME Kind(at[a].job) = "enrich", Profile(at[a].job) # None,
                      c # None, NEW i \in DOMAIN Indicators
               PROVE  \/ <<c, Indicators[i]>> \in World.silent
                      \/ Known(c, i)'
                      \/ IndicatorRead(c, i) \in ToSet(Tail(at[a].reads))
    BY <1>2, <1>4, <2>2 DEF Asked, IndicatorRead, Read
  <2>3. \/ <<c, Indicators[i]>> \in World.silent
        \/ Known(c, i)
        \/ IndicatorRead(c, i) \in ToSet(at[a].reads)
    BY <2>1 DEF AttemptOK, Asked
  <2>4. CASE Current(a) = IndicatorRead(c, i)
    BY <2>4
  <2>5. CASE Current(a) # IndicatorRead(c, i)
    <3>1. Known(c, i) => Known(c, i)'
      BY FoundStays
    <3> QED
      BY <1>3, <2>3, <2>5, <3>1
  <2> QED
    BY <2>4, <2>5
<1>11. Superseding(a)' /\ Nearest(a)'
  BY <1>2, <1>5 DEF Superseding, Nearest
<1> QED
  BY <1>7, <1>8, <1>9, <1>10, <1>11 DEF AttemptOK

\* One thing of the body is stored; the next is, or the next read.
LEMMA OnwardIsOK ==
  ASSUME JobRows, PathRows, Grown, NEW a, AttemptOK(a), at[a].pc \in {"store", "path"},
         Current(a).stores \in {"articles", "indicators", "paths", "tiers", "joint"},
         at'[a] = Onward(a),
          at[a].pc = "store" => Current(a).stores \in {"articles", "indicators"},
         at[a].pc = "path" =>
            LET m == at[a].body[at[a].k]
                key == <<Current(a).subject, m.entity, PathKind(a)>>
            IN  /\ m.depth \in Nat /\ key \in DOMAIN paths'
                /\ paths'[key].depth <= m.depth,
         \A country : \A i \in DOMAIN Indicators :
            Current(a) = IndicatorRead(country, i) =>
                <<country, Indicators[i]>> \in World.silent \/ Known(country, i)'
  PROVE  AttemptOK(a)'
<1>0. world' = world /\ Running(a) /\ at[a].reads # <<>>
  BY DEF Grown, Running, AttemptOK, Reading
<1>1. CASE ~(at[a].k < Len(at[a].body))
  BY <1>0, <1>1, AfterIsOK DEF Onward
<1>2. CASE at[a].k < Len(at[a].body)
  <2>1. at'[a] = [at[a] EXCEPT !.k = at[a].k + 1]
    BY <1>2 DEF Onward
  <2>2. DOMAIN at[a] = Fields /\ at[a].k \in Nat \ {0}
    BY DEF AttemptOK, Shaped
  <2>3. /\ DOMAIN at'[a] = Fields /\ at'[a].job = at[a].job /\ at'[a].pc = at[a].pc
        /\ at'[a].reads = at[a].reads /\ at'[a].body = at[a].body
        /\ at'[a].k = at[a].k + 1 /\ at'[a].gen = at[a].gen
        /\ at'[a].walk = at[a].walk /\ at'[a].input = at[a].input
        /\ at'[a].previous = at[a].previous
    BY <2>1, <2>2 DEF Fields
  <2>4. /\ at[a].job \in Jobs /\ Walking(a)' /\ Scoring(a)' /\ Asked(a)'
        /\ (/\ at[a].job \in Jobs /\ IsList(at[a].reads)
            /\ ToSet(at[a].reads) \subseteq ToSet(Reads(at[a].job)))'
    BY <1>0, <2>3, OwnKeep
  <2>5. /\ Current(a)' = Current(a) /\ PathKind(a)' = PathKind(a) /\ Body(a)' = Body(a)
    BY <1>0, <2>3, SameBody
  <2>6. Row(a)' = Row(a)
    BY <2>3, <2>5 DEF Row
  <2>7. Jobs' = Jobs
    BY <1>0, SameWorld
  <2>8. Shaped(a)'
    BY <2>2, <2>3, <2>4, <2>7 DEF AttemptOK, Shaped
  <2>9. BodyOf(a)
    BY <1>0, CurrentIs
  <2>10. Reading(a)'
    <3>1. at[a].body = Body(a) /\ Row(a) \in DOMAIN calls'
      BY DEF AttemptOK, Reading, Grown
    <3>2. at[a].k + 1 <= Len(at[a].body)
      BY <1>2, <2>2, <2>9, <3>1 DEF BodyOf
    <3>3. at[a].pc = "path" => \A i \in DOMAIN at[a].body :
              ToSet(Chain(at[a].body[i].hops)) \subseteq DOMAIN edges'
      BY DEF AttemptOK, Reading, Grown
    <3>4. at[a].pc = "path" => Current(a).stores \in {"paths", "tiers", "joint"}
      BY DEF AttemptOK, Reading
    <3> QED
      BY <1>0, <2>3, <2>4, <2>5, <2>6, <3>1, <3>2, <3>3, <3>4 DEF Reading
  <2>11. Nearest(a)'
    <3> SUFFICES ASSUME at[a].pc = "path", NEW i \in 1..at[a].k
                 PROVE  Holds(a, PathKind(a), at[a].body[i])'
      BY <2>2, <2>3 DEF Nearest
    <3>1. CASE i = at[a].k
      <4>1. PICK m : m = at[a].body[i]
        OBVIOUS
      <4>2. PICK key : key = <<Current(a).subject, m.entity, PathKind(a)>>
        OBVIOUS
      <4>3. m.depth \in Nat /\ key \in DOMAIN paths' /\ paths'[key].depth <= m.depth
        BY <3>1, <4>1, <4>2
      <4> QED
        BY <2>3, <2>5, <4>1, <4>2, <4>3 DEF Holds
    <3>2. CASE i # at[a].k
      <4>1. Holds(a, PathKind(a), at[a].body[i])
        BY <2>2, <3>2 DEF AttemptOK, Nearest
      <4>2. PICK m : m = at[a].body[i]
        OBVIOUS
      <4>3. PICK key : key = <<Current(a).subject, m.entity, PathKind(a)>>
        OBVIOUS
      <4>4. m.depth \in Nat /\ key \in DOMAIN paths /\ paths[key].depth <= m.depth
        BY <4>1, <4>2, <4>3 DEF Holds
      <4>5. /\ key \in DOMAIN paths' /\ paths[key].depth \in Nat
            /\ paths'[key].depth \in Nat /\ paths'[key].depth <= paths[key].depth
        BY <4>4 DEF Grown, PathRows
      <4>6. paths'[key].depth <= m.depth
        BY <4>4, <4>5
      <4> QED
        BY <2>3, <2>5, <4>2, <4>3, <4>4, <4>5, <4>6 DEF Holds
    <3> QED
      BY <3>1, <3>2
  <2>12. Superseding(a)'
    BY <2>3 DEF Superseding
  <2> QED
    BY <2>4, <2>8, <2>10, <2>11, <2>12 DEF AttemptOK
<1> QED
  BY <1>1, <1>2

-----------------------------------------------------------------------------
(* The steps that write no row of a company.                               *)

LEMMA FinishIsOK ==
  ASSUME EnrichInv, NEW a \in Attempts, Running(a), UNCHANGED <<world, rows>>,
         NEW state \in {"failed", "done"}, Finish(a, state)
  PROVE  EnrichInv' /\ RiskStands
<1>1. at[a].job \in Jobs /\ Tables
  BY DEF EnrichInv, AttemptOK, Reading
<1>2. PICK j \in Jobs : j = at[a].job
  BY <1>1
<1>3. JobRows'
  <2>1. /\ jobs' = [jobs EXCEPT ![j] = state] /\ calls' = calls
        /\ state \in {"queued", "running", "failed", "done"} /\ JobRows
    BY <1>1, <1>2 DEF Finish, rows, Tables
  <2> QED
    BY <2>1, JobSet
<1>4. Tables' /\ Grown /\ RiskStands
  BY <1>1, <1>3, RowsStay
<1>5. at'[a] = Over => AttemptOK(a)'
  BY OverIsOK
<1> QED
  BY <1>4, <1>5, OneSteps DEF Finish

LEMMA StopIsOK ==
  ASSUME EnrichInv, NEW a \in Attempts, Stop(a)
  PROVE  EnrichInv' /\ RiskStands
  BY FinishIsOK DEF Stop, Running

LEMMA ThrowsIsOK ==
  ASSUME EnrichInv, NEW a \in Attempts, Throws(a)
  PROVE  EnrichInv' /\ RiskStands
  BY FinishIsOK DEF Throws, Running

LEMMA EndIsOK ==
  ASSUME EnrichInv, NEW a \in Attempts, End(a)
  PROVE  EnrichInv' /\ RiskStands
<1>1. PICK state \in {"failed", "done"} : Finish(a, state)
  BY DEF End
<1> QED
  BY <1>1, FinishIsOK DEF End, Running

LEMMA RequeueIsOK ==
  ASSUME EnrichInv, NEW j \in Jobs, Requeue(j)
  PROVE  EnrichInv' /\ RiskStands
<1>1. JobRows'
  <2>1. /\ JobRows /\ world' = world /\ calls' = calls
        /\ jobs' = [jobs EXCEPT ![j] = "queued"]
    BY DEF Requeue, rows, EnrichInv, Tables
  <2> QED
    BY <2>1, JobSet
<1>2. Tables' /\ Grown /\ RiskStands
  BY <1>1, RowsStay DEF Requeue, EnrichInv
<1>3. \A b \in Attempts : AttemptOK(b)'
  <2> TAKE b \in Attempts
  <2>1. at'[b] = at[b] /\ AttemptOK(b) /\ PathRows
    BY DEF Requeue, EnrichInv, Tables
  <2> QED
    BY <1>2, <2>1, OthersKeep
<1> QED
  BY <1>2, <1>3 DEF Requeue, EnrichInv

\* A Job that is claimed has all of its reads before it.
LEMMA ClaimIsOK ==
  ASSUME EnrichInv, NEW a \in Attempts, NEW j \in Jobs, Claim(a, j)
  PROVE  EnrichInv' /\ RiskStands
<1> DEFINE pc == IF Kind(j) = "enrich" /\ Profile(j) = None THEN "find"
                 ELSE IF Reads(j) = <<>> THEN "end"
                 ELSE IF Kind(j) = "traverse" THEN "page" ELSE "count"
<1>1. world' = world /\ UNCHANGED <<world, rows>> /\ JobRows
  BY DEF Claim, EnrichInv, Tables
<1>2. JobRows'
  <2>1. calls' = calls /\ jobs' = [jobs EXCEPT ![j] = "running"]
    BY DEF Claim, rows
  <2> QED
    BY <1>1, <2>1, JobSet
<1>3. Tables' /\ Grown /\ RiskStands
  BY <1>1, <1>2, RowsStay DEF EnrichInv
<1>4. /\ j # None /\ IsList(Reads(j)) /\ \A r \in ToSet(Reads(j)) : ReadOf(j, r)
      /\ Kind(j) = "enrich" /\ Profile(j) # None /\ Profile(j).country # None =>
                \A i \in DOMAIN Indicators :
                    IndicatorRead(Profile(j).country, i) \in ToSet(Reads(j))
  BY <1>1, OfTheWorld, ReadsOfJob DEF JobRows
<1>5. PICK reads : reads = Reads(j)
  OBVIOUS
<1>6. PICK p : p = pc
  OBVIOUS
<1>7. Step(a, [Idle EXCEPT !.job = j, !.reads = reads, !.pc = p])
  <2>1. Step(a, [Idle EXCEPT !.job = j, !.reads = Reads(j),
                             !.pc = IF Kind(j) = "enrich" /\ Profile(j) = None THEN "find"
                       ELSE IF Reads(j) = <<>> THEN "end"
                       ELSE IF Kind(j) = "traverse" THEN "page" ELSE "count"])
    BY DEF Claim
  <2> QED
    BY <1>5, <1>6, <2>1
<1>8. /\ p \in {"find", "end", "page", "count"}
      /\ p \in {"page", "count"} => reads # <<>>
      /\ p = "page" => Kind(j) = "traverse"
  BY <1>5, <1>6
<1> HIDE DEF pc
<1>9. ASSUME at'[a] = [Idle EXCEPT !.job = j, !.reads = reads, !.pc = p]
      PROVE  AttemptOK(a)'
  <2>1. /\ DOMAIN at'[a] = Fields /\ at'[a].job = j /\ at'[a].reads = reads
        /\ at'[a].pc = p /\ at'[a].k = 1 /\ at'[a].gen = 0 /\ at'[a].walk = NoWalk
        /\ at'[a].input = None
    BY <1>9, AtRest DEF Fields
  <2>2. /\ World' = World /\ Jobs' = Jobs
        /\ \A i : Kind(i)' = Kind(i) /\ Profile(i)' = Profile(i)
        /\ \A i : Reads(i)' = Reads(i)
    BY <1>1, SameWorld
  <2>3. Shaped(a)'
    BY <2>1, <2>2, FreshWalk DEF Shaped
  <2>4. Walking(a)'
    BY <2>1, FreshWalk DEF Walking
  <2>5. Reading(a)'
    <3>1. p = "page" => Current(a)'.stores = "walk"
      <4> SUFFICES ASSUME p = "page"
                   PROVE  Head(reads).stores = "walk"
        BY <2>1 DEF Current
      <4>1. reads # <<>> /\ reads \in Seq(ToSet(reads))
        BY <1>4, <1>5, <1>8 DEF IsList
      <4>2. Head(reads) \in ToSet(reads)
        BY <4>1, Rest
      <4> QED
        BY <1>4, <1>5, <1>8, <4>2 DEF ReadOf
    <3>2. (/\ at[a].job \in Jobs /\ IsList(at[a].reads)
           /\ ToSet(at[a].reads) \subseteq ToSet(Reads(at[a].job)))'
      BY <1>4, <1>5, <2>1, <2>2
    <3> QED
      BY <1>8, <2>1, <3>1, <3>2 DEF Reading
  <2>6. Asked(a)'
    <3>1. (Kind(at[a].job) = Kind(j) /\ Profile(at[a].job) = Profile(j))'
      BY <2>1
    <3> QED
      BY <1>4, <1>5, <2>1, <2>2, <3>1 DEF Asked, IndicatorRead, Read
  <2>7. Scoring(a)' /\ Superseding(a)' /\ Nearest(a)'
    BY <1>8, <2>1 DEF Scoring, Superseding, Nearest
  <2> QED
    BY <2>3, <2>4, <2>5, <2>6, <2>7 DEF AttemptOK
<1> QED
  BY <1>3, <1>7, <1>9, OneSteps

\* A step within the memory of an attempt leaves every row.
LEMMA InMemory ==
  ASSUME EnrichInv, UNCHANGED <<world, rows, jobs>>
  PROVE  Tables' /\ Grown /\ RiskStands
<1>1. JobRows /\ world' = world /\ jobs' = jobs /\ calls' = calls
  BY DEF EnrichInv, Tables, rows
<1>2. JobRows'
  BY <1>1, JobsSame DEF JobRows
<1> QED
  BY <1>1, <1>2, RowsStay DEF EnrichInv, rows

\* The body that arrives is that of the read, whatever is written beside it.
LEMMA CountIsOK ==
  ASSUME EnrichInv, NEW a \in Attempts, Count(a)
  PROVE  EnrichInv' /\ RiskStands
<1> DEFINE made == {r \in DOMAIN calls : /\ r[1] = Current(a).source
                                         /\ r[2] = Current(a).subject}
<1>1. Tables' /\ Grown /\ RiskStands /\ world' = world
  BY InMemory DEF Count
<1>2. AttemptOK(a) /\ Running(a) /\ at[a].reads # <<>> /\ at[a].pc = "count" /\ at[a].k = 1
  BY DEF EnrichInv, Count, Running, AttemptOK, Reading
<1>3. PICK body : body = Body(a)
  OBVIOUS
<1>4. PICK gen \in Nat : gen = Cardinality(made)
  <2>1. IsFiniteSet(DOMAIN calls)
    BY DEF EnrichInv, Tables, JobRows
  <2>2. made \in SUBSET DOMAIN calls
    OBVIOUS
  <2>3. IsFiniteSet(made)
    BY <2>1, <2>2, FS_Subset
  <2> QED
    BY <2>3, FS_CardinalityType
<1>5. Step(a, [at[a] EXCEPT !.pc = "insert", !.body = body, !.gen = gen])
  BY <1>3, <1>4 DEF Count
<1> HIDE DEF made
<1>6. ASSUME at'[a] = [at[a] EXCEPT !.pc = "insert", !.body = body, !.gen = gen]
      PROVE  AttemptOK(a)'
  <2>1. DOMAIN at[a] = Fields
    BY <1>2 DEF AttemptOK, Shaped
  <2>2. /\ DOMAIN at'[a] = Fields /\ at'[a].job = at[a].job /\ at'[a].pc = "insert"
        /\ at'[a].reads = at[a].reads /\ at'[a].body = body /\ at'[a].k = 1
        /\ at'[a].gen = gen /\ at'[a].walk = at[a].walk /\ at'[a].input = at[a].input
    BY <1>2, <1>6, <2>1 DEF Fields
  <2>3. /\ at[a].job \in Jobs /\ Walking(a)' /\ Scoring(a)' /\ Asked(a)'
        /\ (/\ at[a].job \in Jobs /\ IsList(at[a].reads)
            /\ ToSet(at[a].reads) \subseteq ToSet(Reads(at[a].job)))'
    BY <1>1, <1>2, <2>2, OwnKeep
  <2>4. Body(a)' = body /\ Jobs' = Jobs
    BY <1>1, <1>3, <2>2, SameBody, SameWorld
  <2>5. Shaped(a)'
    BY <1>2, <2>2, <2>3, <2>4 DEF AttemptOK, Shaped
  <2>6. Reading(a)'
    BY <1>2, <2>2, <2>3, <2>4 DEF Reading
  <2>7. Superseding(a)' /\ Nearest(a)'
    BY <2>2 DEF Superseding, Nearest
  <2> QED
    BY <2>3, <2>5, <2>6, <2>7 DEF AttemptOK
<1> QED
  BY <1>1, <1>5, <1>6, OneSteps

LEMMA TurnedKeeps ==
  ASSUME NEW r, DOMAIN r = Fields, DOMAIN r.walk = WalkFields
  PROVE  Turned(r).walk.pages = r.walk.pages /\ Turned(r).job = r.job
<1>1. CASE r.walk.dir = "downward"
  <2>1. PICK w : w = [r.walk EXCEPT !.dir = "upward", !.offset = 0]
    OBVIOUS
  <2>2. Turned(r) = [r EXCEPT !.pc = "page", !.walk = w]
    BY <1>1, <2>1 DEF Turned
  <2> QED
    BY <2>1, <2>2 DEF Fields, WalkFields
<1>2. CASE r.walk.dir # "downward"
  <2>1. PICK pc : Turned(r) = [r EXCEPT !.pc = pc, !.k = 1]
    BY <1>2 DEF Turned
  <2> QED
    BY <2>1 DEF Fields
<1> QED
  BY <1>1, <1>2

\* A walk that turns, or is over, asks for no body; what it wrote is nothing yet.
LEMMA TurnedIsOK ==
  ASSUME Grown, NEW a, AttemptOK(a), Running(a), at[a].reads # <<>>,
         Current(a).stores = "walk", at[a].k = 1,
         NEW r, DOMAIN r = Fields, DOMAIN r.walk = WalkFields, r.job = at[a].job,
         r.reads = at[a].reads, r.k = 1, r.gen = at[a].gen, r.input = at[a].input,
         r.walk.dir = at[a].walk.dir, r.walk.offset = at[a].walk.offset,
         r.walk.left = at[a].walk.left, IsFiniteSet(r.walk.found),
         IsList(r.walk.pages), (at'[a] = Turned(r) => Walking(a)'), at'[a] = Turned(r)
  PROVE  AttemptOK(a)'
<1> DEFINE pc == IF r.walk.dir = "downward" THEN "page"
                 ELSE IF r.walk.pages = <<>> THEN "end" ELSE "save"
           dir == "upward"
           offset == IF r.walk.dir = "downward" THEN 0 ELSE r.walk.offset
<1>0. world' = world
  BY DEF Grown
<1>1. r.walk.dir \in Directions
  BY DEF AttemptOK, Shaped
<1>2. /\ DOMAIN at'[a] = Fields /\ DOMAIN at'[a].walk = WalkFields
      /\ at'[a].job = at[a].job /\ at'[a].pc = pc /\ at'[a].reads = at[a].reads
      /\ at'[a].k = 1 /\ at'[a].gen = at[a].gen /\ at'[a].input = at[a].input
      /\ at'[a].walk.dir = dir /\ at'[a].walk.offset = offset
      /\ at'[a].walk.left = at[a].walk.left /\ at'[a].walk.found = r.walk.found
      /\ at'[a].walk.pages = r.walk.pages
  <2>1. CASE r.walk.dir = "downward"
    <3>0. PICK w : w = [r.walk EXCEPT !.dir = "upward", !.offset = 0]
      OBVIOUS
    <3>1. PICK t : t = [r EXCEPT !.pc = "page", !.walk = w]
      OBVIOUS
    <3>2. at'[a] = t
      BY <2>1, <3>0, <3>1 DEF Turned
    <3>3. /\ DOMAIN w = WalkFields /\ w.dir = "upward" /\ w.offset = 0
          /\ w.left = r.walk.left /\ w.found = r.walk.found /\ w.pages = r.walk.pages
      BY <3>0 DEF WalkFields
    <3>4. /\ DOMAIN t = Fields /\ t.walk = w /\ t.job = r.job /\ t.pc = "page"
          /\ t.reads = r.reads /\ t.k = r.k /\ t.gen = r.gen /\ t.input = r.input
      BY <3>1 DEF Fields
    <3> QED
      BY <2>1, <3>2, <3>3, <3>4
  <2>2. CASE r.walk.dir # "downward"
    <3>1. at'[a] = [r EXCEPT !.pc = IF r.walk.pages = <<>> THEN "end" ELSE "save", !.k = 1]
      BY <2>2 DEF Turned
    <3>2. PICK p : p = IF r.walk.pages = <<>> THEN "end" ELSE "save"
      OBVIOUS
    <3>3. at'[a] = [r EXCEPT !.pc = p, !.k = 1]
      BY <3>1, <3>2
    <3>4. r.walk.dir = "upward"
      BY <1>1, <2>2 DEF Directions
    <3> QED
      BY <2>2, <3>2, <3>3, <3>4 DEF Fields, WalkFields
  <2> QED
    BY <2>1, <2>2
<1>3. pc \in {"page", "end", "save"} /\ (pc = "save" => r.walk.pages # <<>>)
  OBVIOUS
<1>4. offset \in Nat /\ dir \in Directions
  BY DEF AttemptOK, Shaped, Directions
<1> HIDE DEF pc, dir, offset
<1>5. /\ World' = World /\ Jobs' = Jobs
      /\ \A j : Kind(j)' = Kind(j) /\ Profile(j)' = Profile(j)
      /\ \A j : Reads(j)' = Reads(j)
  BY <1>0, SameWorld
<1>6. /\ at[a].job \in Jobs /\ IsList(at[a].reads)
      /\ ToSet(at[a].reads) \subseteq ToSet(Reads(at[a].job))
  BY DEF AttemptOK, Reading
<1>7. Shaped(a)'
  BY <1>2, <1>4, <1>5, <1>6 DEF AttemptOK, Shaped
<1>8. Reading(a)'
  <2>1. Current(a)' = Current(a)
    BY <1>2 DEF Current
  <2>2. pc = "save" => 1 <= Len(r.walk.pages)
    BY <1>3 DEF IsList
  <2> QED
    BY <1>2, <1>3, <1>5, <1>6, <2>1, <2>2 DEF Reading
<1>9. Asked(a)' /\ Scoring(a)'
  BY <1>2, <1>5, FoundStays DEF AttemptOK, Asked, Scoring
<1>10. Superseding(a)' /\ Nearest(a)'
  BY <1>2, <1>3 DEF Superseding, Nearest
<1> QED
  BY <1>2, <1>7, <1>8, <1>9, <1>10 DEF AttemptOK

LEMMA PageIsOK ==
  ASSUME EnrichInv, NEW a \in Attempts, Page(a)
  PROVE  EnrichInv' /\ RiskStands
<1>1. Tables' /\ Grown /\ RiskStands
  BY InMemory DEF Page
<1>2. /\ AttemptOK(a) /\ Running(a) /\ at[a].reads # <<>> /\ at[a].pc = "page"
      /\ at[a].k = 1 /\ Current(a).stores = "walk"
  BY DEF EnrichInv, Page, Running, AttemptOK, Reading
<1>3. /\ DOMAIN at[a] = Fields /\ DOMAIN at[a].walk = WalkFields
      /\ IsFiniteSet(at[a].walk.found) /\ IsList(at[a].walk.pages)
      /\ at[a].walk.left \in 0..CallBudget /\ CallBudget \in Nat
  BY <1>2, EnrichBounds DEF AttemptOK, Shaped
<1>4. CASE StoppedBy(at[a].walk) # "no"
  <2>1. Step(a, Turned(at[a]))
    BY <1>4 DEF Page
  <2>2. ASSUME at'[a] = Turned(at[a])
        PROVE  AttemptOK(a)'
    <3>1. at'[a].walk.pages = at[a].walk.pages /\ at'[a].job = at[a].job
      BY <1>3, <2>2, TurnedKeeps
    <3>2. Walking(a)'
      <4>1. /\ World' = World /\ \A root, kind : Routes(root, kind)' = Routes(root, kind)
            /\ \A j : Profile(j)' = Profile(j)
        BY <1>1, SameWorld DEF Grown
      <4> QED
        BY <1>1, <1>2, <3>1, <4>1 DEF AttemptOK, Walking, PageOf, Grown
    <3> QED
      BY <1>1, <1>2, <1>3, <2>2, <3>2, TurnedIsOK
  <2> QED
    BY <1>1, <2>1, <2>2, OneSteps
<1>5. CASE StoppedBy(at[a].walk) = "no"
  <2>1. at[a].walk.left # 0
    BY <1>5 DEF StoppedBy
  <2>2. PICK left : left = at[a].walk.left - 1
    OBVIOUS
  <2>3. left \in 0..CallBudget
    BY <1>3, <2>1, <2>2
  <2>4. Step(a, [at[a] EXCEPT !.pc = "count", !.walk.left = left])
    BY <1>5, <2>2 DEF Page
  <2>5. ASSUME at'[a] = [at[a] EXCEPT !.pc = "count", !.walk.left = left]
        PROVE  AttemptOK(a)'
    <3>1. /\ DOMAIN at'[a] = Fields /\ DOMAIN at'[a].walk = WalkFields
          /\ at'[a].job = at[a].job /\ at'[a].pc = "count" /\ at'[a].reads = at[a].reads
          /\ at'[a].k = 1 /\ at'[a].gen = at[a].gen /\ at'[a].input = at[a].input
          /\ at'[a].walk.dir = at[a].walk.dir
          /\ at'[a].walk.offset = at[a].walk.offset
          /\ at'[a].walk.left = left /\ at'[a].walk.found = at[a].walk.found
          /\ at'[a].walk.pages = at[a].walk.pages
      BY <1>2, <1>3, <2>5 DEF Fields, WalkFields
    <3>2. /\ at[a].job \in Jobs /\ Walking(a)' /\ Scoring(a)' /\ Asked(a)'
          /\ (/\ at[a].job \in Jobs /\ IsList(at[a].reads)
              /\ ToSet(at[a].reads) \subseteq ToSet(Reads(at[a].job)))'
      BY <1>1, <1>2, <3>1, OwnKeep
    <3>3. Jobs' = Jobs
      BY <1>1, SameWorld DEF Grown
    <3>4. Shaped(a)'
      BY <1>2, <1>3, <2>3, <3>1, <3>2, <3>3 DEF AttemptOK, Shaped
    <3>5. Reading(a)'
      BY <1>2, <3>1, <3>2 DEF Reading
    <3>6. Superseding(a)' /\ Nearest(a)'
      BY <3>1 DEF Superseding, Nearest
    <3> QED
      BY <3>2, <3>4, <3>5, <3>6 DEF AttemptOK
  <2> QED
    BY <1>1, <2>4, <2>5, OneSteps
<1> QED
  BY <1>4, <1>5

\* What an attempt holds when it is past its reads: the step it takes leaves the
\* reads, the body and the walk alone.
LEMMA PastReading ==
  ASSUME Grown, NEW a, AttemptOK(a), Running(a), DOMAIN at'[a] = Fields,
         at'[a].job = at[a].job, at'[a].reads = at[a].reads,
         at'[a].walk = at[a].walk, at'[a].k \in Nat \ {0}, at'[a].gen \in Nat,
         at'[a].pc \in {"score", "find", "tally", "write", "supersede", "end"},
         at'[a].pc # "score"
  PROVE  Shaped(a)' /\ Reading(a)' /\ Walking(a)' /\ Asked(a)' /\ Nearest(a)'
<1>0. world' = world
  BY DEF Grown
<1>1. /\ World' = World /\ Jobs' = Jobs
      /\ \A j : Kind(j)' = Kind(j) /\ Profile(j)' = Profile(j)
      /\ \A root, kind : Routes(root, kind)' = Routes(root, kind)
      /\ \A j : Reads(j)' = Reads(j)
  BY <1>0, SameWorld
<1>2. /\ at[a].job \in Jobs /\ IsList(at[a].reads)
      /\ ToSet(at[a].reads) \subseteq ToSet(Reads(at[a].job))
  BY DEF AttemptOK, Reading
<1>3. Shaped(a)'
  BY <1>1, <1>2 DEF AttemptOK, Shaped
<1>4. Walking(a)'
  BY <1>1 DEF AttemptOK, Walking, PageOf, Grown
<1>5. Asked(a)'
  BY <1>1, FoundStays DEF AttemptOK, Asked
<1>6. Reading(a)'
  BY <1>1, <1>2 DEF Reading
<1>7. Nearest(a)'
  BY DEF Nearest
<1> QED
  BY <1>3, <1>4, <1>5, <1>6, <1>7

\* What a Supplier is scored on is every indicator there is a value of: each is
\* stored by now, and what has no value never is.
LEMMA ScoreIsOK ==
  ASSUME EnrichInv, NEW a \in Attempts, Score(a)
  PROVE  EnrichInv' /\ RiskStands
<1>1. Tables' /\ Grown /\ RiskStands /\ world' = world
  BY InMemory DEF Score
<1>2. /\ AttemptOK(a) /\ Running(a) /\ at[a].pc = "score" /\ Tables
      /\ Kind(at[a].job) = "enrich" /\ Profile(at[a].job) # None /\ at[a].reads = <<>>
  BY DEF EnrichInv, Score, Running, AttemptOK, Reading
<1>3. PICK p : p = Profile(at[a].job)
  OBVIOUS
<1> DEFINE codes == IF p.country = None THEN {} ELSE LatestCountryIndicators(p.country)
<1>4. p.country # None => codes = {i \in ToSet(Indicators) :
                                      <<p.country, i>> \notin World.silent}
  <2> SUFFICES ASSUME p.country # None
               PROVE  LatestCountryIndicators(p.country) =
                        {i \in ToSet(Indicators) : <<p.country, i>> \notin World.silent}
    OBVIOUS
  <2>1. \A c \in ToSet(Indicators) : <<p.country, c>> \notin World.silent =>
            \E n \in items : n[1] = "indicator" /\ n[2][2] = <<p.country, c>>
    <3> SUFFICES ASSUME NEW i \in DOMAIN Indicators,
                        <<p.country, Indicators[i]>> \notin World.silent
                 PROVE  Known(p.country, i)
      BY DEF Known, ToSet
    <3>1. IndicatorRead(p.country, i) \notin ToSet(at[a].reads)
      BY <1>2, NoList
    <3> QED
      BY <1>2, <1>3, <3>1 DEF AttemptOK, Asked
  <2>2. \A n \in items : n[1] = "indicator" => n[2][2] \notin World.silent
    BY <1>2 DEF Tables, ItemRows
  <2> QED
    BY <2>1, <2>2 DEF LatestCountryIndicators
<1>5. PICK input : /\ Step(a, [at[a] EXCEPT !.pc = "find", !.input = input])
                   /\ input.codes = codes
  <2> DEFINE in == [news |-> Cardinality(LatestNewsItems(p.entity)),
                    codes |-> codes,
                    network |-> {k \in DOMAIN paths : /\ k[1] = p.entity
                        /\ k[3] \in {"family", "watchlist"}}]
  <2>1. Step(a, [at[a] EXCEPT !.pc = "find", !.input = in])
    BY <1>3 DEF Score
  <2>2. in.codes = codes
    OBVIOUS
  <2> HIDE DEF in, codes
  <2> QED
    BY <2>1, <2>2
<1> HIDE DEF codes
<1>6. ASSUME at'[a] = [at[a] EXCEPT !.pc = "find", !.input = input]
      PROVE  AttemptOK(a)'
  <2>1. DOMAIN at[a] = Fields /\ at[a].k \in Nat \ {0} /\ at[a].gen \in Nat
    BY <1>2 DEF AttemptOK, Shaped
  <2>2. /\ DOMAIN at'[a] = Fields /\ at'[a].job = at[a].job /\ at'[a].pc = "find"
        /\ at'[a].reads = at[a].reads /\ at'[a].k = at[a].k /\ at'[a].gen = at[a].gen
        /\ at'[a].walk = at[a].walk /\ at'[a].input = input
    BY <1>6, <2>1 DEF Fields
  <2>3. Shaped(a)' /\ Reading(a)' /\ Walking(a)' /\ Asked(a)' /\ Nearest(a)'
    BY <1>1, <1>2, <2>1, <2>2, PastReading
  <2>4. Scoring(a)'
    <3>1. World' = World /\ \A j : Profile(j)' = Profile(j)
      BY <1>1, SameWorld
    <3>2. (Profile(at[a].job) = p)'
      BY <1>3, <2>2, <3>1
    <3> QED
      BY <1>4, <1>5, <2>2, <3>1, <3>2 DEF Scoring
  <2>5. Superseding(a)'
    BY <2>2 DEF Superseding
  <2> QED
    BY <2>3, <2>4, <2>5 DEF AttemptOK
<1> QED
  BY <1>1, <1>5, <1>6, OneSteps

\* What is current when an attempt looks is a value it may supersede.
LEMMA FindIsOK ==
  ASSUME EnrichInv, NEW a \in Attempts, Find(a)
  PROVE  EnrichInv' /\ RiskStands
<1>1. Tables' /\ Grown /\ RiskStands /\ world' = world /\ values' = values
  BY InMemory DEF Find, rows
<1>2. AttemptOK(a) /\ Running(a) /\ at[a].pc = "find"
  BY DEF EnrichInv, Find, Running
<1>3. PICK s : s = Supplier(a)
  OBVIOUS
<1>4. PICK key : key = Criteria[at[a].k]
  OBVIOUS
<1>5. PICK n : /\ Step(a, [at[a] EXCEPT !.pc = "tally", !.previous = n])
               /\ n # None => Numbered(s, key, n)
  BY <1>3, <1>4 DEF Find, Numbered
<1>6. ASSUME at'[a] = [at[a] EXCEPT !.pc = "tally", !.previous = n]
      PROVE  AttemptOK(a)'
  <2>1. DOMAIN at[a] = Fields /\ at[a].k \in Nat \ {0} /\ at[a].gen \in Nat
    BY <1>2 DEF AttemptOK, Shaped
  <2>2. /\ DOMAIN at'[a] = Fields /\ at'[a].job = at[a].job /\ at'[a].pc = "tally"
        /\ at'[a].reads = at[a].reads /\ at'[a].k = at[a].k /\ at'[a].gen = at[a].gen
        /\ at'[a].walk = at[a].walk /\ at'[a].input = at[a].input
        /\ at'[a].previous = n
    BY <1>6, <2>1 DEF Fields
  <2>3. Shaped(a)' /\ Reading(a)' /\ Walking(a)' /\ Asked(a)' /\ Nearest(a)'
    BY <1>1, <1>2, <2>1, <2>2, PastReading
  <2>4. Scoring(a)'
    BY <1>1, <1>2, <2>2, OwnKeep
  <2>5. Superseding(a)'
    <3>1. World' = World
      BY <1>1, SameWorld
    <3>2. Supplier(a)' = s /\ Criteria[at[a].k]' = key
      BY <1>3, <1>4, <2>2, <3>1 DEF Supplier
    <3>3. n # None => Numbered(s, key, n)'
      BY <1>1, <1>5 DEF Numbered, Values
    <3> QED
      BY <2>2, <3>2, <3>3 DEF Superseding
  <2> QED
    BY <2>3, <2>4, <2>5 DEF AttemptOK
<1> QED
  BY <1>1, <1>5, <1>6, OneSteps

\* The generation that is counted follows every value there is.
LEMMA TallyIsOK ==
  ASSUME EnrichInv, NEW a \in Attempts, Tally(a)
  PROVE  EnrichInv' /\ RiskStands
<1>1. Tables' /\ Grown /\ RiskStands /\ world' = world /\ values' = values
  BY InMemory DEF Tally, rows
<1>2. AttemptOK(a) /\ Running(a) /\ at[a].pc = "tally" /\ ValueRows
  BY DEF EnrichInv, Tables, Tally, Running
<1>3. PICK s : s = Supplier(a)
  OBVIOUS
<1>4. PICK key : key = Criteria[at[a].k]
  OBVIOUS
<1>5. PICK gen : gen = Cardinality(Values(s, key))
  OBVIOUS
<1>6. /\ gen \in Nat /\ \A n \in 0..(gen - 1) : Numbered(s, key, n)
      /\ \A v \in Values(s, key) : v.n \in 0..(gen - 1)
  BY <1>2, <1>5, CountIsNext
<1>7. at[a].previous # None => at[a].previous \in 0..(gen - 1)
  <2>1. at[a].previous # None => Numbered(s, key, at[a].previous)
    BY <1>2, <1>3, <1>4 DEF AttemptOK, Superseding
  <2> QED
    BY <1>6, <2>1 DEF Numbered
<1>8. Step(a, [at[a] EXCEPT !.pc = "write", !.gen = gen])
  BY <1>3, <1>4, <1>5 DEF Tally
<1>9. ASSUME at'[a] = [at[a] EXCEPT !.pc = "write", !.gen = gen]
      PROVE  AttemptOK(a)'
  <2>1. DOMAIN at[a] = Fields /\ at[a].k \in Nat \ {0}
    BY <1>2 DEF AttemptOK, Shaped
  <2>2. /\ DOMAIN at'[a] = Fields /\ at'[a].job = at[a].job /\ at'[a].pc = "write"
        /\ at'[a].reads = at[a].reads /\ at'[a].k = at[a].k /\ at'[a].gen = gen
        /\ at'[a].walk = at[a].walk /\ at'[a].input = at[a].input
        /\ at'[a].previous = at[a].previous
    BY <1>9, <2>1 DEF Fields
  <2>3. Shaped(a)' /\ Reading(a)' /\ Walking(a)' /\ Asked(a)' /\ Nearest(a)'
    BY <1>1, <1>2, <1>6, <2>1, <2>2, PastReading
  <2>4. Scoring(a)'
    BY <1>1, <1>2, <2>2, OwnKeep
  <2>5. Superseding(a)'
    <3>1. World' = World
      BY <1>1, SameWorld
    <3>2. Supplier(a)' = s /\ Criteria[at[a].k]' = key
      BY <1>3, <1>4, <2>2, <3>1 DEF Supplier
    <3>3. \A n \in 0..(gen - 1) : Numbered(s, key, n)'
      BY <1>1, <1>6 DEF Numbered, Values
    <3> QED
      BY <1>7, <2>2, <3>2, <3>3 DEF Superseding
  <2> QED
    BY <2>3, <2>4, <2>5 DEF AttemptOK
<1> QED
  BY <1>1, <1>8, <1>9, OneSteps

\* A step that writes only values.
LEMMA OnlyValues ==
  ASSUME Tables, UNCHANGED <<world, calls, items, risks, edges, paths, jobs>>, ValueRows',
         \A v \in values : \E u \in values' :
            u.supplier = v.supplier /\ u.key = v.key /\ u.n = v.n
  PROVE  Tables' /\ Grown /\ RiskStands
<1>1. JobRows'
  BY JobsSame DEF Tables, JobRows
<1>2. CompanyRows' /\ PathRows' /\ ItemRows'
  BY CompaniesStay, PathsStay, ItemsStay DEF Tables
<1>3. Grown
  BY DEF Grown, Tables, PathRows
<1>4. \A e \in DOMAIN risks : Leveled(risks[e])
  BY DEF Tables, CompanyRows
<1>5. \A e \in DOMAIN risks : NoLower(risks[e], risks[e])
  BY <1>4 DEF Leveled, NoLower
<1> QED
  BY <1>1, <1>2, <1>3, <1>5 DEF Tables, RiskStands

\* The generation written is the next, or another Job has it already.
LEMMA WriteIsOK ==
  ASSUME EnrichInv, NEW a \in Attempts, Write(a)
  PROVE  EnrichInv' /\ RiskStands
<1>1. AttemptOK(a) /\ Running(a) /\ at[a].pc = "write" /\ Tables
  BY DEF EnrichInv, Write, Running
<1>2. PICK s : s = Supplier(a)
  OBVIOUS
<1>3. PICK key : key = Criteria[at[a].k]
  OBVIOUS
<1>4. PICK gen : gen = at[a].gen
  OBVIOUS
<1>5. /\ gen \in Nat /\ \A n \in 0..(gen - 1) : Numbered(s, key, n)
      /\ at[a].previous # None => at[a].previous \in 0..(gen - 1)
  BY <1>1, <1>2, <1>3, <1>4 DEF AttemptOK, Shaped, Superseding
<1>6. CASE Numbered(s, key, gen)
  <2>1. Finish(a, "failed") /\ UNCHANGED <<world, rows>>
    BY <1>2, <1>3, <1>4, <1>6 DEF Write, Numbered, rows
  <2> QED
    BY <1>1, <2>1, FinishIsOK
<1>7. CASE ~Numbered(s, key, gen)
  <2>1. /\ values' = values \cup {[supplier |-> s, key |-> key, n |-> gen,
                                   current |-> TRUE]}
        /\ Step(a, [at[a] EXCEPT !.pc = "supersede"])
        /\ UNCHANGED <<world, calls, items, risks, edges, paths, jobs>>
    BY <1>2, <1>3, <1>4, <1>7 DEF Write, Numbered
  <2>2. ValueRows'
    <3>1. ValueRows
      BY <1>1 DEF Tables
    <3> QED
      BY <1>5, <1>7, <2>1, <3>1, ValueInserted
  <2>3. Tables' /\ Grown /\ RiskStands
    <3>1. \A v \in values : \E u \in values' :
              u.supplier = v.supplier /\ u.key = v.key /\ u.n = v.n
      BY <2>1
    <3> QED
      BY <1>1, <2>1, <2>2, <3>1, OnlyValues
  <2>4. Numbered(s, key, gen)'
    <3>1. PICK new : new = [supplier |-> s, key |-> key, n |-> gen, current |-> TRUE]
      OBVIOUS
    <3>2. new.supplier = s /\ new.key = key /\ new.n = gen
      BY <3>1
    <3>3. new \in values'
      BY <2>1, <3>1
    <3> QED
      BY <3>2, <3>3 DEF Numbered, Values
  <2>5. ASSUME at'[a] = [at[a] EXCEPT !.pc = "supersede"]
        PROVE  AttemptOK(a)'
    <3>1. DOMAIN at[a] = Fields /\ at[a].k \in Nat \ {0}
      BY <1>1 DEF AttemptOK, Shaped
    <3>2. /\ DOMAIN at'[a] = Fields /\ at'[a].job = at[a].job /\ at'[a].pc = "supersede"
          /\ at'[a].reads = at[a].reads /\ at'[a].k = at[a].k /\ at'[a].gen = gen
          /\ at'[a].walk = at[a].walk /\ at'[a].input = at[a].input
          /\ at'[a].previous = at[a].previous
      BY <1>4, <2>5, <3>1 DEF Fields
    <3>3. Shaped(a)' /\ Reading(a)' /\ Walking(a)' /\ Asked(a)' /\ Nearest(a)'
      BY <1>1, <1>5, <2>3, <3>1, <3>2, PastReading
    <3>4. Scoring(a)'
      BY <1>1, <2>3, <3>2, OwnKeep
    <3>5. Superseding(a)'
      <4>1. World' = World
        BY <2>1, SameWorld
      <4>2. Supplier(a)' = s /\ Criteria[at[a].k]' = key
        BY <1>2, <1>3, <3>2, <4>1 DEF Supplier
      <4>3. \A n \in 0..(gen - 1) : Numbered(s, key, n)'
        <5> TAKE n \in 0..(gen - 1)
        <5>1. \E u \in values' : u.supplier = s /\ u.key = key /\ u.n = n
          BY <1>5, <2>3, FoundStays
        <5> QED
          BY <5>1 DEF Numbered, Values
      <4> QED
        BY <1>5, <2>4, <3>2, <4>2, <4>3 DEF Superseding
    <3> QED
      BY <3>3, <3>4, <3>5 DEF AttemptOK
  <2> QED
    BY <2>1, <2>3, <2>5, OneSteps
<1> QED
  BY <1>6, <1>7

\* What gives way has a later value of the same Criterion beside it.
LEMMA SupersedeIsOK ==
  ASSUME EnrichInv, NEW a \in Attempts, Supersede(a)
  PROVE  EnrichInv' /\ RiskStands
<1>1. AttemptOK(a) /\ Running(a) /\ at[a].pc = "supersede" /\ Tables
  BY DEF EnrichInv, Supersede, Running
<1>2. PICK s : s = Supplier(a)
  OBVIOUS
<1>3. PICK key : key = Criteria[at[a].k]
  OBVIOUS
<1>4. PICK gen : gen = at[a].gen
  OBVIOUS
<1>5. PICK previous : previous = at[a].previous
  OBVIOUS
<1>6. /\ gen \in Nat /\ Numbered(s, key, gen)
      /\ previous # None => previous \in 0..(gen - 1)
  BY <1>1, <1>2, <1>3, <1>4, <1>5 DEF AttemptOK, Shaped, Superseding
<1>7. PICK old : old = {v \in Values(s, key) : v.n = previous}
  OBVIOUS
<1>8. /\ values' = (values \ old) \cup {[v EXCEPT !.current = FALSE] : v \in old}
      /\ UNCHANGED <<world, calls, items, risks, edges, paths, jobs>>
  <2>1. Superseded(a) = old
    BY <1>2, <1>3, <1>5, <1>7 DEF Superseded
  <2> QED
    BY <2>1 DEF Supersede
<1>9. /\ ValueRows'
      /\ \A v \in values : \E u \in values' :
            u.supplier = v.supplier /\ u.key = v.key /\ u.n = v.n
  <2>1. ValueRows
    BY <1>1 DEF Tables
  <2>2. \A u : u \in values' <=>
            \/ u \in values /\ u \notin old
            \/ \E v \in old : u = Withdrawn(v)
    BY <1>8 DEF Withdrawn
  <2>3. \A v : v \in old <=> v \in Values(s, key) /\ v.n = previous
    BY <1>7
  <2> QED
    BY <1>6, <2>1, <2>2, <2>3, ValueSuperseded
<1>10. Tables' /\ Grown /\ RiskStands
  BY <1>1, <1>8, <1>9, OnlyValues
<1>11. PICK pc \in {"find", "end"}, k \in Nat \ {0} :
          Step(a, [at[a] EXCEPT !.pc = pc, !.k = k])
  <2>1. DOMAIN at[a] = Fields /\ at[a].k \in Nat \ {0}
    BY <1>1 DEF AttemptOK, Shaped
  <2>2. CASE at[a].k < Len(Criteria)
    <3>1. Step(a, [at[a] EXCEPT !.pc = "find", !.k = at[a].k + 1])
      BY <2>2 DEF Supersede
    <3>2. at[a].k + 1 \in Nat \ {0}
      BY <2>1
    <3> QED
      BY <3>1, <3>2
  <2>3. CASE ~(at[a].k < Len(Criteria))
    <3>1. Step(a, [at[a] EXCEPT !.pc = "end"])
      BY <2>3 DEF Supersede
    <3>2. [at[a] EXCEPT !.pc = "end"] = [at[a] EXCEPT !.pc = "end", !.k = at[a].k]
      BY <2>1 DEF Fields
    <3> QED
      BY <2>1, <3>1, <3>2
  <2> QED
    BY <2>2, <2>3
<1>12. ASSUME at'[a] = [at[a] EXCEPT !.pc = pc, !.k = k]
       PROVE  AttemptOK(a)'
  <2>1. DOMAIN at[a] = Fields
    BY <1>1 DEF AttemptOK, Shaped
  <2>2. /\ DOMAIN at'[a] = Fields /\ at'[a].job = at[a].job /\ at'[a].pc = pc
        /\ at'[a].reads = at[a].reads /\ at'[a].k = k /\ at'[a].gen = gen
        /\ at'[a].walk = at[a].walk /\ at'[a].input = at[a].input
    BY <1>4, <1>12, <2>1 DEF Fields
  <2>3. Shaped(a)' /\ Reading(a)' /\ Walking(a)' /\ Asked(a)' /\ Nearest(a)'
    BY <1>1, <1>6, <1>10, <2>2, PastReading
  <2>4. Scoring(a)'
    BY <1>1, <1>10, <2>2, OwnKeep
  <2>5. Superseding(a)'
    BY <2>2 DEF Superseding
  <2> QED
    BY <2>3, <2>4, <2>5 DEF AttemptOK
<1> QED
  BY <1>10, <1>11, <1>12, OneSteps

-----------------------------------------------------------------------------
(* The steps that write what was read.                                     *)

\* The row of a call is there before anything of its body is stored.
LEMMA InsertIsOK ==
  ASSUME EnrichInv, NEW a \in Attempts, Insert(a)
  PROVE  EnrichInv' /\ RiskStands
<1>1. /\ AttemptOK(a) /\ Running(a) /\ at[a].pc = "insert" /\ Tables
      /\ at[a].reads # <<>> /\ at[a].body = Body(a) /\ at[a].k = 1
  BY DEF EnrichInv, Insert, Running, AttemptOK, Reading
<1>2. /\ UNCHANGED <<world, items, risks, edges, paths, values, jobs>>
      /\ DOMAIN calls' = DOMAIN calls \cup {Row(a)}
  BY DEF Insert
<1>3. JobRows'
  <2>1. JobRows /\ IsFiniteSet(DOMAIN calls)
    BY <1>1 DEF Tables, JobRows
  <2>2. IsFiniteSet(DOMAIN calls')
    BY <1>2, <2>1, FS_AddElement
  <2> QED
    BY <1>2, <2>1, <2>2, JobsSame
<1>4. CompanyRows' /\ PathRows' /\ ItemRows' /\ ValueRows'
  BY <1>1, <1>2, CompaniesStay, PathsStay, ItemsStay, ValuesStay DEF Tables
<1>5. Tables' /\ Grown /\ RiskStands
  <2>1. Grown
    BY <1>1, <1>2 DEF Grown, Tables, PathRows
  <2>2. \A e \in DOMAIN risks : Leveled(risks[e])
    BY <1>1 DEF Tables, CompanyRows
  <2>3. \A e \in DOMAIN risks : NoLower(risks[e], risks[e])
    BY <2>2 DEF Leveled, NoLower
  <2> QED
    BY <1>2, <1>3, <1>4, <2>1, <2>3 DEF Tables, RiskStands
<1>6. BodyOf(a) /\ ReadOf(at[a].job, Current(a)) /\ JobRows
  BY <1>1, CurrentIs DEF Tables
<1>7. CASE at[a].body = <<>> /\ Current(a).stores # "walk"
  <2>1. Step(a, After(a))
    BY <1>7 DEF Insert
  <2>2. ASSUME NEW country, NEW i \in DOMAIN Indicators,
               Current(a) = IndicatorRead(country, i)
        PROVE  <<country, Indicators[i]>> \in World.silent
    <3>1. /\ Current(a).stores = "indicators"
          /\ Current(a).subject = <<country, Indicators[i]>>
      BY <2>2 DEF IndicatorRead, Read
    <3> QED
      BY <1>1, <1>6, <1>7, <3>1 DEF BodyOf
  <2>3. ASSUME at'[a] = After(a)
        PROVE  AttemptOK(a)'
    BY <1>1, <1>5, <1>6, <2>2, <2>3, AfterIsOK
  <2> QED
    BY <1>5, <2>1, <2>3, OneSteps
<1>8. CASE ~(at[a].body = <<>> /\ Current(a).stores # "walk")
  <2>1. Step(a, [at[a] EXCEPT !.pc = "store"])
    BY <1>8 DEF Insert
  <2>2. ASSUME at'[a] = [at[a] EXCEPT !.pc = "store"]
        PROVE  AttemptOK(a)'
    <3>1. DOMAIN at[a] = Fields
      BY <1>1 DEF AttemptOK, Shaped
    <3>2. /\ DOMAIN at'[a] = Fields /\ at'[a].job = at[a].job /\ at'[a].pc = "store"
          /\ at'[a].reads = at[a].reads /\ at'[a].body = at[a].body /\ at'[a].k = 1
          /\ at'[a].gen = at[a].gen /\ at'[a].walk = at[a].walk
          /\ at'[a].input = at[a].input
      BY <1>1, <2>2, <3>1 DEF Fields
    <3>3. /\ at[a].job \in Jobs /\ Walking(a)' /\ Scoring(a)' /\ Asked(a)'
          /\ (/\ at[a].job \in Jobs /\ IsList(at[a].reads)
              /\ ToSet(at[a].reads) \subseteq ToSet(Reads(at[a].job)))'
      BY <1>1, <1>5, <3>2, OwnKeep
    <3>4. Current(a)' = Current(a) /\ Body(a)' = Body(a) /\ Jobs' = Jobs
      BY <1>2, <3>2, SameBody, SameWorld
    <3>5. Row(a)' = Row(a)
      BY <3>2, <3>4 DEF Row
    <3>6. Shaped(a)'
      BY <1>1, <3>2, <3>3, <3>4 DEF AttemptOK, Shaped
    <3>7. Current(a).stores # "walk" => 1 <= Len(at[a].body)
      <4>1. Len(at[a].body) \in Nat /\ DOMAIN at[a].body = 1..Len(at[a].body)
        BY <1>1, <1>6 DEF BodyOf
      <4>2. Current(a).stores # "walk" => Len(at[a].body) # 0
        BY <1>1, <1>6, <1>8 DEF BodyOf
      <4> QED
        BY <4>1, <4>2
    <3>8. Reading(a)'
      BY <1>1, <1>2, <3>2, <3>3, <3>4, <3>5, <3>7 DEF Reading
    <3>9. Superseding(a)' /\ Nearest(a)'
      BY <3>2 DEF Superseding, Nearest
    <3> QED
      BY <3>3, <3>6, <3>8, <3>9 DEF AttemptOK
  <2> QED
    BY <1>5, <2>1, <2>2, OneSteps
<1> QED
  BY <1>7, <1>8

\* A step that writes only items.
LEMMA OnlyItems ==
  ASSUME Tables, UNCHANGED <<world, calls, risks, edges, paths, values, jobs>>,
         ItemRows', items \subseteq items'
  PROVE  Tables' /\ Grown /\ RiskStands
<1>1. JobRows'
  BY JobsSame DEF Tables, JobRows
<1>2. CompanyRows' /\ PathRows' /\ ValueRows'
  BY CompaniesStay, PathsStay, ValuesStay DEF Tables
<1>3. Grown
  BY DEF Grown, Tables, PathRows
<1>4. \A e \in DOMAIN risks : Leveled(risks[e])
  BY DEF Tables, CompanyRows
<1>5. \A e \in DOMAIN risks : NoLower(risks[e], risks[e])
  BY <1>4 DEF Leveled, NoLower
<1> QED
  BY <1>1, <1>2, <1>3, <1>5 DEF Tables, RiskStands

\* What is stored of a body is at a place in it.
LEMMA PlaceInBody ==
  ASSUME EnrichInv, NEW a \in Attempts, at[a].pc \in {"store", "path"},
         Current(a).stores # "walk"
  PROVE  /\ AttemptOK(a) /\ Running(a) /\ Tables /\ JobRows /\ PathRows
         /\ at[a].reads # <<>> /\ Row(a) \in DOMAIN calls
         /\ ReadOf(at[a].job, Current(a)) /\ BodyOf(a) /\ at[a].body = Body(a)
         /\ at[a].k \in DOMAIN at[a].body /\ at[a].k \in 1..Len(at[a].body)
         /\ at[a].job # None
<1>1. /\ AttemptOK(a) /\ Running(a) /\ Tables /\ JobRows /\ PathRows
      /\ at[a].reads # <<>> /\ at[a].body = Body(a) /\ Row(a) \in DOMAIN calls
      /\ at[a].k \in Nat \ {0} /\ at[a].k <= Len(at[a].body)
  BY DEF EnrichInv, Tables, Running, AttemptOK, Shaped, Reading
<1>2. BodyOf(a) /\ ReadOf(at[a].job, Current(a)) /\ at[a].job # None
  BY <1>1, CurrentIs
<1>3. Len(at[a].body) \in Nat /\ DOMAIN at[a].body = 1..Len(at[a].body)
  BY <1>1, <1>2 DEF BodyOf
<1> QED
  BY <1>1, <1>2, <1>3

LEMMA StoreArticleIsOK ==
  ASSUME EnrichInv, NEW a \in Attempts, StoreArticle(a)
  PROVE  EnrichInv' /\ RiskStands
<1>1. /\ at[a].pc = "store" /\ Current(a).stores = "articles"
      /\ UNCHANGED <<world, calls, risks, edges, paths, values, jobs>>
      /\ items' = items \cup {NewsId(a, at[a].k)} /\ Step(a, Onward(a))
  BY DEF StoreArticle
<1>2. /\ AttemptOK(a) /\ Running(a) /\ Tables /\ JobRows /\ PathRows
      /\ Row(a) \in DOMAIN calls /\ BodyOf(a) /\ at[a].body = Body(a)
      /\ at[a].k \in 1..Len(at[a].body)
  BY <1>1, PlaceInBody
<1>3. PICK n : n = NewsId(a, at[a].k)
  OBVIOUS
<1>4. /\ n[1] = "news" /\ n[2] = Row(a) /\ n[3] = at[a].k
      /\ n = <<"news", n[2], n[3]>>
  BY <1>3 DEF NewsId
<1>5. Tables' /\ Grown /\ RiskStands
  <2>1. n[3] \in 1..Len(Reply("sayari_negative_news"))
    BY <1>1, <1>2, <1>4 DEF BodyOf
  <2>2. ItemRows'
    <3>1. World' = World /\ \A source : Reply(source)' = Reply(source)
      BY <1>1, SameWorld
    <3> QED
      BY <1>1, <1>2, <1>3, <1>4, <2>1, <3>1 DEF Tables, ItemRows
  <2> QED
    BY <1>1, <1>2, <2>2, OnlyItems
<1>6. ASSUME at'[a] = Onward(a)
      PROVE  AttemptOK(a)'
  <2>1. \A country : \A i \in DOMAIN Indicators : Current(a) # IndicatorRead(country, i)
    BY <1>1 DEF IndicatorRead, Read
  <2> QED
    BY <1>1, <1>2, <1>5, <1>6, <2>1, OnwardIsOK
<1> QED
  BY <1>1, <1>5, <1>6, OneSteps

LEMMA StoreIndicatorIsOK ==
  ASSUME EnrichInv, NEW a \in Attempts, StoreIndicator(a)
  PROVE  EnrichInv' /\ RiskStands
<1>1. /\ at[a].pc = "store" /\ Current(a).stores = "indicators"
      /\ UNCHANGED <<world, calls, risks, edges, paths, values, jobs>>
      /\ items' = items \cup {<<"indicator", Row(a), at[a].k, a>>}
      /\ Step(a, Onward(a))
  BY DEF StoreIndicator
<1>2. /\ AttemptOK(a) /\ Running(a) /\ Tables /\ JobRows /\ PathRows
      /\ Row(a) \in DOMAIN calls /\ BodyOf(a) /\ at[a].body = Body(a)
      /\ at[a].k \in 1..Len(at[a].body)
  BY <1>1, PlaceInBody
<1>3. PICK n : n = <<"indicator", Row(a), at[a].k, a>>
  OBVIOUS
<1>4. /\ n[1] = "indicator" /\ n[2] = Row(a) /\ n[2][2] = Current(a).subject
      /\ n \in items'
  BY <1>1, <1>3 DEF Row
<1>5. Tables' /\ Grown /\ RiskStands
  <2>1. Current(a).subject \notin World.silent
    <3>1. at[a].body # <<>>
      BY <1>2
    <3> QED
      BY <1>1, <1>2, <3>1 DEF BodyOf
  <2>2. ItemRows'
    <3>1. World' = World /\ \A source : Reply(source)' = Reply(source)
      BY <1>1, SameWorld
    <3> QED
      BY <1>1, <1>2, <1>3, <1>4, <2>1, <3>1 DEF Tables, ItemRows
  <2> QED
    BY <1>1, <1>2, <2>2, OnlyItems
<1>6. ASSUME at'[a] = Onward(a)
      PROVE  AttemptOK(a)'
  <2>1. ASSUME NEW country, NEW i \in DOMAIN Indicators,
               Current(a) = IndicatorRead(country, i)
        PROVE  Known(country, i)'
    <3>1. Current(a).subject = <<country, Indicators[i]>>
      BY <2>1 DEF IndicatorRead, Read
    <3> QED
      BY <1>4, <3>1 DEF Known
  <2> QED
    BY <1>1, <1>2, <1>5, <1>6, <2>1, OnwardIsOK
<1> QED
  BY <1>1, <1>5, <1>6, OneSteps

\* A step that writes companies and edges.
LEMMA OnlyCompanies ==
  ASSUME Tables, UNCHANGED <<world, calls, items, paths, values, jobs>>,
         CompanyRows', DOMAIN risks \subseteq DOMAIN risks',
         DOMAIN edges \subseteq DOMAIN edges'
  PROVE  Tables' /\ Grown
<1>1. JobRows'
  BY JobsSame DEF Tables, JobRows
<1>2. PathRows' /\ ItemRows' /\ ValueRows'
  BY PathsStay, ItemsStay, ValuesStay DEF Tables
<1>3. Grown
  BY DEF Grown, Tables, PathRows
<1> QED
  BY <1>1, <1>2, <1>3 DEF Tables

\* A company's own edges begin at companies that have a row.
LEMMA StoreWindowIsOK ==
  ASSUME EnrichInv, NEW a \in Attempts, StoreWindow(a)
  PROVE  EnrichInv' /\ RiskStands
<1>1. /\ at[a].pc = "count" /\ Current(a).stores = "window" /\ Step(a, After(a))
      /\ UNCHANGED <<world, calls, items, paths, values, jobs>>
  BY DEF StoreWindow
<1>2. AttemptOK(a) /\ Running(a) /\ Tables /\ JobRows /\ CompanyRows /\ at[a].reads # <<>>
  BY <1>1 DEF EnrichInv, Tables, Running, AttemptOK, Reading
<1>3. PICK gap \in {TRUE, FALSE} :
          LET found == World.own \cup (IF gap THEN World.gap ELSE {})
              hops == {[edge |-> e, depth |-> 1] : e \in {f \in found : f.whole}}
          IN  /\ risks' = Upsert({h.edge.to : h \in hops}, "getEntity")
              /\ edges' = StoreEdges(hops)
  BY DEF StoreWindow
<1>4. PICK found : found = World.own \cup (IF gap THEN World.gap ELSE {})
  OBVIOUS
<1>5. PICK hops : hops = {[edge |-> e, depth |-> 1] : e \in {f \in found : f.whole}}
  OBVIOUS
<1>6. risks' = Upsert({h.edge.to : h \in hops}, "getEntity") /\ edges' = StoreEdges(hops)
  BY <1>3, <1>4, <1>5
<1>7. \A h \in hops : h.edge.from \in World.stored
  <2>1. \A e \in found : e.from \in World.stored
    BY <1>2, <1>4, WorldsAssumption DEF World, JobRows
  <2>2. \A h \in hops : h.edge \in found
    BY <1>5
  <2> QED
    BY <2>1, <2>2
<1>8. CompanyRows' /\ RiskStands
      /\ DOMAIN edges' = DOMAIN edges \cup {Key(h.edge) : h \in hops}
  <2>1. PICK to : to = {h.edge.to : h \in hops}
    OBVIOUS
  <2>2. DOMAIN risks' = DOMAIN risks \cup to
    BY <1>2, <1>6, <2>1, UpsertAdds
  <2>3. \A h \in hops : h.edge.from \in DOMAIN risks'
    BY <1>2, <1>7, <2>2 DEF CompanyRows
  <2> QED
    BY <1>1, <1>2, <1>6, <2>3, EdgesAreStored
<1>9. Tables' /\ Grown
  <2>1. DOMAIN risks \subseteq DOMAIN risks' /\ DOMAIN edges \subseteq DOMAIN edges'
    BY <1>8 DEF RiskStands
  <2> QED
    BY <1>1, <1>2, <1>8, <2>1, OnlyCompanies
<1>10. ASSUME at'[a] = After(a)
       PROVE  AttemptOK(a)'
  <2>1. \A country : \A i \in DOMAIN Indicators : Current(a) # IndicatorRead(country, i)
    BY <1>1 DEF IndicatorRead, Read
  <2> QED
    BY <1>2, <1>9, <1>10, <2>1, AfterIsOK
<1> QED
  BY <1>1, <1>8, <1>9, <1>10, OneSteps

\* A company that is sighted has a row from then on.
LEMMA CompanySighted ==
  ASSUME JobRows, CompanyRows, world' = world, edges' = edges,
         NEW e, NEW source, risks' = Upsert({e}, source)
  PROVE  /\ CompanyRows' /\ RiskStands /\ e \in DOMAIN risks'
<1>1. PICK ids : ids = {e}
  OBVIOUS
<1>2. /\ DOMAIN risks' = DOMAIN risks \cup ids
      /\ \A x \in DOMAIN risks' : Leveled(risks'[x])
      /\ \A x \in DOMAIN risks : NoLower(risks[x], risks'[x])
  BY <1>1, UpsertAdds
<1>3. World' = World
  BY SameWorld
<1>4. EntityRelationshipRows'
  BY <1>2 DEF CompanyRows, EntityRelationshipRows
<1> QED
  BY <1>1, <1>2, <1>3, <1>4 DEF CompanyRows, RiskStands

\* The edges of every chain are there before a Path rests on them.
LEMMA StoreEvidenceIsOK ==
  ASSUME EnrichInv, NEW a \in Attempts, StoreEvidence(a)
  PROVE  EnrichInv' /\ RiskStands
<1>1. /\ at[a].pc = "store" /\ Current(a).stores \in {"paths", "tiers", "joint"}
      /\ StoreHops(at[a].body, Endpoint(a)) /\ Step(a, [at[a] EXCEPT !.pc = "path"])
      /\ UNCHANGED <<world, calls, items, paths, values, jobs>>
  BY DEF StoreEvidence
<1>2. /\ AttemptOK(a) /\ Running(a) /\ Tables /\ JobRows /\ CompanyRows
      /\ at[a].reads # <<>> /\ Row(a) \in DOMAIN calls /\ BodyOf(a)
      /\ at[a].body = Body(a) /\ at[a].k \in 1..Len(at[a].body) /\ at[a].k = 1
  <2>1. Current(a).stores # "walk" /\ Current(a).stores \notin {"articles", "indicators"}
    BY <1>1
  <2>2. AttemptOK(a)
    BY DEF EnrichInv
  <2>3. at[a].k = 1
    BY <1>1, <2>1, <2>2 DEF AttemptOK, Reading
  <2> QED
    BY <1>1, <2>1, <2>3, PlaceInBody DEF Tables
<1>3. PICK ms : ms = at[a].body
  OBVIOUS
<1>4. PICK endpoint : endpoint = Endpoint(a)
  OBVIOUS
<1>5. /\ CompanyRows' /\ RiskStands /\ DOMAIN edges \subseteq DOMAIN edges'
      /\ \A i \in DOMAIN ms : ToSet(Chain(ms[i].hops)) \subseteq DOMAIN edges'
  BY <1>1, <1>2, <1>3, <1>4, HopsAreStored
<1>6. Tables' /\ Grown
  <2>1. DOMAIN risks \subseteq DOMAIN risks'
    BY <1>5 DEF RiskStands
  <2> QED
    BY <1>1, <1>2, <1>5, <2>1, OnlyCompanies
<1>7. ASSUME at'[a] = [at[a] EXCEPT !.pc = "path"]
      PROVE  AttemptOK(a)'
  <2>1. DOMAIN at[a] = Fields
    BY <1>2 DEF AttemptOK, Shaped
  <2>2. /\ DOMAIN at'[a] = Fields /\ at'[a].job = at[a].job /\ at'[a].pc = "path"
        /\ at'[a].reads = at[a].reads /\ at'[a].body = at[a].body /\ at'[a].k = 1
        /\ at'[a].gen = at[a].gen /\ at'[a].walk = at[a].walk
        /\ at'[a].input = at[a].input
    BY <1>2, <1>7, <2>1 DEF Fields
  <2>3. /\ at[a].job \in Jobs /\ Walking(a)' /\ Scoring(a)' /\ Asked(a)'
        /\ (/\ at[a].job \in Jobs /\ IsList(at[a].reads)
            /\ ToSet(at[a].reads) \subseteq ToSet(Reads(at[a].job)))'
    BY <1>2, <1>6, <2>2, OwnKeep
  <2>4. Current(a)' = Current(a) /\ Body(a)' = Body(a) /\ Jobs' = Jobs
    BY <1>1, <2>2, SameBody, SameWorld
  <2>5. Row(a)' = Row(a)
    BY <2>2, <2>4 DEF Row
  <2>6. Shaped(a)'
    BY <1>2, <2>2, <2>3, <2>4 DEF AttemptOK, Shaped
  <2>7. Reading(a)'
    BY <1>1, <1>2, <1>3, <1>5, <2>2, <2>3, <2>4, <2>5 DEF Reading
  <2>8. Superseding(a)' /\ Nearest(a)'
    BY <2>2 DEF Superseding, Nearest
  <2> QED
    BY <2>3, <2>6, <2>7, <2>8 DEF AttemptOK
<1> QED
  BY <1>1, <1>5, <1>6, <1>7, OneSteps

\* A step that writes a Path, of a company that is sighted in it.
LEMMA OnlyPath ==
  ASSUME Tables, UNCHANGED <<world, calls, items, edges, values, jobs>>,
         NEW root \in DOMAIN risks, NEW kind \in PathKinds,
         NEW m \in Routes(root, kind), NEW source, risks' = Upsert({m.entity}, source),
         NEW row \in DOMAIN calls, NEW by, NEW filtered,
         ToSet(Chain(m.hops)) \subseteq DOMAIN edges,
         by # None <=> row[1] \in {"sayari_deep_traversal",
            "sayari_supply_chain_upstream", "sayari_shortest_path"},
         WritePath(root, kind, m, row, by, filtered)
  PROVE  /\ Tables' /\ Grown /\ RiskStands
         /\ m.depth \in Nat /\ <<root, m.entity, kind>> \in DOMAIN paths'
         /\ paths'[<<root, m.entity, kind>>].depth <= m.depth
<1>1. JobRows'
  BY JobsSame DEF Tables, JobRows
<1>2. ItemRows' /\ ValueRows'
  BY ItemsStay, ValuesStay DEF Tables
<1>3. CompanyRows' /\ RiskStands /\ m.entity \in DOMAIN risks'
  <2>1. PICK e : e = m.entity
    OBVIOUS
  <2>2. risks' = Upsert({e}, source) /\ JobRows /\ CompanyRows
    BY <2>1 DEF Tables
  <2> QED
    BY <2>1, <2>2, CompanySighted
<1>4. /\ PathRows'
      /\ \A k \in DOMAIN paths : /\ k \in DOMAIN paths' /\ paths'[k].depth \in Nat
                                 /\ paths'[k].depth <= paths[k].depth
      /\ m.depth \in Nat /\ <<root, m.entity, kind>> \in DOMAIN paths'
      /\ paths'[<<root, m.entity, kind>>].depth <= m.depth
  <2>1. DOMAIN risks \subseteq DOMAIN risks' /\ root \in DOMAIN risks'
    BY <1>3 DEF RiskStands
  <2>2. world \in DOMAIN Worlds /\ PathRows
    BY DEF Tables, JobRows
  <2> QED
    BY <1>3, <2>1, <2>2, PathIsWritten
<1>5. Grown
  BY <1>4 DEF Grown
<1> QED
  BY <1>1, <1>2, <1>3, <1>4, <1>5 DEF Tables

LEMMA StorePathIsOK ==
  ASSUME EnrichInv, NEW a \in Attempts, StorePath(a)
  PROVE  EnrichInv' /\ RiskStands
<1>1. /\ at[a].pc = "path" /\ Step(a, Onward(a))
      /\ UNCHANGED <<world, calls, items, edges, values, jobs>>
  BY DEF StorePath
<1>2. AttemptOK(a) /\ Current(a).stores \in {"paths", "tiers", "joint"}
  BY <1>1 DEF EnrichInv, AttemptOK, Reading
<1>3. /\ Running(a) /\ Tables /\ JobRows /\ PathRows
      /\ Row(a) \in DOMAIN calls /\ ReadOf(at[a].job, Current(a)) /\ BodyOf(a)
      /\ at[a].body = Body(a) /\ at[a].k \in DOMAIN at[a].body /\ at[a].job # None
  BY <1>1, <1>2, PlaceInBody
<1>4. PICK m : m = at[a].body[at[a].k]
  OBVIOUS
<1>5. PICK root : root = Current(a).subject
  OBVIOUS
<1>6. PICK kind : kind = PathKind(a)
  OBVIOUS
<1>7. PICK row : row = Row(a)
  OBVIOUS
<1>8. PICK by : by = IF Current(a).stores = "paths" THEN None ELSE at[a].job
  OBVIOUS
<1>9. PICK filtered : filtered = (Current(a).call = "exposure")
  OBVIOUS
<1>10. PICK source : source = Endpoint(a)
  OBVIOUS
<1>11. /\ risks' = Upsert({m.entity}, source)
       /\ WritePath(root, kind, m, row, by, filtered)
  BY <1>4, <1>5, <1>6, <1>7, <1>8, <1>9, <1>10 DEF StorePath
<1>12. /\ root \in DOMAIN risks /\ kind \in PathKinds /\ m \in Routes(root, kind)
       /\ row \in DOMAIN calls
  <2>1. root \in World.stored
    BY <1>2, <1>3, <1>5 DEF ReadOf
  <2> QED
    BY <1>2, <1>3, <1>4, <1>5, <1>6, <1>7, <2>1 DEF Tables, CompanyRows, BodyOf
<1>13. ToSet(Chain(m.hops)) \subseteq DOMAIN edges
  BY <1>1, <1>2, <1>3, <1>4 DEF AttemptOK, Reading
<1>14. by # None <=> row[1] \in {"sayari_deep_traversal",
            "sayari_supply_chain_upstream", "sayari_shortest_path"}
  <2>1. row[1] = Current(a).source
    BY <1>7 DEF Row
  <2> QED
    BY <1>2, <1>3, <1>8, <2>1 DEF ReadOf
<1>15. /\ Tables' /\ Grown /\ RiskStands
       /\ m.depth \in Nat /\ <<root, m.entity, kind>> \in DOMAIN paths'
       /\ paths'[<<root, m.entity, kind>>].depth <= m.depth
  BY <1>1, <1>3, <1>11, <1>12, <1>13, <1>14, OnlyPath
<1>16. ASSUME at'[a] = Onward(a)
       PROVE  AttemptOK(a)'
  <2>1. \A country : \A i \in DOMAIN Indicators : Current(a) # IndicatorRead(country, i)
    BY <1>2 DEF IndicatorRead, Read
  <2> QED
    BY <1>1, <1>2, <1>3, <1>4, <1>5, <1>6, <1>15, <1>16, <2>1, OnwardIsOK
<1> QED
  BY <1>1, <1>15, <1>16, OneSteps

\* A find of a walk is written under the company the walk began at.
LEMMA WriteWalkIsOK ==
  ASSUME EnrichInv, NEW a \in Attempts, WriteWalk(a)
  PROVE  EnrichInv' /\ RiskStands
<1>1. /\ at[a].pc = "save"
      /\ UNCHANGED <<world, calls, items, edges, values, jobs>>
  BY DEF WriteWalk
<1>2. /\ AttemptOK(a) /\ Running(a) /\ Tables /\ JobRows /\ PathRows
      /\ at[a].reads # <<>> /\ Current(a).stores = "walk"
      /\ at[a].k \in Nat \ {0} /\ at[a].k <= Len(at[a].walk.pages)
      /\ IsList(at[a].walk.pages)
  BY <1>1 DEF EnrichInv, Tables, Running, AttemptOK, Shaped, Reading
<1>3. ReadOf(at[a].job, Current(a)) /\ at[a].job # None
  BY <1>2, CurrentIs
<1>4. PICK p : p = at[a].walk.pages[at[a].k]
  OBVIOUS
<1>5. PageOf(a, p)
  <2>1. at[a].k \in DOMAIN at[a].walk.pages
    BY <1>2 DEF IsList
  <2> QED
    BY <1>2, <1>4, <2>1 DEF AttemptOK, Walking, ToSet
<1>6. PICK root : root = Current(a).subject
  OBVIOUS
<1>7. PICK kind : kind = WalkKind(p.dir)
  OBVIOUS
<1>8. PICK m : m = p.member
  OBVIOUS
<1>9. PICK by : by = at[a].job
  OBVIOUS
<1>10. PICK source : source = IF p.dir = "downward" THEN "ownership" ELSE "ubo"
  OBVIOUS
<1>11. PICK row : row = p.row
  OBVIOUS
<1>12. /\ risks' = Upsert({m.entity}, source)
       /\ WritePath(root, kind, m, row, by, FALSE)
  BY <1>4, <1>6, <1>7, <1>8, <1>9, <1>10, <1>11 DEF WriteWalk
<1>13. /\ root \in DOMAIN risks /\ kind \in PathKinds /\ m \in Routes(root, kind)
       /\ row \in DOMAIN calls /\ ToSet(Chain(m.hops)) \subseteq DOMAIN edges
       /\ row[1] = "sayari_deep_traversal"
  <2>1. root \in World.stored /\ root = Profile(at[a].job).entity
    BY <1>2, <1>3, <1>6 DEF ReadOf
  <2> QED
    BY <1>2, <1>5, <1>7, <1>8, <1>11, <2>1
       DEF Tables, CompanyRows, PageOf, PathKinds, WalkKind
<1>14. by # None <=> row[1] \in {"sayari_deep_traversal",
            "sayari_supply_chain_upstream", "sayari_shortest_path"}
  BY <1>3, <1>9, <1>13
<1>15. /\ Tables' /\ Grown /\ RiskStands
       /\ m.depth \in Nat /\ <<root, m.entity, kind>> \in DOMAIN paths'
       /\ paths'[<<root, m.entity, kind>>].depth <= m.depth
  BY <1>1, <1>2, <1>12, <1>13, <1>14, OnlyPath
<1>16. CASE at[a].k < Len(at[a].walk.pages)
  <2>1. PICK k : k = at[a].k + 1
    OBVIOUS
  <2>2. Step(a, [at[a] EXCEPT !.k = k])
    BY <1>16, <2>1 DEF WriteWalk
  <2>3. ASSUME at'[a] = [at[a] EXCEPT !.k = k]
        PROVE  AttemptOK(a)'
    <3>1. DOMAIN at[a] = Fields
      BY <1>2 DEF AttemptOK, Shaped
    <3>2. /\ DOMAIN at'[a] = Fields /\ at'[a].job = at[a].job /\ at'[a].pc = "save"
          /\ at'[a].reads = at[a].reads /\ at'[a].k = k
          /\ at'[a].gen = at[a].gen /\ at'[a].walk = at[a].walk
          /\ at'[a].input = at[a].input
      BY <1>1, <2>3, <3>1 DEF Fields
    <3>3. /\ at[a].job \in Jobs /\ Walking(a)' /\ Scoring(a)' /\ Asked(a)'
          /\ (/\ at[a].job \in Jobs /\ IsList(at[a].reads)
              /\ ToSet(at[a].reads) \subseteq ToSet(Reads(at[a].job)))'
      BY <1>2, <1>15, <3>2, OwnKeep
    <3>4. Current(a)' = Current(a) /\ Jobs' = Jobs
      BY <1>1, <3>2, SameBody, SameWorld
    <3>5. /\ k \in Nat \ {0} /\ k <= Len(at[a].walk.pages)
          /\ \A i \in 1..(k - 1) : i \in 1..(at[a].k - 1) \/ i = at[a].k
      BY <1>2, <1>16, <2>1 DEF IsList
    <3>6. Shaped(a)'
      BY <1>2, <3>2, <3>3, <3>4, <3>5 DEF AttemptOK, Shaped
    <3>7. Reading(a)'
      BY <1>2, <3>2, <3>3, <3>4, <3>5 DEF Reading
    <3>8. Superseding(a)'
      BY <3>2 DEF Superseding
    <3>9. Nearest(a)'
      <4> SUFFICES ASSUME NEW i \in 1..(k - 1)
                   PROVE  Holds(a, WalkKind(at[a].walk.pages[i].dir),
                                at[a].walk.pages[i].member)'
        BY <3>2 DEF Nearest
      <4>1. PICK q : q = at[a].walk.pages[i]
        OBVIOUS
      <4>2. PICK key : key = <<root, q.member.entity, WalkKind(q.dir)>>
        OBVIOUS
      <4>3. q.member.depth \in Nat /\ key \in DOMAIN paths' /\ paths'[key].depth <= q.member.depth
        <5>1. CASE i = at[a].k
          BY <1>4, <1>7, <1>8, <1>15, <4>1, <4>2, <5>1
        <5>2. CASE i # at[a].k
          <6>1. q.member.depth \in Nat /\ key \in DOMAIN paths /\ paths[key].depth <= q.member.depth
            BY <1>1, <1>2, <1>6, <3>5, <4>1, <4>2, <5>2, SMTT(30) DEF AttemptOK, Nearest, Holds
          <6>2. /\ key \in DOMAIN paths' /\ paths[key].depth \in Nat
                /\ paths'[key].depth \in Nat /\ paths'[key].depth <= paths[key].depth
            BY <1>2, <1>15, <6>1 DEF Grown, PathRows
          <6> QED
            BY <6>1, <6>2
        <5> QED
          BY <5>1, <5>2
      <4> QED
        BY <1>6, <3>2, <3>4, <4>1, <4>2, <4>3 DEF Holds, WalkKind
    <3> QED
      BY <3>3, <3>6, <3>7, <3>8, <3>9 DEF AttemptOK
  <2> QED
    BY <1>15, <2>2, <2>3, OneSteps
<1>17. CASE ~(at[a].k < Len(at[a].walk.pages))
  <2>1. Step(a, [at[a] EXCEPT !.pc = "end"])
    BY <1>17 DEF WriteWalk
  <2>2. ASSUME at'[a] = [at[a] EXCEPT !.pc = "end"]
        PROVE  AttemptOK(a)'
    <3>1. DOMAIN at[a] = Fields /\ at[a].gen \in Nat
      BY <1>2 DEF AttemptOK, Shaped
    <3>2. /\ DOMAIN at'[a] = Fields /\ at'[a].job = at[a].job /\ at'[a].pc = "end"
          /\ at'[a].reads = at[a].reads /\ at'[a].k = at[a].k
          /\ at'[a].gen = at[a].gen /\ at'[a].walk = at[a].walk
          /\ at'[a].input = at[a].input
      BY <2>2, <3>1 DEF Fields
    <3>3. Shaped(a)' /\ Reading(a)' /\ Walking(a)' /\ Asked(a)' /\ Nearest(a)'
      BY <1>2, <1>15, <3>1, <3>2, PastReading
    <3>4. Scoring(a)'
      BY <1>2, <1>15, <3>2, OwnKeep
    <3>5. Superseding(a)'
      BY <3>2 DEF Superseding
    <3> QED
      BY <3>3, <3>4, <3>5 DEF AttemptOK
  <2> QED
    BY <1>15, <2>1, <2>2, OneSteps
<1> QED
  BY <1>16, <1>17

\* What each of a list is makes finitely many things.
LEMMA FinitelyMany ==
  ASSUME NEW n \in Nat, NEW f, DOMAIN f = 1..n
  PROVE  IsFiniteSet({f[i] : i \in 1..n})
<1> DEFINE S == {f[i] : i \in 1..n}
           g == [i \in 1..n |-> f[i]]
<1>1. g \in Surjection(1..n, S)
  BY DEF Surjection
<1>2. IsFiniteSet(1..n)
  BY FS_Interval
<1> HIDE DEF g, S
<1>3. IsFiniteSet(S)
  BY <1>1, <1>2, FS_Surjection
<1> QED
  BY <1>3 DEF S

\* What a page adds to a walk is of the call it came with.
LEMMA AbsorbIsOK ==
  ASSUME EnrichInv, NEW a \in Attempts, Absorb(a)
  PROVE  EnrichInv' /\ RiskStands
<1>1. /\ at[a].pc = "store" /\ Current(a).stores = "walk"
      /\ StoreHops(at[a].body, Endpoint(a))
      /\ UNCHANGED <<world, calls, items, paths, values, jobs>>
  BY DEF Absorb
<1>2. /\ AttemptOK(a) /\ Running(a) /\ Tables /\ JobRows /\ CompanyRows /\ PathRows
      /\ at[a].reads # <<>> /\ Row(a) \in DOMAIN calls /\ at[a].body = Body(a)
      /\ at[a].k = 1
  BY <1>1 DEF EnrichInv, Tables, Running, AttemptOK, Reading
<1>3. /\ DOMAIN at[a] = Fields /\ DOMAIN at[a].walk = WalkFields
      /\ at[a].job \in Jobs /\ at[a].gen \in Nat
      /\ at[a].walk.left \in 0..CallBudget /\ at[a].walk.dir \in Directions
      /\ at[a].walk.offset \in Nat /\ IsFiniteSet(at[a].walk.found)
      /\ IsList(at[a].walk.pages)
  BY <1>2 DEF AttemptOK, Shaped, Reading
<1>4. ReadOf(at[a].job, Current(a)) /\ BodyOf(a)
  BY <1>2, CurrentIs
<1>5. PICK w : w = at[a].walk
  OBVIOUS
<1>6. PICK ms : ms = at[a].body
  OBVIOUS
<1>7. PICK endpoint : endpoint = Endpoint(a)
  OBVIOUS
<1>8. PICK row : row = Row(a)
  OBVIOUS
<1>9. PICK n \in Nat : n = Len(ms) /\ DOMAIN ms = 1..n
  BY <1>2, <1>4, <1>6 DEF BodyOf
<1>10. /\ CompanyRows' /\ RiskStands /\ DOMAIN edges \subseteq DOMAIN edges'
       /\ \A i \in DOMAIN ms : ToSet(Chain(ms[i].hops)) \subseteq DOMAIN edges'
  BY <1>1, <1>2, <1>6, <1>7, HopsAreStored
<1>11. Tables' /\ Grown
  <2>1. DOMAIN risks \subseteq DOMAIN risks'
    BY <1>10 DEF RiskStands
  <2> QED
    BY <1>1, <1>2, <1>10, <2>1, OnlyCompanies
<1>12. PICK found : found = w.found \cup {m.entity : m \in ToSet(ms)}
  OBVIOUS
<1>13. IsFiniteSet(found)
  <2> DEFINE f == [i \in 1..n |-> ms[i].entity]
             S == {f[i] : i \in 1..n}
  <2>1. DOMAIN f = 1..n
    OBVIOUS
  <2>2. {m.entity : m \in ToSet(ms)} = S
    BY <1>9 DEF ToSet
  <2> HIDE DEF f
  <2>3. IsFiniteSet(S)
    BY <2>1, FinitelyMany
  <2> HIDE DEF S
  <2>4. IsFiniteSet(w.found)
    BY <1>3, <1>5
  <2>5. IsFiniteSet(w.found \cup S)
    BY <2>3, <2>4, FS_Union
  <2> QED
    BY <1>12, <2>2, <2>5
<1> DEFINE page(i) == [row |-> row, dir |-> w.dir, member |-> ms[i]]
<1>14. PICK new : new = [i \in DOMAIN ms |-> page(i)]
  OBVIOUS
<1>15. IsList(new) /\ \A p \in ToSet(new) : \E i \in DOMAIN ms : p = page(i)
  <2> HIDE DEF page
  <2>1. new = [i \in 1..n |-> new[i]]
    BY <1>9, <1>14
  <2>2. IsList(new)
    BY <2>1, MadeOf
  <2> QED
    BY <1>14, <2>2 DEF ToSet
<1>16. PICK pages : pages = w.pages \o new
  OBVIOUS
<1>17. IsList(pages) /\ ToSet(pages) = ToSet(w.pages) \cup ToSet(new)
  BY <1>3, <1>5, <1>15, <1>16, ListsJoined
<1>18. PICK walk : walk = [w EXCEPT !.found = found, !.pages = pages]
  OBVIOUS
<1>19. PICK held : held = [at[a] EXCEPT !.body = <<>>, !.walk = walk]
  OBVIOUS
<1>20. /\ DOMAIN walk = WalkFields /\ walk.dir = w.dir /\ walk.offset = w.offset
       /\ walk.left = w.left /\ walk.found = found /\ walk.pages = pages
  BY <1>3, <1>5, <1>18 DEF WalkFields
<1>21. /\ DOMAIN held = Fields /\ held.job = at[a].job /\ held.reads = at[a].reads
       /\ held.k = 1 /\ held.gen = at[a].gen /\ held.walk = walk
       /\ held.input = at[a].input
  BY <1>2, <1>3, <1>19 DEF Fields
<1>22. PICK asked : asked = Len(Window(a))
  OBVIOUS
<1>23. asked \in Nat
  BY <1>2, <1>3, <1>22, WindowIsOfTheWalk DEF JobRows, Directions
<1>24. \/ Step(a, [held EXCEPT !.pc = "page", !.walk.offset = @ + asked])
       \/ Step(a, Turned(held))
  <2>1. held = [at[a] EXCEPT !.body = <<>>, !.walk = [w EXCEPT
                !.found = w.found \cup {m.entity : m \in ToSet(ms)},
                !.pages = w.pages \o [i \in DOMAIN ms |->
                    [row |-> Row(a), dir |-> w.dir, member |-> ms[i]]]]]
    BY <1>8, <1>12, <1>14, <1>16, <1>18, <1>19
  <2> QED
    BY <1>5, <1>6, <1>22, <2>1 DEF Absorb
<1> HIDE DEF page
<1>25. /\ World' = World /\ Jobs' = Jobs
       /\ \A j : Kind(j)' = Kind(j) /\ Profile(j)' = Profile(j)
       /\ \A root, kind : Routes(root, kind)' = Routes(root, kind)
       /\ \A j : Reads(j)' = Reads(j)
  BY <1>1, SameWorld
<1>26. PICK root : root = Profile(at[a].job).entity
  OBVIOUS
<1>27. \A p \in ToSet(pages) :
           /\ p.row \in DOMAIN calls' /\ p.row[1] = "sayari_deep_traversal"
           /\ p.dir \in Directions /\ p.member \in Routes(root, WalkKind(p.dir))
           /\ ToSet(Chain(p.member.hops)) \subseteq DOMAIN edges'
  <2> TAKE p \in ToSet(pages)
  <2>1. CASE p \in ToSet(w.pages)
    <3>1. PageOf(a, p)
      BY <1>2, <1>5, <2>1 DEF AttemptOK, Walking
    <3> QED
      BY <1>1, <1>10, <1>26, <3>1 DEF PageOf
  <2>2. CASE p \in ToSet(new)
    <3>1. PICK i \in DOMAIN ms : p = page(i)
      BY <1>15, <2>2
    <3>2. p.row = row /\ p.dir = w.dir /\ p.member = ms[i]
      BY <3>1 DEF page
    <3>3. Current(a).subject = root /\ Current(a).source = "sayari_deep_traversal"
      BY <1>1, <1>4, <1>26 DEF ReadOf
    <3>4. row[1] = "sayari_deep_traversal" /\ row \in DOMAIN calls'
      BY <1>1, <1>2, <1>8, <3>3 DEF Row
    <3>5. ms[i] \in Routes(root, WalkKind(w.dir))
      BY <1>1, <1>2, <1>4, <1>5, <1>6, <3>3 DEF BodyOf
    <3> QED
      BY <1>3, <1>5, <1>10, <3>2, <3>4, <3>5
  <2> QED
    BY <1>17, <2>1, <2>2
<1>28. ASSUME at'[a].job = at[a].job, at'[a].walk.pages = pages
       PROVE  Walking(a)'
  <2>1. (Profile(at[a].job).entity)' = root
    BY <1>25, <1>26, <1>28
  <2>2. \A kind : WalkKind(kind)' = WalkKind(kind)
    BY DEF WalkKind
  <2> QED
    BY <1>25, <1>27, <1>28, <2>1, <2>2 DEF Walking, PageOf
<1>29. ASSUME at'[a] = Turned(held)
       PROVE  AttemptOK(a)'
  <2>1. Walking(a)'
    <3>1. at'[a].walk.pages = pages /\ at'[a].job = at[a].job
      BY <1>20, <1>21, <1>29, TurnedKeeps
    <3> QED
      BY <1>28, <3>1
  <2>2. /\ DOMAIN held.walk = WalkFields /\ held.walk.dir = at[a].walk.dir
        /\ held.walk.offset = at[a].walk.offset /\ held.walk.left = at[a].walk.left
        /\ IsFiniteSet(held.walk.found) /\ IsList(held.walk.pages)
    BY <1>5, <1>13, <1>17, <1>20, <1>21
  <2> QED
    BY <1>1, <1>2, <1>11, <1>21, <1>29, <2>1, <2>2, TurnedIsOK
<1>30. ASSUME at'[a] = [held EXCEPT !.pc = "page", !.walk.offset = @ + asked]
       PROVE  AttemptOK(a)'
  <2>1. PICK offset \in Nat : offset = w.offset + asked
    BY <1>3, <1>5, <1>23
  <2>2. PICK further : further = [walk EXCEPT !.offset = offset]
    OBVIOUS
  <2>3. at'[a] = [held EXCEPT !.pc = "page", !.walk = further]
    BY <1>20, <1>21, <1>30, <2>1, <2>2
  <2>4. /\ DOMAIN further = WalkFields /\ further.dir = w.dir /\ further.offset = offset
        /\ further.left = w.left /\ further.found = found /\ further.pages = pages
    BY <1>20, <2>2 DEF WalkFields
  <2>5. /\ DOMAIN at'[a] = Fields /\ at'[a].job = at[a].job /\ at'[a].pc = "page"
        /\ at'[a].reads = at[a].reads /\ at'[a].k = 1 /\ at'[a].gen = at[a].gen
        /\ at'[a].input = at[a].input /\ at'[a].walk = further
    BY <1>21, <2>3 DEF Fields
  <2>6. Walking(a)'
    BY <1>28, <2>4, <2>5
  <2>7. Shaped(a)'
    BY <1>3, <1>5, <1>13, <1>17, <1>25, <2>4, <2>5 DEF Shaped
  <2>8. Reading(a)'
    <3>1. Current(a)' = Current(a)
      BY <2>5 DEF Current
    <3>2. /\ at[a].job \in Jobs /\ IsList(at[a].reads)
          /\ ToSet(at[a].reads) \subseteq ToSet(Reads(at[a].job))
      BY <1>2 DEF AttemptOK, Reading
    <3> QED
      BY <1>1, <1>2, <1>25, <2>5, <3>1, <3>2 DEF Reading
  <2>9. Asked(a)' /\ Scoring(a)'
    BY <1>2, <1>11, <1>25, <2>5, FoundStays DEF AttemptOK, Asked, Scoring
  <2>10. Superseding(a)' /\ Nearest(a)'
    BY <2>5 DEF Superseding, Nearest
  <2> QED
    BY <2>6, <2>7, <2>8, <2>9, <2>10 DEF AttemptOK
<1>31. CASE Step(a, Turned(held))
  BY <1>10, <1>11, <1>29, <1>31, OneSteps
<1>32. CASE Step(a, [held EXCEPT !.pc = "page", !.walk.offset = @ + asked])
  <2>1. PICK r : r = [held EXCEPT !.pc = "page", !.walk.offset = @ + asked]
    OBVIOUS
  <2>2. Step(a, r) /\ (at'[a] = r => AttemptOK(a)')
    BY <1>30, <1>32, <2>1
  <2> QED
    BY <1>10, <1>11, <2>2, OneSteps
<1> QED
  BY <1>24, <1>31, <1>32

-----------------------------------------------------------------------------
(* The invariant is one, and what it says.                                 *)

\* What is none of the program's steps changes nothing.
LEMMA NoStepIsOK ==
  ASSUME EnrichInv, UNCHANGED vars
  PROVE  EnrichInv' /\ RiskStands
<1>1. UNCHANGED <<world, rows, jobs>> /\ at' = at
  BY DEF vars, rows
<1>2. Tables' /\ Grown /\ RiskStands
  BY <1>1, InMemory
<1>3. \A b \in Attempts : AttemptOK(b)'
  <2> TAKE b \in Attempts
  <2>1. at'[b] = at[b] /\ AttemptOK(b) /\ PathRows
    BY <1>1 DEF EnrichInv, Tables
  <2> QED
    BY <1>2, <2>1, OthersKeep
<1> QED
  BY <1>1, <1>2, <1>3 DEF EnrichInv

\* Every step keeps it, and lowers no risk.
LEMMA EnrichInvStep ==
  ASSUME EnrichInv, [Next]_vars
  PROVE  EnrichInv' /\ RiskStands
<1>1. ASSUME NEW j \in Jobs, Requeue(j)
      PROVE  EnrichInv' /\ RiskStands
  BY <1>1, RequeueIsOK
<1>2. ASSUME NEW j \in Jobs, NEW a \in Attempts, Claim(a, j)
      PROVE  EnrichInv' /\ RiskStands
  BY <1>2, ClaimIsOK
<1>3. ASSUME NEW a \in Attempts, Stop(a) \/ Throws(a) \/ End(a)
      PROVE  EnrichInv' /\ RiskStands
  BY <1>3, StopIsOK, ThrowsIsOK, EndIsOK
<1>4. ASSUME NEW a \in Attempts, Count(a) \/ Insert(a) \/ StoreWindow(a)
      PROVE  EnrichInv' /\ RiskStands
  BY <1>4, CountIsOK, InsertIsOK, StoreWindowIsOK
<1>5. ASSUME NEW a \in Attempts, StoreArticle(a) \/ StoreIndicator(a)
      PROVE  EnrichInv' /\ RiskStands
  BY <1>5, StoreArticleIsOK, StoreIndicatorIsOK
<1>6. ASSUME NEW a \in Attempts, StoreEvidence(a) \/ StorePath(a)
      PROVE  EnrichInv' /\ RiskStands
  BY <1>6, StoreEvidenceIsOK, StorePathIsOK
<1>7. ASSUME NEW a \in Attempts, Page(a) \/ Absorb(a) \/ WriteWalk(a)
      PROVE  EnrichInv' /\ RiskStands
  BY <1>7, PageIsOK, AbsorbIsOK, WriteWalkIsOK
<1>8. ASSUME NEW a \in Attempts, Score(a) \/ Find(a) \/ Tally(a)
      PROVE  EnrichInv' /\ RiskStands
  BY <1>8, ScoreIsOK, FindIsOK, TallyIsOK
<1>9. ASSUME NEW a \in Attempts, Write(a) \/ Supersede(a)
      PROVE  EnrichInv' /\ RiskStands
  BY <1>9, WriteIsOK, SupersedeIsOK
<1>10. CASE UNCHANGED vars
  BY <1>10, NoStepIsOK
<1> QED
  BY <1>1, <1>2, <1>3, <1>4, <1>5, <1>6, <1>7, <1>8, <1>9, <1>10 DEF Next

\* The rows and the attempts are of their kinds.
LEMMA TypesFollow ==
  ASSUME EnrichInv
  PROVE  TypeOK
<1>1. JobRows /\ CompanyRows /\ PathRows /\ ItemRows /\ ValueRows
  BY DEF EnrichInv, Tables
<1>2. NewsItemRows /\ CountryIndicatorRows
  BY <1>1 DEF ItemRows, NewsItemRows, CountryIndicatorRows
<1>3. EntityRelationshipRows /\ GraphPathRows /\ CriterionValueRows
  BY <1>1 DEF CompanyRows, PathRows, ValueRows
<1>4. \A a \in Attempts : /\ at[a].job \in Jobs \cup {None}
                          /\ at[a].gen \in Nat /\ at[a].k \in Nat
                          /\ at[a].walk.left \in 0..CallBudget
  BY DEF EnrichInv, AttemptOK, Shaped
<1> QED
  BY <1>1, <1>2, <1>3, <1>4 DEF TypeOK, JobRows

\* What is scored is there, whole and once.
LEMMA WholeReadsFollow ==
  ASSUME EnrichInv
  PROVE  ScoredOnWholeReads
<1>1. ArticlesCountedOnce
  BY OnceEach DEF EnrichInv, Tables, JobRows
<1>2. CountryScoredWhole
  BY DEF EnrichInv, AttemptOK, Scoring, CountryScoredWhole
<1>3. AlwaysACurrentValue
  BY LastIsCurrent DEF EnrichInv, Tables
<1> QED
  BY <1>1, <1>2, <1>3 DEF ScoredOnWholeReads

\* A Path says one thing, the nearest that was found.
LEMMA AgreementFollows ==
  ASSUME EnrichInv
  PROVE  PathsAgreeWithTheirReads
<1>1. EvidenceIsOfTheDepth /\ CreditedToItsFinder
  BY DEF EnrichInv, Tables, PathRows
<1>2. NoneFartherThanFound
  <2>1. \A a \in Attempts : Nearest(a)
    BY DEF EnrichInv, AttemptOK
  <2> QED
    BY <2>1 DEF Nearest, Holds, NoneFartherThanFound
<1> QED
  BY <1>1, <1>2 DEF PathsAgreeWithTheirReads

\* A factor that stands is there, at no lower a level.
LEMMA RiskFollows ==
  ASSUME RiskStands
  PROVE  \A e \in DOMAIN risks : \A f \in DOMAIN risks[e] :
            /\ e \in DOMAIN risks' /\ f \in DOMAIN risks'[e]
            /\ risks'[e][f].level >= risks[e][f].level
  BY DEF RiskStands, NoLower

-----------------------------------------------------------------------------
(* The theorems.                                                           *)

\* Whatever Jobs run beside each other, every row's references are there, no
\* key is taken twice, and an attempt is within its Job (the tables of
\* schema.ts, and every handler that writes them).
THEOREM EnrichTypes == Spec => []TypeOK
<1>1. Init => EnrichInv
  BY InitIsOK
<1>2. EnrichInv /\ [Next]_vars => EnrichInv'
  BY EnrichInvStep
<1>3. EnrichInv => TypeOK
  BY TypesFollow
<1> QED
  BY <1>1, <1>2, <1>3, PTL DEF Spec

\* A generation holds each of its articles once, a Supplier is scored on every
\* indicator its country has a value of, and a Criterion that has a value has a
\* current one, whatever number of Jobs store, score and retry (enrichSupplier(),
\* assembleScoringInput(), writeCriterionValue()).
THEOREM EnrichScoredWhole == Spec => []ScoredOnWholeReads
<1>1. Init => EnrichInv
  BY InitIsOK
<1>2. EnrichInv /\ [Next]_vars => EnrichInv'
  BY EnrichInvStep
<1>3. EnrichInv => ScoredOnWholeReads
  BY WholeReadsFollow
<1> QED
  BY <1>1, <1>2, <1>3, PTL DEF Spec

\* The evidence of a Path is of its depth, as near as any running read has
\* found it, and its credit is of its call, in whatever order reads write it
\* (writeGraphPaths() and its conflictSet()).
THEOREM EnrichPathsAgree == Spec => []PathsAgreeWithTheirReads
<1>1. Init => EnrichInv
  BY InitIsOK
<1>2. EnrichInv /\ [Next]_vars => EnrichInv'
  BY EnrichInvStep
<1>3. EnrichInv => PathsAgreeWithTheirReads
  BY AgreementFollows
<1> QED
  BY <1>1, <1>2, <1>3, PTL DEF Spec

\* No step of any Job takes a risk factor from a company or lowers its level
\* (mergeRiskForUpsert(), by way of every upsertEntity()).
THEOREM EnrichRiskStands == Spec => RiskNeverFalls
<1> DEFINE Stands == \A e \in DOMAIN risks : \A f \in DOMAIN risks[e] :
                        /\ e \in DOMAIN risks' /\ f \in DOMAIN risks'[e]
                        /\ risks'[e][f].level >= risks[e][f].level
<1>1. Init => EnrichInv
  BY InitIsOK
<1>2. EnrichInv /\ [Next]_vars => EnrichInv'
  BY EnrichInvStep
<1>3. EnrichInv /\ [Next]_vars => Stands
  BY EnrichInvStep, RiskFollows
<1>4. RiskNeverFalls <=> [][Stands]_vars
  BY DEF RiskNeverFalls
<1> HIDE DEF Stands
<1> QED
  BY <1>1, <1>2, <1>3, <1>4, PTL DEF Spec
=============================================================================
