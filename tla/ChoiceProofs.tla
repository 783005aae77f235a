---------------------------- MODULE ChoiceProofs ----------------------------
(***************************************************************************)
(* What is offered to choose from, whatever was recorded: OneRanking and   *)
(* SettledOnAllThatIsKnown of Rules.                                       *)
(*                                                                         *)
(* The page, the Job, a shared link and the chat rank a Category alike:    *)
(* to what RulesProofs shows of rows and links, this adds that the place   *)
(* of a bidder in the list is the number of those above it (ShortlistIs),  *)
(* which no filter changes.                                                *)
(*                                                                         *)
(* A parked row is settled on all that is known of one company: one        *)
(* candidate gathers what every attempt recorded of it (ParkedIs), each is *)
(* on the page once, flat or in its family (PartsAre, SortedChoices), with *)
(* the verdicts of both readers (FoldReportersTells), and two are left     *)
(* alike when their reports read alike (VectorsReadAlike).                 *)
(***************************************************************************)
EXTENDS RulesProofs

-----------------------------------------------------------------------------
(* Fractions.                                                              *)

\* Multiplying by a positive number keeps the order.
LEMMA TimesKeepsOrder ==
    ASSUME NEW a \in Int, NEW b \in Int, NEW c \in Int, c > 0
    PROVE  (a < b) <=> (a * c < b * c)
<1>1. ASSUME NEW u \in Int, NEW v \in Int, u < v PROVE u * c < v * c
  <2>1. v - u > 0 /\ (v - u) * c > 0
    BY <1>1
  <2>2. (v - u) * c = v * c - u * c
    OBVIOUS
  <2> QED BY <2>1, <2>2
<1>2. a < b \/ a = b \/ b < a
  OBVIOUS
<1>3. a * c \in Int /\ b * c \in Int
  OBVIOUS
<1> QED BY <1>1, <1>2, <1>3

\* Fractions compared across are ordered: the comparison is transitive.
LEMMA RatiosAreOrdered ==
    ASSUME NEW n1 \in Nat, NEW n2 \in Nat, NEW n3 \in Nat,
           NEW d1 \in Nat \ {0}, NEW d2 \in Nat \ {0}, NEW d3 \in Nat \ {0},
           n1 * d2 >= n2 * d1, n2 * d3 >= n3 * d2
    PROVE  /\ n1 * d3 >= n3 * d1
           /\ n1 * d2 > n2 * d1 \/ n2 * d3 > n3 * d2 => n1 * d3 > n3 * d1
<1> DEFINE a == n1 * d2
           b == n2 * d1
           c == n2 * d3
           d == n3 * d2
           e == n1 * d3
           f == n3 * d1
<1>0. a \in Int /\ b \in Int /\ c \in Int /\ d \in Int /\ e \in Int /\ f \in Int /\ a >= b /\ c >= d
  OBVIOUS
<1>1. a * d3 = e * d2 /\ b * d3 = c * d1 /\ d * d1 = f * d2
  OBVIOUS
<1>2. d1 > 0 /\ d2 > 0 /\ d3 > 0 /\ d1 \in Int /\ d2 \in Int /\ d3 \in Int
  OBVIOUS
<1> HIDE DEF a, b, c, d, e, f
<1>3. (b < a <=> b * d3 < a * d3) /\ (d < c <=> d * d1 < c * d1) /\ (a < b <=> a * d3 < b * d3)
      /\ (c < d <=> c * d1 < d * d1) /\ (f < e <=> f * d2 < e * d2) /\ (e < f <=> e * d2 < f * d2)
  BY <1>0, <1>2, TimesKeepsOrder
<1> DEFINE ad == a * d3
           bd == b * d3
           dd == d * d1
<1>4. ad \in Int /\ bd \in Int /\ dd \in Int
  BY <1>0, <1>2
<1>5. (b < a <=> bd < ad) /\ (d < c <=> dd < bd) /\ (a < b <=> ad < bd)
      /\ (c < d <=> bd < dd) /\ (f < e <=> dd < ad) /\ (e < f <=> ad < dd)
  BY <1>1, <1>3
<1> HIDE DEF ad, bd, dd
<1>6. e >= f /\ (a > b \/ c > d => e > f)
  BY <1>0, <1>4, <1>5
<1> QED BY <1>6 DEF a, b, c, d, e, f

\* A larger fraction has no smaller whole part.
LEMMA QuotientKeepsOrder ==
    ASSUME NEW a \in Int, NEW b \in Int, NEW c \in Nat \ {0}, NEW d \in Nat \ {0}, a * d >= b * c
    PROVE  a \div c >= b \div d
<1> DEFINE q == b \div d
           r == a \div c
<1>1. q \in Int /\ r \in Int /\ q * d <= b /\ a < (r + 1) * c
  <2>1. \A u \in Int, v \in Nat \ {0} : u \div v \in Int /\ (u \div v) * v <= u /\ u < (u \div v) * v + v
    BY SMTT(30)
  <2>2. q \in Int /\ r \in Int /\ q * d <= b /\ a < r * c + c
    BY <2>1
  <2>3. (r + 1) * c = r * c + c
    BY <2>2
  <2> QED BY <2>2, <2>3
<1> HIDE DEF q, r
<1> SUFFICES ASSUME r < q PROVE FALSE
  BY <1>1 DEF q, r
<1>2. (r + 1) * c <= q * c
  <2>1. r + 1 = q \/ r + 1 < q
    BY <1>1
  <2>2. c \in Int /\ c > 0 /\ r + 1 \in Int
    BY <1>1
  <2>3. r + 1 < q => (r + 1) * c < q * c
    BY <1>1, <2>2, TimesKeepsOrder
  <2>4. q * c \in Int /\ (r + 1) * c \in Int
    BY <1>1, <2>2
  <2> QED BY <1>1, <2>1, <2>3, <2>4
<1>3. a < q * c
  BY <1>1, <1>2
<1>4. a * d < (q * c) * d
  <2>1. q * c \in Int /\ d \in Int /\ d > 0
    BY <1>1
  <2> QED BY <1>3, <2>1, TimesKeepsOrder
<1>5. (q * d) * c <= b * c
  <2>1. q * d \in Int /\ c \in Int /\ c > 0
    BY <1>1
  <2>2. q * d = b \/ q * d < b
    BY <1>1, <2>1
  <2>3. q * d < b => (q * d) * c < b * c
    BY <2>1, TimesKeepsOrder
  <2>4. (q * d) * c \in Int /\ b * c \in Int
    BY <2>1
  <2> QED BY <2>2, <2>3, <2>4
<1>6. (q * c) * d = (q * d) * c
  BY <1>1
<1>7. a * d \in Int /\ b * c \in Int /\ (q * d) * c \in Int
  BY <1>1
<1> QED BY <1>4, <1>5, <1>6, <1>7

-----------------------------------------------------------------------------
(* The order of the bidders.                                               *)

AreBidders(B) ==
    /\ IsFiniteSet(B)
    /\ \A b \in B : /\ b.score \in {S!NoScore} \cup [num : Nat, den : Nat \ {0}]
                    /\ b.compliance \in Int /\ b.name \in Nat
    /\ \A b, c \in B : b.name = c.name => b = c

\* The fields of a bidder that has a Score.
LEMMA ScoredBidder ==
    ASSUME NEW B, AreBidders(B), NEW b \in S!Scored(B)
    PROVE  /\ b \in B /\ b.score.num \in Nat /\ b.score.den \in Nat \ {0}
           /\ b.compliance \in Int /\ b.name \in Nat
BY DEF AreBidders, S!Scored

\* Scores are in a line, ties aside (score.ts).
LEMMA ScoresAreOrdered ==
    ASSUME NEW B, AreBidders(B), NEW a \in S!Scored(B), NEW b \in S!Scored(B), NEW c \in S!Scored(B)
    PROVE  /\ S!HigherScore(a, b) \/ S!HigherScore(b, a) \/ S!SameScore(a, b)
           /\ ~(S!HigherScore(a, b) /\ S!HigherScore(b, a)) /\ ~(S!HigherScore(a, b) /\ S!SameScore(a, b))
           /\ ~(S!HigherScore(b, a) /\ S!SameScore(a, b))
           /\ S!SameScore(a, b) <=> S!SameScore(b, a)
           /\ (S!HigherScore(a, b) \/ S!SameScore(a, b)) /\ (S!HigherScore(b, c) \/ S!SameScore(b, c))
                => /\ S!HigherScore(a, c) \/ S!SameScore(a, c)
                   /\ S!HigherScore(a, b) \/ S!HigherScore(b, c) => S!HigherScore(a, c)
<1> DEFINE n(p) == p.score.num
           d(p) == p.score.den
           up(p, q) == n(p) * d(q)
<1>1. \A p \in {a, b, c} : n(p) \in Nat /\ d(p) \in Nat \ {0}
  BY ScoredBidder
<1>2. \A p, q : /\ S!HigherScore(p, q) <=> up(p, q) > up(q, p)
                /\ S!SameScore(p, q) <=> up(p, q) = up(q, p)
  BY DEF S!HigherScore, S!SameScore
<1>3. up(a, b) >= up(b, a) /\ up(b, c) >= up(c, b)
        => up(a, c) >= up(c, a) /\ (up(a, b) > up(b, a) \/ up(b, c) > up(c, b) => up(a, c) > up(c, a))
  <2> SUFFICES ASSUME up(a, b) >= up(b, a), up(b, c) >= up(c, b)
               PROVE  up(a, c) >= up(c, a) /\ (up(a, b) > up(b, a) \/ up(b, c) > up(c, b) => up(a, c) > up(c, a))
    OBVIOUS
  <2>1. n(a) \in Nat /\ n(b) \in Nat /\ n(c) \in Nat /\ d(a) \in Nat \ {0} /\ d(b) \in Nat \ {0} /\ d(c) \in Nat \ {0}
    BY <1>1
  <2>2. n(a) * d(b) >= n(b) * d(a) /\ n(b) * d(c) >= n(c) * d(b)
    OBVIOUS
  <2> HIDE DEF n, d
  <2> QED BY <2>1, <2>2, RatiosAreOrdered
<1>4. \A p, q \in {a, b, c} : up(p, q) \in Int
  <2> HIDE DEF n, d
  <2> QED BY <1>1
<1> HIDE DEF up
<1> DEFINE ab == up(a, b)
           ba == up(b, a)
           bc == up(b, c)
           cb == up(c, b)
           ac == up(a, c)
           ca == up(c, a)
<1>5. ab \in Int /\ ba \in Int /\ bc \in Int /\ cb \in Int /\ ac \in Int /\ ca \in Int
  BY <1>4
<1>6. ab >= ba /\ bc >= cb => ac >= ca /\ (ab > ba \/ bc > cb => ac > ca)
  BY <1>3
<1>7. /\ S!HigherScore(a, b) <=> ab > ba
      /\ S!HigherScore(b, a) <=> ba > ab
      /\ S!HigherScore(b, c) <=> bc > cb
      /\ S!HigherScore(a, c) <=> ac > ca
      /\ S!SameScore(a, b) <=> ab = ba
      /\ S!SameScore(b, a) <=> ba = ab
      /\ S!SameScore(b, c) <=> bc = cb
      /\ S!SameScore(a, c) <=> ac = ca
  BY <1>2
<1> HIDE DEF ab, ba, bc, cb, ac, ca
<1> QED BY <1>5, <1>6, <1>7

\* No two bidders tie once compliance and name are asked (score.ts).
LEMMA BiddersAreOrdered ==
    ASSUME NEW B, AreBidders(B), NEW a \in S!Scored(B), NEW b \in S!Scored(B), NEW c \in S!Scored(B)
    PROVE  /\ ~S!Precedes(a, a)
           /\ a # b => S!Precedes(a, b) \/ S!Precedes(b, a)
           /\ S!Precedes(a, b) /\ S!Precedes(b, c) => S!Precedes(a, c)
<1>1. /\ a.compliance \in Int /\ b.compliance \in Int /\ c.compliance \in Int
      /\ a.name \in Nat /\ b.name \in Nat /\ c.name \in Nat /\ (a # b => a.name # b.name)
  BY ScoredBidder DEF AreBidders
<1>2. ~S!HigherScore(a, a)
  BY ScoresAreOrdered
<1>3. /\ S!HigherScore(a, b) \/ S!HigherScore(b, a) \/ S!SameScore(a, b)
      /\ S!SameScore(a, b) <=> S!SameScore(b, a)
      /\ S!HigherScore(a, b) /\ S!HigherScore(b, c) => S!HigherScore(a, c)
      /\ S!HigherScore(a, b) /\ S!SameScore(b, c) => S!HigherScore(a, c)
      /\ S!SameScore(a, b) /\ S!HigherScore(b, c) => S!HigherScore(a, c)
  BY ScoresAreOrdered
<1>4. S!SameScore(a, b) /\ S!SameScore(b, c) => S!SameScore(a, c)
  <2>1. S!SameScore(a, b) /\ S!SameScore(b, c) => S!HigherScore(a, c) \/ S!SameScore(a, c)
    BY ScoresAreOrdered
  <2>2. S!SameScore(c, b) /\ S!SameScore(b, a) => S!HigherScore(c, a) \/ S!SameScore(c, a)
    BY ScoresAreOrdered
  <2>3. /\ S!SameScore(a, b) <=> S!SameScore(b, a)
        /\ S!SameScore(b, c) <=> S!SameScore(c, b)
        /\ S!SameScore(a, c) <=> S!SameScore(c, a)
        /\ ~(S!HigherScore(a, c) /\ S!HigherScore(c, a))
    BY ScoresAreOrdered
  <2> QED BY <2>1, <2>2, <2>3
<1> QED BY <1>1, <1>2, <1>3, <1>4 DEF S!Precedes

\* Who stands above displays no lower Score (score.ts).
LEMMA BetterDisplaysNoLess ==
    ASSUME NEW B, AreBidders(B), NEW a \in S!Scored(B), NEW b \in S!Scored(B), S!Precedes(a, b)
    PROVE  S!Displayed(a) >= S!Displayed(b)
<1> DEFINE n1 == a.score.num
           d1 == a.score.den
           n2 == b.score.num
           d2 == b.score.den
<1>1. n1 \in Nat /\ n2 \in Nat /\ d1 \in Nat \ {0} /\ d2 \in Nat \ {0}
  BY ScoredBidder
<1>2. n1 * d2 >= n2 * d1
  <2>1. n1 * d2 > n2 * d1 \/ n1 * d2 = n2 * d1
    BY DEF S!Precedes, S!HigherScore, S!SameScore
  <2> HIDE DEF n1, d1, n2, d2
  <2>2. n1 * d2 \in Int /\ n2 * d1 \in Int
    BY <1>1
  <2> QED BY <2>1, <2>2
<1>3. /\ S!Displayed(a) = (20 * n1 + 8 * d1) \div (2 * 8 * d1)
      /\ S!Displayed(b) = (20 * n2 + 8 * d2) \div (2 * 8 * d2)
  BY DEF S!Displayed, S!Point
<1> HIDE DEF n1, d1, n2, d2
<1>4. 2 * 8 * d1 \in Nat \ {0} /\ 2 * 8 * d2 \in Nat \ {0} /\ 20 * n1 + 8 * d1 \in Int /\ 20 * n2 + 8 * d2 \in Int
  BY <1>1
<1>5. (20 * n1 + 8 * d1) * (2 * 8 * d2) >= (20 * n2 + 8 * d2) * (2 * 8 * d1)
  <2> DEFINE p == n1 * d2
             q == n2 * d1
             r == d1 * d2
  <2>1. (20 * n1 + 8 * d1) * (2 * 8 * d2) = 320 * p + 128 * r
    BY <1>1
  <2>2. (20 * n2 + 8 * d2) * (2 * 8 * d1) = 320 * q + 128 * r
    BY <1>1
  <2>3. p \in Int /\ q \in Int /\ r \in Int /\ p >= q
    BY <1>1, <1>2
  <2> HIDE DEF p, q, r
  <2>4. 320 * p + 128 * r >= 320 * q + 128 * r
    BY <2>3
  <2> QED BY <2>1, <2>2, <2>4
<1>6. (20 * n1 + 8 * d1) \div (2 * 8 * d1) >= (20 * n2 + 8 * d2) \div (2 * 8 * d2)
  BY <1>4, <1>5, QuotientKeepsOrder
<1> QED BY <1>3, <1>6

\* What is displayed is a number.
LEMMA DisplayedIsANumber ==
    ASSUME NEW B, AreBidders(B), NEW b \in S!Scored(B)
    PROVE  S!Displayed(b) \in Int
<1> DEFINE n == b.score.num
           d == b.score.den
<1>1. n \in Nat /\ d \in Nat \ {0}
  BY ScoredBidder
<1>2. S!Displayed(b) = (20 * n + 8 * d) \div (2 * 8 * d)
  BY DEF S!Displayed, S!Point
<1> HIDE DEF n, d
<1>3. 20 * n + 8 * d \in Int /\ 2 * 8 * d \in Nat \ {0}
  BY <1>1
<1>4. \A u \in Int, v \in Nat \ {0} : u \div v \in Int
  OBVIOUS
<1> QED BY <1>2, <1>3, <1>4

-----------------------------------------------------------------------------
(* A set in order.                                                         *)

(* A set in the order of the pairs in R. *)
StrictlyOrders(R, N) ==
    \A a, b, c \in N : /\ <<a, a>> \notin R
                       /\ <<a, b>> \in R /\ <<b, c>> \in R => <<a, c>> \in R
                       /\ a # b => <<a, b>> \in R \/ <<b, a>> \in R
Ahead(b, R, N) == {c \in N \ {b} : <<c, b>> \in R}
InOrder(R, N) == [i \in 1..Cardinality(N) |-> CHOOSE b \in N : 1 + Cardinality(Ahead(b, R, N)) = i]

\* A place is one more than those ahead, and there are as many places as
\* members.
LEMMA PlaceIs ==
    ASSUME NEW N, IsFiniteSet(N), NEW R, NEW b \in N
    PROVE  /\ IsFiniteSet(Ahead(b, R, N)) /\ Cardinality(N) \in Nat /\ Cardinality(Ahead(b, R, N)) \in Nat
           /\ 1 + Cardinality(Ahead(b, R, N)) \in 1..Cardinality(N)
<1> DEFINE p == Ahead(b, R, N)
<1>1. IsFiniteSet(N \ {b}) /\ Cardinality(N \ {b}) = Cardinality(N) - 1 /\ Cardinality(N) \in Nat
  BY FS_RemoveElement, FS_CardinalityType
<1>2. p \in SUBSET (N \ {b})
  BY DEF Ahead
<1> HIDE DEF p
<1>3. IsFiniteSet(p) /\ Cardinality(p) <= Cardinality(N) - 1 /\ Cardinality(p) \in Nat
  <2>1. IsFiniteSet(p) /\ Cardinality(p) <= Cardinality(N \ {b})
    BY <1>1, <1>2, FS_Subset
  <2> QED BY <1>1, <2>1, FS_CardinalityType
<1>4. 1 + Cardinality(p) \in 1..Cardinality(N)
  BY <1>1, <1>3
<1> QED BY <1>1, <1>3, <1>4 DEF p

\* Who is ahead has the smaller place.
LEMMA PlacesAreOrdered ==
    ASSUME NEW N, IsFiniteSet(N), NEW R, StrictlyOrders(R, N), NEW a \in N, NEW b \in N, <<a, b>> \in R
    PROVE  Cardinality(Ahead(a, R, N)) < Cardinality(Ahead(b, R, N))
<1> DEFINE p == Ahead(a, R, N)
           q == Ahead(b, R, N)
<1>1. IsFiniteSet(p) /\ IsFiniteSet(q) /\ Cardinality(p) \in Nat /\ Cardinality(q) \in Nat
  BY PlaceIs
<1>2. a \notin p
  BY DEF Ahead
<1>3. p \cup {a} \in SUBSET q
  <2>1. \A c \in p \cup {a} : c \in N /\ <<c, b>> \in R /\ c # b
    BY DEF StrictlyOrders, Ahead
  <2> QED BY <2>1 DEF Ahead
<1> HIDE DEF p, q
<1>4. IsFiniteSet(p \cup {a}) /\ Cardinality(p \cup {a}) = Cardinality(p) + 1
  BY <1>1, <1>2, FS_AddElement
<1>5. Cardinality(p \cup {a}) <= Cardinality(q)
  BY <1>1, <1>3, FS_Subset
<1> QED BY <1>1, <1>4, <1>5 DEF p, q

\* InOrder lists every member once, each after those ahead of it.
LEMMA InOrderIs ==
    ASSUME NEW N, IsFiniteSet(N), NEW R, StrictlyOrders(R, N)
    PROVE  LET n == Cardinality(N)
               sorted == InOrder(R, N)
           IN /\ n \in Nat /\ DOMAIN sorted = 1..n
              /\ sorted \in Seq(N) /\ Len(sorted) = n
              /\ \A i \in 1..n : sorted[i] \in N
              /\ \A b \in N : \E i \in 1..n : sorted[i] = b
              /\ \A i, j \in 1..n : i < j => <<sorted[i], sorted[j]>> \in R
<1> DEFINE n == Cardinality(N)
           sorted == InOrder(R, N)
           place == [b \in N |-> 1 + Cardinality(Ahead(b, R, N))]
<1>1. n \in Nat
  BY FS_CardinalityType
<1>2. ASSUME NEW a \in N, NEW b \in N PROVE /\ <<a, b>> \in R => place[a] < place[b]
                                            /\ place[a] = place[b] => a = b
                                            /\ place[a] \in 1..n
  <2>1. <<a, b>> \in R => place[a] < place[b]
    <3>1. Cardinality(Ahead(a, R, N)) \in Nat /\ Cardinality(Ahead(b, R, N)) \in Nat
      BY PlaceIs
    <3>2. <<a, b>> \in R => Cardinality(Ahead(a, R, N)) < Cardinality(Ahead(b, R, N))
      BY PlacesAreOrdered
    <3> QED BY <3>1, <3>2
  <2>2. <<b, a>> \in R => place[b] < place[a]
    <3>1. Cardinality(Ahead(a, R, N)) \in Nat /\ Cardinality(Ahead(b, R, N)) \in Nat
      BY PlaceIs
    <3>2. <<b, a>> \in R => Cardinality(Ahead(b, R, N)) < Cardinality(Ahead(a, R, N))
      BY PlacesAreOrdered
    <3> QED BY <3>1, <3>2
  <2>3. place[a] \in 1..n /\ place[b] \in 1..n
    BY PlaceIs
  <2>4. a # b => <<a, b>> \in R \/ <<b, a>> \in R
    BY DEF StrictlyOrders
  <2> HIDE DEF place, n
  <2> QED BY <1>1, <2>1, <2>2, <2>3, <2>4
<1>3. sorted = [i \in 1..n |-> CHOOSE b \in N : 1 + Cardinality(Ahead(b, R, N)) = i]
  BY DEF InOrder
<1>4. \A b \in N : place[b] = 1 + Cardinality(Ahead(b, R, N))
  OBVIOUS
<1>4a. place \in [N -> 1..n]
  BY <1>2
<1> HIDE DEF n, place
<1>5. \A i \in 1..n : \E b \in N : place[b] = i
  <2>1. place \in Injection(N, 1..n)
    BY <1>2, <1>4a DEF Injection, IsInjective
  <2>2. IsFiniteSet(1..n) /\ Cardinality(1..n) = n
    BY <1>1, FS_Interval
  <2>3. Cardinality(N) = Cardinality(1..n) <=> place \in Surjection(N, 1..n)
    BY <2>1, <2>2, FS_Injection
  <2>4. place \in Surjection(N, 1..n)
    BY <2>2, <2>3 DEF n
  <2> QED BY <2>4 DEF Surjection
<1> HIDE DEF sorted
<1>6. ASSUME NEW i \in 1..n PROVE sorted[i] \in N /\ place[sorted[i]] = i
  <2>1. \E b \in N : 1 + Cardinality(Ahead(b, R, N)) = i
    BY <1>4, <1>5
  <2>2. sorted[i] = CHOOSE b \in N : 1 + Cardinality(Ahead(b, R, N)) = i
    BY <1>3
  <2>3. sorted[i] \in N /\ 1 + Cardinality(Ahead(sorted[i], R, N)) = i
    BY <2>1, <2>2
  <2> QED BY <1>4, <2>3
<1>7. ASSUME NEW b \in N PROVE \E i \in 1..n : sorted[i] = b
  <2>1. place[b] \in 1..n
    BY <1>2
  <2>2. sorted[place[b]] \in N /\ place[sorted[place[b]]] = place[b]
    BY <1>6, <2>1
  <2> QED BY <1>2, <2>1, <2>2
<1>8. ASSUME NEW i \in 1..n, NEW j \in 1..n, i < j PROVE <<sorted[i], sorted[j]>> \in R
  <2>1. sorted[i] \in N /\ sorted[j] \in N /\ place[sorted[i]] = i /\ place[sorted[j]] = j
    BY <1>6
  <2>2. sorted[i] # sorted[j]
    BY <1>1, <1>8, <2>1
  <2>3. <<sorted[i], sorted[j]>> \in R \/ <<sorted[j], sorted[i]>> \in R
    BY <2>1, <2>2 DEF StrictlyOrders
  <2>4. <<sorted[j], sorted[i]>> \in R => j < i
    BY <1>2, <2>1
  <2> QED BY <1>1, <1>8, <2>3, <2>4
<1>9. DOMAIN sorted = 1..n /\ sorted \in [1..n -> N]
  BY <1>3, <1>6
<1>10. sorted \in Seq(N) /\ Len(sorted) = n
  BY <1>1, <1>9
<1> QED BY <1>1, <1>6, <1>7, <1>8, <1>9, <1>10 DEF n, sorted

\* The module counts as this one does.
LEMMA CountedAlike ==
    ASSUME NEW T
    PROVE  S!Cardinality(T) = Cardinality(T)
BY DEF S!Cardinality, Cardinality

\* Sorted lists every bidder that has a Score, each after those that precede
\* it (score.ts).
LEMMA SortedIs ==
    ASSUME NEW B, AreBidders(B)
    PROVE  LET n == Cardinality(S!Scored(B))
               sorted == S!Sorted(B)
           IN /\ n \in Nat /\ DOMAIN sorted = 1..n
              /\ sorted \in Seq(S!Scored(B)) /\ Len(sorted) = n
              /\ \A i \in 1..n : sorted[i] \in S!Scored(B)
              /\ \A b \in S!Scored(B) : \E i \in 1..n : sorted[i] = b
              /\ \A i, j \in 1..n : i < j => S!Precedes(sorted[i], sorted[j])
<1> DEFINE N == S!Scored(B)
           R == {p \in N \X N : S!Precedes(p[1], p[2])}
<1>1. IsFiniteSet(N)
  <2>1. N \in SUBSET B /\ IsFiniteSet(B)
    BY DEF S!Scored, AreBidders
  <2> HIDE DEF N
  <2> QED BY <2>1, FS_Subset
<1>2. \A a, b \in N : <<a, b>> \in R <=> S!Precedes(a, b)
  OBVIOUS
<1>3. StrictlyOrders(R, N)
  <2> SUFFICES ASSUME NEW a \in N, NEW b \in N, NEW c \in N
               PROVE  /\ <<a, a>> \notin R
                      /\ <<a, b>> \in R /\ <<b, c>> \in R => <<a, c>> \in R
                      /\ a # b => <<a, b>> \in R \/ <<b, a>> \in R
    BY DEF StrictlyOrders
  <2> HIDE DEF R
  <2> QED BY <1>2, BiddersAreOrdered
<1>4. S!Sorted(B) = InOrder(R, N)
  <2>1. \A b \in N : {c \in N \ {b} : S!Precedes(c, b)} = Ahead(b, R, N)
    BY <1>2 DEF Ahead
  <2>2. \A b \in N : S!Place(b, B) = 1 + Cardinality(Ahead(b, R, N))
    BY <2>1, CountedAlike DEF S!Place
  <2> HIDE DEF N, R
  <2>3. ASSUME NEW i PROVE (CHOOSE b \in N : S!Place(b, B) = i) = CHOOSE b \in N : 1 + Cardinality(Ahead(b, R, N)) = i
    BY <2>2
  <2>4. S!Sorted(B) = [i \in 1..Cardinality(N) |-> CHOOSE b \in N : S!Place(b, B) = i]
    BY CountedAlike DEF S!Sorted, N
  <2> QED BY <2>3, <2>4, Zenon DEF InOrder
<1> HIDE DEF R, N
<1>5. /\ Cardinality(N) \in Nat /\ DOMAIN InOrder(R, N) = 1..Cardinality(N)
      /\ InOrder(R, N) \in Seq(N) /\ Len(InOrder(R, N)) = Cardinality(N)
      /\ \A i \in 1..Cardinality(N) : InOrder(R, N)[i] \in N
      /\ \A b \in N : \E i \in 1..Cardinality(N) : InOrder(R, N)[i] = b
      /\ \A i, j \in 1..Cardinality(N) : i < j => <<InOrder(R, N)[i], InOrder(R, N)[j]>> \in R
  BY <1>1, <1>3, InOrderIs
<1> QED BY <1>2, <1>4, <1>5 DEF N

-----------------------------------------------------------------------------
(* Ranks.                                                                  *)

RankFold(rows) ==
    CHOOSE g : g = [s \in SUBSET (DOMAIN rows) |->
                       IF s = {} THEN <<>> ELSE S!RankNext(g[s \ {Max(s)}], rows[Max(s)])]

\* The Shortlist is the end of a fold over the sorted bidders (score.ts).
LEMMA ShortlistIsFold ==
    ASSUME NEW B
    PROVE  S!BuildShortlist(B) = RankFold(S!Sorted(B))[DOMAIN S!Sorted(B)]
BY Zenon DEF RankFold, S!BuildShortlist, S!FoldLeft, S!MapThenFoldSet, S!Max, Max

\* What one more bidder adds to the Shortlist (score.ts).
LEMMA RankNextIs ==
    ASSUME NEW U, NEW acc \in Seq([row : U, rank : Nat]), NEW b \in U
    PROVE  LET last == acc[Len(acc)]
               tied == acc # <<>> /\ S!Displayed(b) = S!Displayed(last.row)
               next == [row |-> b, rank |-> IF tied THEN last.rank ELSE Len(acc) + 1]
           IN /\ S!RankNext(acc, b) = Append(acc, next)
              /\ next \in [row : U, rank : Nat]
              /\ S!RankNext(acc, b) \in Seq([row : U, rank : Nat])
<1> DEFINE last == acc[Len(acc)]
           tied == acc # <<>> /\ S!Displayed(b) = S!Displayed(last.row)
           next == [row |-> b, rank |-> IF tied THEN last.rank ELSE Len(acc) + 1]
<1>1. S!RankNext(acc, b) = Append(acc, next)
  BY DEF S!RankNext, S!Last
<1>2. tied => last.rank \in Nat
  <2> SUFFICES ASSUME acc # <<>> PROVE last.rank \in Nat
    OBVIOUS
  <2>1. Len(acc) \in 1..Len(acc)
    OBVIOUS
  <2>2. \A R : acc \in Seq(R) => \A i \in 1..Len(acc) : acc[i] \in R
    OBVIOUS
  <2>3. last \in [row : U, rank : Nat]
    BY <2>1, <2>2, Zenon
  <2> QED BY <2>3
<1>3. next \in [row : U, rank : Nat]
  <2>1. Len(acc) + 1 \in Nat
    OBVIOUS
  <2> HIDE DEF tied, last
  <2> QED BY <1>2, <2>1
<1> HIDE DEF next
<1>4. Append(acc, next) \in Seq([row : U, rank : Nat])
  BY <1>3
<1> QED BY <1>1, <1>3, <1>4 DEF next

\* The list after k bidders is one more than the list after k - 1.
LEMMA RankRun ==
    ASSUME NEW U, NEW rows \in Seq(U)
    PROVE  LET acc(k) == RankFold(rows)[1..k] IN
           /\ acc(0) = <<>>
           /\ \A k \in 0..Len(rows) : acc(k) \in Seq([row : U, rank : Nat])
           /\ \A k \in 1..Len(rows) : acc(k) = S!RankNext(acc(k - 1), rows[k])
<1> DEFINE n == Len(rows)
           V == Seq([row : U, rank : Nat])
           F == [p \in V \X (1..n) |-> S!RankNext(p[1], rows[p[2]])]
           base == <<>>
           Eq(g) == g = [s \in SUBSET (DOMAIN rows) |->
                            IF s = {} THEN base ELSE S!RankNext(g[s \ {Max(s)}], rows[Max(s)])]
           fold == RankFold(rows)
           H == [s \in SUBSET (1..n) |-> S!RankNext(fold[s \ {Max(s)}], rows[Max(s)])]
<1>0. n \in Nat /\ DOMAIN rows = 1..n /\ (\A k \in 1..n : rows[k] \in U)
  OBVIOUS
<1>1. base \in V
  OBVIOUS
<1>2. ASSUME NEW v \in V, NEW k \in 1..n PROVE F[<<v, k>>] = S!RankNext(v, rows[k]) /\ F[<<v, k>>] \in V
  <2>1. F[<<v, k>>] = S!RankNext(v, rows[k])
    OBVIOUS
  <2>2. S!RankNext(v, rows[k]) \in V
    BY <1>0, RankNextIs
  <2> QED BY <2>1, <2>2
<1>h. \A s \in SUBSET (1..n) : H[s] = S!RankNext(fold[s \ {Max(s)}], rows[Max(s)])
  OBVIOUS
<1> HIDE DEF n, V, F, base, H
<1>3. PICK g : FoldsTo(g, n, V, base, F)
  BY <1>0, <1>1, <1>2, FoldExists
<1>4. ASSUME NEW s \in SUBSET (1..n), s # {} PROVE Max(s) \in 1..n /\ s \ {Max(s)} \in SUBSET (1..n)
  BY <1>0, <1>4, MaxOf
<1>5. ASSUME NEW s \in SUBSET (1..n)
      PROVE  g[s] = IF s = {} THEN base ELSE S!RankNext(g[s \ {Max(s)}], rows[Max(s)])
  <2>1. CASE s = {}
    BY <1>3, <2>1 DEF FoldsTo
  <2>2. CASE s # {}
    <3>1. Max(s) \in 1..n /\ g[s \ {Max(s)}] \in V
      BY <1>3, <1>4, <2>2 DEF FoldsTo
    <3>2. g[s] = F[<<g[s \ {Max(s)}], Max(s)>>]
      BY <1>3, <2>2 DEF FoldsTo
    <3> QED BY <1>2, <2>2, <3>1, <3>2
  <2> QED BY <2>1, <2>2
<1>6. Eq(g)
  <2>1. g = [s \in SUBSET (1..n) |-> g[s]]
    BY <1>3 DEF FoldsTo
  <2>2. g = [s \in SUBSET (1..n) |-> IF s = {} THEN base ELSE S!RankNext(g[s \ {Max(s)}], rows[Max(s)])]
    BY <1>5, <2>1, Zenon
  <2> QED BY <1>0, <2>2
<1>7. Eq(fold)
  <2>1. \E h : Eq(h)
    BY <1>6
  <2>2. fold = CHOOSE h : Eq(h)
    BY DEF RankFold, base
  <2> HIDE DEF Eq, fold
  <2> QED BY <2>1, <2>2
<1> HIDE DEF fold
<1>8. Unrolled(fold, H, n, base)
  BY <1>0, <1>7, <1>h DEF Unrolled
<1>9. Stays(F, V, n)
  BY <1>2 DEF Stays
<1>10. StepsBy(H, fold, F, V, n)
  <2> SUFFICES ASSUME NEW s \in SUBSET (1..n), s # {}, fold[s \ {Max(s)}] \in V
               PROVE  H[s] = F[<<fold[s \ {Max(s)}], Max(s)>>]
    BY DEF StepsBy
  <2>1. Max(s) \in 1..n
    BY <1>4
  <2> QED BY <1>2, <1>h, <2>1
<1>11. Runs(fold, F, V, n, base)
  BY <1>0, <1>1, <1>8, <1>9, <1>10, FoldRuns
<1>12. \A k \in 1..n : fold[1..k] = S!RankNext(fold[1..(k - 1)], rows[k])
  <2> SUFFICES ASSUME NEW k \in 1..n PROVE fold[1..k] = S!RankNext(fold[1..(k - 1)], rows[k])
    OBVIOUS
  <2>1. k - 1 \in 0..n
    BY <1>0
  <2> QED BY <1>2, <1>11, <2>1 DEF Runs
<1> QED BY <1>11, <1>12 DEF Runs, fold, n, V, base

Better(b, B) == {c \in S!Scored(B) : S!Displayed(c) > S!Displayed(b)}
RankOf(b, B) == 1 + Cardinality(Better(b, B))

\* Who displays more stands first: a bidder that does not tie with the one
\* above has exactly those above it before it (score.ts).
LEMMA BetterAreFirst ==
    ASSUME NEW B, AreBidders(B), NEW k \in 1..Cardinality(S!Scored(B)), k > 1
    PROVE  LET b == S!Sorted(B)[k]
               a == S!Sorted(B)[k - 1]
           IN RankOf(b, B) = IF S!Displayed(b) = S!Displayed(a) THEN RankOf(a, B) ELSE k
<1> DEFINE N == S!Scored(B)
           n == Cardinality(N)
           sorted == S!Sorted(B)
           b == sorted[k]
           a == sorted[k - 1]
           shown(c) == S!Displayed(c)
<1> SUFFICES RankOf(b, B) = IF S!Displayed(b) = S!Displayed(a) THEN RankOf(a, B) ELSE k
  OBVIOUS
<1>1. /\ n \in Nat
      /\ \A i \in 1..n : sorted[i] \in N
      /\ \A c \in N : \E i \in 1..n : sorted[i] = c
      /\ \A i, j \in 1..n : i < j => S!Precedes(sorted[i], sorted[j])
  BY SortedIs
<1>2. /\ \A c \in N : shown(c) \in Int
      /\ \A c, d \in N : S!Precedes(c, d) => shown(c) >= shown(d)
  BY DisplayedIsANumber, BetterDisplaysNoLess
<1>3. Better(b, B) = {c \in N : shown(c) > shown(b)} /\ Better(a, B) = {c \in N : shown(c) > shown(a)}
  BY DEF Better
<1>4. k - 1 \in 1..n /\ k \in 1..n
  BY <1>1
<1>5. CASE shown(b) = shown(a)
  <2>1. Better(b, B) = Better(a, B)
    <3> HIDE DEF N, shown
    <3> QED BY <1>3, <1>5
  <2>2. RankOf(b, B) = RankOf(a, B)
    BY <2>1 DEF RankOf
  <2> QED BY <1>5, <2>2
<1>6. CASE shown(b) # shown(a)
  <2> DEFINE first == [i \in 1..(k - 1) |-> sorted[i]]
  <2> HIDE DEF N, shown, n, sorted
  <2>1. shown(a) > shown(b)
    <3>1. S!Precedes(a, b) /\ a \in N /\ b \in N
      BY <1>1, <1>4
    <3> HIDE DEF a, b
    <3> QED BY <1>2, <1>6, <3>1
  <2>2. ASSUME NEW i \in 1..(k - 1) PROVE sorted[i] \in N /\ shown(sorted[i]) > shown(b)
    <3>1. i \in 1..n /\ (i = k - 1 \/ i < k - 1)
      BY <1>1, <1>4
    <3>2. sorted[i] \in N /\ a \in N /\ b \in N
      BY <1>1, <1>4, <3>1
    <3>3. i # k - 1 => S!Precedes(sorted[i], a)
      BY <1>1, <1>4, <3>1
    <3>4. shown(sorted[i]) >= shown(a)
      BY <1>2, <3>1, <3>2, <3>3
    <3> HIDE DEF a, b
    <3> QED BY <1>2, <2>1, <3>2, <3>4
  <2>3. ASSUME NEW c \in N, shown(c) > shown(b) PROVE \E i \in 1..(k - 1) : sorted[i] = c
    <3>1. PICK i \in 1..n : sorted[i] = c
      BY <1>1
    <3>2. i < k
      <4> SUFFICES ASSUME i >= k PROVE FALSE
        BY <1>1, <1>4
      <4>1. i = k \/ S!Precedes(b, c)
        BY <1>1, <1>4, <3>1
      <4>2. c = b \/ S!Precedes(b, c)
        BY <3>1, <4>1
      <4>3. b \in N
        BY <1>1, <1>4
      <4>4. shown(b) >= shown(c)
        BY <1>2, <4>2, <4>3
      <4> HIDE DEF b
      <4> QED BY <1>2, <2>3, <4>3, <4>4
    <3> QED BY <1>4, <3>1, <3>2
  <2>4. ASSUME NEW i \in 1..(k - 1), NEW j \in 1..(k - 1), sorted[i] = sorted[j] PROVE i = j
    <3>1. i \in 1..n /\ j \in 1..n
      BY <1>1, <1>4
    <3>2. ~S!Precedes(sorted[i], sorted[i])
      BY <1>1, <3>1, BiddersAreOrdered DEF N
    <3>3. ~(i < j) /\ ~(j < i)
      BY <1>1, <2>4, <3>1, <3>2
    <3> QED BY <1>1, <3>1, <3>3
  <2>5. first \in Bijection(1..(k - 1), Better(b, B))
    <3>1. first \in [1..(k - 1) -> Better(b, B)]
      BY <1>3, <2>2
    <3>2. \A c \in Better(b, B) : \E i \in 1..(k - 1) : first[i] = c
      BY <1>3, <2>3
    <3>3. \A i, j \in 1..(k - 1) : first[i] = first[j] => i = j
      BY <2>4
    <3> HIDE DEF first
    <3> QED BY <3>1, <3>2, <3>3 DEF Bijection, Injection, Surjection, IsInjective
  <2>6. Cardinality(Better(b, B)) = k - 1
    <3>1. ExistsBijection(1..(k - 1), Better(b, B))
      BY <2>5 DEF ExistsBijection
    <3>2. k - 1 \in Nat
      BY <1>4, <1>1
    <3> HIDE DEF b
    <3> QED BY <3>1, <3>2, FS_CountingElements
  <2>7. RankOf(b, B) = k
    BY <1>1, <1>4, <2>6 DEF RankOf
  <2> QED BY <1>6, <2>7 DEF shown

<1> QED BY <1>5, <1>6, Zenon

\* Nobody displays more than the first (score.ts).
LEMMA FirstRanksFirst ==
    ASSUME NEW B, AreBidders(B), 1 <= Cardinality(S!Scored(B))
    PROVE  RankOf(S!Sorted(B)[1], B) = 1
<1> DEFINE N == S!Scored(B)
           n == Cardinality(N)
           sorted == S!Sorted(B)
           b == sorted[1]
<1>1. /\ n \in Nat
      /\ \A i \in 1..n : sorted[i] \in N
      /\ \A c \in N : \E i \in 1..n : sorted[i] = c
      /\ \A i, j \in 1..n : i < j => S!Precedes(sorted[i], sorted[j])
  BY SortedIs
<1>2. 1 \in 1..n /\ b \in N
  BY <1>1
<1>3. ASSUME NEW c \in N PROVE ~(S!Displayed(c) > S!Displayed(b))
  <2>1. PICK i \in 1..n : sorted[i] = c
    BY <1>1
  <2>2. c = b \/ S!Precedes(b, c)
    BY <1>1, <1>2, <2>1
  <2>3. S!Displayed(b) \in Int /\ S!Displayed(c) \in Int /\ (c = b \/ S!Displayed(b) >= S!Displayed(c))
    BY <1>2, <2>2, DisplayedIsANumber, BetterDisplaysNoLess
  <2> HIDE DEF b
  <2> QED BY <2>3
<1>4. Better(b, B) = {}
  BY <1>3 DEF Better
<1>5. Cardinality(Better(b, B)) = 0
  BY <1>4, FS_EmptySet
<1> QED BY <1>5 DEF RankOf

\* The rank of every bidder is its place among all that display a Score,
\* however many share one (score.ts).
LEMMA ShortlistIs ==
    ASSUME NEW B, AreBidders(B)
    PROVE  LET n == Cardinality(S!Scored(B)) IN
           /\ DOMAIN S!BuildShortlist(B) = 1..n
           /\ \A i \in 1..n : S!BuildShortlist(B)[i] = [row |-> S!Sorted(B)[i], rank |-> RankOf(S!Sorted(B)[i], B)]
<1> DEFINE N == S!Scored(B)
           n == Cardinality(N)
           sorted == S!Sorted(B)
           V == Seq([row : N, rank : Nat])
           acc(k) == RankFold(sorted)[1..k]
           entry(i) == [row |-> sorted[i], rank |-> RankOf(sorted[i], B)]
           Good(k) == Len(acc(k)) = k /\ \A i \in 1..k : acc(k)[i] = entry(i)
           T == {k \in Nat : k <= n => Good(k)}
<1>1. n \in Nat /\ DOMAIN sorted = 1..n /\ sorted \in Seq(N) /\ Len(sorted) = n /\ \A i \in 1..n : sorted[i] \in N
  BY SortedIs
<1>2. /\ acc(0) = <<>>
      /\ \A k \in 0..n : acc(k) \in V
      /\ \A k \in 1..n : acc(k) = S!RankNext(acc(k - 1), sorted[k])
  BY <1>1, RankRun
<1>3. 0 \in T
  BY <1>2
<1>4. ASSUME NEW k \in Nat, k \in T PROVE k + 1 \in T
  <2> SUFFICES ASSUME k + 1 <= n PROVE Good(k + 1)
    OBVIOUS
  <2> DEFINE old == acc(k)
             b == sorted[k + 1]
             last == old[Len(old)]
             tied == old # <<>> /\ S!Displayed(b) = S!Displayed(last.row)
             next == [row |-> b, rank |-> IF tied THEN last.rank ELSE Len(old) + 1]
  <2>1. k + 1 \in 1..n /\ k \in 0..n /\ (k + 1) - 1 = k /\ k <= n
    BY <1>1
  <2>2. old \in V /\ acc(k + 1) = S!RankNext(old, b) /\ b \in N
    BY <1>1, <1>2, <2>1
  <2>3. Good(k)
    BY <1>4, <2>1
  <2>4. Len(old) = k /\ \A i \in 1..k : old[i] = entry(i)
    BY <2>3
  <2>5. acc(k + 1) = Append(old, next) /\ next \in [row : N, rank : Nat]
    <3>1. old \in Seq([row : N, rank : Nat]) /\ b \in N
      BY <2>2
    <3>2. S!RankNext(old, b) = Append(old, next) /\ next \in [row : N, rank : Nat]
      <4> HIDE DEF old, b, N
      <4> QED BY <3>1, RankNextIs, Zenon
    <3> QED BY <2>2, <3>2
  <2>6. next = entry(k + 1)
    <3>1. CASE k = 0
      <4>1. old = <<>>
        BY <1>2, <3>1
      <4>2. next.rank = 1 /\ next.row = sorted[1]
        BY <2>4, <3>1, <4>1
      <4>3. RankOf(sorted[1], B) = 1
        BY <1>1, <2>1, <3>1, FirstRanksFirst
      <4>4. next = [row |-> sorted[1], rank |-> 1]
        BY <2>4, <3>1, <4>1
      <4>5. entry(k + 1) = [row |-> sorted[1], rank |-> 1]
        BY <3>1, <4>3
      <4> QED BY <4>4, <4>5
    <3>2. CASE k # 0
      <4>1. k \in 1..k /\ old # <<>>
        BY <2>4, <3>2
      <4>2. last = entry(k)
        BY <2>4, <4>1
      <4>3. last.row = sorted[k] /\ last.rank = RankOf(sorted[k], B)
        BY <4>2
      <4>4. RankOf(b, B) = IF S!Displayed(b) = S!Displayed(sorted[k]) THEN RankOf(sorted[k], B) ELSE k + 1
        <5>1. k + 1 > 1
          BY <3>2
        <5> QED BY <2>1, <5>1, BetterAreFirst
      <4>5. next.rank = IF S!Displayed(b) = S!Displayed(sorted[k]) THEN RankOf(sorted[k], B) ELSE k + 1
        <5> HIDE DEF last, old, b
        <5> QED BY <2>4, <4>1, <4>3
      <4>6. next.rank = RankOf(b, B)
        BY <4>4, <4>5
      <4> QED BY <4>6
    <3> QED BY <3>1, <3>2
  <2> HIDE DEF acc, next, entry
  <2>7. Len(acc(k + 1)) = k + 1 /\ acc(k + 1)[k + 1] = next /\ \A i \in 1..k : acc(k + 1)[i] = old[i]
    <3> HIDE DEF old, N
    <3> QED BY <2>2, <2>4, <2>5, AppendProperties
  <2>8. ASSUME NEW i \in 1..(k + 1) PROVE acc(k + 1)[i] = entry(i)
    <3>1. i = k + 1 \/ i \in 1..k
      OBVIOUS
    <3> HIDE DEF old
    <3> QED BY <2>4, <2>6, <2>7, <3>1
  <2> QED BY <2>7, <2>8
<1>5. Good(n)
  <2> HIDE DEF T
  <2>1. n \in T
    BY <1>1, <1>3, <1>4, AllNumbers
  <2> HIDE DEF Good
  <2> QED BY <1>1, <2>1 DEF T
<1>6. S!BuildShortlist(B) = acc(n)
  BY <1>1, ShortlistIsFold
<1>7. acc(n) \in V
  <2>1. n \in 0..n
    BY <1>1
  <2> HIDE DEF acc, V
  <2> QED BY <1>2, <2>1
<1>8. DOMAIN acc(n) = 1..n
  <2> HIDE DEF acc, V
  <2>1. Len(acc(n)) = n
    BY <1>5
  <2>2. DOMAIN acc(n) = 1..Len(acc(n))
    BY <1>7 DEF V
  <2> QED BY <2>1, <2>2
<1> QED BY <1>5, <1>6, <1>8

-----------------------------------------------------------------------------
(* One ranking.                                                            *)

\* A facet hides rows and moves no rank (shortlist.ts).
LEMMA ShortlistShows ==
    ASSUME NEW B, AreBidders(B), NEW facets
    PROVE  S!LoadShortlist(B, facets)
             = {[name |-> b.name, rank |-> RankOf(b, B), visible |-> S!MatchesFacets(b, facets)] : b \in S!Scored(B)}
<1> DEFINE N == S!Scored(B)
           n == Cardinality(N)
           sorted == S!Sorted(B)
           rows == S!BuildShortlist(B)
           shown(b) == [name |-> b.name, rank |-> RankOf(b, B), visible |-> S!MatchesFacets(b, facets)]
           out(i) == [name |-> rows[i].row.name, rank |-> rows[i].rank,
                      visible |-> S!MatchesFacets(rows[i].row, facets)]
<1>1. S!LoadShortlist(B, facets) = {out(i) : i \in DOMAIN rows}
  BY DEF S!LoadShortlist
<1>2. DOMAIN rows = 1..n /\ \A i \in 1..n : rows[i] = [row |-> sorted[i], rank |-> RankOf(sorted[i], B)]
  BY ShortlistIs
<1>3. /\ \A i \in 1..n : sorted[i] \in N
      /\ \A b \in N : \E i \in 1..n : sorted[i] = b
  BY SortedIs
<1>4. ASSUME NEW i \in 1..n PROVE out(i) = shown(sorted[i])
  <2>1. rows[i].row = sorted[i] /\ rows[i].rank = RankOf(sorted[i], B)
    BY <1>2
  <2> QED BY <2>1
<1> HIDE DEF out, shown, sorted, rows, N, n
<1>5. {out(i) : i \in 1..n} = {shown(b) : b \in N}
  BY <1>3, <1>4
<1> QED BY <1>1, <1>2, <1>5 DEF shown, N

\* A Supplier's own page states the rank of the Shortlist (shortlist.ts).
LEMMA SentenceStates ==
    ASSUME NEW B, AreBidders(B), NEW b \in S!Scored(B)
    PROVE  S!RankSentence(B, b.name) = RankOf(b, B)
<1> DEFINE facets == [country |-> {}, band |-> {}]
           shown(c) == [name |-> c.name, rank |-> RankOf(c, B), visible |-> S!MatchesFacets(c, facets)]
           list == S!LoadShortlist(B, facets)
           mine == {r \in list : r.name = b.name}
<1>1. list = {shown(c) : c \in S!Scored(B)}
  BY ShortlistShows
<1>2. shown(b) \in mine
  BY <1>1
<1>3. ASSUME NEW r \in mine PROVE r.rank = RankOf(b, B)
  <2>1. PICK c \in S!Scored(B) : r = shown(c)
    BY <1>1
  <2>2. c.name = b.name
    BY <2>1
  <2>3. c = b
    BY <2>2, ScoredBidder DEF AreBidders
  <2> QED BY <2>1, <2>3
<1>4. S!RankSentence(B, b.name) = IF mine = {} THEN 0 ELSE (CHOOSE r \in mine : TRUE).rank
  BY DEF S!RankSentence
<1> HIDE DEF mine, shown
<1>5. (CHOOSE r \in mine : TRUE) \in mine
  BY <1>2
<1> QED BY <1>2, <1>3, <1>4, <1>5

\* The bidders asked about are bidders.
LEMMA AskedShortlist ==
    ASSUME Typed, Asked("shortlist")
    PROVE  AreBidders(x.bidders)
BY AskedInput, ShortlistInputs DEF Only, AreBidders

\* RanksAreOfTheWholeCategory, for every set of bidders and all facets
\* (score.ts, shortlist.ts).
LEMMA RanksAreOfTheWholeCategoryHolds ==
    ASSUME Typed
    PROVE  RanksAreOfTheWholeCategory
<1> SUFFICES ASSUME Asked("shortlist") PROVE RanksAreOfTheWholeCategory
  BY DEF RanksAreOfTheWholeCategory
<1> DEFINE B == x.bidders
           facets == x.facets
           scored == {b \in B : b.score # S!NoScore}
           rank(b) == 1 + Cardinality({c \in scored : S!Displayed(c) > S!Displayed(b)})
<1>1. AreBidders(B)
  BY AskedShortlist
<1>2. RanksAreOfTheWholeCategory
        = (/\ S!LoadShortlist(B, facets)
                = {[name |-> b.name, rank |-> rank(b), visible |-> S!MatchesFacets(b, facets)] : b \in scored}
           /\ \A b \in scored : S!RankSentence(B, b.name) = rank(b))
  BY DEF RanksAreOfTheWholeCategory
<1> HIDE DEF B, facets
<1>3. scored = S!Scored(B)
  BY DEF S!Scored
<1>4. ASSUME NEW b PROVE rank(b) = RankOf(b, B)
  BY <1>3 DEF RankOf, Better
<1> HIDE DEF rank, scored
<1>5. S!LoadShortlist(B, facets)
        = {[name |-> b.name, rank |-> rank(b), visible |-> S!MatchesFacets(b, facets)] : b \in scored}
  <2>1. S!LoadShortlist(B, facets)
          = {[name |-> b.name, rank |-> RankOf(b, B), visible |-> S!MatchesFacets(b, facets)] : b \in S!Scored(B)}
    BY <1>1, ShortlistShows
  <2>2. {[name |-> b.name, rank |-> RankOf(b, B), visible |-> S!MatchesFacets(b, facets)] : b \in S!Scored(B)}
          = {[name |-> b.name, rank |-> rank(b), visible |-> S!MatchesFacets(b, facets)] : b \in scored}
    BY <1>3, <1>4
  <2> QED BY <2>1, <2>2
<1>6. \A b \in scored : S!RankSentence(B, b.name) = rank(b)
  BY <1>1, <1>3, <1>4, SentenceStates
<1> QED BY <1>2, <1>5, <1>6

\* There is one ranking, for every set of bidders, every stored row and every
\* link (score.ts, shortlist.ts, view-state.ts, reads.ts).
THEOREM RulesRanking == Spec => []OneRanking
<1>1. Typed => OneRanking
  BY PageAgreesWithJobHolds, RanksAreOfTheWholeCategoryHolds, LinkReproducesTheRankingHolds,
     RailIsAnsweredHolds DEF OneRanking
<1> QED BY <1>1, TypedInductive, PTL DEF Spec

-----------------------------------------------------------------------------
(* What the attempts at a row recorded.                                    *)

(* The rows of a Match. *)
Cands(I, L, A, W) == [id : I, label : L, address : A, sources : Nat, verdicts : Seq(W)]

ParkedFold(rows) ==
    CHOOSE g : g = [s \in SUBSET (DOMAIN rows) |->
                       IF s = {} THEN <<>> ELSE Pick!ByEntity(g[s \ {Max(s)}], rows[Max(s)])]

\* The candidates of a row are the end of a fold over what its attempts
\* recorded (needs-review.ts).
LEMMA ParkedIsFold ==
    ASSUME NEW rows
    PROVE  Pick!LoadParkedRow(rows) = ParkedFold(rows)[DOMAIN rows]
BY Zenon DEF ParkedFold, Pick!LoadParkedRow, Pick!FoldLeft, Pick!MapThenFoldSet, Pick!Max, Max

ReportStep(all, r, id) == IF r.id = id THEN all \o r.verdicts ELSE all
ReportFold(rows, id) ==
    CHOOSE g : g = [s \in SUBSET (DOMAIN rows) |->
                       IF s = {} THEN <<>> ELSE ReportStep(g[s \ {Max(s)}], rows[Max(s)], id)]
Reports(rows, id) == FoldLeft(LAMBDA all, r : IF r.id = id THEN all \o r.verdicts ELSE all, <<>>, rows)

\* What was reported of a company is the end of a fold over the same rows.
LEMMA ReportsAreFold ==
    ASSUME NEW rows, NEW id
    PROVE  Reports(rows, id) = ReportFold(rows, id)[DOMAIN rows]
BY Zenon DEF ReportFold, ReportStep, Reports, FoldLeft, MapThenFoldSet, Max

(* A row of a company already there, and one of another. *)
SaysMore(c, row, d) ==
    /\ \E i \in 1..Len(c) : c[i].id = row.id
    /\ Len(d) = Len(c)
    /\ \A i \in 1..Len(c) : d[i].id = c[i].id
    /\ \A i \in 1..Len(c) : d[i].verdicts = IF c[i].id = row.id THEN c[i].verdicts \o row.verdicts
                                             ELSE c[i].verdicts
ComesLast(c, row, d) ==
    /\ \A i \in 1..Len(c) : c[i].id # row.id
    /\ Len(d) = Len(c) + 1 /\ d[Len(c) + 1] = row
    /\ \A i \in 1..Len(c) : d[i] = c[i]

\* One more recorded row adds to the verdicts of its company or comes last
\* (needs-review.ts).
LEMMA ByEntityIs ==
    ASSUME NEW I, NEW L, NEW A, NEW W,
           NEW c \in Seq(Cands(I, L, A, W)), NEW row \in Cands(I, L, A, W)
    PROVE  LET d == Pick!ByEntity(c, row) IN
           /\ d \in Seq(Cands(I, L, A, W))
           /\ SaysMore(c, row, d) \/ ComesLast(c, row, d)
<1> DEFINE R == Cands(I, L, A, W)
           d == Pick!ByEntity(c, row)
           m == Len(c)
           more(i) == [c[i] EXCEPT !.verdicts = c[i].verdicts \o row.verdicts]
           body(i) == IF c[i].id = row.id THEN more(i) ELSE c[i]
<1>1. m \in Nat /\ DOMAIN c = 1..m /\ \A i \in 1..m : c[i] \in R
  OBVIOUS
<1>2. CASE \E i \in DOMAIN c : c[i].id = row.id
  <2>1. d = [i \in 1..m |-> body(i)]
    BY <1>1, <1>2 DEF Pick!ByEntity
  <2>2. ASSUME NEW i \in 1..m
        PROVE  /\ body(i) \in R /\ body(i).id = c[i].id
               /\ body(i).verdicts = IF c[i].id = row.id THEN c[i].verdicts \o row.verdicts ELSE c[i].verdicts
    <3>1. c[i] \in R /\ c[i].verdicts \in Seq(W) /\ row.verdicts \in Seq(W)
      BY <1>1 DEF Cands
    <3>2. c[i].verdicts \o row.verdicts \in Seq(W)
      BY <3>1
    <3> DEFINE v == c[i].verdicts \o row.verdicts
    <3> HIDE DEF v
    <3>3. [c[i] EXCEPT !.verdicts = v] \in R /\ [c[i] EXCEPT !.verdicts = v].id = c[i].id
          /\ [c[i] EXCEPT !.verdicts = v].verdicts = v
      BY <3>1, <3>2 DEF Cands, v
    <3>4. more(i) \in R /\ more(i).id = c[i].id /\ more(i).verdicts = c[i].verdicts \o row.verdicts
      BY <3>3 DEF v
    <3> HIDE DEF more
    <3> QED BY <3>1, <3>4
  <2> HIDE DEF d, body, R, m
  <2>3. d \in [1..m -> R] /\ DOMAIN d = 1..m /\ \A i \in 1..m : d[i] = body(i)
    BY <2>1, <2>2
  <2>4. d \in Seq(R) /\ Len(d) = m
    BY <1>1, <2>3
  <2> QED BY <1>1, <1>2, <2>2, <2>3, <2>4 DEF m, R, d, SaysMore
<1>3. CASE ~\E i \in DOMAIN c : c[i].id = row.id
  <2>1. d = Append(c, row)
    BY <1>3 DEF Pick!ByEntity
  <2>2. c \in Seq(R) /\ row \in R
    OBVIOUS
  <2> HIDE DEF d, R
  <2>3. d \in Seq(R) /\ Len(d) = Len(c) + 1 /\ d[Len(c) + 1] = row /\ \A i \in 1..Len(c) : d[i] = c[i]
    BY <2>1, <2>2
  <2>4. \A i \in 1..Len(c) : c[i].id # row.id
    BY <1>1, <1>3
  <2> QED BY <2>3, <2>4 DEF d, R, ComesLast
<1> QED BY <1>2, <1>3

\* The candidates after k rows are those after k - 1 and the next row.
LEMMA ParkedRun ==
    ASSUME NEW I, NEW L, NEW A, NEW W, NEW rows \in Seq(Cands(I, L, A, W))
    PROVE  LET acc(k) == ParkedFold(rows)[1..k] IN
           /\ acc(0) = <<>>
           /\ \A k \in 0..Len(rows) : acc(k) \in Seq(Cands(I, L, A, W))
           /\ \A k \in 1..Len(rows) : acc(k) = Pick!ByEntity(acc(k - 1), rows[k])
<1> DEFINE n == Len(rows)
           V == Seq(Cands(I, L, A, W))
           F == [p \in V \X (1..n) |-> Pick!ByEntity(p[1], rows[p[2]])]
           fold == ParkedFold(rows)
           H == [s \in SUBSET (1..n) |-> Pick!ByEntity(fold[s \ {Max(s)}], rows[Max(s)])]
           Eq(g) == g = [s \in SUBSET (DOMAIN rows) |->
                            IF s = {} THEN <<>> ELSE Pick!ByEntity(g[s \ {Max(s)}], rows[Max(s)])]
<1>0. n \in Nat /\ DOMAIN rows = 1..n /\ \A k \in 1..n : rows[k] \in Cands(I, L, A, W)
  OBVIOUS
<1>1. <<>> \in V
  OBVIOUS
<1>2. ASSUME NEW v \in V, NEW k \in 1..n PROVE F[<<v, k>>] = Pick!ByEntity(v, rows[k]) /\ F[<<v, k>>] \in V
  <2>1. F[<<v, k>>] = Pick!ByEntity(v, rows[k])
    OBVIOUS
  <2>2. Pick!ByEntity(v, rows[k]) \in V
    BY <1>0, ByEntityIs
  <2> QED BY <2>1, <2>2
<1>h. \A s \in SUBSET (1..n) : H[s] = Pick!ByEntity(fold[s \ {Max(s)}], rows[Max(s)])
  OBVIOUS
<1> HIDE DEF n, V, F, H
<1>3. Stays(F, V, n)
  BY <1>2 DEF Stays
<1>4. PICK g : FoldsTo(g, n, V, <<>>, F)
  BY <1>0, <1>1, <1>2, FoldExists
<1>5. ASSUME NEW s \in SUBSET (1..n), s # {} PROVE Max(s) \in 1..n /\ s \ {Max(s)} \in SUBSET (1..n)
  BY <1>0, <1>5, MaxOf
<1>6. ASSUME NEW s \in SUBSET (1..n)
      PROVE  g[s] = IF s = {} THEN <<>> ELSE Pick!ByEntity(g[s \ {Max(s)}], rows[Max(s)])
  <2>1. CASE s = {}
    BY <1>4, <2>1 DEF FoldsTo
  <2>2. CASE s # {}
    <3>1. Max(s) \in 1..n /\ g[s \ {Max(s)}] \in V
      BY <1>4, <1>5, <2>2 DEF FoldsTo
    <3>2. g[s] = F[<<g[s \ {Max(s)}], Max(s)>>]
      BY <1>4, <2>2 DEF FoldsTo
    <3> QED BY <1>2, <2>2, <3>1, <3>2
  <2> QED BY <2>1, <2>2
<1>7. Eq(g)
  <2>1. g = [s \in SUBSET (1..n) |-> g[s]]
    BY <1>4 DEF FoldsTo
  <2>2. g = [s \in SUBSET (1..n) |-> IF s = {} THEN <<>> ELSE Pick!ByEntity(g[s \ {Max(s)}], rows[Max(s)])]
    BY <1>6, <2>1, Zenon
  <2> QED BY <1>0, <2>2
<1>8. Eq(fold)
  <2>1. \E h : Eq(h)
    BY <1>7
  <2>2. fold = CHOOSE h : Eq(h)
    BY DEF ParkedFold
  <2> HIDE DEF Eq, fold
  <2> QED BY <2>1, <2>2
<1> HIDE DEF fold
<1>9. Unrolled(fold, H, n, <<>>)
  BY <1>0, <1>8, <1>h DEF Unrolled
<1>10. StepsBy(H, fold, F, V, n)
  <2> SUFFICES ASSUME NEW s \in SUBSET (1..n), s # {}, fold[s \ {Max(s)}] \in V
               PROVE  H[s] = F[<<fold[s \ {Max(s)}], Max(s)>>]
    BY DEF StepsBy
  <2>1. Max(s) \in 1..n
    BY <1>5
  <2> QED BY <1>2, <1>h, <2>1
<1>11. Runs(fold, F, V, n, <<>>)
  BY <1>0, <1>1, <1>3, <1>9, <1>10, FoldRuns
<1>12. \A k \in 1..n : fold[1..k] = Pick!ByEntity(fold[1..(k - 1)], rows[k])
  <2> SUFFICES ASSUME NEW k \in 1..n PROVE fold[1..k] = Pick!ByEntity(fold[1..(k - 1)], rows[k])
    OBVIOUS
  <2>1. k - 1 \in 0..n
    BY <1>0
  <2> QED BY <1>2, <1>11, <2>1 DEF Runs
<1> QED BY <1>11, <1>12 DEF Runs, fold, n, V

\* The reports after k rows are those after k - 1 and the next row's.
LEMMA ReportsRun ==
    ASSUME NEW I, NEW L, NEW A, NEW W, NEW rows \in Seq(Cands(I, L, A, W)), NEW id
    PROVE  LET acc(k) == ReportFold(rows, id)[1..k] IN
           /\ acc(0) = <<>>
           /\ \A k \in 0..Len(rows) : acc(k) \in Seq(W)
           /\ \A k \in 1..Len(rows) : acc(k) = ReportStep(acc(k - 1), rows[k], id)
<1> DEFINE n == Len(rows)
           V == Seq(W)
           F == [p \in V \X (1..n) |-> ReportStep(p[1], rows[p[2]], id)]
           fold == ReportFold(rows, id)
           H == [s \in SUBSET (1..n) |-> ReportStep(fold[s \ {Max(s)}], rows[Max(s)], id)]
           Eq(g) == g = [s \in SUBSET (DOMAIN rows) |->
                            IF s = {} THEN <<>> ELSE ReportStep(g[s \ {Max(s)}], rows[Max(s)], id)]
<1>0. n \in Nat /\ DOMAIN rows = 1..n /\ \A k \in 1..n : rows[k].verdicts \in Seq(W)
  <2>1. n \in Nat /\ DOMAIN rows = 1..n /\ \A k \in 1..n : rows[k] \in Cands(I, L, A, W)
    OBVIOUS
  <2>2. ASSUME NEW c \in Cands(I, L, A, W) PROVE c.verdicts \in Seq(W)
    BY DEF Cands
  <2> QED BY <2>1, <2>2
<1>1. <<>> \in V
  OBVIOUS
<1>2. ASSUME NEW v \in V, NEW k \in 1..n PROVE F[<<v, k>>] = ReportStep(v, rows[k], id) /\ F[<<v, k>>] \in V
  <2>1. F[<<v, k>>] = ReportStep(v, rows[k], id)
    OBVIOUS
  <2>2. ReportStep(v, rows[k], id) \in V
    BY <1>0 DEF ReportStep
  <2> QED BY <2>1, <2>2
<1>h. \A s \in SUBSET (1..n) : H[s] = ReportStep(fold[s \ {Max(s)}], rows[Max(s)], id)
  OBVIOUS
<1> HIDE DEF n, V, F, H
<1>3. Stays(F, V, n)
  BY <1>2 DEF Stays
<1>4. PICK g : FoldsTo(g, n, V, <<>>, F)
  BY <1>0, <1>1, <1>2, FoldExists
<1>5. ASSUME NEW s \in SUBSET (1..n), s # {} PROVE Max(s) \in 1..n /\ s \ {Max(s)} \in SUBSET (1..n)
  BY <1>0, <1>5, MaxOf
<1>6. ASSUME NEW s \in SUBSET (1..n)
      PROVE  g[s] = IF s = {} THEN <<>> ELSE ReportStep(g[s \ {Max(s)}], rows[Max(s)], id)
  <2>1. CASE s = {}
    BY <1>4, <2>1 DEF FoldsTo
  <2>2. CASE s # {}
    <3>1. Max(s) \in 1..n /\ g[s \ {Max(s)}] \in V
      BY <1>4, <1>5, <2>2 DEF FoldsTo
    <3>2. g[s] = F[<<g[s \ {Max(s)}], Max(s)>>]
      BY <1>4, <2>2 DEF FoldsTo
    <3> QED BY <1>2, <2>2, <3>1, <3>2
  <2> QED BY <2>1, <2>2
<1>7. Eq(g)
  <2>1. g = [s \in SUBSET (1..n) |-> g[s]]
    BY <1>4 DEF FoldsTo
  <2>2. g = [s \in SUBSET (1..n) |-> IF s = {} THEN <<>> ELSE ReportStep(g[s \ {Max(s)}], rows[Max(s)], id)]
    BY <1>6, <2>1, Zenon
  <2> QED BY <1>0, <2>2
<1>8. Eq(fold)
  <2>1. \E h : Eq(h)
    BY <1>7
  <2>2. fold = CHOOSE h : Eq(h)
    BY DEF ReportFold
  <2> HIDE DEF Eq, fold
  <2> QED BY <2>1, <2>2
<1> HIDE DEF fold
<1>9. Unrolled(fold, H, n, <<>>)
  BY <1>0, <1>8, <1>h DEF Unrolled
<1>10. StepsBy(H, fold, F, V, n)
  <2> SUFFICES ASSUME NEW s \in SUBSET (1..n), s # {}, fold[s \ {Max(s)}] \in V
               PROVE  H[s] = F[<<fold[s \ {Max(s)}], Max(s)>>]
    BY DEF StepsBy
  <2>1. Max(s) \in 1..n
    BY <1>5
  <2> QED BY <1>2, <1>h, <2>1
<1>11. Runs(fold, F, V, n, <<>>)
  BY <1>0, <1>1, <1>3, <1>9, <1>10, FoldRuns
<1>12. \A k \in 1..n : fold[1..k] = ReportStep(fold[1..(k - 1)], rows[k], id)
  <2> SUFFICES ASSUME NEW k \in 1..n PROVE fold[1..k] = ReportStep(fold[1..(k - 1)], rows[k], id)
    OBVIOUS
  <2>1. k - 1 \in 0..n
    BY <1>0
  <2> QED BY <1>2, <1>11, <2>1 DEF Runs
<1> QED BY <1>11, <1>12 DEF Runs, fold, n, V

(* The candidates c gather what the first k rows say. *)
Gathers(c, rows, k, rep) ==
    /\ Len(c) <= k
    /\ \A i \in 1..Len(c) : \E j \in 1..k : rows[j].id = c[i].id
    /\ \A j \in 1..k : \E i \in 1..Len(c) : c[i].id = rows[j].id
    /\ \A i, j \in 1..Len(c) : c[i].id = c[j].id => i = j
    /\ \A i \in 1..Len(c) : c[i].verdicts = rep[c[i].id]
    /\ \A id \in DOMAIN rep : (\A j \in 1..k : rows[j].id # id) => rep[id] = <<>>
    /\ \A j \in 1..k : ToSet(rows[j].verdicts) \subseteq ToSet(rep[rows[j].id])

\* What is in either of two sequences is in the two together.
LEMMA SequenceSet ==
    ASSUME NEW W, NEW p \in Seq(W), NEW q \in Seq(W)
    PROVE  /\ ToSet(p) \subseteq ToSet(p \o q) /\ ToSet(q) \subseteq ToSet(p \o q)
           /\ p \o q \in Seq(W) /\ <<>> \o q = q
<1>1. ASSUME NEW i \in DOMAIN p PROVE p[i] = (p \o q)[i] /\ i \in DOMAIN (p \o q)
  OBVIOUS
<1>2. ASSUME NEW i \in DOMAIN q PROVE q[i] = (p \o q)[Len(p) + i] /\ Len(p) + i \in DOMAIN (p \o q)
  OBVIOUS
<1>3. p \o q \in Seq(W)
  OBVIOUS
<1>4. <<>> \o q = q
  OBVIOUS
<1>5. ToSet(p) \subseteq ToSet(p \o q)
  BY <1>1, Zenon DEF ToSet
<1>6. ToSet(q) \subseteq ToSet(p \o q)
  BY <1>2, Zenon DEF ToSet
<1> QED BY <1>3, <1>4, <1>5, <1>6

\* Gathers, kept by one more recorded row (needs-review.ts).
LEMMA GatheredStep ==
    ASSUME NEW I, NEW L, NEW A, NEW W, NEW c \in Seq(Cands(I, L, A, W)),
           NEW rows \in Seq(Cands(I, L, A, W)), NEW k \in 1..Len(rows),
           NEW rep \in [I -> Seq(W)], NEW next \in [I -> Seq(W)],
           Gathers(c, rows, k - 1, rep), \A id \in I : next[id] = ReportStep(rep[id], rows[k], id)
    PROVE  Gathers(Pick!ByEntity(c, rows[k]), rows, k, next)
<1> DEFINE row == rows[k]
           d == Pick!ByEntity(c, row)
           m == Len(c)
           Stay == SaysMore(c, row, d)
           Grow == ComesLast(c, row, d)
<1>0. /\ k \in Nat /\ m \in Nat /\ k - 1 \in Nat /\ \A j \in 1..k : j = k \/ j \in 1..(k - 1)
      /\ 1..(k - 1) \subseteq 1..k /\ k \in 1..k
  OBVIOUS
<1>1. \A j \in 1..k : rows[j] \in Cands(I, L, A, W)
  OBVIOUS
<1>1a. \A i \in 1..m : c[i] \in Cands(I, L, A, W)
  OBVIOUS
<1>1b. /\ \A j \in 1..k : rows[j].id \in I /\ rows[j].verdicts \in Seq(W)
       /\ \A i \in 1..m : c[i].id \in I
  BY <1>1, <1>1a DEF Cands
<1>2. Stay \/ Grow
  <2>1. row \in Cands(I, L, A, W)
    BY <1>0, <1>1
  <2> QED BY <2>1, ByEntityIs
<1>3. /\ \A id \in I : id # row.id => next[id] = rep[id]
      /\ next[row.id] = rep[row.id] \o row.verdicts
      /\ row.id \in I /\ rep[row.id] \in Seq(W) /\ row.verdicts \in Seq(W)
  BY <1>0, <1>1b DEF ReportStep
<1>4. /\ ToSet(rep[row.id]) \subseteq ToSet(next[row.id]) /\ ToSet(row.verdicts) \subseteq ToSet(next[row.id])
      /\ <<>> \o row.verdicts = row.verdicts
  BY <1>3, SequenceSet
<1>e. m <= k - 1
  BY DEF Gathers
<1>a. \A i \in 1..m : \E j \in 1..(k - 1) : rows[j].id = c[i].id
  BY DEF Gathers
<1>b. \A j \in 1..(k - 1) : \E i \in 1..m : c[i].id = rows[j].id
  BY DEF Gathers
<1>c. \A i, j \in 1..m : c[i].id = c[j].id => i = j
  BY DEF Gathers
<1>d. \A i \in 1..m : c[i].verdicts = rep[c[i].id]
  BY DEF Gathers
<1> HIDE DEF d, m, row
<1>5. \A id \in I : (\A j \in 1..k : rows[j].id # id) => next[id] = <<>>
  BY <1>0, <1>3 DEF Gathers, row
<1>6. \A j \in 1..k : ToSet(rows[j].verdicts) \subseteq ToSet(next[rows[j].id])
  <2> SUFFICES ASSUME NEW j \in 1..k PROVE ToSet(rows[j].verdicts) \subseteq ToSet(next[rows[j].id])
    OBVIOUS
  <2>1. CASE j = k
    BY <1>4, <2>1 DEF row
  <2>2. CASE j # k
    <3>1. ToSet(rows[j].verdicts) \subseteq ToSet(rep[rows[j].id]) /\ rows[j].id \in I
      BY <1>0, <1>1b, <2>2 DEF Gathers
    <3> QED BY <1>3, <1>4, <3>1
  <2> QED BY <2>1, <2>2
<1>7. CASE Stay
  <2>0. /\ \E i \in 1..m : c[i].id = row.id
        /\ Len(d) = m
        /\ \A i \in 1..m : d[i].id = c[i].id
        /\ \A i \in 1..m : d[i].verdicts = IF c[i].id = row.id THEN c[i].verdicts \o row.verdicts
                                           ELSE c[i].verdicts
    BY <1>7 DEF SaysMore, m
  <2>1. ASSUME NEW i \in 1..m PROVE \E j \in 1..k : rows[j].id = d[i].id
    <3>1. d[i].id = c[i].id
      BY <2>0
    <3> QED BY <1>0, <1>a, <3>1
  <2>2. ASSUME NEW j \in 1..k PROVE \E i \in 1..m : d[i].id = rows[j].id
    <3>1. CASE j = k
      BY <2>0, <3>1 DEF row
    <3>2. CASE j # k
      <4>1. j \in 1..(k - 1)
        BY <1>0, <3>2
      <4> QED BY <1>b, <2>0, <4>1
    <3> QED BY <3>1, <3>2
  <2>3. \A i, j \in 1..m : d[i].id = d[j].id => i = j
    BY <1>c, <2>0
  <2>4. ASSUME NEW i \in 1..m PROVE d[i].verdicts = next[d[i].id]
    <3>1. c[i].id \in I /\ d[i].id = c[i].id /\ c[i].verdicts = rep[c[i].id]
      BY <1>1b, <1>d, <2>0
    <3>2. CASE c[i].id = row.id
      <4>1. d[i].verdicts = c[i].verdicts \o row.verdicts
        BY <2>0, <3>2
      <4>2. c[i].verdicts = rep[row.id] /\ d[i].id = row.id
        BY <3>1, <3>2
      <4> QED BY <1>3, <4>1, <4>2
    <3>3. CASE c[i].id # row.id
      BY <1>3, <2>0, <3>1, <3>3
    <3> QED BY <3>2, <3>3
  <2>5. Len(d) <= k
    BY <1>0, <1>e, <2>0
  <2> QED BY <1>5, <1>6, <2>0, <2>1, <2>2, <2>3, <2>4, <2>5 DEF Gathers, d, row
<1>8. CASE Grow
  <2>0. /\ 1..(m + 1) = 1..m \cup {m + 1} /\ \A i \in 1..m : i # m + 1
        /\ \A i \in 1..m : c[i].id # row.id
        /\ Len(d) = m + 1 /\ d[m + 1] = row
        /\ \A i \in 1..m : d[i] = c[i]
    BY <1>0, <1>8 DEF ComesLast, m
  <2>1. ASSUME NEW i \in 1..(m + 1) PROVE \E j \in 1..k : rows[j].id = d[i].id
    <3>1. CASE i \in 1..m
      BY <1>0, <1>a, <2>0, <3>1
    <3>2. CASE i = m + 1
      BY <1>0, <2>0, <3>2 DEF row
    <3> QED BY <2>0, <3>1, <3>2
  <2>2. ASSUME NEW j \in 1..k PROVE \E i \in 1..(m + 1) : d[i].id = rows[j].id
    <3>1. CASE j = k
      BY <2>0, <3>1 DEF row
    <3>2. CASE j # k
      <4>1. j \in 1..(k - 1)
        BY <1>0, <3>2
      <4> QED BY <1>b, <2>0, <4>1
    <3> QED BY <3>1, <3>2
  <2>3. \A i, j \in 1..(m + 1) : d[i].id = d[j].id => i = j
    BY <1>c, <2>0
  <2>4. rep[row.id] = <<>>
    <3>1. \A j \in 1..(k - 1) : rows[j].id # row.id
      BY <1>b, <2>0
    <3> QED BY <1>3, <3>1 DEF Gathers
  <2>5. ASSUME NEW i \in 1..(m + 1) PROVE d[i].verdicts = next[d[i].id]
    <3>1. d[m + 1].verdicts = next[d[m + 1].id]
      BY <1>3, <1>4, <2>0, <2>4
    <3>2. CASE i \in 1..m
      <4>1. c[i].id \in I /\ d[i] = c[i] /\ c[i].id # row.id /\ c[i].verdicts = rep[c[i].id]
        BY <1>1b, <1>d, <2>0, <3>2
      <4> QED BY <1>3, <4>1
    <3> QED BY <2>0, <3>1, <3>2
  <2>6. Len(d) <= k
    BY <1>0, <1>e, <2>0
  <2> QED BY <1>5, <1>6, <2>0, <2>1, <2>2, <2>3, <2>5, <2>6 DEF Gathers, d, row
<1> QED BY <1>2, <1>7, <1>8

\* One candidate for each company any attempt saw, with every verdict any
\* attempt reached (needs-review.ts).
LEMMA ParkedIs ==
    ASSUME NEW I, NEW L, NEW A, NEW W, NEW rows \in Seq(Cands(I, L, A, W))
    PROVE  LET c == Pick!LoadParkedRow(rows) IN
           /\ c \in Seq(Cands(I, L, A, W))
           /\ Gathers(c, rows, Len(rows), [id \in I |-> Reports(rows, id)])
           /\ \A id \in I : Reports(rows, id) \in Seq(W)
<1> DEFINE n == Len(rows)
           acc(k) == ParkedFold(rows)[1..k]
           rep(k) == [id \in I |-> ReportFold(rows, id)[1..k]]
           T == {k \in Nat : k <= n => Gathers(acc(k), rows, k, rep(k))}
<1>0. n \in Nat /\ DOMAIN rows = 1..n
  OBVIOUS
<1>1. /\ acc(0) = <<>>
      /\ \A k \in 0..n : acc(k) \in Seq(Cands(I, L, A, W))
      /\ \A k \in 1..n : acc(k) = Pick!ByEntity(acc(k - 1), rows[k])
  BY ParkedRun
<1>2. \A id \in I : /\ rep(0)[id] = <<>>
                    /\ \A k \in 0..n : rep(k)[id] \in Seq(W)
                    /\ \A k \in 1..n : rep(k)[id] = ReportStep(rep(k - 1)[id], rows[k], id)
  BY ReportsRun
<1>3. \A k \in 0..n : rep(k) \in [I -> Seq(W)]
  BY <1>2
<1>3a. rep(0) = [id \in I |-> <<>>]
  BY <1>2
<1> HIDE DEF n, acc, rep
<1>4. 0 \in T
  <2>1. 1..0 = {} /\ Len(<<>>) = 0
    BY SMT
  <2>2. Gathers(<<>>, rows, 0, rep(0))
    BY <1>3a, <2>1 DEF Gathers
  <2> QED BY <1>1, <2>2
<1>5. ASSUME NEW k \in Nat, k \in T PROVE k + 1 \in T
  <2> SUFFICES ASSUME k + 1 <= n PROVE Gathers(acc(k + 1), rows, k + 1, rep(k + 1))
    OBVIOUS
  <2>1. k + 1 \in 1..n /\ (k + 1) - 1 = k /\ k \in 0..n /\ k + 1 \in 0..n /\ Gathers(acc(k), rows, k, rep(k))
    BY <1>0, <1>5
  <2>2. /\ acc(k) \in Seq(Cands(I, L, A, W)) /\ acc(k + 1) = Pick!ByEntity(acc(k), rows[k + 1])
        /\ rep(k) \in [I -> Seq(W)] /\ rep(k + 1) \in [I -> Seq(W)]
        /\ \A id \in I : rep(k + 1)[id] = ReportStep(rep(k)[id], rows[k + 1], id)
    BY <1>1, <1>2, <1>3, <2>1
  <2>3. ASSUME NEW j \in 1..Len(rows), NEW c \in Seq(Cands(I, L, A, W)), NEW p \in [I -> Seq(W)],
                NEW q \in [I -> Seq(W)], Gathers(c, rows, j - 1, p), \A id \in I : q[id] = ReportStep(p[id], rows[j], id)
         PROVE  Gathers(Pick!ByEntity(c, rows[j]), rows, j, q)
    BY <2>3, GatheredStep
  <2>4. k + 1 \in 1..Len(rows) /\ Gathers(acc(k), rows, (k + 1) - 1, rep(k))
    BY <2>1 DEF n
  <2>5. Gathers(Pick!ByEntity(acc(k), rows[k + 1]), rows, k + 1, rep(k + 1))
    BY <2>2, <2>3, <2>4, Zenon
  <2> QED BY <2>2, <2>5
<1> HIDE DEF T
<1>6. Nat \subseteq T
  BY <1>4, <1>5, AllNumbers
<1>7. Gathers(acc(n), rows, n, rep(n)) /\ n \in 0..n
  BY <1>0, <1>6 DEF T
<1>8. acc(n) = Pick!LoadParkedRow(rows)
  BY <1>0, ParkedIsFold DEF acc
<1>9. rep(n) = [id \in I |-> Reports(rows, id)]
  BY <1>0, ReportsAreFold DEF rep
<1> QED BY <1>1, <1>3, <1>7, <1>8, <1>9 DEF n

-----------------------------------------------------------------------------
(* What the readers reported, and the order of the page.                   *)

(* What the fold f tells of the reports. *)
Tells(f, reports) ==
    /\ DOMAIN f = {reports[i].of : i \in DOMAIN reports}
    /\ \A d \in DOMAIN f :
          /\ \E lead \in DOMAIN reports :
                /\ reports[lead].of = d /\ f[d].verdict = reports[lead].verdict
                /\ \A j \in DOMAIN reports : reports[j].of = d => lead <= j
          /\ f[d].disputed \in BOOLEAN
          /\ \A i \in DOMAIN reports : reports[i].of = d =>
                IF f[d].disputed THEN reports[i] \in f[d].reports
                ELSE f[d].verdict = reports[i].verdict /\ reports[i].by \in f[d].by

\* The fold tells the first verdict, and what each reader said where two
\* differ (settle-choices.ts).
LEMMA FoldReportersTells ==
    ASSUME NEW W, NEW reports \in Seq(W)
    PROVE  Tells(Pick!FoldReporters(reports), reports)
<1> DEFINE f == Pick!FoldReporters(reports)
           D == {reports[i].of : i \in DOMAIN reports}
           all(d) == {i \in DOMAIN reports : reports[i].of = d}
           lead(d) == CHOOSE i \in all(d) : \A j \in all(d) : i <= j
           disputed(d) == \E i, j \in all(d) : reports[i].verdict # reports[j].verdict
           told(d) == [verdict |-> reports[lead(d)].verdict,
                       by |-> {reports[i].by : i \in all(d)},
                       disputed |-> disputed(d),
                       reports |-> IF disputed(d) THEN {reports[i] : i \in all(d)} ELSE {}]
<1>1. f = [d \in D |-> told(d)]
  BY DEF Pick!FoldReporters
<1>2. DOMAIN f = D /\ \A d \in D : f[d] = told(d)
  BY <1>1
<1>3. ASSUME NEW d \in D PROVE lead(d) \in all(d) /\ \A j \in all(d) : lead(d) <= j
  <2>1. all(d) \subseteq Nat /\ all(d) # {}
    OBVIOUS
  <2> HIDE DEF all
  <2> QED BY <2>1, LeastNumber
<1> HIDE DEF f, lead
<1>4. ASSUME NEW d \in D
      PROVE  /\ \E k \in DOMAIN reports :
                   /\ reports[k].of = d /\ f[d].verdict = reports[k].verdict
                   /\ \A j \in DOMAIN reports : reports[j].of = d => k <= j
             /\ f[d].disputed \in BOOLEAN
             /\ \A i \in DOMAIN reports : reports[i].of = d =>
                   IF f[d].disputed THEN reports[i] \in f[d].reports
                   ELSE f[d].verdict = reports[i].verdict /\ reports[i].by \in f[d].by
  <2>1. /\ f[d].verdict = reports[lead(d)].verdict
        /\ f[d].by = {reports[i].by : i \in all(d)}
        /\ f[d].disputed = disputed(d)
        /\ f[d].reports = IF disputed(d) THEN {reports[i] : i \in all(d)} ELSE {}
    <3> DEFINE by == {reports[i].by : i \in all(d)}
               each == IF disputed(d) THEN {reports[i] : i \in all(d)} ELSE {}
               said == reports[lead(d)].verdict
    <3>1. f[d] = [verdict |-> said, by |-> by, disputed |-> disputed(d), reports |-> each]
      BY <1>2
    <3> HIDE DEF by, each, said, disputed
    <3>2. f[d].verdict = said /\ f[d].by = by /\ f[d].disputed = disputed(d) /\ f[d].reports = each
      BY <3>1
    <3> QED BY <3>2 DEF by, each, said
  <2>2. \E k \in DOMAIN reports :
           /\ reports[k].of = d /\ f[d].verdict = reports[k].verdict
           /\ \A j \in DOMAIN reports : reports[j].of = d => k <= j
    BY <1>3, <2>1
  <2>3. f[d].disputed \in BOOLEAN
    BY <2>1
  <2>4. ASSUME NEW i \in all(d)
        PROVE  IF f[d].disputed THEN reports[i] \in f[d].reports
               ELSE f[d].verdict = reports[i].verdict /\ reports[i].by \in f[d].by
    <3>1. lead(d) \in all(d)
      BY <1>3
    <3> HIDE DEF all
    <3> QED BY <2>1, <3>1
  <2> QED BY <2>2, <2>3, <2>4
<1> QED BY <1>2, <1>4 DEF f, Tells

\* What is said once above the list every candidate reports, undisputed and
\* alike (settle-choices.ts).
LEMMA HoistedIs ==
    ASSUME NEW folded
    PROVE  \A d \in Pick!Hoisted(folded) :
              \A i \in DOMAIN folded : /\ d \in DOMAIN folded[i] /\ ~folded[i][d].disputed
                                       /\ folded[i][d].verdict = folded[1][d].verdict
BY DEF Pick!Hoisted

(* The choices in the order of the page. *)
AreChoices(C) ==
    /\ IsFiniteSet(C)
    /\ \A a \in C : /\ a.at \in Nat /\ a.sources \in Nat
                    /\ \A b \in C : a.at = b.at => a = b

\* The module counts as this one does.
LEMMA PickCountsAlike ==
    ASSUME NEW T
    PROVE  Pick!Cardinality(T) = Cardinality(T)
BY DEF Pick!Cardinality, Cardinality

\* No two choices tie: they came one after the other (settle-choices.ts).
LEMMA ChoicesAreOrdered ==
    ASSUME NEW C, AreChoices(C), NEW a \in C, NEW b \in C, NEW c \in C
    PROVE  /\ ~Pick!ByCorroboration(a, a)
           /\ a # b => Pick!ByCorroboration(a, b) \/ Pick!ByCorroboration(b, a)
           /\ Pick!ByCorroboration(a, b) /\ Pick!ByCorroboration(b, c) => Pick!ByCorroboration(a, c)
<1>1. /\ a.at \in Nat /\ b.at \in Nat /\ c.at \in Nat /\ (a # b => a.at # b.at)
      /\ a.sources \in Nat /\ b.sources \in Nat /\ c.sources \in Nat
  BY DEF AreChoices
<1>2. Pick!Cautioned(a) \in BOOLEAN /\ Pick!Cautioned(b) \in BOOLEAN /\ Pick!Cautioned(c) \in BOOLEAN
  BY DEF Pick!Cautioned
<1> QED BY <1>1, <1>2 DEF Pick!ByCorroboration

\* A list of the page holds each of its choices once, in order
\* (settle-choices.ts).
LEMMA SortedChoices ==
    ASSUME NEW C, AreChoices(C)
    PROVE  LET n == Cardinality(C)
               sorted == Pick!Sorted(C)
           IN /\ n \in Nat /\ DOMAIN sorted = 1..n
              /\ \A i \in 1..n : sorted[i] \in C
              /\ \A b \in C : \E i \in 1..n : sorted[i] = b
              /\ \A i, j \in 1..n : i < j => Pick!ByCorroboration(sorted[i], sorted[j])
              /\ \A i, j \in 1..n : sorted[i] = sorted[j] => i = j
              /\ ToSet(sorted) = C
<1> DEFINE R == {p \in C \X C : Pick!ByCorroboration(p[1], p[2])}
<1>1. IsFiniteSet(C)
  BY DEF AreChoices
<1>2. \A a, b \in C : <<a, b>> \in R <=> Pick!ByCorroboration(a, b)
  OBVIOUS
<1>3. StrictlyOrders(R, C)
  <2> SUFFICES ASSUME NEW a \in C, NEW b \in C, NEW c \in C
               PROVE  /\ <<a, a>> \notin R
                      /\ <<a, b>> \in R /\ <<b, c>> \in R => <<a, c>> \in R
                      /\ a # b => <<a, b>> \in R \/ <<b, a>> \in R
    BY DEF StrictlyOrders
  <2> HIDE DEF R
  <2> QED BY <1>2, ChoicesAreOrdered
<1>4. Pick!Sorted(C) = InOrder(R, C)
  <2>1. \A b \in C : {c \in C \ {b} : Pick!ByCorroboration(c, b)} = Ahead(b, R, C)
    BY <1>2 DEF Ahead
  <2>2. \A b \in C : Pick!Cardinality({c \in C \ {b} : Pick!ByCorroboration(c, b)}) = Cardinality(Ahead(b, R, C))
    BY <2>1, PickCountsAlike
  <2> HIDE DEF R
  <2>3. ASSUME NEW i
        PROVE  (CHOOSE b \in C : 1 + Pick!Cardinality({c \in C \ {b} : Pick!ByCorroboration(c, b)}) = i)
                 = CHOOSE b \in C : 1 + Cardinality(Ahead(b, R, C)) = i
    BY <2>2
  <2>4. Pick!Sorted(C) = [i \in 1..Cardinality(C) |->
            CHOOSE b \in C : 1 + Pick!Cardinality({c \in C \ {b} : Pick!ByCorroboration(c, b)}) = i]
    BY PickCountsAlike DEF Pick!Sorted
  <2> QED BY <2>3, <2>4, Zenon DEF InOrder
<1> HIDE DEF R
<1>5. /\ Cardinality(C) \in Nat /\ DOMAIN InOrder(R, C) = 1..Cardinality(C)
      /\ \A i \in 1..Cardinality(C) : InOrder(R, C)[i] \in C
      /\ \A b \in C : \E i \in 1..Cardinality(C) : InOrder(R, C)[i] = b
      /\ \A i, j \in 1..Cardinality(C) : i < j => <<InOrder(R, C)[i], InOrder(R, C)[j]>> \in R
  BY <1>1, <1>3, InOrderIs
<1> DEFINE sorted == Pick!Sorted(C)
           n == Cardinality(C)
<1> HIDE DEF sorted, n
<1>6. /\ n \in Nat /\ DOMAIN sorted = 1..n
      /\ \A i \in 1..n : sorted[i] \in C
      /\ \A b \in C : \E i \in 1..n : sorted[i] = b
      /\ \A i, j \in 1..n : i < j => Pick!ByCorroboration(sorted[i], sorted[j])
  BY <1>2, <1>4, <1>5 DEF sorted, n
<1>7. ASSUME NEW i \in 1..n, NEW j \in 1..n, sorted[i] = sorted[j] PROVE i = j
  <2>1. ~Pick!ByCorroboration(sorted[i], sorted[i])
    BY <1>6, ChoicesAreOrdered
  <2>2. ~(i < j) /\ ~(j < i)
    BY <1>6, <1>7, <2>1
  <2> QED BY <1>6, <2>2
<1>8. ToSet(sorted) = C
  BY <1>6 DEF ToSet
<1> QED BY <1>6, <1>7, <1>8 DEF sorted, n

-----------------------------------------------------------------------------
(* The choices.                                                            *)

Folded(c) == [i \in DOMAIN c |-> Pick!FoldReporters(c[i].verdicts)]
Left(c, i) == DOMAIN Folded(c)[i] \ Pick!Hoisted(Folded(c))
ChoiceAt(c, name, i) ==
    [at |-> i, id |-> c[i].id, label |-> c[i].label, address |-> c[i].address, sources |-> c[i].sources,
     caution |-> Pick!Cautioned(c[i]),
     otherName |-> ~Pick!SameName(c[i].label, name) /\ ~Pick!Cautioned(c[i]),
     verdicts |-> [d \in Left(c, i) |-> Folded(c)[i][d]]]
ChoicesOf(c, name) == {ChoiceAt(c, name, i) : i \in DOMAIN c}
FamilyOf(C, a) == {d \in C : Pick!Alike(a, d)}
Tight(C) == {FamilyOf(C, a) : a \in {b \in C : Pick!Cardinality(FamilyOf(C, b)) > 1}}
Flat(C) == C \ UNION Tight(C)

\* The parts of the page (settle-choices.ts).
LEMMA SettleChoicesIs ==
    ASSUME NEW c, NEW name
    PROVE  LET s == Pick!SettleChoices(name, c)
               C == ChoicesOf(c, name)
           IN /\ s.shared = [d \in Pick!Hoisted(Folded(c)) |-> Folded(c)[1][d].verdict]
              /\ s.listed = Pick!Sorted(Flat(C))
              /\ s.groups = {Pick!Sorted(f) : f \in Tight(C)}
              /\ s.tiedCount = Pick!TiedCount(C)
<1> DEFINE C == ChoicesOf(c, name)
           shared == [d \in Pick!Hoisted(Folded(c)) |-> Folded(c)[1][d].verdict]
           listed == Pick!Sorted(Flat(C))
           groups == {Pick!Sorted(f) : f \in Tight(C)}
           tied == Pick!TiedCount(C)
<1>1. Pick!SettleChoices(name, c) = [shared |-> shared, listed |-> listed, groups |-> groups, tiedCount |-> tied]
  BY Zenon DEF Pick!SettleChoices, ChoicesOf, ChoiceAt, Left, Folded, FamilyOf, Tight, Flat
<1> HIDE DEF shared, listed, groups, tied
<1>2. LET s == Pick!SettleChoices(name, c) IN
      s.shared = shared /\ s.listed = listed /\ s.groups = groups /\ s.tiedCount = tied
  BY <1>1
<1> QED BY <1>2 DEF shared, listed, groups, tied

\* The fields of a choice (settle-choices.ts).
LEMMA ChoiceIs ==
    ASSUME NEW I, NEW L, NEW A, NEW W, NEW c \in Seq(Cands(I, L, A, W)), NEW name, NEW i \in 1..Len(c)
    PROVE  LET a == ChoiceAt(c, name, i) IN
           /\ a \in ChoicesOf(c, name) /\ a.at = i /\ a.id = c[i].id /\ a.sources \in Nat /\ a.label = c[i].label
           /\ a.caution = Pick!Cautioned(a)
           /\ DOMAIN a.verdicts = Left(c, i)
           /\ \A d \in Left(c, i) : a.verdicts[d] = Folded(c)[i][d]
           /\ Folded(c)[i] = Pick!FoldReporters(c[i].verdicts) /\ c[i].verdicts \in Seq(W) /\ c[i].id \in I
<1> DEFINE v == [d \in Left(c, i) |-> Folded(c)[i][d]]
           other == ~Pick!SameName(c[i].label, name) /\ ~Pick!Cautioned(c[i])
           warned == Pick!Cautioned(c[i])
           a == ChoiceAt(c, name, i)
<1>1. i \in DOMAIN c /\ c[i] \in Cands(I, L, A, W)
  OBVIOUS
<1>2. a \in ChoicesOf(c, name)
  BY <1>1 DEF ChoicesOf
<1>3. c[i].sources \in Nat /\ c[i].verdicts \in Seq(W) /\ c[i].id \in I
  BY <1>1 DEF Cands
<1>4. Folded(c)[i] = Pick!FoldReporters(c[i].verdicts)
  BY <1>1 DEF Folded
<1>5. DOMAIN v = Left(c, i) /\ \A d \in Left(c, i) : v[d] = Folded(c)[i][d]
  OBVIOUS
<1>6. a = [at |-> i, id |-> c[i].id, label |-> c[i].label, address |-> c[i].address, sources |-> c[i].sources,
           caution |-> warned, otherName |-> other, verdicts |-> v]
  BY DEF ChoiceAt
<1>7. \A b : b.label = c[i].label => (Pick!Cautioned(b) <=> warned)
  BY DEF Pick!Cautioned
<1>7a. warned \in BOOLEAN /\ \A b : Pick!Cautioned(b) \in BOOLEAN
  BY DEF Pick!Cautioned
<1> HIDE DEF a, v, other, warned
<1>8. /\ a.at = i /\ a.id = c[i].id /\ a.sources = c[i].sources /\ a.label = c[i].label
      /\ a.caution = warned /\ a.verdicts = v
  BY <1>6
<1>9. a.caution = Pick!Cautioned(a)
  BY <1>7, <1>7a, <1>8
<1> QED BY <1>2, <1>3, <1>4, <1>5, <1>8, <1>9 DEF a

\* As many choices as candidates, in the order they came
\* (settle-choices.ts).
LEMMA ChoicesAre ==
    ASSUME NEW I, NEW L, NEW A, NEW W, NEW c \in Seq(Cands(I, L, A, W)), NEW name
    PROVE  /\ AreChoices(ChoicesOf(c, name))
           /\ Cardinality(ChoicesOf(c, name)) = Len(c) /\ Len(c) \in Nat
           /\ \A a \in ChoicesOf(c, name) : \E i \in 1..Len(c) : a = ChoiceAt(c, name, i)
           /\ \A a \in ChoicesOf(c, name) : a.caution = Pick!Cautioned(a)
<1> DEFINE C == ChoicesOf(c, name)
           f == [i \in 1..Len(c) |-> ChoiceAt(c, name, i)]
<1>1. Len(c) \in Nat /\ DOMAIN c = 1..Len(c)
  OBVIOUS
<1>2. \A a \in C : \E i \in 1..Len(c) : a = ChoiceAt(c, name, i)
  BY <1>1 DEF ChoicesOf
<1>3. \A i \in 1..Len(c) : f[i] = ChoiceAt(c, name, i)
  OBVIOUS
<1>4. \A i \in 1..Len(c) : ChoiceAt(c, name, i) \in C /\ ChoiceAt(c, name, i).at = i
                           /\ ChoiceAt(c, name, i).sources \in Nat
                           /\ ChoiceAt(c, name, i).caution = Pick!Cautioned(ChoiceAt(c, name, i))
  BY ChoiceIs
<1>5. f \in Bijection(1..Len(c), C)
  <2>1. f \in [1..Len(c) -> C]
    BY <1>4
  <2> HIDE DEF f, C
  <2>2. IsInjective(f)
    BY <1>3, <1>4, <2>1 DEF IsInjective
  <2>3. \A a \in C : \E i \in 1..Len(c) : f[i] = a
    BY <1>2, <1>3
  <2>4. f \in Injection(1..Len(c), C) /\ f \in Surjection(1..Len(c), C)
    BY <2>1, <2>2, <2>3 DEF Injection, Surjection
  <2> QED BY <2>4 DEF Bijection
<1>6. IsFiniteSet(1..Len(c)) /\ Cardinality(1..Len(c)) = Len(c)
  BY <1>1, FS_Interval
<1> HIDE DEF f, C
<1>7. IsFiniteSet(C) /\ Cardinality(C) = Len(c)
  <2>1. ExistsBijection(1..Len(c), C)
    BY <1>5 DEF ExistsBijection
  <2> QED BY <1>6, <2>1, FS_Bijection
<1>8. AreChoices(C)
  <2> SUFFICES ASSUME NEW a \in C
               PROVE  a.at \in Nat /\ a.sources \in Nat /\ \A b \in C : a.at = b.at => a = b
    BY <1>7 DEF AreChoices
  <2>1. PICK i \in 1..Len(c) : a = ChoiceAt(c, name, i)
    BY <1>2
  <2>2. a.at = i /\ i \in Nat /\ a.sources \in Nat
    BY <1>4, <2>1
  <2>3. ASSUME NEW b \in C, a.at = b.at PROVE a = b
    <3>1. PICK j \in 1..Len(c) : b = ChoiceAt(c, name, j)
      BY <1>2
    <3>2. b.at = j
      BY <1>4, <3>1
    <3> QED BY <2>1, <2>2, <2>3, <3>1, <3>2
  <2> QED BY <2>2, <2>3
<1>9. \A a \in C : a.caution = Pick!Cautioned(a)
  BY <1>2, <1>4
<1> QED BY <1>1, <1>2, <1>7, <1>8, <1>9 DEF C

\* Some of the choices are choices.
LEMMA PartOfChoices ==
    ASSUME NEW C, AreChoices(C), NEW D \in SUBSET C
    PROVE  AreChoices(D) /\ Cardinality(D) <= Cardinality(C)
<1>1. IsFiniteSet(D) /\ Cardinality(D) <= Cardinality(C)
  BY FS_Subset DEF AreChoices
<1> QED BY <1>1 DEF AreChoices

\* A family is that of each of its members, none of them cautioned
\* (settle-choices.ts).
LEMMA FamiliesPart ==
    ASSUME NEW C, NEW f \in Tight(C)
    PROVE  /\ f \in SUBSET C
           /\ \A a \in f : ~Pick!Cautioned(a) /\ f = FamilyOf(C, a)
<1>1. PICK b \in C : f = FamilyOf(C, b)
  BY DEF Tight
<1>2. ASSUME NEW a \in f PROVE ~Pick!Cautioned(a) /\ f = FamilyOf(C, a)
  <2>1. Pick!Alike(b, a)
    BY <1>1 DEF FamilyOf
  <2>2. \A d \in C : Pick!Alike(b, d) <=> Pick!Alike(a, d)
    BY <2>1 DEF Pick!Alike
  <2>3. ~Pick!Cautioned(a)
    BY <2>1 DEF Pick!Alike
  <2> QED BY <1>1, <2>2, <2>3 DEF FamilyOf
<1> QED BY <1>1, <1>2 DEF FamilyOf

-----------------------------------------------------------------------------
(* Nothing is hidden.                                                      *)

Ids == {r.id : r \in ToSet(x.rows)}
Labels == {r.label : r \in ToSet(x.rows)}
Lines == {r.address : r \in ToSet(x.rows)}
Said == UNION {ToSet(r.verdicts) : r \in ToSet(x.rows)}
Parked == Pick!LoadParkedRow(x.rows)

\* The rows asked about are rows of a Match, and the candidates gather them.
LEMMA AskedChoices ==
    ASSUME Typed, Asked("choices")
    PROVE  /\ x.rows \in Seq(Cands(Ids, Labels, Lines, Said))
           /\ Parked \in Seq(Cands(Ids, Labels, Lines, Said))
           /\ Gathers(Parked, x.rows, Len(x.rows), [id \in Ids |-> Reports(x.rows, id)])
           /\ \A id \in Ids : Reports(x.rows, id) \in Seq(Said)
<1>1. x.rows \in Seq(ToSet(x.rows)) /\ \A c \in ToSet(x.rows) : IsCandidate(c)
  BY AskedInput, ChoiceInputs DEF Only
<1>2. ASSUME NEW c \in ToSet(x.rows) PROVE c \in Cands(Ids, Labels, Lines, Said)
  <2>1. /\ c = [id |-> c.id, label |-> c.label, address |-> c.address, sources |-> c.sources, verdicts |-> c.verdicts]
        /\ c.sources \in Nat /\ c.verdicts \in Seq(ToSet(c.verdicts))
    BY <1>1 DEF IsCandidate
  <2>2. c.id \in Ids /\ c.label \in Labels /\ c.address \in Lines /\ ToSet(c.verdicts) \subseteq Said
    BY DEF Ids, Labels, Lines, Said
  <2>3. c.verdicts \in Seq(Said)
    <3> DEFINE v == c.verdicts
               T == ToSet(v)
    <3>1. v \in Seq(T) /\ T \subseteq Said
      BY <2>1, <2>2
    <3> HIDE DEF v, T
    <3>2. v \in Seq(Said)
      BY <3>1
    <3> QED BY <3>2 DEF v
  <2> QED BY <2>1, <2>2, <2>3 DEF Cands
<1>3. x.rows \in Seq(Cands(Ids, Labels, Lines, Said))
  <2> DEFINE R == Cands(Ids, Labels, Lines, Said)
             T == ToSet(x.rows)
             rows == x.rows
  <2>1. T \subseteq R /\ rows \in Seq(T)
    BY <1>1, <1>2
  <2> HIDE DEF R, T, rows
  <2>2. rows \in Seq(R)
    BY <2>1
  <2> QED BY <2>2 DEF R, rows
<1> QED BY <1>3, ParkedIs DEF Parked

\* The page shows the choices: what is not in a group is listed
\* (settle-choices.ts).
LEMMA ShownAreTheChoices ==
    ASSUME NEW c, NEW name, AreChoices(ChoicesOf(c, name))
    PROVE  Shown(Pick!SettleChoices(name, c)) = ChoicesOf(c, name)
<1> DEFINE C == ChoicesOf(c, name)
           s == Pick!SettleChoices(name, c)
<1>1. s.listed = Pick!Sorted(Flat(C)) /\ s.groups = {Pick!Sorted(f) : f \in Tight(C)}
  BY SettleChoicesIs
<1>2. Flat(C) \in SUBSET C /\ \A f \in Tight(C) : f \in SUBSET C
  BY FamiliesPart DEF Flat
<1>3. ToSet(Pick!Sorted(Flat(C))) = Flat(C) /\ \A f \in Tight(C) : ToSet(Pick!Sorted(f)) = f
  BY <1>2, PartOfChoices, SortedChoices
<1> HIDE DEF C, s
<1>4. UNION {ToSet(g) : g \in {Pick!Sorted(f) : f \in Tight(C)}} = UNION Tight(C)
  BY <1>3
<1>5. Flat(C) \cup UNION Tight(C) = C
  BY <1>2 DEF Flat
<1> QED BY <1>1, <1>3, <1>4, <1>5 DEF Shown, C, s

\* NothingHidden, for all that may be recorded of a row, in any order
\* (needs-review.ts, settle-choices.ts).
LEMMA NothingHiddenHolds == Typed => NothingHidden
<1> SUFFICES ASSUME Typed, Asked("choices"),
                    NEW row \in ToSet(x.rows), NEW r \in ToSet(row.verdicts)
             PROVE  LET c == Pick!SettleChoices(x.name, Pick!LoadParkedRow(x.rows)) IN
                    IF r.of \in DOMAIN c.shared THEN c.shared[r.of] = r.verdict
                    ELSE \E shown \in Shown(c) :
                            /\ shown.id = row.id /\ r.of \in DOMAIN shown.verdicts
                            /\ LET told == shown.verdicts[r.of] IN
                               IF told.disputed THEN r \in told.reports
                               ELSE told.verdict = r.verdict /\ r.by \in told.by
  BY Zenon DEF NothingHidden
<1> DEFINE C == ChoicesOf(Parked, x.name)
           s == Pick!SettleChoices(x.name, Parked)
           hoisted == Pick!Hoisted(Folded(Parked))
<1>1. /\ x.rows \in Seq(Cands(Ids, Labels, Lines, Said)) /\ Parked \in Seq(Cands(Ids, Labels, Lines, Said))
      /\ Gathers(Parked, x.rows, Len(x.rows), [id \in Ids |-> Reports(x.rows, id)])
  BY AskedChoices
<1>2. PICK j \in 1..Len(x.rows) : x.rows[j] = row
  BY <1>1 DEF ToSet
<1>3. PICK i \in 1..Len(Parked) : Parked[i].id = row.id
  BY <1>1, <1>2 DEF Gathers
<1>4. r \in ToSet(Parked[i].verdicts)
  <2>1. row.id \in Ids
    BY DEF Ids
  <2>2. ToSet(row.verdicts) \subseteq ToSet(Reports(x.rows, row.id))
    BY <1>1, <1>2, <2>1 DEF Gathers
  <2>3. Parked[i].verdicts = Reports(x.rows, row.id)
    BY <1>1, <1>3, <2>1 DEF Gathers
  <2> QED BY <2>2, <2>3
<1> DEFINE choice == ChoiceAt(Parked, x.name, i)
           f == Folded(Parked)[i]
           d == r.of
<1>5. /\ choice \in C /\ choice.id = row.id /\ DOMAIN choice.verdicts = Left(Parked, i)
      /\ \A e \in Left(Parked, i) : choice.verdicts[e] = f[e]
      /\ f = Pick!FoldReporters(Parked[i].verdicts) /\ Parked[i].verdicts \in Seq(Said)
  BY <1>1, <1>3, ChoiceIs
<1>6. /\ d \in DOMAIN f
      /\ IF f[d].disputed THEN r \in f[d].reports ELSE f[d].verdict = r.verdict /\ r.by \in f[d].by
  <2>1. PICK k \in DOMAIN Parked[i].verdicts : Parked[i].verdicts[k] = r
    BY <1>4 DEF ToSet
  <2> DEFINE said == Parked[i].verdicts
  <2>2. /\ DOMAIN f = {said[m].of : m \in DOMAIN said}
        /\ \A e \in DOMAIN f : \A m \in DOMAIN said : said[m].of = e =>
              IF f[e].disputed THEN said[m] \in f[e].reports
              ELSE f[e].verdict = said[m].verdict /\ said[m].by \in f[e].by
    <3>1. Tells(Pick!FoldReporters(said), said)
      BY <1>5, FoldReportersTells
    <3> HIDE DEF f, said
    <3>2. f = Pick!FoldReporters(said)
      BY <1>5 DEF said
    <3>3. Tells(f, said)
      BY <3>1, <3>2
    <3> QED BY <3>3 DEF Tells
  <2> HIDE DEF f, said
  <2>3. k \in DOMAIN said /\ said[k] = r
    BY <2>1 DEF said
  <2>4. d \in DOMAIN f
    BY <2>2, <2>3
  <2> QED BY <2>2, <2>3, <2>4
<1>7. s.shared = [e \in hoisted |-> Folded(Parked)[1][e].verdict]
  BY SettleChoicesIs
<1>8. i \in DOMAIN Folded(Parked)
  BY <1>1 DEF Folded
<1>9. CASE d \in hoisted
  <2>1. ~f[d].disputed /\ f[d].verdict = Folded(Parked)[1][d].verdict
    BY <1>8, <1>9, HoistedIs
  <2> HIDE DEF f, s, hoisted
  <2>2. d \in DOMAIN s.shared /\ s.shared[d] = r.verdict
    BY <1>6, <1>7, <1>9, <2>1
  <2> QED BY <2>2 DEF s, Parked
<1>10. CASE d \notin hoisted
  <2>1. d \in Left(Parked, i)
    BY <1>6, <1>10 DEF Left
  <2>2. Shown(s) = C
    BY <1>1, ChoicesAre, ShownAreTheChoices
  <2> HIDE DEF f, s, hoisted, C, choice
  <2>3. /\ d \notin DOMAIN s.shared
        /\ choice \in Shown(s) /\ choice.id = row.id /\ d \in DOMAIN choice.verdicts /\ choice.verdicts[d] = f[d]
    BY <1>5, <1>7, <1>10, <2>1, <2>2
  <2> QED BY <1>6, <2>3 DEF s, Parked
<1> QED BY <1>9, <1>10

-----------------------------------------------------------------------------
(* Everything is offered once.                                             *)

Parts(C) == {Flat(C)} \cup Tight(C)

\* The flat list and the families part the choices (settle-choices.ts).
LEMMA PartsAre ==
    ASSUME NEW C, AreChoices(C)
    PROVE  /\ \A P \in Parts(C) : P \in SUBSET C /\ AreChoices(P) /\ Cardinality(P) <= Cardinality(C)
           /\ \A a \in C : \E P \in Parts(C) : a \in P
           /\ \A P, Q \in Parts(C) : \A a \in P \cap Q : P = Q
<1>1. \A f \in Tight(C) : f \in SUBSET C /\ \A a \in f : f = FamilyOf(C, a)
  BY FamiliesPart
<1>2. ASSUME NEW P \in Parts(C) PROVE P \in SUBSET C
  BY <1>1 DEF Parts, Flat
<1>3. \A P \in Parts(C) : AreChoices(P) /\ Cardinality(P) <= Cardinality(C)
  BY <1>2, PartOfChoices
<1>4. \A a \in C : \E P \in Parts(C) : a \in P
  BY DEF Parts, Flat
<1>5. ASSUME NEW P \in Parts(C), NEW Q \in Parts(C), NEW a \in P \cap Q PROVE P = Q
  <2>1. CASE P \in Tight(C) /\ Q \in Tight(C)
    BY <1>1, <2>1
  <2>2. CASE P \notin Tight(C) \/ Q \notin Tight(C)
    BY <2>2 DEF Parts, Flat
  <2> QED BY <2>1, <2>2
<1> QED BY <1>2, <1>3, <1>4, <1>5

\* OfferedOnce, for all that may be recorded of a row, in any order
\* (settle-choices.ts).
LEMMA OfferedOnceHolds == Typed => OfferedOnce
<1> SUFFICES ASSUME Typed, Asked("choices")
             PROVE  LET c == Pick!SettleChoices(x.name, Pick!LoadParkedRow(x.rows))
                        lists == {c.listed} \cup c.groups
                    IN /\ \A id \in Pick!CandidatesSeen(x.rows) :
                              Cardinality({p \in lists \X DOMAIN x.rows :
                                              p[2] \in DOMAIN p[1] /\ p[1][p[2]].id = id}) = 1
                       /\ \A g \in c.groups : \A k \in DOMAIN g : ~g[k].caution
                       /\ \A k \in DOMAIN c.listed, l \in DOMAIN c.listed :
                              k < l /\ c.listed[k].caution => c.listed[l].caution
  BY Zenon DEF OfferedOnce
<1> DEFINE C == ChoicesOf(Parked, x.name)
           s == Pick!SettleChoices(x.name, Parked)
           n == Len(x.rows)
           lists == {s.listed} \cup s.groups
<1>1. /\ Parked \in Seq(Cands(Ids, Labels, Lines, Said))
      /\ Gathers(Parked, x.rows, n, [id \in Ids |-> Reports(x.rows, id)])
      /\ n \in Nat /\ DOMAIN x.rows = 1..n
  <2>1. x.rows \in Seq(Cands(Ids, Labels, Lines, Said))
    BY AskedChoices
  <2> QED BY <2>1, AskedChoices
<1>2. /\ AreChoices(C) /\ Cardinality(C) = Len(Parked) /\ Len(Parked) \in Nat
      /\ \A a \in C : \E i \in 1..Len(Parked) : a = ChoiceAt(Parked, x.name, i)
      /\ \A a \in C : a.caution = Pick!Cautioned(a)
  BY <1>1, ChoicesAre
<1>3. s.listed = Pick!Sorted(Flat(C)) /\ s.groups = {Pick!Sorted(f) : f \in Tight(C)}
  BY SettleChoicesIs
<1>4. /\ \A i \in 1..Len(Parked) : \E j \in 1..n : x.rows[j].id = Parked[i].id
      /\ \A j \in 1..n : \E i \in 1..Len(Parked) : Parked[i].id = x.rows[j].id
      /\ \A i, j \in 1..Len(Parked) : Parked[i].id = Parked[j].id => i = j
      /\ Len(Parked) <= n
  BY <1>1 DEF Gathers
<1>5. \A i \in 1..Len(Parked) : ChoiceAt(Parked, x.name, i) \in C /\ ChoiceAt(Parked, x.name, i).id = Parked[i].id
  BY <1>1, ChoiceIs
<1> HIDE DEF C, s, n
<1>6. lists = {Pick!Sorted(P) : P \in Parts(C)}
  BY <1>3 DEF Parts
<1>7. ASSUME NEW P \in Parts(C)
      PROVE  /\ P \in SUBSET C /\ Cardinality(P) \in Nat /\ Cardinality(P) <= Cardinality(C)
             /\ DOMAIN Pick!Sorted(P) = 1..Cardinality(P)
             /\ \A i \in 1..Cardinality(P) : Pick!Sorted(P)[i] \in P
             /\ \A b \in P : \E i \in 1..Cardinality(P) : Pick!Sorted(P)[i] = b
             /\ \A i, j \in 1..Cardinality(P) : i < j => Pick!ByCorroboration(Pick!Sorted(P)[i], Pick!Sorted(P)[j])
             /\ \A i, j \in 1..Cardinality(P) : Pick!Sorted(P)[i] = Pick!Sorted(P)[j] => i = j
  <2>1. P \in SUBSET C /\ AreChoices(P) /\ Cardinality(P) <= Cardinality(C)
    BY <1>2, PartsAre
  <2> QED BY <2>1, SortedChoices
<1>8. ASSUME NEW id \in Pick!CandidatesSeen(x.rows)
      PROVE  Cardinality({p \in lists \X DOMAIN x.rows : p[2] \in DOMAIN p[1] /\ p[1][p[2]].id = id}) = 1
  <2>1. PICK i \in 1..Len(Parked) : Parked[i].id = id
    <3>1. PICK j \in 1..n : x.rows[j].id = id
      BY <1>1 DEF Pick!CandidatesSeen
    <3> QED BY <1>4, <3>1
  <2> DEFINE a == ChoiceAt(Parked, x.name, i)
             T == {p \in lists \X DOMAIN x.rows : p[2] \in DOMAIN p[1] /\ p[1][p[2]].id = id}
  <2>2. a \in C /\ a.id = id
    BY <1>5, <2>1
  <2>3. ASSUME NEW b \in C, b.id = id PROVE b = a
    <3>1. PICK k \in 1..Len(Parked) : b = ChoiceAt(Parked, x.name, k)
      BY <1>2
    <3>2. Parked[k].id = id
      BY <1>5, <2>3, <3>1
    <3>3. k = i
      BY <1>4, <2>1, <3>2
    <3> QED BY <3>1, <3>3
  <2> HIDE DEF a
  <2>4. PICK P \in Parts(C) : a \in P
    BY <1>2, <2>2, PartsAre
  <2>5. PICK at \in 1..Cardinality(P) : Pick!Sorted(P)[at] = a
    BY <1>7, <2>4
  <2> HIDE DEF lists
  <2>6. <<Pick!Sorted(P), at>> \in T
    <3>1. Pick!Sorted(P) \in lists
      BY <1>6
    <3>2. at \in DOMAIN Pick!Sorted(P) /\ at \in DOMAIN x.rows
      BY <1>1, <1>2, <1>4, <1>7, <2>5
    <3> QED BY <2>2, <2>5, <3>1, <3>2
  <2>7. ASSUME NEW p \in T PROVE p = <<Pick!Sorted(P), at>>
    <3>1. /\ p \in lists \X DOMAIN x.rows /\ p[2] \in DOMAIN p[1] /\ p[1][p[2]].id = id
      OBVIOUS
    <3>2. PICK Q \in Parts(C) : p[1] = Pick!Sorted(Q)
      BY <1>6, <3>1
    <3>3. p[2] \in 1..Cardinality(Q) /\ Pick!Sorted(Q)[p[2]] \in Q /\ Q \in SUBSET C
      BY <1>7, <3>1, <3>2
    <3>4. Pick!Sorted(Q)[p[2]] = a
      BY <2>3, <3>1, <3>2, <3>3
    <3>5. Q = P
      BY <1>2, <2>4, <3>3, <3>4, PartsAre
    <3>6. p[2] = at
      BY <1>7, <2>5, <3>3, <3>4, <3>5
    <3> QED BY <3>1, <3>2, <3>5, <3>6
  <2>8. T = {<<Pick!Sorted(P), at>>}
    <3> HIDE DEF T
    <3> QED BY <2>6, <2>7
  <2> HIDE DEF T
  <2>9. Cardinality(T) = 1
    BY <2>8, FS_Singleton
  <2> QED BY <2>9 DEF T
<1>9. ASSUME NEW g \in s.groups, NEW k \in DOMAIN g PROVE ~g[k].caution
  <2>1. PICK f \in Tight(C) : g = Pick!Sorted(f)
    BY <1>3
  <2>2. f \in Parts(C)
    BY DEF Parts
  <2>3. g[k] \in f /\ f \in SUBSET C
    BY <1>7, <2>1, <2>2
  <2>4. ~Pick!Cautioned(g[k])
    BY <2>3, FamiliesPart
  <2> QED BY <1>2, <2>3, <2>4
<1>10. ASSUME NEW k \in DOMAIN s.listed, NEW l \in DOMAIN s.listed, k < l, s.listed[k].caution
       PROVE  s.listed[l].caution
  <2>1. Flat(C) \in Parts(C)
    BY DEF Parts
  <2>2. /\ s.listed[k] \in C /\ s.listed[l] \in C
        /\ Pick!ByCorroboration(s.listed[k], s.listed[l])
    BY <1>3, <1>7, <1>10, <2>1
  <2>3. Pick!Cautioned(s.listed[k]) /\ (s.listed[l].caution <=> Pick!Cautioned(s.listed[l]))
    <3>1. s.listed[k].caution = Pick!Cautioned(s.listed[k]) /\ s.listed[l].caution = Pick!Cautioned(s.listed[l])
      BY <1>2, <2>2
    <3> QED BY <1>10, <3>1
  <2>4. Pick!Cautioned(s.listed[k]) \in BOOLEAN /\ Pick!Cautioned(s.listed[l]) \in BOOLEAN
    BY DEF Pick!Cautioned
  <2>5. Pick!Cautioned(s.listed[l])
    BY <2>2, <2>3, <2>4 DEF Pick!ByCorroboration
  <2> QED BY <2>3, <2>5
<1> QED BY <1>8, <1>9, <1>10 DEF s, Parked

-----------------------------------------------------------------------------
(* The tie.                                                                *)

(* What a company's checks read, whoever made them and however often. *)
Reads(all) ==
    {<<all[i].of, all[i].verdict>> : i \in {k \in DOMAIN all : \A j \in 1..(k - 1) : all[j].of # all[k].of}}

\* What a company's checks read is what the fold of its reports tells.
LEMMA ReadsAre ==
    ASSUME NEW W, NEW all \in Seq(W), NEW f, Tells(f, all)
    PROVE  Reads(all) = {<<d, f[d].verdict>> : d \in DOMAIN f}
<1>0. DOMAIN all = 1..Len(all) /\ Len(all) \in Nat
  OBVIOUS
<1>1. DOMAIN f = {all[i].of : i \in DOMAIN all}
  BY DEF Tells
<1>2. ASSUME NEW d \in DOMAIN f
      PROVE  \E lead \in DOMAIN all :
                /\ all[lead].of = d /\ f[d].verdict = all[lead].verdict
                /\ \A j \in DOMAIN all : all[j].of = d => lead <= j
  BY DEF Tells
<1> DEFINE First == {k \in DOMAIN all : \A j \in 1..(k - 1) : all[j].of # all[k].of}
<1>3. ASSUME NEW d \in DOMAIN f PROVE \E k \in First : all[k].of = d /\ f[d].verdict = all[k].verdict
  <2>1. PICK lead \in DOMAIN all :
           /\ all[lead].of = d /\ f[d].verdict = all[lead].verdict
           /\ \A j \in DOMAIN all : all[j].of = d => lead <= j
    BY <1>2
  <2>2. \A j \in 1..(lead - 1) : all[j].of # all[lead].of
    BY <1>0, <2>1
  <2> QED BY <2>1, <2>2
<1>4. ASSUME NEW k \in First PROVE all[k].of \in DOMAIN f /\ f[all[k].of].verdict = all[k].verdict
  <2>1. all[k].of \in DOMAIN f
    BY <1>1
  <2>2. PICK lead \in DOMAIN all :
           /\ all[lead].of = all[k].of /\ f[all[k].of].verdict = all[lead].verdict
           /\ \A j \in DOMAIN all : all[j].of = all[k].of => lead <= j
    BY <1>2, <2>1
  <2>3. lead = k
    BY <1>0, <2>2
  <2> QED BY <2>1, <2>2, <2>3
<1>5. Reads(all) = {<<all[k].of, all[k].verdict>> : k \in First}
  BY DEF Reads
<1> HIDE DEF First
<1> QED BY <1>3, <1>4, <1>5

\* What is said once is true of all: who is left alike without it reads
\* alike with it (settle-choices.ts).
LEMMA LeftAlikeReadsAlike ==
    ASSUME NEW c, NEW i \in DOMAIN c, NEW j \in DOMAIN c
    PROVE  ([d \in Left(c, i) |-> Folded(c)[i][d].verdict] = [d \in Left(c, j) |-> Folded(c)[j][d].verdict])
             <=> ({<<d, Folded(c)[i][d].verdict>> : d \in DOMAIN Folded(c)[i]}
                    = {<<d, Folded(c)[j][d].verdict>> : d \in DOMAIN Folded(c)[j]})
<1> DEFINE H == Pick!Hoisted(Folded(c))
           f == Folded(c)[i]
           g == Folded(c)[j]
           vf == [d \in Left(c, i) |-> f[d].verdict]
           vg == [d \in Left(c, j) |-> g[d].verdict]
           rf == {<<d, f[d].verdict>> : d \in DOMAIN f}
           rg == {<<d, g[d].verdict>> : d \in DOMAIN g}
<1>1. i \in DOMAIN Folded(c) /\ j \in DOMAIN Folded(c)
  BY DEF Folded
<1>2. \A d \in H : d \in DOMAIN f /\ d \in DOMAIN g /\ f[d].verdict = g[d].verdict
  BY <1>1, HoistedIs
<1>3. Left(c, i) = DOMAIN f \ H /\ Left(c, j) = DOMAIN g \ H
  BY DEF Left
<1> HIDE DEF H, f, g
<1>4. ASSUME vf = vg PROVE rf = rg
  <2>1. DOMAIN vf = Left(c, i) /\ DOMAIN vg = Left(c, j)
    OBVIOUS
  <2>2. \A d \in Left(c, i) : vf[d] = f[d].verdict
    OBVIOUS
  <2>2a. \A d \in Left(c, j) : vg[d] = g[d].verdict
    OBVIOUS
  <2> HIDE DEF vf, vg
  <2>3. DOMAIN f = DOMAIN g
    BY <1>2, <1>3, <1>4, <2>1
  <2>4. \A d \in DOMAIN f : f[d].verdict = g[d].verdict
    BY <1>2, <1>3, <1>4, <2>1, <2>2, <2>2a
  <2> QED BY <2>3, <2>4
<1>5. ASSUME rf = rg PROVE vf = vg
  <2>1. ASSUME NEW d \in DOMAIN f PROVE d \in DOMAIN g /\ f[d].verdict = g[d].verdict
    <3>1. <<d, f[d].verdict>> \in rg
      BY <1>5
    <3> QED BY <3>1
  <2>2. ASSUME NEW d \in DOMAIN g PROVE d \in DOMAIN f
    <3>1. <<d, g[d].verdict>> \in rf
      BY <1>5
    <3> QED BY <3>1
  <2>3. Left(c, i) = Left(c, j)
    BY <1>3, <2>1, <2>2
  <2>4. \A d \in Left(c, i) : f[d].verdict = g[d].verdict
    BY <1>3, <2>1
  <2> QED BY <2>3, <2>4
<1>6. (vf = vg) <=> (rf = rg)
  <2> HIDE DEF vf, vg, rf, rg
  <2> QED BY <1>4, <1>5
<1> QED BY <1>6 DEF f, g

(* The most that read alike. *)
Alikes(C, a) == {b \in C : Pick!Vector(b) = Pick!Vector(a)}

\* The tie is the size of some class of choices left alike, and of none
\* larger (settle-choices.ts).
LEMMA TiedCountIs ==
    ASSUME NEW C, IsFiniteSet(C), C # {}
    PROVE  /\ \E a \in C : Pick!TiedCount(C) = Cardinality(Alikes(C, a))
           /\ \A a \in C : Cardinality(Alikes(C, a)) <= Pick!TiedCount(C)
           /\ \A a \in C : Cardinality(Alikes(C, a)) \in 1..Cardinality(C)
<1> DEFINE size(a) == Cardinality(Alikes(C, a))
           n == Cardinality(C)
           ties == {size(a) : a \in C}
<1>1. n \in Nat
  BY FS_CardinalityType
<1>2. ASSUME NEW a \in C PROVE size(a) \in 1..n
  <2> DEFINE A == Alikes(C, a)
  <2>1. A \in SUBSET C /\ a \in A
    BY DEF Alikes
  <2> HIDE DEF A
  <2>2. IsFiniteSet(A) /\ Cardinality(A) <= n /\ Cardinality(A) \in Nat
    BY <2>1, FS_Subset, FS_CardinalityType
  <2>3. Cardinality(A) # 0
    BY <2>1, <2>2, FS_EmptySet
  <2>4. Cardinality(A) \in 1..n
    <3> HIDE DEF n
    <3> QED BY <1>1, <2>2, <2>3
  <2> QED BY <2>4 DEF A
<1>3. Pick!Ties(C) = ties
  <2>1. \A a \in C : Pick!Cardinality({d \in C : Pick!Vector(d) = Pick!Vector(a)}) = size(a)
    BY PickCountsAlike DEF Alikes
  <2> HIDE DEF size
  <2> QED BY <2>1 DEF Pick!Ties
<1>4. ties \in SUBSET (1..n) /\ ties # {}
  BY <1>2
<1> HIDE DEF n, ties
<1>5. Max(ties) \in ties /\ \A m \in ties : m <= Max(ties)
  BY <1>1, <1>4, MaxOf
<1>6. Pick!TiedCount(C) = CHOOSE m \in ties : \A k \in ties : k <= m
  BY <1>3 DEF Pick!TiedCount
<1>7. Pick!TiedCount(C) \in ties /\ \A m \in ties : m <= Pick!TiedCount(C)
  BY <1>5, <1>6
<1> HIDE DEF size
<1>8. (\E a \in C : Pick!TiedCount(C) = size(a)) /\ \A a \in C : size(a) <= Pick!TiedCount(C)
  BY <1>7 DEF ties
<1> QED BY <1>2, <1>8 DEF size, n

\* The tie is 1 when no two are left alike, and counts all when all are.
LEMMA TieTells ==
    ASSUME NEW C, IsFiniteSet(C), Cardinality(C) > 1
    PROVE  /\ Pick!TiedCount(C) = 1 <=> \A a, b \in C : a # b => Pick!Vector(a) # Pick!Vector(b)
           /\ Pick!TiedCount(C) = Cardinality(C) <=> \A a, b \in C : Pick!Vector(a) = Pick!Vector(b)
<1> DEFINE n == Cardinality(C)
           t == Pick!TiedCount(C)
<1>1. n \in Nat /\ C # {}
  BY FS_CardinalityType, FS_EmptySet
<1>2. /\ \E a \in C : t = Cardinality(Alikes(C, a))
      /\ \A a \in C : Cardinality(Alikes(C, a)) <= t
      /\ \A a \in C : Cardinality(Alikes(C, a)) \in 1..n
  BY <1>1, TiedCountIs
<1>3. \A a \in C : Alikes(C, a) \in SUBSET C /\ a \in Alikes(C, a) /\ IsFiniteSet(Alikes(C, a))
  <2>1. \A a \in C : Alikes(C, a) \in SUBSET C /\ a \in Alikes(C, a)
    BY DEF Alikes
  <2> QED BY <2>1, FS_Subset
<1> HIDE DEF n, t
<1>4. ASSUME t = 1, NEW a \in C, NEW b \in C, a # b PROVE Pick!Vector(a) # Pick!Vector(b)
  <2>1. Cardinality(Alikes(C, a)) = 1
    BY <1>1, <1>2, <1>4
  <2>2. PICK e : Alikes(C, a) = {e}
    BY <1>3, <2>1, FS_Singleton
  <2>3. b \notin Alikes(C, a)
    BY <1>3, <1>4, <2>2
  <2> QED BY <2>3 DEF Alikes
<1>5. ASSUME \A a, b \in C : a # b => Pick!Vector(a) # Pick!Vector(b) PROVE t = 1
  <2>1. PICK a \in C : t = Cardinality(Alikes(C, a))
    BY <1>2
  <2>2. Alikes(C, a) = {a}
    BY <1>5 DEF Alikes
  <2> QED BY <2>1, <2>2, FS_Singleton
<1>6. ASSUME t = n, NEW a \in C, NEW b \in C PROVE Pick!Vector(a) = Pick!Vector(b)
  <2>1. PICK e \in C : t = Cardinality(Alikes(C, e))
    BY <1>2
  <2>2. Alikes(C, e) = C
    BY <1>3, <1>6, <2>1, FS_Subset DEF n
  <2> QED BY <2>2 DEF Alikes
<1>7. ASSUME \A a, b \in C : Pick!Vector(a) = Pick!Vector(b) PROVE t = n
  <2>1. PICK a \in C : t = Cardinality(Alikes(C, a))
    BY <1>2
  <2>2. Alikes(C, a) = C
    BY <1>7 DEF Alikes
  <2> QED BY <2>1, <2>2 DEF n
<1> QED BY <1>4, <1>5, <1>6, <1>7 DEF n, t

\* Two choices are left alike when their companies read alike
\* (settle-choices.ts).
LEMMA VectorsReadAlike ==
    ASSUME NEW I, NEW L, NEW A, NEW W, NEW c \in Seq(Cands(I, L, A, W)), NEW name,
           NEW i \in 1..Len(c), NEW j \in 1..Len(c)
    PROVE  Pick!Vector(ChoiceAt(c, name, i)) = Pick!Vector(ChoiceAt(c, name, j))
             <=> Reads(c[i].verdicts) = Reads(c[j].verdicts)
<1> DEFINE vector(k) == [d \in Left(c, k) |-> Folded(c)[k][d].verdict]
           reads(k) == {<<d, Folded(c)[k][d].verdict>> : d \in DOMAIN Folded(c)[k]}
<1>1. ASSUME NEW k \in 1..Len(c)
      PROVE  Pick!Vector(ChoiceAt(c, name, k)) = vector(k) /\ Reads(c[k].verdicts) = reads(k)
  <2> DEFINE a == ChoiceAt(c, name, k)
  <2>1. /\ DOMAIN a.verdicts = Left(c, k) /\ \A d \in Left(c, k) : a.verdicts[d] = Folded(c)[k][d]
        /\ Folded(c)[k] = Pick!FoldReporters(c[k].verdicts) /\ c[k].verdicts \in Seq(W)
    BY ChoiceIs
  <2> HIDE DEF a
  <2>2. Pick!Vector(a) = vector(k)
    BY <2>1 DEF Pick!Vector
  <2>3. Tells(Folded(c)[k], c[k].verdicts)
    BY <2>1, FoldReportersTells
  <2>4. Reads(c[k].verdicts) = reads(k)
    <3> DEFINE all == c[k].verdicts
               f == Folded(c)[k]
    <3>1. all \in Seq(W) /\ Tells(f, all)
      BY <2>1, <2>3
    <3> HIDE DEF all, f
    <3>2. Reads(all) = {<<d, f[d].verdict>> : d \in DOMAIN f}
      BY <3>1, ReadsAre
    <3> QED BY <3>2 DEF all, f
  <2> QED BY <2>2, <2>4 DEF a
<1>2. vector(i) = vector(j) <=> reads(i) = reads(j)
  <2>1. i \in DOMAIN c /\ j \in DOMAIN c
    OBVIOUS
  <2> QED BY <2>1, LeftAlikeReadsAlike
<1> HIDE DEF vector, reads
<1> QED BY <1>1, <1>2

\* TieIsTold, for all that may be recorded of a row, in any order
\* (settle-choices.ts).
LEMMA TieIsToldHolds == Typed => TieIsTold
<1> DEFINE seen == Pick!CandidatesSeen(x.rows)
           reads(id) == Reads(Reports(x.rows, id))
           said == Pick!SettleAnswer(x.name, Parked)
           C == ChoicesOf(Parked, x.name)
           n == Len(Parked)
           tied == Pick!TiedCount(C)
<1> SUFFICES ASSUME Typed, Asked("choices"), Cardinality(seen) > 1
             PROVE  /\ said = "tells all apart" <=> \A a, b \in seen : a # b => reads(a) # reads(b)
                    /\ said = "separates none" <=> \A a, b \in seen : reads(a) = reads(b)
  BY Zenon DEF TieIsTold, Reads, Reports, Parked
<1>1. /\ Parked \in Seq(Cands(Ids, Labels, Lines, Said)) /\ x.rows \in Seq(Cands(Ids, Labels, Lines, Said))
      /\ Gathers(Parked, x.rows, Len(x.rows), [id \in Ids |-> Reports(x.rows, id)])
  BY AskedChoices
<1>2. /\ \A i \in 1..n : \E j \in 1..Len(x.rows) : x.rows[j].id = Parked[i].id
      /\ \A j \in 1..Len(x.rows) : \E i \in 1..n : Parked[i].id = x.rows[j].id
      /\ \A i, j \in 1..n : Parked[i].id = Parked[j].id => i = j
      /\ \A i \in 1..n : Parked[i].verdicts = Reports(x.rows, Parked[i].id)
  <2>1. \A i \in 1..n : Parked[i].id \in Ids
    BY <1>1, ChoiceIs
  <2> QED BY <1>1, <2>1 DEF Gathers
<1>3. n \in Nat /\ DOMAIN Parked = 1..n /\ DOMAIN x.rows = 1..Len(x.rows)
  BY <1>1
<1>4. seen = {Parked[i].id : i \in 1..n}
  <2>1. seen = {x.rows[j].id : j \in 1..Len(x.rows)}
    BY <1>3 DEF Pick!CandidatesSeen
  <2> HIDE DEF n, seen
  <2>2. ASSUME NEW id \in seen PROVE id \in {Parked[i].id : i \in 1..n}
    <3>1. PICK j \in 1..Len(x.rows) : x.rows[j].id = id
      BY <2>1
    <3> QED BY <1>2, <3>1
  <2>3. ASSUME NEW i \in 1..n PROVE Parked[i].id \in seen
    BY <1>2, <2>1
  <2> QED BY <2>2, <2>3
<1> HIDE DEF n, seen
<1>5. Cardinality(seen) = n
  <2> DEFINE f == [i \in 1..n |-> Parked[i].id]
  <2>1. f \in [1..n -> seen]
    BY <1>4
  <2>2. f \in Injection(1..n, seen)
    BY <1>2, <2>1 DEF Injection, IsInjective
  <2>3. f \in Surjection(1..n, seen)
    BY <1>4, <2>1 DEF Surjection
  <2> HIDE DEF f
  <2>4. ExistsBijection(1..n, seen)
    BY <2>2, <2>3 DEF Bijection, ExistsBijection
  <2>5. IsFiniteSet(1..n) /\ Cardinality(1..n) = n
    BY <1>3, FS_Interval
  <2> QED BY <2>4, <2>5, FS_Bijection
<1>6. /\ IsFiniteSet(C) /\ Cardinality(C) = n
      /\ \A a \in C : \E i \in 1..n : a = ChoiceAt(Parked, x.name, i)
      /\ \A i \in 1..n : ChoiceAt(Parked, x.name, i) \in C /\ ChoiceAt(Parked, x.name, i).at = i
  BY <1>1, ChoicesAre, ChoiceIs DEF AreChoices, n
<1>7. \A i, j \in 1..n : Pick!Vector(ChoiceAt(Parked, x.name, i)) = Pick!Vector(ChoiceAt(Parked, x.name, j))
                           <=> reads(Parked[i].id) = reads(Parked[j].id)
  <2> SUFFICES ASSUME NEW i \in 1..n, NEW j \in 1..n
               PROVE  Pick!Vector(ChoiceAt(Parked, x.name, i)) = Pick!Vector(ChoiceAt(Parked, x.name, j))
                        <=> reads(Parked[i].id) = reads(Parked[j].id)
    OBVIOUS
  <2>1. Parked[i].verdicts = Reports(x.rows, Parked[i].id) /\ Parked[j].verdicts = Reports(x.rows, Parked[j].id)
    BY <1>2
  <2>2. Pick!Vector(ChoiceAt(Parked, x.name, i)) = Pick!Vector(ChoiceAt(Parked, x.name, j))
          <=> Reads(Parked[i].verdicts) = Reads(Parked[j].verdicts)
    BY <1>1, VectorsReadAlike DEF n
  <2> QED BY <2>1, <2>2
<1> HIDE DEF C, reads
<1>8. /\ tied = 1 <=> \A a, b \in C : a # b => Pick!Vector(a) # Pick!Vector(b)
      /\ tied = n <=> \A a, b \in C : Pick!Vector(a) = Pick!Vector(b)
  BY <1>5, <1>6, TieTells
<1>9. n > 1
  BY <1>5
<1> HIDE DEF tied
<1>10. (\A a, b \in C : a # b => Pick!Vector(a) # Pick!Vector(b)) <=> \A a, b \in seen : a # b => reads(a) # reads(b)
  <2>1. ASSUME \A a, b \in C : a # b => Pick!Vector(a) # Pick!Vector(b), NEW a \in seen, NEW b \in seen, a # b
        PROVE  reads(a) # reads(b)
    <3>1. PICK i \in 1..n : Parked[i].id = a
      BY <1>4
    <3>2. PICK j \in 1..n : Parked[j].id = b
      BY <1>4
    <3>3. ChoiceAt(Parked, x.name, i) # ChoiceAt(Parked, x.name, j)
      BY <1>6, <2>1, <3>1, <3>2
    <3> QED BY <1>6, <1>7, <2>1, <3>1, <3>2, <3>3
  <2>2. ASSUME \A a, b \in seen : a # b => reads(a) # reads(b), NEW a \in C, NEW b \in C, a # b
        PROVE  Pick!Vector(a) # Pick!Vector(b)
    <3>1. PICK i \in 1..n : a = ChoiceAt(Parked, x.name, i)
      BY <1>6
    <3>2. PICK j \in 1..n : b = ChoiceAt(Parked, x.name, j)
      BY <1>6
    <3>3. Parked[i].id # Parked[j].id
      BY <1>2, <2>2, <3>1, <3>2
    <3> QED BY <1>4, <1>7, <2>2, <3>1, <3>2, <3>3
  <2> QED BY <2>1, <2>2
<1>11. (\A a, b \in C : Pick!Vector(a) = Pick!Vector(b)) <=> \A a, b \in seen : reads(a) = reads(b)
  <2>1. ASSUME \A a, b \in C : Pick!Vector(a) = Pick!Vector(b), NEW a \in seen, NEW b \in seen
        PROVE  reads(a) = reads(b)
    <3>1. PICK i \in 1..n : Parked[i].id = a
      BY <1>4
    <3>2. PICK j \in 1..n : Parked[j].id = b
      BY <1>4
    <3> QED BY <1>6, <1>7, <2>1, <3>1, <3>2
  <2>2. ASSUME \A a, b \in seen : reads(a) = reads(b), NEW a \in C, NEW b \in C
        PROVE  Pick!Vector(a) = Pick!Vector(b)
    <3>1. PICK i \in 1..n : a = ChoiceAt(Parked, x.name, i)
      BY <1>6
    <3>2. PICK j \in 1..n : b = ChoiceAt(Parked, x.name, j)
      BY <1>6
    <3> QED BY <1>4, <1>7, <2>2, <3>1, <3>2
  <2> QED BY <2>1, <2>2
<1>12. /\ said = "tells all apart" <=> tied = 1
       /\ said = "separates none" <=> tied = n
  <2>1. Pick!SettleChoices(x.name, Parked).tiedCount = tied
    BY SettleChoicesIs DEF tied, C
  <2> QED BY <1>3, <1>9, <2>1 DEF Pick!SettleAnswer, n
<1> QED BY <1>8, <1>10, <1>11, <1>12

\* EveryChoiceSettles, of every form (settle-request.ts, settle-by-hand.ts).
LEMMA EveryChoiceSettlesHolds == EveryChoiceSettles
BY DEF EveryChoiceSettles, Pick!SettleRowByHand, Pick!ParseSettlement, Pick!Settles, Pick!Refusal

-----------------------------------------------------------------------------
(* The addresses and the gate.                                             *)

\* The ladder is read off one address, and none ranks above it
\* (address-ladder.ts).
LEMMA BestAddress ==
    ASSUME NEW roster, NEW names, NEW U, NEW as \in Seq(U), as # <<>>
    PROVE  \E i \in DOMAIN as :
              /\ Disc!CompareAddresses(roster, as, names) = Disc!CompareAddress(roster, as[i], names)
              /\ \A j \in DOMAIN as : Disc!Rank(Disc!CompareAddress(roster, as[j], names))
                                        <= Disc!Rank(Disc!CompareAddress(roster, as[i], names))
<1> DEFINE c == [i \in DOMAIN as |-> Disc!CompareAddress(roster, as[i], names)]
           rank(i) == Disc!Rank(c[i])
           best == Disc!CompareAddresses(roster, as, names)
           First(i) == \A j \in DOMAIN c : rank(i) > rank(j) \/ (rank(i) = rank(j) /\ i <= j)
<1>1. DOMAIN as \subseteq Nat /\ 1 \in DOMAIN as
  <2>1. DOMAIN as = 1..Len(as) /\ Len(as) \in Nat /\ Len(as) # 0
    <3>1. Len(as) \in Nat \ {0}
      BY EmptySeq
    <3>2. DOMAIN as = 1..Len(as)
      BY LenProperties
    <3> QED BY <3>1, <3>2
  <2> DEFINE n == Len(as)
  <2> HIDE DEF n
  <2>2. n \in Nat /\ n # 0 /\ DOMAIN as = 1..n
    BY <2>1 DEF n
  <2> QED BY <2>2
<1>2. \A e : Disc!Rank(e) \in 0..14
  BY DEF Disc!Rank
<1>3. DOMAIN c = DOMAIN as /\ \A i \in DOMAIN as : c[i] = Disc!CompareAddress(roster, as[i], names)
  OBVIOUS
<1>4. best = c[CHOOSE i \in DOMAIN c : First(i)]
  BY DEF Disc!CompareAddresses
<1>5. \A i \in DOMAIN c : rank(i) \in 0..14
  BY <1>2
<1> HIDE DEF c, best, rank
<1>6. \E i \in DOMAIN c : First(i)
  <2> DEFINE short == {14 - rank(i) : i \in DOMAIN c}
  <2>1. short \subseteq Nat
    BY <1>5
  <2>2. short # {}
    BY <1>1, <1>3
  <2> HIDE DEF short
  <2>3. PICK m \in short : \A k \in short : m <= k
    BY <2>1, <2>2, LeastNumber
  <2> DEFINE top == {i \in DOMAIN c : 14 - rank(i) = m}
  <2>4. top \subseteq Nat
    BY <1>1, <1>3
  <2>5. top # {}
    BY <2>3 DEF short
  <2> HIDE DEF top
  <2>6. PICK i \in top : \A j \in top : i <= j
    BY <2>4, <2>5, LeastNumber
  <2>7. i \in DOMAIN c /\ 14 - rank(i) = m
    BY <2>6 DEF top
  <2>8. ASSUME NEW j \in DOMAIN c PROVE rank(i) > rank(j) \/ (rank(i) = rank(j) /\ i <= j)
    <3>1. 14 - rank(j) \in short
      BY DEF short
    <3>2. m <= 14 - rank(j)
      BY <2>3, <3>1
    <3>3. rank(i) \in 0..14 /\ rank(j) \in 0..14
      BY <1>5, <2>7
    <3>4. rank(j) = rank(i) => i <= j
      BY <2>6, <2>7 DEF top
    <3> QED BY <2>7, <3>2, <3>3, <3>4
  <2> QED BY <2>7, <2>8
<1> DEFINE i == CHOOSE k \in DOMAIN c : First(k)
<1>7. i \in DOMAIN c /\ First(i)
  BY <1>6
<1> HIDE DEF i
<1>8. i \in DOMAIN as /\ best = Disc!CompareAddress(roster, as[i], names)
  BY <1>3, <1>4, <1>7 DEF i
<1>9. ASSUME NEW j \in DOMAIN as PROVE rank(j) <= rank(i)
  <2>1. rank(i) \in 0..14 /\ rank(j) \in 0..14
    BY <1>3, <1>5, <1>7
  <2>2. rank(i) > rank(j) \/ rank(i) = rank(j)
    BY <1>3, <1>7
  <2> QED BY <2>1, <2>2
<1>10. \A j \in DOMAIN as : Disc!Rank(Disc!CompareAddress(roster, as[j], names))
                              <= Disc!Rank(Disc!CompareAddress(roster, as[i], names))
  BY <1>3, <1>8, <1>9 DEF rank
<1> QED BY <1>8, <1>10 DEF best

\* RungsAreOneBuilding, however many addresses a record has
\* (address-ladder.ts).
LEMMA RungsAreOneBuildingHolds == Typed => RungsAreOneBuilding
<1> DEFINE as == x.addresses
           best == Disc!CompareAddresses(x.roster, as, {})
<1> SUFFICES ASSUME Typed, Asked("address"), as # <<>>
             PROVE  \E a \in ToSet(as) :
                       /\ best = Disc!CompareAddress(x.roster, a, {})
                       /\ \A b \in ToSet(as) : Disc!Rank(Disc!CompareAddress(x.roster, b, {})) <= Disc!Rank(best)
  BY DEF RungsAreOneBuilding
<1>1. as \in Seq(ToSet(as))
  BY AskedInput, AddressInputs DEF Only
<1> HIDE DEF as
<1>2. PICK i \in DOMAIN as :
         /\ best = Disc!CompareAddress(x.roster, as[i], {})
         /\ \A j \in DOMAIN as : Disc!Rank(Disc!CompareAddress(x.roster, as[j], {}))
                                   <= Disc!Rank(Disc!CompareAddress(x.roster, as[i], {}))
  BY <1>1, BestAddress
<1>3. as[i] \in ToSet(as) /\ \A b \in ToSet(as) : \E j \in DOMAIN as : as[j] = b
  BY DEF ToSet
<1> HIDE DEF best
<1> QED BY <1>2, <1>3 DEF as

\* What the Discriminators that place a record read (discriminators.ts).
LEMMA DiscriminatorsAre ==
    ASSUME NEW roster, NEW c
    PROVE  LET v == Disc!RunDiscriminators(roster, c) IN
           /\ v["country"] = Disc!Anchored(roster, c).country
           /\ v["locality"] = Disc!Anchored(roster, c).locality
           /\ v["street"] = Disc!Anchored(roster, c).street
           /\ v["lei_witness"] = Disc!LeiWitness(roster, c)
BY DEF Disc!RunDiscriminators, Disc!DiscriminatorNames

\* A record whose addresses name no place is nobody's rival
\* (auto-accept.ts).
LEMMA NowhereIsNoRival ==
    ASSUME NEW roster, NEW c, c.lei = None, c.addresses \in Seq(ToSet(c.addresses)),
           \A a \in ToSet(c.addresses) :
              a.country = None /\ Disc!Words(a.city) = {} /\ Disc!Words(a.postcode) = {}
    PROVE  ~Disc!Rival(Disc!RunDiscriminators(roster, c))
<1> DEFINE v == Disc!RunDiscriminators(roster, c)
           names == Disc!NameTokensOf(roster, c)
           as == c.addresses
<1>1. ASSUME NEW a, a.country = None, Disc!Words(a.city) = {}, Disc!Words(a.postcode) = {}
      PROVE  LET said == Disc!CompareAddress(roster, a, names) IN
             said.country # "pass" /\ said.locality # "pass" /\ said.street # "pass"
  <2>1. Disc!SameCountry(roster.country, a.country) # "pass"
    BY <1>1 DEF Disc!SameCountry
  <2>2. Disc!Locality(roster, a) # "pass"
    BY <1>1 DEF Disc!Locality
  <2>3. Disc!StreetRung(roster, a, names) # "pass"
    BY <2>2 DEF Disc!StreetRung
  <2> HIDE DEF names
  <2> QED BY <2>1, <2>2, <2>3 DEF Disc!CompareAddress
<1>2. \E a : /\ Disc!Anchored(roster, c) = Disc!CompareAddress(roster, a, names)
             /\ a.country = None /\ Disc!Words(a.city) = {} /\ Disc!Words(a.postcode) = {}
  <2>1. CASE as = <<>>
    <3>1. Disc!Anchored(roster, c) = Disc!CompareAddress(roster, Disc!Nowhere, names)
      BY <2>1 DEF Disc!Anchored, Disc!CompareAddresses
    <3>2. /\ Disc!Nowhere.country = None /\ Disc!Words(Disc!Nowhere.city) = {}
          /\ Disc!Words(Disc!Nowhere.postcode) = {}
      BY DEF Disc!Nowhere, Disc!Words
    <3> QED BY <3>1, <3>2
  <2>2. CASE as # <<>>
    <3> HIDE DEF as, names
    <3>1. as \in Seq(ToSet(as))
      BY DEF as
    <3>2. PICK i \in DOMAIN as : Disc!CompareAddresses(roster, as, names) = Disc!CompareAddress(roster, as[i], names)
      BY <2>2, <3>1, BestAddress
    <3>3. as[i] \in ToSet(as)
      BY DEF ToSet
    <3>4. Disc!Anchored(roster, c) = Disc!CompareAddress(roster, as[i], names)
      BY <3>2 DEF Disc!Anchored, as, names
    <3> QED BY <3>3, <3>4 DEF as
  <2> QED BY <2>1, <2>2
<1>3. /\ Disc!Anchored(roster, c).country # "pass" /\ Disc!Anchored(roster, c).locality # "pass"
      /\ Disc!Anchored(roster, c).street # "pass"
  <2> HIDE DEF names
  <2> QED BY <1>1, <1>2
<1>4. Disc!LeiWitness(roster, c) # "pass"
  BY DEF Disc!LeiWitness
<1>5. v["country"] # "pass" /\ v["locality"] # "pass" /\ v["street"] # "pass" /\ v["lei_witness"] # "pass"
  BY <1>3, <1>4, DiscriminatorsAre
<1> HIDE DEF v
<1>6. Disc!PlacedBy(v) = {}
  BY <1>5 DEF Disc!PlacedBy, Disc!Placing
<1> QED BY <1>6 DEF Disc!Rival, v

(* The gate over the records K: who is clean, who is a rival of whom. *)
Clean(roster, K) == {c \in K : Disc!PassesAllEight(Disc!RunDiscriminators(roster, c))}
Winner(roster, K) == CHOOSE c \in Clean(roster, K) : TRUE
Contested(roster, K) ==
    \E c \in K \ {Winner(roster, K)} : Disc!Rival(Disc!RunDiscriminators(roster, c))

\* The gate in terms of the records that pass all eight and the rivals of
\* their one (auto-accept.ts).
LEMMA GateIs ==
    ASSUME NEW roster, NEW K
    PROVE  Disc!EvaluateAutoAccept(roster, K)
             = LET winner == Winner(roster, K) IN
               IF /\ Cardinality(Clean(roster, K)) = 1 /\ ~Contested(roster, K)
                  /\ winner.lei # None /\ winner.gleif # None
               THEN winner.id ELSE None
<1> DEFINE v == [c \in K |-> Disc!RunDiscriminators(roster, c)]
           clean == {c \in K : Disc!PassesAllEight(v[c])}
           winner == CHOOSE c \in clean : TRUE
<1>1. \A c \in K : v[c] = Disc!RunDiscriminators(roster, c)
  OBVIOUS
<1>2. Disc!EvaluateAutoAccept(roster, K)
        = IF /\ Disc!Cardinality(clean) = 1
             /\ ~\E c \in K \ {winner} : Disc!Rival(v[c])
             /\ winner.lei # None /\ winner.gleif # None
          THEN winner.id ELSE None
  BY DEF Disc!EvaluateAutoAccept
<1>3. clean = Clean(roster, K)
  BY <1>1 DEF Clean
<1>4. Disc!Cardinality(clean) = Cardinality(clean)
  BY DEF Disc!Cardinality, Cardinality
<1> HIDE DEF v
<1>5. winner = Winner(roster, K)
  BY <1>3, Zenon DEF Winner
<1> HIDE DEF clean, winner
<1>6. (\E c \in K \ {winner} : Disc!Rival(v[c])) <=> Contested(roster, K)
  BY <1>1, <1>5 DEF Contested
<1> QED BY <1>2, <1>3, <1>4, <1>5, <1>6

\* GateIgnoresSilence, of any newcomer among any records (auto-accept.ts).
LEMMA GateIgnoresSilenceHolds == Typed => GateIgnoresSilence
<1> DEFINE g == x
           roster == x.roster
           K == x.candidates
           new == x.newcomer
           v == Disc!RunDiscriminators(roster, new)
           M == K \cup {new}
<1> SUFFICES ASSUME Typed, Asked("gate")
             PROVE  IF x.silent THEN Disc!EvaluateAutoAccept(roster, M) = Disc!EvaluateAutoAccept(roster, K)
                    ELSE Disc!EvaluateAutoAccept(roster, M) = None
  BY DEF GateIgnoresSilence
<1>1. /\ new.lei = None /\ new.addresses \in Seq(ToSet(new.addresses))
      /\ x.silent => \A a \in ToSet(new.addresses) :
                        a.country = None /\ Disc!Words(a.city) = {} /\ Disc!Words(a.postcode) = {}
      /\ ~x.silent => /\ Len(new.addresses) = 1 /\ roster.address # None
                      /\ Disc!ContainsWords(roster.address, new.addresses[1].city)
                      /\ \A d \in Disc!DiscriminatorNames : v[d] # "fail"
  <2>1. x \in Inputs["gate"] /\ "gate" \in DOMAIN Inputs
    BY AskedInput
  <2> QED BY <2>1, GateInputs DEF Only
<1>2. ~Disc!PassesAllEight(v)
  <2>1. v["lei_witness"] # "pass"
    BY <1>1, DiscriminatorsAre DEF Disc!LeiWitness
  <2> HIDE DEF v
  <2> QED BY <2>1 DEF Disc!PassesAllEight, Disc!DiscriminatorNames
<1> HIDE DEF roster, K, new, v
<1>3. Clean(roster, M) = Clean(roster, K)
  BY <1>2 DEF Clean, v
<1>4. Winner(roster, M) = Winner(roster, K)
  BY <1>3 DEF Winner
<1>5. CASE x.silent
  <2>1. ~Disc!Rival(v)
    BY <1>1, <1>5, NowhereIsNoRival DEF v
  <2>2. Contested(roster, M) <=> Contested(roster, K)
    BY <1>4, <2>1 DEF Contested, v
  <2> QED BY <1>3, <1>4, <1>5, <2>2, GateIs
<1>6. CASE ~x.silent
  <2>1. Disc!Rival(v)
    <3> DEFINE as == new.addresses
               names == Disc!NameTokensOf(roster, new)
    <3>1. as \in Seq(ToSet(as)) /\ Len(as) = 1 /\ roster.address # None /\ Disc!ContainsWords(roster.address, as[1].city)
      BY <1>1, <1>6
    <3>2. Disc!Anchored(roster, new) = Disc!CompareAddresses(roster, as, names)
      BY DEF Disc!Anchored
    <3> HIDE DEF as, names
    <3>3. DOMAIN as = {1} /\ as # <<>>
      <4>1. DOMAIN as = 1..Len(as)
        BY <3>1, LenProperties
      <4>2. as # <<>>
        <5>1. Len(<<>>) = 0
          BY EmptySeq, Zenon
        <5>2. Len(as) # Len(<<>>)
          BY <3>1, <5>1
        <5> QED BY <5>2, Zenon
      <4>3. 1..1 = {1}
        OBVIOUS
      <4> QED BY <3>1, <4>1, <4>2, <4>3
    <3>4. Disc!Anchored(roster, new) = Disc!CompareAddress(roster, as[1], names)
      BY <3>1, <3>2, <3>3, BestAddress
    <3>5. Disc!Locality(roster, as[1]) = "pass"
      BY <3>1 DEF Disc!Locality, Disc!ContainsWords, Disc!Words
    <3>6. v["locality"] = "pass"
      BY <3>4, <3>5, DiscriminatorsAre DEF Disc!CompareAddress, v
    <3>7. "locality" \in Disc!PlacedBy(v)
      BY <3>6 DEF Disc!PlacedBy, Disc!Placing
    <3>8. \A d \in Disc!DiscriminatorNames : v[d] # "fail"
      BY <1>1, <1>6
    <3> QED BY <3>7, <3>8 DEF Disc!Rival
  <2>2. CASE Cardinality(Clean(roster, M)) = 1
    <3>1. Clean(roster, M) # {}
      BY <2>2, FS_EmptySet
    <3>2. Winner(roster, M) \in Clean(roster, M)
      BY <3>1 DEF Winner
    <3>3. Winner(roster, M) # new
      BY <1>2, <3>2 DEF Clean, v
    <3>4. Contested(roster, M)
      BY <2>1, <3>3 DEF Contested, v
    <3> QED BY <1>6, <3>4, GateIs
  <2>3. CASE Cardinality(Clean(roster, M)) # 1
    BY <1>6, <2>3, GateIs
  <2> QED BY <2>2, <2>3
<1> QED BY <1>5, <1>6 DEF roster, K, new

\* Whoever settles a row settles it on all that is known of one company, for
\* all that may be recorded of it (needs-review.ts, settle-choices.ts,
\* settle-request.ts, address-ladder.ts, auto-accept.ts).
THEOREM RulesSettlement == Spec => []SettledOnAllThatIsKnown
<1>1. Typed => SettledOnAllThatIsKnown
  BY RungsAreOneBuildingHolds, GateIgnoresSilenceHolds, NothingHiddenHolds, OfferedOnceHolds, TieIsToldHolds,
     EveryChoiceSettlesHolds DEF SettledOnAllThatIsKnown
<1> QED BY <1>1, TypedInductive, PTL DEF Spec
=============================================================================
