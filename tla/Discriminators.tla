--------------------------- MODULE Discriminators ---------------------------
(***************************************************************************)
(* The eight Discriminators of src/domain/match/discriminators.ts, the     *)
(* address ladder three of them read (address-ladder.ts), and the gate     *)
(* that lets plain code settle a Match (auto-accept.ts).                   *)
(*                                                                         *)
(* A text is the set of words that survive normalisation: the order of     *)
(* words is left out, and {} is a text in a script that normalises to      *)
(* nothing.  None is a field the record does not state.  What the readers  *)
(* of a purpose or a status look for in it is a Boolean.                   *)
(***************************************************************************)
EXTENDS Naturals, Sequences, FiniteSets

CONSTANTS
    None,      \* null
    Numbers,   \* the words that are only digits
    Generic    \* STREET_STOPWORDS

DiscriminatorNames == {"country", "locality", "street", "name_cover",
    "alias_context", "lei_witness", "business_purpose", "liveness"}

\* A text field that may be null.
Words(text) == IF text = None THEN {} ELSE text
ContainsWords(line, text) == Words(text) # {} /\ text \subseteq line

-----------------------------------------------------------------------------
(* The address ladder.                                                     *)

SameCountry(a, b) ==
    IF a = None \/ b = None THEN "unavailable"
    ELSE IF a = b THEN "pass" ELSE "fail"

\* Postcode and city are compared after their prefix or district is stripped.
Locality(roster, a) ==
    IF \/ Words(a.city) = {} /\ Words(a.postcode) = {}
       \/ Words(roster.address) = {}
    THEN "unavailable"
    ELSE IF \/ ContainsWords(roster.address, a.city)
            \/ ContainsWords(roster.address, a.postcode)
    THEN "pass" ELSE "fail"

\* A street agrees only inside a town that agrees, and a street named after
\* the company says nothing about the building.
StreetRung(roster, a, nameWords) ==
    LET town == Words(a.city) \cup Words(a.postcode) \cup Generic
        mine == Words(roster.address) \ town
        distinctive == mine \ (nameWords \ Numbers)
        theirs == Words(a.line) \ town
        shared == distinctive \cap theirs
    IN  IF distinctive = {} \/ theirs = {} THEN "unavailable"
        ELSE IF shared = {} THEN "fail"
        ELSE IF Locality(roster, a) = "pass" THEN "pass" ELSE "unavailable"

CompareAddress(roster, a, nameWords) ==
    [country |-> SameCountry(roster.country, a.country),
     locality |-> Locality(roster, a),
     street |-> StreetRung(roster, a, nameWords),
     at |-> a]

Rank(c) ==
    (CASE c.country = "pass" -> 8 [] c.country = "unavailable" -> 2
       [] OTHER -> 0)
    + (CASE c.locality = "pass" -> 4 [] c.locality = "unavailable" -> 1
         [] OTHER -> 0)
    + (IF c.street = "pass" THEN 2 ELSE 0)

Nowhere == [country |-> None, city |-> None, postcode |-> None, line |-> None]

\* Fault: the best of each rung, taken over all the addresses.
BestOfEachRung(roster, addresses, nameWords) ==
    LET all == {CompareAddress(roster, addresses[i], nameWords) :
                    i \in DOMAIN addresses}
        best(vs) == IF "pass" \in vs THEN "pass"
                    ELSE IF "unavailable" \in vs THEN "unavailable" ELSE "fail"
    IN  [country |-> best({c.country : c \in all}),
         locality |-> best({c.locality : c \in all}),
         street |-> best({c.street : c \in all}),
         at |-> IF addresses = <<>> THEN Nowhere ELSE addresses[1]]

\* All three rungs are read from one address: the first of the best ranked.
CompareAddresses(roster, addresses, nameWords) ==
    LET c == [i \in DOMAIN addresses |->
                CompareAddress(roster, addresses[i], nameWords)]
    IN  IF addresses = <<>> THEN CompareAddress(roster, Nowhere, nameWords)
        ELSE c[CHOOSE i \in DOMAIN c :
                 \A j \in DOMAIN c : \/ Rank(c[i]) > Rank(c[j])
                                     \/ Rank(c[i]) = Rank(c[j]) /\ i <= j]

NameTokensOf(roster, c) == roster.name \cup c.label
Anchored(roster, c) ==
    CompareAddresses(roster, c.addresses, NameTokensOf(roster, c))

-----------------------------------------------------------------------------
(* The other five.                                                         *)

\* A word that names a member of a family: a number, a country, a nationality,
\* or whatever the label carries in brackets.
FirstMarker(c, surplus) == surplus \cap (Numbers \cup c.marked) # {}

OwnerAnswersToo(roster, c) ==
    \E o \in c.owners : /\ o.label # {} /\ ~o.nonOperating
                        /\ roster.name \subseteq o.label

NameCover(roster, c) ==
    LET covered == roster.name \cap c.label
        surplus == c.label \ roster.name
    IN  IF roster.name = {} \/ c.label = {} THEN "unavailable"
        ELSE IF covered # roster.name
        THEN IF 2 * Cardinality(covered) >= Cardinality(roster.name)
             THEN "unavailable" ELSE "fail"
        ELSE IF FirstMarker(c, surplus) THEN "unavailable"
        ELSE IF surplus # {} /\ OwnerAnswersToo(roster, c) THEN "unavailable"
        ELSE "pass"

\* An alias outlives a divestiture: a hit there is a reason to look.
AliasContext(roster, c) ==
    IF roster.name = {} THEN "unavailable"
    ELSE IF roster.name \subseteq c.label THEN "pass"
    ELSE IF \E a \in c.aliases : roster.name \subseteq a THEN "unavailable"
    ELSE IF c.label = {} /\ \A a \in c.aliases : a = {} THEN "unavailable"
    ELSE "fail"

\* GLEIF has to corroborate the roster: the country a subsidiary cannot borrow,
\* then either of its two cities.
LeiWitness(roster, c) ==
    IF c.lei = None \/ c.gleif = None THEN "unavailable"
    ELSE LET g == c.gleif
             cities == {x \in {g.legalCity, g.hqCity} : Words(x) # {}}
         IN  IF g.jurisdiction = None \/ roster.country = None
             THEN "unavailable"
             ELSE IF g.jurisdiction # roster.country THEN "fail"
             ELSE IF roster.address = None \/ cities = {} THEN "unavailable"
             ELSE IF \E x \in cities : ContainsWords(roster.address, x)
             THEN "pass" ELSE "fail"

\* The legal name is decisive on its own; a purpose is outweighed by any sign
\* of operating.
BusinessPurpose(roster, c) ==
    IF c.nonOperatingName \/ (c.nonOperatingPurpose /\ ~c.operating)
    THEN "fail"
    ELSE IF ~c.statesPurpose THEN "unavailable" ELSE "pass"

Liveness(c) ==
    IF c.closed THEN "fail"
    ELSE IF c.latestStatus = None THEN "unavailable"
    ELSE IF c.latestStatus = "dead" THEN "fail" ELSE "pass"

RunDiscriminators(roster, c) ==
    LET address == Anchored(roster, c)
    IN  [d \in DiscriminatorNames |->
            CASE d = "country" -> address.country
              [] d = "locality" -> address.locality
              [] d = "street" -> address.street
              [] d = "name_cover" -> NameCover(roster, c)
              [] d = "alias_context" -> AliasContext(roster, c)
              [] d = "lei_witness" -> LeiWitness(roster, c)
              [] d = "business_purpose" -> BusinessPurpose(roster, c)
              [] d = "liveness" -> Liveness(c)]

-----------------------------------------------------------------------------
(* The gate.                                                               *)

Placing == {"country", "locality", "street", "lei_witness"}

PassesAllEight(v) == \A d \in DiscriminatorNames : v[d] = "pass"
PlacedBy(v) == {d \in Placing : v[d] = "pass"}

\* Fault: a record that says nothing about where it is counts as a rival.
AnySurvivor(v) == \A d \in DiscriminatorNames : v[d] # "fail"

\* A candidate nothing has ruled out, and that something places at the address.
Rival(v) == (\A d \in DiscriminatorNames : v[d] # "fail") /\ PlacedBy(v) # {}

\* The candidate that plain code settles on, or None.
EvaluateAutoAccept(roster, candidates) ==
    LET v == [c \in candidates |-> RunDiscriminators(roster, c)]
        clean == {c \in candidates : PassesAllEight(v[c])}
        winner == CHOOSE c \in clean : TRUE
    IN  IF /\ Cardinality(clean) = 1
           /\ ~\E c \in candidates \ {winner} : Rival(v[c])
           /\ winner.lei # None /\ winner.gleif # None
        THEN winner.id ELSE None
=============================================================================
