------------------------------- MODULE Settle -------------------------------
(* What the page of a parked roster row offers to choose between            *)
(* (src/domain/settle-choices.ts) and how the choice is read back           *)
(* (src/domain/settle-request.ts, src/jobs/settle-by-hand.ts).              *)
(*                                                                          *)
(* A name or an address is the sequence of its tokens: what the code makes  *)
(* of it before it compares two.  A candidate is [id, label, address,       *)
(* sources, verdicts]; a verdict row is [of, verdict, by].                  *)
EXTENDS Integers, FiniteSets, Sequences, SequencesExt

SecurityTokens == {"adr", "adrs", "gdr", "gdrs", "depositary", "depository"}
LegalForms == {"ltd", "inc", "corp", "llc", "sa", "nv", "ag", "se", "co", "kk", "gmbh", "de", "the", "and"}

Significant(name) == SelectSeq(name, LAMBDA token : token \notin LegalForms)
Cautioned(c) == ToSet(c.label) \cap SecurityTokens # {}

SameName(label, rosterName) ==
    LET words == ToSet(Significant(rosterName)) IN
    Len(Significant(label)) = Cardinality(words) /\ ToSet(Significant(label)) \subseteq words

----------------------------------------------------------------------------
(* What the person is asked to settle on: every candidate any attempt       *)
(* recorded, one row an entity, with every verdict any attempt reached.     *)
FirstAttempt(rows) ==                                          \* fault
    LET first(i) == \A j \in 1..(i - 1) : rows[j].id # rows[i].id
        kept == SelectSeq([i \in DOMAIN rows |-> i], first)
    IN [k \in DOMAIN kept |-> rows[kept[k]]]
ByEntity(candidates, row) ==
    IF \E i \in DOMAIN candidates : candidates[i].id = row.id
    THEN [i \in DOMAIN candidates |->
             IF candidates[i].id = row.id THEN [candidates[i] EXCEPT !.verdicts = @ \o row.verdicts]
             ELSE candidates[i]]
    ELSE Append(candidates, row)
LoadParkedRow(rows) == FoldLeft(ByEntity, <<>>, rows)

CandidatesSeen(rows) == {rows[i].id : i \in DOMAIN rows}

----------------------------------------------------------------------------
(* Both readers' verdicts on one Discriminator, folded under the one that   *)
(* came first; what each said is kept where they differ.                    *)
FoldReporters(reports) ==
    [d \in {reports[i].of : i \in DOMAIN reports} |->
        LET all == {i \in DOMAIN reports : reports[i].of = d}
            lead == CHOOSE i \in all : \A j \in all : i <= j
            disputed == \E i, j \in all : reports[i].verdict # reports[j].verdict
        IN [verdict |-> reports[lead].verdict,
            by |-> {reports[i].by : i \in all},
            disputed |-> disputed,
            reports |-> IF disputed THEN {reports[i] : i \in all} ELSE {}]]

(* Every candidate reports it, every candidate agrees, and no candidate's   *)
(* readers disagree: said once above the list.                              *)
MostAgree(folded) ==                                            \* fault
    IF Len(folded) < 2 THEN {}
    ELSE {d \in DOMAIN folded[1] :
            ~folded[1][d].disputed /\ \A i \in DOMAIN folded : d \in DOMAIN folded[i] => folded[i][d].verdict = folded[1][d].verdict}
Hoisted(folded) ==
    IF Len(folded) < 2 THEN {}
    ELSE {d \in DOMAIN folded[1] :
            \A i \in DOMAIN folded :
                /\ d \in DOMAIN folded[i]
                /\ ~folded[i][d].disputed
                /\ folded[i][d].verdict = folded[1][d].verdict}

----------------------------------------------------------------------------
(* Same name, same address: two registries writing one company.  A record   *)
(* that is cautioned is always shown flat.                                  *)
FoldEverything(a, b) == a.label = b.label /\ a.address = b.address          \* fault
Alike(a, b) == ~Cautioned(a) /\ ~Cautioned(b) /\ a.label = b.label /\ a.address = b.address

(* Cautioned last, then the better corroborated, then as they came.         *)
ByCorroboration(a, b) ==
    IF Cautioned(a) # Cautioned(b) THEN Cautioned(b)
    ELSE a.sources > b.sources \/ (a.sources = b.sources /\ a.at < b.at)

(* The choices in that order, each after those that go before it.           *)
Sorted(C) ==
    [n \in 1..Cardinality(C) |->
        CHOOSE c \in C : 1 + Cardinality({d \in C \ {c} : ByCorroboration(d, c)}) = n]

\* How many read alike in what is left on the rows.
Vector(c) == [d \in DOMAIN c.verdicts |-> c.verdicts[d].verdict]
Ties(choices) == {Cardinality({d \in choices : Vector(d) = Vector(c)}) : c \in choices}
SmallestTie(choices) == IF choices = {} THEN 0 ELSE CHOOSE n \in Ties(choices) : \A m \in Ties(choices) : n <= m   \* fault
TiedCount(choices) == IF choices = {} THEN 0 ELSE CHOOSE n \in Ties(choices) : \A m \in Ties(choices) : m <= n

SettleChoices(rosterName, candidates) ==
    LET folded == [i \in DOMAIN candidates |-> FoldReporters(candidates[i].verdicts)]
        hoisted == Hoisted(folded)
        choice(i) ==
            LET rest == DOMAIN folded[i] \ hoisted IN
            [at |-> i, id |-> candidates[i].id, label |-> candidates[i].label,
             address |-> candidates[i].address, sources |-> candidates[i].sources,
             caution |-> Cautioned(candidates[i]),
             otherName |-> ~SameName(candidates[i].label, rosterName) /\ ~Cautioned(candidates[i]),
             verdicts |-> [d \in rest |-> folded[i][d]]]
        choices == {choice(i) : i \in DOMAIN candidates}
        family(c) == {d \in choices : Alike(c, d)}
        tight == {family(c) : c \in {x \in choices : Cardinality(family(x)) > 1}}
    IN [shared |-> [d \in hoisted |-> folded[1][d].verdict],
        listed |-> Sorted(choices \ UNION tight),
        groups |-> {Sorted(f) : f \in tight},
        tiedCount |-> TiedCount(choices)]

(* What the page says of the tie. *)
SettleAnswer(rosterName, candidates) ==
    LET n == Len(candidates)
        tied == SettleChoices(rosterName, candidates).tiedCount
    IN CASE n = 0 -> "never seen" [] n = 1 -> "below the bar"
         [] n > 1 /\ tied = n -> "separates none" [] n > 1 /\ tied = 1 -> "tells all apart"
         [] OTHER -> "some tied"

----------------------------------------------------------------------------
(* The form: [choice, entity, typed].  A blank box is not "not found".      *)

Refusal == [ok |-> FALSE, kind |-> "refused", entity |-> "none"]
Settles(kind, e) == [ok |-> TRUE, kind |-> kind, entity |-> e]

ParseSettlement(form, candidateIds) ==
    CASE form.choice = "not_found" -> Settles("not_found", "none")
      [] form.choice = "entity" /\ form.entity \in candidateIds -> Settles("listed", form.entity)
      [] form.choice = "other" /\ form.typed \in candidateIds -> Settles("listed", form.typed)
      [] form.choice = "other" /\ form.typed \notin candidateIds \cup {"", "ill-formed"} -> Settles("typed", form.typed)
      [] OTHER -> Refusal

(* A typed id settles only on a record the app has fetched.                 *)
TypedUnread(form, candidateIds, store) == ParseSettlement(form, candidateIds)           \* fault
SettleRowByHand(form, candidateIds, store) ==
    LET parsed == ParseSettlement(form, candidateIds) IN
    IF parsed.kind = "typed" /\ parsed.entity \notin store THEN Refusal ELSE parsed
=============================================================================
