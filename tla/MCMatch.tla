------------------------------ MODULE MCMatch -------------------------------
(* Match over two small worlds, for TLC.                                   *)
EXTENDS Match

CONSTANTS a1, a2, j1, j2, e1, e2, DE, AT, pump, works, ag, lane, mill, ulm, linz, 
          nine

Names == [pump |-> {pump, works}, mill |-> {mill}]

Record(id, label, addresses, country) ==
    [id |-> id, label |-> label, marked |-> {}, aliases |-> {},
     addresses |-> addresses, country |-> country, lei |-> id,
     gleif |-> [jurisdiction |-> country, legalCity |-> {ulm},
                legalCountry |-> None, hqCity |-> None],
     owners |-> {}, nonOperatingName |-> FALSE, nonOperatingPurpose |-> FALSE,
     operating |-> TRUE, statesPurpose |-> TRUE, closed |-> FALSE,
     latestStatus |-> "live"]

MCRoster(street) == [name |-> {pump, works}, address |-> {ulm} \cup street,
                     country |-> DE]
Ulm(country, street) == [country |-> country, city |-> {ulm},
                         postcode |-> None, line |-> {ulm} \cup street]
Linz(country) == [country |-> country, city |-> {linz}, postcode |-> None,
                  line |-> {linz, mill}]

\* The company at its own door, and its namesake on a street that carries the
\* name too: one address agrees in country, another in town.
MCFacts ==
    e1 :> Record(e1, {pump, works}, <<Ulm(DE, {lane, nine})>>, DE)
    @@ e2 :> [Record(e2, {pump, works, ag}, <<Ulm(None, {pump}), Linz(DE)>>, AT)
                EXCEPT !.lei = None, !.gleif = None]

\* One world where plain code settles, one where the pre-pass finds only the
\* namesake, and one where it finds nothing and the agents have to search.
MCWorlds ==
    << [roster |-> MCRoster({lane, nine}), facts |-> MCFacts,
        prepass |-> <<e1>>, search |-> <<>>, alone |-> FALSE],
       [roster |-> MCRoster({pump}), facts |-> MCFacts,
        prepass |-> <<e2>>, search |-> e1 :> "R3a", alone |-> FALSE],
       [roster |-> MCRoster({pump}), facts |-> MCFacts,
        prepass |-> <<>>, search |-> e2 :> "R2" @@ e1 :> "R3a", alone |-> TRUE] >>

\* Attempts and Jobs are interchangeable.
Interchangeable == Permutations(Attempts) \cup Permutations(Jobs)
=============================================================================
