----------------------------- MODULE MCEnrich -------------------------------
(* Enrich over small worlds, for TLC: two Jobs each.                       *)
EXTENDS Enrich

CONSTANTS a1, a2, a3, s1, s2, c1, c2, c3, DE, gdp, law, j1, j2

MCIndicators == <<gdp, law>>
OneIndicator == <<gdp>>
OneCriterion == <<"media_signal">>

Hop(field, to, whole) ==
    [field |-> field, to |-> to, whole |-> whole, former |-> FALSE,
     record |-> None]
Path(steps) == [steps |-> steps, occurrences |-> {},
                target |-> [to |-> steps[Len(steps)].to, whole |-> TRUE]]
Near(to) == Path(<<Hop("has_subsidiary", to, TRUE)>>)
Far(via, to) == Path(<<Hop("has_subsidiary", via, TRUE),
                       Hop("has_subsidiary", to, TRUE)>>)
Severed(via, to) == Path(<<Hop("has_subsidiary", via, FALSE),
                           Hop("has_subsidiary", to, TRUE)>>)

Company(e, country) == [entity |-> e, country |-> country, lei |-> FALSE,
                        lines |-> <<>>, located |-> TRUE]
Plain == [stored |-> {c1, c2}, replies |-> Empty, risk |-> Empty, own |-> {},
          gap |-> {}, walk |-> [dir \in {"downward", "upward"} |-> <<>>],
          bidders |-> <<>>, joins |-> Empty, described |-> {}, silent |-> {}]
Two(k1, k2, p1, p2) ==
    [jobs |-> [j \in {j1, j2} |-> IF j = j1 THEN [kind |-> k1, supplier |-> s1]
                                  ELSE [kind |-> k2, supplier |-> s2]],
     profile |-> [s \in {s1, s2} |-> IF s = s1 THEN p1 ELSE p2]] @@ Plain

\* Two Suppliers on one company, which two articles are about.
Shared == [Two("enrich", "enrich", Company(c1, None), Company(c1, None))
    EXCEPT !.replies = [sayari_negative_news |-> <<"n1", "n2">>]]

\* Two Suppliers in one country, which has one of the two indicators.
Neighbours == [Two("enrich", "enrich", Company(c1, DE), Company(c2, DE))
    EXCEPT !.silent = {<<DE, law>>}]

\* A person walks down and up from a company while it is enriched: each way
\* finds one subsidiary at another distance and tells another risk of it.
Walked == [Two("enrich", "traverse", Company(c1, None), Company(c1, None))
    EXCEPT !.replies = [sayari_ownership_family |-> <<Near(c3)>>,
                        sayari_ownership_exposure |-> <<Far(c2, c3)>>],
           !.risk = <<"ownership", c2>> :> [sanctions |-> 3]
                    @@ <<"ubo", c2>> :> [sanctions |-> 1],
           !.walk = [downward |-> <<Far(c2, c3), Near(c1)>>,
                     upward |-> <<Near(c2)>>]]

\* The tiers of one company are read while it is asked who joins it to another.
Segment(to, tier) == [to |-> to, tier |-> tier, hs |-> None]
Traded == [Two("trade", "pairs", Company(c1, None), Company(c2, None))
    EXCEPT !.replies = [sayari_supply_chain_upstream |->
                            <<<<Segment(c3, None), Segment(c2, 2)>>,
                              <<Segment(None, 1)>>>>],
           !.described = {c2, c3}, !.bidders = <<c1, c2, c1>>,
           !.joins = <<c1, c2>> :> Far(c3, c2) @@ <<c2, c1>> :> Far(c3, c1)]

\* A Supplier with nothing accepted, beside one whose family has a middle
\* known by its id only; an owner is in the counts and not in the window.
Bare == [Two("enrich", "enrich", None,
             [Company(c1, None) EXCEPT !.lei = TRUE, !.lines = <<"8544">>,
                                       !.located = FALSE])
    EXCEPT !.replies = [sayari_watchlist |-> <<Severed(c3, c2)>>],
           !.own = {Edge(c1, c2, "has_shareholder", FALSE, None, TRUE)},
           !.gap = {Edge(c1, c3, "has_shareholder", FALSE, None, TRUE)}]

\* The same with the middle a company that has a row, so that the Job gets to its
\* end: the evidence is one edge shorter than the Path is deep.
Owned == [Bare EXCEPT !.replies = [sayari_watchlist |-> <<Severed(c2, c3)>>]]

\* A trade Job of a Supplier with nothing accepted, and nobody to pair.
Unmatched == Two("trade", "pairs", None, Company(c2, None))

MCWorlds == <<Shared, Neighbours, Walked, Traded, Bare, Owned, Unmatched>>
NewsWorlds == <<Shared>>
Interchangeable == Permutations(Attempts)
=============================================================================
