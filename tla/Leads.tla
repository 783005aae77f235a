-------------------------------- MODULE Leads --------------------------------
(* Discover, the Leads of one Category and what a person does with them:    *)
(* src/jobs/discover.ts, src/domain/discover-leads.ts,                      *)
(* src/jobs/promote-lead.ts and the Category page's lead-actions.ts.        *)
(*                                                                          *)
(* A Discover Job reads pages of the trade search, ranks what is not on the *)
(* roster, and runs one classifier loop per row, writing each Lead as it    *)
(* goes.  Several may run at once, and people promote and dismiss Leads     *)
(* meanwhile.  Promotion is no transaction: each of its writes is a step.   *)
EXTENDS Integers, FiniteSets, Sequences, SequencesExt

CONSTANTS
    Companies,      \* entity ids a trade search can return
    Roster,         \* those that a roster Supplier's Match already names
    Forwarders,     \* those whose name carries a forwarder's word
    Shipments,      \* Companies -> Nat, the shipments of a row
    TradeAnswers,   \* the trade search: a set of functions page -> envelope
    Discovers,      \* Discover Jobs that may be started
    Clicks,         \* presses of "promote"
    TopN,           \* DISCOVER_CLASSIFY_TOP_N
    PageCap,        \* DISCOVER_TRADE_PAGE_CAP
    MaxDismiss      \* bound: presses of "dismiss" and "undismiss"

Nobody == "nobody"
NoLead == [class |-> "not a lead"]
Classes == {"manufacturer", "unclear"}

ASSUME LeadsAssumption ==
    /\ Roster \subseteq Companies /\ Forwarders \subseteq Companies
    /\ Shipments \in [Companies -> Nat]
    /\ TopN \in Nat /\ PageCap \in Nat \ {0}
    /\ \A said \in TradeAnswers : \A o \in DOMAIN said :
         said[o].rows \in Seq(Companies) /\ said[o].next \in Nat

VARIABLES
    trade,          \* what the trade search answers, settled when work begins
    leads,          \* Companies -> the Lead row, or NoLead
    suppliers,      \* discovered Suppliers: [lead, match], in order
    discover,       \* where each Discover Job stands
    click,          \* where each promotion stands
    dismissals      \* count, for the bound

leadVars == <<trade, leads, suppliers, discover, click, dismissals>>

Waiting == [pc |-> "waiting", offset |-> 0, page |-> 0, pool |-> <<>>, queue |-> <<>>]

LeadsInit ==
    /\ trade = <<>>
    /\ leads = [c \in Companies |-> NoLead]
    /\ suppliers = <<>>
    /\ discover = [d \in Discovers |-> Waiting]
    /\ click = [k \in Clicks |-> [pc |-> "idle", at |-> 1, lead |-> Nobody, supplier |-> 0]]
    /\ dismissals = 0

----------------------------------------------------------------------------
(* The search.                                                              *)

(* The envelope at an offset: its rows, whether it says there is more, and  *)
(* where it says the next page starts.                                      *)
Envelope(offset) == IF offset \in DOMAIN trade THEN trade[offset]
                    ELSE [rows |-> <<>>, more |-> FALSE, next |-> offset]

(* Another page is read while this one had rows and says there is more, its *)
(* cursor moves on, and the cap of pages leaves room.                       *)
TakesItsWord(e, offset, page) == e.more                 \* fault
Another(e, offset, page) ==
    e.rows # <<>> /\ e.more /\ e.next > offset /\ page + 1 < PageCap

(* The rows at some positions, each at the place it is given. *)
InOrder(rows, place) ==
    [p \in 1..Cardinality(DOMAIN place) |-> rows[CHOOSE i \in DOMAIN place : place[i] = p]]

(* The rows of companies not seen yet, each company once, as they came. *)
Unseen(rows, seen) ==
    LET first == {i \in DOMAIN rows : rows[i] \notin seen /\ \A j \in 1..i - 1 : rows[j] # rows[i]}
    IN InOrder(rows, [i \in first |-> Cardinality({j \in first : j < i}) + 1])

(* A company pooled from an earlier page is not a second row. *)
Pooled(pool, rows) == pool \o Unseen(rows, ToSet(pool))

(* The order the classifier meets them in: forwarders last, then by         *)
(* shipments; the sort is stable.                                           *)
PrefilterScore(c) == IF c \in Forwarders THEN -1 ELSE 0

Before(pool, i, j) ==
    LET a == pool[i]  b == pool[j] IN
    \/ PrefilterScore(a) > PrefilterScore(b)
    \/ PrefilterScore(a) = PrefilterScore(b) /\
         \/ Shipments[a] > Shipments[b]
         \/ Shipments[a] = Shipments[b] /\ i < j

(* The first TopN of the pool, less those that are dropped. *)
Ranked(pool, dropped) ==
    LET kept == {i \in DOMAIN pool : pool[i] \notin dropped}
        place == [i \in kept |-> Cardinality({j \in kept : Before(pool, j, i)}) + 1]
        n == Cardinality(kept)
    IN SubSeq(InOrder(pool, place), 1, IF n < TopN THEN n ELSE TopN)

(* Everything a Match of this Program names: the roster's own and the       *)
(* companies of promoted Leads.                                             *)
RosterUnread == {}                                      \* fault
OnRoster == Roster \cup {suppliers[s].match : s \in {x \in DOMAIN suppliers : suppliers[x].match # Nobody}}

StartDiscover(d) ==
    /\ discover[d].pc = "waiting"
    /\ discover' = [discover EXCEPT ![d].pc = "search"]
    /\ UNCHANGED <<trade, leads, suppliers, click, dismissals>>

SearchPage(d) ==
    LET s == discover[d]  e == Envelope(s.offset)  pool == Pooled(s.pool, e.rows) IN
    /\ s.pc = "search"
    /\ discover' = [discover EXCEPT ![d] =
         IF Another(e, s.offset, s.page)
         THEN [s EXCEPT !.offset = e.next, !.page = (@ + 1) % PageCap, !.pool = pool]
         ELSE [s EXCEPT !.pc = "rank", !.pool = pool]]
    /\ UNCHANGED <<trade, leads, suppliers, click, dismissals>>

(* The roster is read, and what is on it is dropped by its exact id. *)
RankCandidates(d) ==
    /\ discover[d].pc = "rank"
    /\ LET queue == Ranked(discover[d].pool, OnRoster) IN
       discover' = [discover EXCEPT ![d].pc = IF queue = <<>> THEN "done" ELSE "classify",
                                    ![d].queue = queue]
    /\ UNCHANGED <<trade, leads, suppliers, click, dismissals>>

----------------------------------------------------------------------------
(* The classifier.                                                          *)

(* How a classifier loop ends: its status and what it submitted, in order.  *)
(* An answer outside the closed enum is "other".                            *)
Outcomes ==
    {[status |-> "done", submitted |-> q] : q \in {<<"other", "unclear">>, <<"manufacturer", "other">>}}
    \cup {[status |-> "terminated", submitted |-> q] : q \in {<<>>, <<"manufacturer">>}}
    \cup {[status |-> "failed", submitted |-> <<"manufacturer">>]}

Classified(class) == [class |-> class, reason |-> "none"]
NotClassified(reason) == [class |-> "none", reason |-> reason]

(* readLeadClassification: the last submission counts, a ceiling's is read  *)
(* too, and what was never classified says why.                             *)
CalledUnclear(o) ==                                     \* fault
    IF o.submitted # <<>> /\ Last(o.submitted) \in Classes
    THEN Classified(Last(o.submitted)) ELSE Classified("unclear")
ReadLeadClassification(o) ==
    CASE o.status = "failed" -> NotClassified("failed")
      [] o.status # "failed" /\ o.submitted # <<>> /\ Last(o.submitted) \in Classes
           -> Classified(Last(o.submitted))
      [] OTHER -> NotClassified(IF o.status = "terminated" THEN "stopped"
                                ELSE IF o.submitted # <<>> THEN "outside the enum"
                                ELSE "nothing submitted")

(* recordLead: a new row whole ("said" is a ghost: what was submitted); of  *)
(* a row already there only its evidence moves (shipments, HS lines), which *)
(* is left out here.                                                        *)
NewLead(o) ==
    LET answer == ReadLeadClassification(o) IN
    [class |-> answer.class, reason |-> answer.reason, said |-> o.submitted,
     dismissed |-> FALSE, promoted |-> 0]
RewriteLead(c, o) == NewLead(o)           \* fault
UpsertLead(c, o) ==
    IF leads[c] = NoLead THEN NewLead(o) ELSE leads[c]

(* A ceiling stops the Job, after the row it was about was written. *)
RaiseIfStopped(o) == o.status = "terminated"

StopFirst(c, o) ==                                   \* fault
    IF RaiseIfStopped(o) THEN leads ELSE [leads EXCEPT ![c] = UpsertLead(c, o)]
RecordLead(c, o) == [leads EXCEPT ![c] = UpsertLead(c, o)]

ClassifyNext(d) ==
    /\ discover[d].pc = "classify"
    /\ \E o \in Outcomes :
         /\ leads' = RecordLead(Head(discover[d].queue), o)
         /\ discover' = [discover EXCEPT
              ![d].pc = IF RaiseIfStopped(o) THEN "terminated"
                        ELSE IF Len(discover[d].queue) = 1 THEN "done" ELSE "classify",
              ![d].queue = IF RaiseIfStopped(o) THEN @ ELSE Tail(@)]
    /\ UNCHANGED <<trade, suppliers, click, dismissals>>

----------------------------------------------------------------------------
(* A person's acts.  The page offers "promote" and "dismiss" on a Lead that *)
(* is neither promoted nor dismissed, and "undismiss" on a dismissed one; a *)
(* page read earlier still offers what it offered then.                     *)
Open(c) == leads[c] # NoLead /\ leads[c].promoted = 0 /\ ~leads[c].dismissed

(* promoteLead: the Lead is read, the Supplier inserted with its origin ... *)
Promote(k, c) ==
    /\ click[k].pc = "idle" /\ Open(c)
    /\ suppliers' = Append(suppliers, [lead |-> c, match |-> Nobody])
    /\ click' = [click EXCEPT ![k] = [pc |-> "writing", at |-> 1, lead |-> c, supplier |-> Len(suppliers) + 1]]
    /\ UNCHANGED <<trade, leads, discover, dismissals>>

(* ... then its Match is settled on the Lead's company, and only then does  *)
(* the Lead point at the Supplier.                                          *)
LinkFirst == <<"link", "settle">>       \* fault
PromoteOrder == <<"settle", "link">>

PromoteWrite(k) ==
    LET c == click[k]  write == PromoteOrder[c.at] IN
    /\ c.pc = "writing" /\ c.at \in DOMAIN PromoteOrder
    /\ suppliers' = IF write = "settle" THEN [suppliers EXCEPT ![c.supplier].match = c.lead] ELSE suppliers
    /\ leads' = IF write = "link" THEN [leads EXCEPT ![c.lead].promoted = c.supplier] ELSE leads
    /\ click' = [click EXCEPT ![k].at = @ + 1]
    /\ UNCHANGED <<trade, discover, dismissals>>

(* The Run and the enrich Job that promotion starts. *)
PromoteEnriches(k) ==
    /\ click[k].pc = "writing" /\ click[k].at > Len(PromoteOrder)
    /\ click' = [click EXCEPT ![k].pc = "enriched"]
    /\ UNCHANGED <<trade, leads, suppliers, discover, dismissals>>

PromoteLost(k) ==
    /\ click[k].pc = "writing"
    /\ click' = [click EXCEPT ![k].pc = "lost"]
    /\ UNCHANGED <<trade, leads, suppliers, discover, dismissals>>

DismissLead(c) ==
    /\ dismissals < MaxDismiss
    /\ leads[c] # NoLead /\ leads[c].promoted = 0
    /\ leads' = [leads EXCEPT ![c].dismissed = ~@]
    /\ dismissals' = dismissals + 1
    /\ UNCHANGED <<trade, suppliers, discover, click>>

DiscoverStep(d) == SearchPage(d) \/ RankCandidates(d) \/ ClassifyNext(d)

PromoteStep(k) ==
    \/ \E c \in Companies : Promote(k, c)
    \/ PromoteWrite(k) \/ PromoteEnriches(k) \/ PromoteLost(k)

LeadsNext ==
    \/ \E d \in Discovers : StartDiscover(d) \/ DiscoverStep(d)
    \/ \E k \in Clicks : PromoteStep(k)
    \/ \E c \in Companies : DismissLead(c)

----------------------------------------------------------------------------
LeadsTypeOK ==
    /\ \A c \in Companies : leads[c] # NoLead =>
         /\ leads[c].class \in Classes \cup {"none"}
         /\ leads[c].promoted \in 0..Len(suppliers)
    /\ \A d \in Discovers :
         /\ discover[d].pc \in {"waiting", "search", "rank", "classify", "done", "terminated"}
         /\ discover[d].page < PageCap
         /\ ToSet(discover[d].queue) \subseteq Companies \ Roster
         /\ Len(discover[d].queue) <= TopN
    /\ \A k \in Clicks : click[k].pc \in {"idle", "writing", "enriched", "lost"}

(* What a person decided about a Lead, and what the classifier first        *)
(* answered, is not reopened by a search that finds the company again:      *)
(* whatever the order of searches, promotions and dismissals, these columns *)
(* move by a person's act alone.                                            *)
DecisionsStand ==
    [][\A c \in Companies : leads[c] # NoLead =>
         /\ leads'[c].class = leads[c].class /\ leads'[c].reason = leads[c].reason
         /\ leads'[c].dismissed # leads[c].dismissed => dismissals' # dismissals
         /\ leads'[c].promoted # leads[c].promoted => click' # click]_leadVars

(* A class is one the classifier submitted: a loop that failed, hit its     *)
(* ceiling or answered outside the enum is never written as "unclear".      *)
ClassWasSubmitted ==
    \A c \in Companies : leads[c] # NoLead =>
        IF leads[c].class = "none" THEN leads[c].reason # "none"
        ELSE leads[c].class \in ToSet(leads[c].said)

(* A Discover Job that a ceiling stopped part-way has written the Lead it   *)
(* was classifying, and every Lead before it.                               *)
StoppedAfterItsLead ==
    \A d \in Discovers : discover[d].pc = "terminated" => leads[Head(discover[d].queue)] # NoLead

(* A Lead that points at a Supplier points at one whose Match is settled on *)
(* the Lead's company, whatever is lost while a promotion writes: `match`   *)
(* is total over the Suppliers the Category page links to.                  *)
PromotedIsSettled ==
    \A c \in Companies : leads[c] # NoLead /\ leads[c].promoted # 0 =>
        suppliers[leads[c].promoted].match = c

(* The search and the classification end: the cursor is followed only while *)
(* it moves on, and each row is classified once.                            *)
DiscoverEnds ==
    \A d \in Discovers : discover[d].pc = "search" ~> discover[d].pc \in {"done", "terminated"}
=============================================================================
