------------------------------ MODULE Versions ------------------------------
(* The versions of one Recommendation: how Jobs publish them                *)
(* (src/jobs/publish.ts), how a person marks them                           *)
(* (src/jobs/mark-recommendation.ts), and which one the page shows.         *)
(*                                                                          *)
(* Both writers are transactions at READ COMMITTED: each statement sees     *)
(* what is committed when it runs, a row that another transaction has       *)
(* written is waited for, and the unique indexes refuse what the statements *)
(* could not see.                                                           *)
EXTENDS Integers, FiniteSets

CONSTANTS
    Publishers,     \* recommend Jobs whose ladder has ended
    People,         \* persons who mark one version each
    Marks           \* "accepted", "rejected", "needs_work"

ASSUME VersionsAssumption == IsFiniteSet(Publishers)

VARIABLES
    header,         \* the recommendation row exists
    versions,       \* committed versions: a set of [n, mark, job]
    publish,        \* where each publication stands
    person          \* where each mark stands

versionVars == <<header, versions, publish, person>>

Unmarked == "unmarked"

VersionsInit ==
    /\ header = FALSE /\ versions = {}
    /\ publish = [j \in Publishers |-> [pc |-> "argued", header |-> FALSE, n |-> 0]]
    /\ person = [p \in People |-> [pc |-> "reading", n |-> 0, mark |-> Unmarked, cleared |-> {}]]

Version(n) == CHOOSE v \in versions : v.n = n
Numbers == {v.n : v \in versions}
Latest == CHOOSE n \in Numbers \cup {0} : \A m \in Numbers : m <= n
Accepted == {v \in versions : v.mark = "accepted"}

(* versionToShowFrom: the newest accepted version, else the latest. *)
VersionToShow ==
    IF Accepted = {} THEN Latest
    ELSE CHOOSE n \in {v.n : v \in Accepted} : \A v \in Accepted : v.n <= n

----------------------------------------------------------------------------
(* Publication.                                                             *)

(* The header is found, or to be inserted. *)
FindHeader(j) ==
    /\ publish[j].pc = "argued"
    /\ publish' = [publish EXCEPT ![j] = [@ EXCEPT !.pc = "numbering", !.header = header]]
    /\ UNCHANGED <<header, versions, person>>

(* max(n) + 1, over the versions committed by now; a transaction that       *)
(* inserts the header itself numbers an empty Recommendation.               *)
NextNumber(j) == IF publish[j].header THEN Latest + 1 ELSE 1

NumberVersion(j) ==
    /\ publish[j].pc = "numbering"
    /\ publish' = [publish EXCEPT ![j] = [@ EXCEPT !.pc = "inserting", !.n = NextNumber(j)]]
    /\ UNCHANGED <<header, versions, person>>

(* recommendation_program_category_key and recommendation_version_n_key. *)
NoKeys(j) == TRUE                                               \* fault
KeysAllow(j) ==
    /\ publish[j].header \/ ~header
    /\ publish[j].n \notin Numbers

(* A version is born unmarked, and no mark on another one moves. *)
BornAccepted(j) ==                                              \* fault
    {[v EXCEPT !.mark = Unmarked] : v \in versions}
        \cup {[n |-> publish[j].n, mark |-> "accepted", job |-> j]}
Inserted(j) == versions \cup {[n |-> publish[j].n, mark |-> Unmarked, job |-> j]}

Commit(j) ==
    /\ publish[j].pc = "inserting"
    /\ IF KeysAllow(j)
       THEN /\ header' = TRUE /\ versions' = Inserted(j)
            /\ publish' = [publish EXCEPT ![j].pc = "published"]
       ELSE /\ publish' = [publish EXCEPT ![j].pc = "refused"]
            /\ UNCHANGED <<header, versions>>
    /\ UNCHANGED person

----------------------------------------------------------------------------
(* The mark.                                                                *)

(* setRecommendationMark: the version is read, and, to accept it, its       *)
(* accepted siblings are cleared ...                                        *)
Siblings(n) == {v.n : v \in {x \in Accepted : x.n # n}}

ReadVersion(p) ==
    /\ person[p].pc = "reading"
    /\ \E n \in Numbers, mark \in Marks \cup {Unmarked} :
         person' = [person EXCEPT ![p] = [@ EXCEPT !.pc = "marking", !.n = n, !.mark = mark]]
    /\ UNCHANGED <<header, versions, publish>>

(* ... the rows as the statement's snapshot sees them; one that another     *)
(* transaction has written is waited for and looked at again.               *)
SeeSiblings(p) ==
    /\ person[p].pc = "marking"
    /\ person' = [person EXCEPT ![p] = [@ EXCEPT !.pc = "seen",
                     !.cleared = IF person[p].mark = "accepted" THEN Siblings(person[p].n) ELSE {}]]
    /\ UNCHANGED <<header, versions, publish>>

Holding(q) == IF person[q].pc = "clearing" THEN person[q].cleared ELSE {}

ClearSiblings(p) ==
    /\ person[p].pc = "seen"
    /\ \A q \in People \ {p} : person[p].cleared \cap Holding(q) = {}
    /\ person' = [person EXCEPT ![p].pc = "clearing", ![p].cleared = @ \cap {v.n : v \in Accepted}]
    /\ UNCHANGED <<header, versions, publish>>

(* ... and the mark is set, under recommendation_version_one_accepted_key.  *)
After(p) ==
    {IF v.n = person[p].n THEN [v EXCEPT !.mark = person[p].mark]
     ELSE IF v.n \in person[p].cleared THEN [v EXCEPT !.mark = Unmarked] ELSE v : v \in versions}

NoOneAcceptedKey(p) == TRUE                                     \* fault
OneAcceptedKey(p) == Cardinality({v \in After(p) : v.mark = "accepted"}) <= 1

SetMark(p) ==
    /\ person[p].pc = "clearing"
    /\ \A q \in People \ {p} : person[p].n \notin Holding(q)
    /\ IF OneAcceptedKey(p)
       THEN versions' = After(p) /\ person' = [person EXCEPT ![p] = [@ EXCEPT !.pc = "told", !.cleared = {}]]
       ELSE person' = [person EXCEPT ![p] = [@ EXCEPT !.pc = "refused", !.cleared = {}]] /\ UNCHANGED versions
    /\ UNCHANGED <<header, publish>>

VersionsNext ==
    \/ \E j \in Publishers : FindHeader(j) \/ NumberVersion(j) \/ Commit(j)
    \/ \E p \in People : ReadVersion(p) \/ SeeSiblings(p) \/ ClearSiblings(p) \/ SetMark(p)

----------------------------------------------------------------------------
VersionsTypeOK ==
    /\ \A v \in versions : v.n \in 1..Cardinality(Publishers) /\ v.mark \in Marks \cup {Unmarked}
    /\ \A j \in Publishers : publish[j].pc \in {"argued", "numbering", "inserting", "published", "refused"}

(* However publications overlap, versions are numbered 1, 2, ... with no    *)
(* gap and no number twice, and each published Job is one of them.          *)
NumberedInOrder ==
    /\ Numbers = 1..Cardinality(versions)
    /\ Cardinality(versions) = Cardinality({j \in Publishers : publish[j].pc = "published"})

(* "The accepted one" is never ambiguous, however many people accept at     *)
(* once.                                                                    *)
AtMostOneAccepted == Cardinality(Accepted) <= 1

(* Acceptance never moves by itself: while a version is accepted, what the  *)
(* page shows changes by a person's mark and never by a publication.        *)
AcceptanceNeverMoves ==
    [][Accepted # {} /\ VersionToShow' # VersionToShow => person' # person]_versionVars
=============================================================================
