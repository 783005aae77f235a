----------------------------- MODULE Staleness -----------------------------
(* When a published argument has gone stale (src/domain/staleness.ts) and   *)
(* what changed between two versions (src/domain/version-diff.ts).          *)
(*                                                                          *)
(* Frozen inputs are [compared, other]: the compared part a function from   *)
(* a path, <<part, subject>>, to its value, the other part the roster rows  *)
(* and tariff flags, which only the hash of a dismissal covers.             *)
EXTENDS Integers, FiniteSets, Sequences, SequencesExt

Absent == -1
At(f, path) == IF path \in DOMAIN f THEN f[path] ELSE Absent

(* Every path either side has and the other has not, or has otherwise.      *)
OnlyTheOldPaths(before, after) == {path \in DOMAIN before : At(before, path) # At(after, path)}     \* fault
Changes(before, after) ==
    {path \in DOMAIN before \cup DOMAIN after : At(before, path) # At(after, path)}

SubjectOf(path) == path[2]

----------------------------------------------------------------------------
(* The two indicators.  v = [at, frozen, cited] is the version, rows are    *)
(* [subject, kind, seen], a dismissal is [to, inputs].                      *)

NoDismissal == [to |-> -1, inputs |-> [compared |-> <<>>, other |-> Absent]]

(* What arrived about something the version cites, and no moved number      *)
(* explains.                                                                *)
Arrived(v, current, rows) ==
    LET explained == {SubjectOf(path) : path \in Changes(v.frozen.compared, current.compared)} IN
    {r \in rows : r.seen > v.at /\ r.subject \in v.cited /\ r.subject \notin explained}

(* A dismissal silences what it saw: rows up to its moment, and the inputs  *)
(* it was taken against.                                                    *)
SilencedForGood(d, current) == d # NoDismissal                  \* fault
InputsDismissed(d, current) == d # NoDismissal /\ d.inputs = current
SinceDismissal(d, rows) == {r \in rows : d = NoDismissal \/ r.seen > d.to}

ComputeStaleness(v, current, rows, d) ==
    LET changes == Changes(v.frozen.compared, current.compared)
        evidence == SinceDismissal(d, Arrived(v, current, rows))
    IN [moved |-> changes # {} /\ ~InputsDismissed(d, current), changes |-> changes,
        arrived |-> evidence # {}, rows |-> evidence]

(* The rail against the Program's default: never about a version.           *)
IsViewingWhatIf(active, default) ==
    \E k \in DOMAIN active \cup DOMAIN default :
        (IF k \in DOMAIN active THEN active[k] ELSE 0) # (IF k \in DOMAIN default THEN default[k] ELSE 0)

----------------------------------------------------------------------------
(* Version diff.  A version is [frozen, picks, sentences]: picks a function *)
(* from a Supplier to [role, rank], a sentence [section, words, cites].     *)

DiffPicks(before, after) ==
    {[supplier |-> s, change |-> "removed"] : s \in DOMAIN before \ DOMAIN after}
    \cup {[supplier |-> s, change |-> "added"] : s \in DOMAIN after \ DOMAIN before}
    \cup {[supplier |-> s, change |-> IF before[s].role # after[s].role THEN "role_changed" ELSE "rank_changed"]
             : s \in {x \in DOMAIN before \cap DOMAIN after : before[x] # after[x]}}

(* The same section and the same evidence are the same claim.               *)
Aligned(a, b) == a.section = b.section /\ a.cites = b.cites

(* Token overlap above 0.6. *)
Similar(a, b) ==
    LET left == ToSet(a.words)
        right == ToSet(b.words)
        larger == IF Cardinality(left) > Cardinality(right) THEN Cardinality(left) ELSE Cardinality(right)
    IN larger > 0 /\ 10 * Cardinality(left \cap right) > 6 * larger

(* The sentence of what is left that one is compared with: the first that   *)
(* aligns, else the first of its section that reads alike; 0 for none.      *)
Counterpart(s, remaining) ==
    LET same == {i \in DOMAIN remaining : Aligned(remaining[i], s)}
        near == {i \in DOMAIN remaining : remaining[i].section = s.section /\ Similar(remaining[i], s)}
        first(S) == CHOOSE i \in S : \A j \in S : i <= j
    IN IF same # {} THEN first(same) ELSE IF near # {} THEN first(near) ELSE 0

KeepIt(remaining, i) == remaining                               \* fault
TakeOut(remaining, i) == RemoveAt(remaining, i)

DiffSentences(before, after) ==
    LET step(acc, s) ==
            LET i == Counterpart(s, acc.remaining) IN
            IF i = 0
            THEN [acc EXCEPT !.out = Append(@, [change |-> "removed", from |-> s.words, to |-> <<>>])]
            ELSE [remaining |-> TakeOut(acc.remaining, i),
                  out |-> Append(acc.out, [change |-> IF acc.remaining[i].words = s.words THEN "unchanged" ELSE "reworded",
                                           from |-> s.words, to |-> acc.remaining[i].words])]
        end == FoldLeft(step, [remaining |-> after, out |-> <<>>], before)
    IN end.out \o [i \in DOMAIN end.remaining |-> [change |-> "added", from |-> <<>>, to |-> end.remaining[i].words]]

DiffVersions(before, after) ==
    LET inputs == Changes(before.frozen, after.frozen)
        picks == DiffPicks(before.picks, after.picks)
        sentences == DiffSentences(before.sentences, after.sentences)
    IN [inputs |-> inputs, picks |-> picks, sentences |-> sentences,
        empty |-> /\ inputs = {}
                  /\ picks = {}
                  /\ \A i \in DOMAIN sentences : sentences[i].change = "unchanged"]
=============================================================================
