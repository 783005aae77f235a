------------------------------- MODULE Tools -------------------------------
(* The registry of tools (src/tools/registry.ts) and the tools that start a *)
(* Job (src/tools/catalog/enqueues.ts).                                     *)
(*                                                                          *)
(* A tool is what it declares of itself: the family its name puts it in,    *)
(* what it does (effect), whether it spends, whether it is slow, where it   *)
(* is offered (surfaces), whether it carries a confirm gate, and what its   *)
(* handler starts.  finalizeRegistry() refuses to boot on a list that is    *)
(* not legal, so what chat can do is what a legal list lets it do.          *)
(* Handlers are taken to do what they declare.                              *)
EXTENDS Integers, FiniteSets, Sequences

StartsNone == "none"
Surfaces == {"chat", "job", "mcp"}
Families == {"enqueue", "submit", "submit_dossier", "navigate", "read"}

Tool ==
    [family : Families, effect : {"read", "write", "client"}, spends : BOOLEAN,
     slow : BOOLEAN, surfaces : SUBSET Surfaces, confirm : BOOLEAN]

(* Fault: a tool may spend from chat with no gate. *)
LegalToSpend(t) ==
    LET chat == "chat" \in t.surfaces IN
    /\ t.effect = "write" /\ chat => t.family = "enqueue" /\ t.confirm
    /\ ~(t.slow /\ chat)
    /\ t.confirm => chat

(* The nine invariants on one tool, by their numbers in checkEachTool.  The *)
(* first two are about names alone.                                         *)
Legal(t) ==
    LET chat == "chat" \in t.surfaces IN
    /\ t.effect = "write" /\ chat => t.family = "enqueue" /\ t.confirm     \* 3
    /\ t.spends /\ chat => t.confirm                                       \* 4
    /\ ~(t.slow /\ chat)                                                   \* 5
    /\ t.effect = "client" => t.surfaces = {"chat"}                        \* 6
    /\ t.family = "submit" => t.surfaces = {"job"}                         \* 7
    /\ t.family = "submit_dossier" => t.surfaces = {"mcp"}                 \* 7
    /\ t.effect = "write" /\ "mcp" \in t.surfaces => t.family = "submit_dossier"  \* 8
    /\ t.confirm => chat                                                   \* 9

----------------------------------------------------------------------------
(* The nine job starts.  Each declares the kind of Job it queues and the    *)
(* trigger of the Run it opens; "supplier" says that the handler first      *)
(* looks the Supplier up and objects when there is none; "calls" is the     *)
(* most Sayari calls its estimate names.                                    *)
JobStart(kind, trigger, supplier, calls) ==
    [family |-> "enqueue", effect |-> "write", spends |-> TRUE, slow |-> FALSE,
     surfaces |-> {"chat"}, confirm |-> TRUE,
     kind |-> kind, trigger |-> trigger, supplier |-> supplier, calls |-> calls]

EnqueueEnrichment(cached) == JobStart("enrich", "reassess", TRUE, IF cached THEN 0 ELSE 4)
EnqueueReassess == JobStart("assess", "reassess", TRUE, 0)
EnqueueRerunRecommendation == JobStart("recommend", "rerun_recommendation", FALSE, 0)
EnqueueDeepTraversal(pages) == JobStart("traverse", "traverse", FALSE, 2 * pages)
EnqueueDiscover == JobStart("discover", "discover", FALSE, 1)
EnqueueCheckEveryPair(n) == JobStart("pairs", "pairs", FALSE, (n * (n - 1)) \div 2)
EnqueueTrade == JobStart("trade", "trade", TRUE, 4)
EnqueueDossier == JobStart("dossier", "dossier", TRUE, 0)

(* The one tool of the client: a link, which moves nothing. *)
NavigateTo ==
    [family |-> "navigate", effect |-> "client", spends |-> FALSE, slow |-> FALSE,
     surfaces |-> {"chat"}, confirm |-> FALSE]

(* The lookup of a supplier by its name, and every other read chat has. *)
FindSupplierByName ==
    [family |-> "read", effect |-> "read", spends |-> FALSE, slow |-> FALSE,
     surfaces |-> {"chat", "mcp"}, confirm |-> FALSE]

JobStarts ==
    {EnqueueEnrichment(FALSE), EnqueueReassess, EnqueueRerunRecommendation,
     EnqueueDeepTraversal(4), EnqueueDiscover, EnqueueCheckEveryPair(3), EnqueueTrade,
     EnqueueDossier}

(* A tool somebody adds later: anything that can be declared.  Its handler  *)
(* opens no Run; it writes and spends as its declaration says.              *)
LaterTools ==
    {[family |-> t.family, effect |-> t.effect, spends |-> t.spends, slow |-> t.slow,
      surfaces |-> t.surfaces, confirm |-> t.confirm,
      kind |-> StartsNone, trigger |-> StartsNone, supplier |-> FALSE, calls |-> 0] : t \in Tool}

(* What finalizeRegistry lets boot, and forSurface offers chat.  A tool     *)
(* that is not offered to chat changes nothing there.                       *)
Bootable == {t \in JobStarts \cup LaterTools : Legal(t) /\ "chat" \in t.surfaces}
============================================================================
