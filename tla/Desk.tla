-------------------------------- MODULE Desk --------------------------------
(* What a person does at the desk: chat and the page's gate start Jobs      *)
(* (Chat), a Discover Job fills the Category's list of Leads and people     *)
(* promote and dismiss them (Leads), a recommend Job publishes a version    *)
(* and people mark it (Versions).                                           *)
(*                                                                          *)
(* Chat and the Jobs it starts share the list of Jobs and nothing else, so  *)
(* a behaviour first asks and then works: Work forgets the chat and keeps   *)
(* the kinds of the Jobs it left behind.                                    *)
EXTENDS Chat, Leads, Versions

VARIABLE phase

deskVars == <<phase, chatVars, leadVars, versionVars>>

DeskInit == phase = "asking" /\ ChatInit /\ LeadsInit /\ VersionsInit

Work ==
    /\ phase = "asking" /\ phase' = "working"
    /\ turn.pc = "idle" /\ jobs # <<>>
    /\ jobs' = [i \in DOMAIN jobs |-> [kind |-> jobs[i].kind, run |-> i, by |-> Page]]
    /\ runs' = [i \in DOMAIN jobs |-> [trigger |-> tool.trigger, by |-> Page]]
    /\ threadRuns' = 0 /\ turn' = Idle /\ proposals' = <<>> /\ told' = {} /\ pressed' = {}
    /\ answer' = [a \in Answers |-> NoAnswer]
    /\ acts' = [turns |-> 0, pages |-> 0]
    /\ trade' \in IF tool.kind = "discover" THEN TradeAnswers ELSE {trade}
    /\ UNCHANGED <<tool, unasked, leads, suppliers, discover, click, dismissals, versionVars>>

(* The Job the worker has dequeued, of the kind a component runs. *)
Started(i, kind) == i \in DOMAIN jobs /\ jobs[i].kind = kind

AskStep == phase = "asking" /\ ChatNext /\ UNCHANGED <<phase, leadVars, versionVars>>

LeadsStep ==
    /\ phase = "working" /\ tool.kind = "discover"
    /\ \/ \E d \in Discovers : StartDiscover(d) /\ Started(d, "discover")
       \/ \E d \in Discovers : DiscoverStep(d)
       \/ \E k \in Clicks : PromoteStep(k)
       \/ \E c \in Companies : DismissLead(c)
    /\ UNCHANGED <<phase, chatVars, versionVars>>

VersionsStep ==
    /\ phase = "working" /\ tool.kind = "recommend"
    /\ \/ \E j \in Publishers : (FindHeader(j) /\ Started(j, "recommend")) \/ NumberVersion(j) \/ Commit(j)
       \/ \E p \in People : ReadVersion(p) \/ SeeSiblings(p) \/ ClearSiblings(p) \/ SetMark(p)
    /\ UNCHANGED <<phase, chatVars, leadVars>>

DeskNext == AskStep \/ Work \/ LeadsStep \/ VersionsStep

DeskSafety == DeskInit /\ [][DeskNext]_deskVars

(* The worker goes on with a Job it has started. *)
DeskSpec ==
    /\ DeskSafety
    /\ \A d \in Discovers :
         WF_deskVars(phase = "working" /\ DiscoverStep(d) /\ UNCHANGED <<phase, chatVars, versionVars>>)

(* Chat only proposes: what it does was asked for, inside the one Run of    *)
(* its Thread, and is found again under the proposal it answers (turn.ts,   *)
(* confirm/route.ts).                                                       *)
ChatOnlyProposes == ChatTypeOK /\ NothingUnasked /\ OneRunPerThread /\ PointsAtItsOwnJob

(* A Lead says what happened to it: the class it was given, the row at      *)
(* which a ceiling stopped, the settled Supplier it became (discover.ts,    *)
(* promote-lead.ts).                                                        *)
LeadsSayWhatHappened == LeadsTypeOK /\ ClassWasSubmitted /\ StoppedAfterItsLead /\ PromotedIsSettled

(* The versions of a Recommendation are one sequence with at most one       *)
(* accepted, however publications and marks overlap (publish.ts,            *)
(* mark-recommendation.ts).                                                 *)
VersionsAreOneSequence == VersionsTypeOK /\ NumberedInOrder /\ AtMostOneAccepted
=============================================================================
