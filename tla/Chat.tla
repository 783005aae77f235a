-------------------------------- MODULE Chat --------------------------------
(* One Thread of chat: the turns that run in the web process                *)
(* (src/chat/turn.ts), the answers a person posts to a proposal             *)
(* (src/app/api/chat/confirm/route.ts), the page's own gate                 *)
(* (src/components/confirm-gate-actions.ts), and the Runs and Jobs they     *)
(* open.  The model of the turn may call any tool the registry offers chat; *)
(* which tool this Thread is about is chosen once, among the tools a legal  *)
(* registry can hold.                                                       *)
(*                                                                          *)
(* A handler is a process: each of its awaits is a step of its own, and it  *)
(* can be lost between two of them (Lost).                                  *)
EXTENDS Tools

CONSTANTS
    Answers,     \* the POSTs that may be made to the confirm route
    MaxTurns,    \* bound: messages a person sends
    MaxCalls,    \* CHAT_TOOL_CALL_CAP, the calls of one turn
    MaxJobs,     \* bound: Jobs enqueued
    MaxPages     \* bound: acts on the page's own gate

ASSUME ChatAssumption ==
    MaxTurns \in Nat /\ MaxCalls \in Nat /\ MaxJobs \in Nat /\ MaxPages \in Nat

VARIABLES
    tool,        \* the tool this Thread is about
    threadRuns,  \* Runs opened for the Thread (run.thread_id)
    turn,        \* the turn in flight
    proposals,   \* thread_message rows that carry a confirm, by their number
    told,        \* the proposals a client has been told of, by their number
    answer,      \* where each POST stands
    pressed,     \* ghost: the numbers of the proposals a person accepted
    runs,        \* Runs opened by a handler, as [trigger, by]
    jobs,        \* Jobs enqueued, as [kind, run, by], in order
    unasked,     \* ghost: something was written or spent with no gate passed
    acts         \* turns sent and page acts made, for the bounds

chatVars == <<tool, threadRuns, turn, proposals, told, answer, pressed, runs, jobs, unasked, acts>>

Idle == [pc |-> "idle", calls |-> 0, pending |-> 0, stored |-> {}]
NoAnswer == [pc |-> "idle", n |-> 0, run |-> 0, result |-> 0]
Page == 0       \* "by" of a Job the page's gate started

ChatInit ==
    /\ tool \in Bootable
    /\ threadRuns = 0 /\ turn = Idle
    /\ proposals = <<>> /\ told = {} /\ pressed = {}
    /\ answer = [a \in Answers |-> NoAnswer]
    /\ runs = <<>> /\ jobs = <<>> /\ unasked = FALSE
    /\ acts = [turns |-> 0, pages |-> 0]

----------------------------------------------------------------------------
(* The turn.                                                                *)

(* ensureThread writes the person's message; the client's input is disabled *)
(* while a turn is in flight, so there is one at a time.                    *)
EnsureThread ==
    /\ turn.pc = "idle" /\ acts.turns < MaxTurns
    /\ turn' = [Idle EXCEPT !.pc = "thread"]
    /\ acts' = [acts EXCEPT !.turns = @ + 1]
    /\ UNCHANGED <<tool, threadRuns, proposals, told, answer, pressed, runs, jobs, unasked>>

(* ensureRun: the Thread's Run, opened by its first turn. *)
RunOfEachTurn == threadRuns + 1     \* fault: a Run per turn
RunOfThread == IF threadRuns = 0 THEN 1 ELSE threadRuns

EnsureRun ==
    /\ turn.pc = "thread"
    /\ threadRuns' = RunOfThread
    /\ turn' = [turn EXCEPT !.pc = "loop"]
    /\ UNCHANGED <<tool, proposals, told, answer, pressed, runs, jobs, unasked, acts>>

(* toChatTools: a tool with a gate is only proposed, its estimate read from *)
(* local rows; a tool without one runs now.                                 *)
Gated == tool.confirm

CallTool ==
    /\ turn.pc = "loop" /\ turn.calls < MaxCalls
    /\ "chat" \in tool.surfaces
    /\ IF Gated
       THEN turn' = [turn EXCEPT !.calls = @ + 1, !.pending = @ + 1] /\ UNCHANGED unasked
       ELSE /\ turn' = [turn EXCEPT !.calls = @ + 1]
            /\ unasked' = (unasked \/ tool.spends \/ tool.effect = "write")
    /\ UNCHANGED <<tool, threadRuns, proposals, told, answer, pressed, runs, jobs, acts>>

(* writeTranscript stores each proposal in the state "proposed" ... *)
StoreProposal ==
    /\ turn.pc \in {"loop", "store"} /\ turn.pending > 0
    /\ proposals' = Append(proposals, [state |-> "proposed", job |-> 0])
    /\ turn' = [turn EXCEPT !.pc = "store", !.pending = @ - 1, !.stored = @ \cup {Len(proposals) + 1}]
    /\ UNCHANGED <<tool, threadRuns, told, answer, pressed, runs, jobs, unasked, acts>>

(* ... and only then emits "done", with the ids of the rows it wrote. *)
Done ==
    /\ turn.pc \in {"loop", "store"} /\ turn.pending = 0
    /\ told' = told \cup turn.stored
    /\ turn' = Idle
    /\ UNCHANGED <<tool, threadRuns, proposals, answer, pressed, runs, jobs, unasked, acts>>

(* The web process dies, or the model loop throws: the rows stay. *)
TurnLost ==
    /\ turn.pc # "idle"
    /\ turn' = Idle
    /\ UNCHANGED <<tool, threadRuns, proposals, told, answer, pressed, runs, jobs, unasked, acts>>

----------------------------------------------------------------------------
(* The confirm route.                                                       *)

(* POST: the message is read, and a proposal already answered is refused.   *)
Answered(n) == proposals[n].state # "proposed"

Post(a, n, accept) ==
    /\ answer[a].pc = "idle" /\ n \in told
    /\ IF Answered(n)
       THEN answer' = [answer EXCEPT ![a] = [@ EXCEPT !.pc = "refused", !.n = n]]
       ELSE answer' = [answer EXCEPT ![a] = [@ EXCEPT !.pc = IF accept THEN "accept" ELSE "decline", !.n = n]]
    /\ pressed' = IF accept THEN pressed \cup {n} ELSE pressed
    /\ UNCHANGED <<tool, threadRuns, turn, proposals, told, runs, jobs, unasked, acts>>

Decline(a) ==
    /\ answer[a].pc = "decline"
    /\ proposals' = [proposals EXCEPT ![answer[a].n].state = "declined"]
    /\ answer' = [answer EXCEPT ![a].pc = "done"]
    /\ UNCHANGED <<tool, threadRuns, turn, told, pressed, runs, jobs, unasked, acts>>

(* tool.handler of a job start: it may object (no such Supplier, the        *)
(* dossier switched off), else it opens a Run and then enqueues one Job.    *)
(* The handler of a later tool does its own writing.                        *)
Handle(a) ==
    /\ answer[a].pc = "accept"
    /\ \/ /\ tool.supplier
          /\ answer' = [answer EXCEPT ![a].pc = "record"]
          /\ UNCHANGED <<runs, jobs>>
       \/ /\ tool.kind = StartsNone
          /\ answer' = [answer EXCEPT ![a].pc = "record"]
          /\ UNCHANGED <<runs, jobs>>
       \/ /\ tool.kind # StartsNone /\ Len(runs) < MaxJobs
          /\ runs' = Append(runs, [trigger |-> tool.trigger, by |-> answer[a].n])
          /\ answer' = [answer EXCEPT ![a].pc = "enqueue", ![a].run = Len(runs) + 1]
          /\ UNCHANGED jobs
    /\ UNCHANGED <<tool, threadRuns, turn, proposals, told, pressed, unasked, acts>>

Enqueue(a) ==
    /\ answer[a].pc = "enqueue" /\ Len(jobs) < MaxJobs
    /\ jobs' = Append(jobs, [kind |-> tool.kind, run |-> answer[a].run, by |-> answer[a].n])
    /\ answer' = [answer EXCEPT ![a].pc = "record", ![a].result = Len(jobs) + 1]
    /\ UNCHANGED <<tool, threadRuns, turn, proposals, told, pressed, runs, unasked, acts>>

(* Fault: the message is pointed at the newest Job. *)
NewestJob(a) == Len(jobs)
JobOf(a) == answer[a].result

(* The answer is written back, with the Job where there is one. *)
Record(a) ==
    /\ answer[a].pc = "record"
    /\ proposals' = [proposals EXCEPT ![answer[a].n] =
                        [state |-> "accepted", job |-> JobOf(a)]]
    /\ answer' = [answer EXCEPT ![a].pc = "done"]
    /\ UNCHANGED <<tool, threadRuns, turn, told, pressed, runs, jobs, unasked, acts>>

AnswerLost(a) ==
    /\ answer[a].pc \notin {"idle", "refused", "done", "lost"}
    /\ answer' = [answer EXCEPT ![a].pc = "lost"]
    /\ UNCHANGED <<tool, threadRuns, turn, proposals, told, pressed, runs, jobs, unasked, acts>>

----------------------------------------------------------------------------
(* The page's gate: the estimate, then the confirmed start of a job-start   *)
(* tool, which opens its Run and enqueues its Job.  It keeps no row of the  *)
(* question, so each click is a start of its own.                           *)
RunConfirmedJobStart ==
    /\ tool.kind # StartsNone /\ tool.confirm
    /\ acts.pages < MaxPages /\ Len(jobs) < MaxJobs /\ Len(runs) < MaxJobs
    /\ runs' = Append(runs, [trigger |-> tool.trigger, by |-> Page])
    /\ jobs' = Append(jobs, [kind |-> tool.kind, run |-> Len(runs) + 1, by |-> Page])
    /\ acts' = [acts EXCEPT !.pages = @ + 1]
    /\ UNCHANGED <<tool, threadRuns, turn, proposals, told, answer, pressed, unasked>>

TurnStep == EnsureThread \/ EnsureRun \/ CallTool \/ StoreProposal \/ Done \/ TurnLost

AnswerStep(a) ==
    \/ \E n \in told, accept \in BOOLEAN : Post(a, n, accept)
    \/ Decline(a) \/ Handle(a) \/ Enqueue(a) \/ Record(a) \/ AnswerLost(a)

ChatNext == TurnStep \/ (\E a \in Answers : AnswerStep(a)) \/ RunConfirmedJobStart

----------------------------------------------------------------------------
ChatTypeOK ==
    /\ tool \in JobStarts \cup LaterTools
    /\ threadRuns \in Nat
    /\ turn.calls \in 0..MaxCalls /\ turn.stored \subseteq DOMAIN proposals
    /\ \A n \in DOMAIN proposals :
         /\ proposals[n].state \in {"proposed", "accepted", "declined"}
         /\ proposals[n].job \in 0..Len(jobs)
    /\ told \subseteq DOMAIN proposals /\ pressed \subseteq told
    /\ Len(runs) <= MaxJobs /\ Len(jobs) <= Len(runs)

(* Chat proposes and never does: whatever tool a legal registry offers the  *)
(* model, nothing is written or spent in a turn, and every Job started from *)
(* chat answers a proposal that a person was shown and accepted.            *)
NothingUnasked ==
    /\ ~unasked
    /\ \A i \in DOMAIN jobs : jobs[i].by # Page => jobs[i].by \in pressed

(* Every amount a Thread spends sits inside one Run: however turns follow   *)
(* one another, and whatever is lost between their steps, the Thread opens  *)
(* a single Run.                                                            *)
OneRunPerThread == threadRuns <= 1

(* A proposal that points at a Job points at the Job its own acceptance     *)
(* enqueued, in the Run that acceptance opened.                             *)
PointsAtItsOwnJob ==
    \A n \in DOMAIN proposals : proposals[n].job # 0 =>
        LET j == jobs[proposals[n].job] IN j.by = n /\ runs[j.run].by = n

(* What the confirm route says of itself: a proposal is answered once, so   *)
(* an accepted proposal starts one Job, and a declined one starts none.     *)
AnsweredOnce ==
    \A n \in DOMAIN proposals :
        /\ Cardinality({i \in DOMAIN jobs : jobs[i].by = n}) <= 1
        /\ proposals[n].state = "declined" => \A i \in DOMAIN jobs : jobs[i].by # n
============================================================================
