--------------------------- MODULE JobQueueProofs ---------------------------
(***************************************************************************)
(* What holds of the job queue for every number of Runs, slots, Jobs and   *)
(* Suppliers: its types, the recoverability of a running Job, the bound on *)
(* a Run's overshoot, and what the queue promises whoever works it: that a *)
(* Job is leased, as WorkLease has it, under the conditions LeaseIsSafe    *)
(* names, and that no stage of the pipeline is queued twice, under none.   *)
(***************************************************************************)
EXTENDS JobQueue, FiniteSetTheorems, TLAPS

-----------------------------------------------------------------------------
(* Facts about the operators.                                              *)

\* settleRunState() computes a Run state for every set of Job states.
LEMMA SettleReadType == \A r : SettleRead(r) \in RunStates
  BY DEF SettleRead, Derive, RunStates

\* settleRunState() writes the state column of one Run and nothing else.
LEMMA SettleWriteType ==
  ASSUME run \in [Runs -> RunRow], NEW r \in Runs, NEW next \in RunStates
  PROVE  /\ SettleWrite(r, next) \in [Runs -> RunRow]
         /\ \A p \in Runs : /\ SettleWrite(r, next)[p].budget = run[p].budget
                            /\ SettleWrite(r, next)[p].spent = run[p].spent
                            /\ run[p].state # "none" => SettleWrite(r, next)[p].state # "none"
  BY DEF SettleWrite, RunRow, RunStates

\* A set of Jobs is finite, and so are the money sums computed from it.
LEMMA JobSetsFinite ==
  ASSUME NEW S \in SUBSET Jobs
  PROVE  IsFiniteSet(S) /\ Cardinality(S) \in Nat
<1>1. IsFiniteSet(Jobs)
  BY BoundsNat, FS_Interval DEF Jobs
<1> QED
  BY <1>1, FS_Subset, FS_CardinalityType

\* requeueJobs() and requeueStaleJobs() keep a row's type and its Run.
LEMMA RequeuedType ==
  ASSUME NEW row \in JobRow
  PROVE  /\ Requeued(row) \in JobRow
         /\ Requeued(row).run = row.run /\ Requeued(row).kind = row.kind
         /\ Requeued(row).state = "queued"
<1>1. row.attempt + 1 \in Nat
  BY DEF JobRow
<1>2. Requeued(row) \in JobRow
  BY <1>1 DEF Requeued, JobRow, JobStates
<1>3. /\ Requeued(row).run = row.run /\ Requeued(row).kind = row.kind
      /\ Requeued(row).state = "queued"
  BY DEF Requeued, JobRow
<1> QED
  BY <1>2, <1>3

\* finishJob() keeps a row's type and its Run, and releases the lock.
LEMMA FinishedType ==
  ASSUME NEW row \in JobRow, NEW outcome \in Outcomes \union {"cancelled"}
  PROVE  /\ Finished(row, outcome) \in JobRow
         /\ Finished(row, outcome).run = row.run
         /\ Finished(row, outcome).kind = row.kind
         /\ Finished(row, outcome).state = outcome
  BY DEF Finished, JobRow, JobStates, Outcomes

-----------------------------------------------------------------------------
LEMMA TypeInit == Init => TypeOK
  BY MoneyNat, BoundsNat
  DEF Init, TypeOK, JobsTyped, SlotsTyped, MainTyped, WebTyped, Exists, JobRow,
      RunRow, SlotRow, MainRow, WebRow, NoRow, IdleSlot, IdleMain, IdleWeb,
      JobStates, RunStates, Kinds, Outcomes, NotStarted, NoJob

\* No row disappears, and no row changes its Run or its kind.
Keeps ==
  \A j : Exists(j) => /\ Exists(j)'
                       /\ job'[j].run = job[j].run
                       /\ job'[j].kind = job[j].kind

\* enqueueJob() inserts one well-formed row and touches no other.
LEMMA EnqueueType ==
  ASSUME JobsTyped, NEW r \in Runs, NEW kind \in Kinds, NEW supplier \in Nat,
         Enqueue(r, kind, supplier)
  PROVE  JobsTyped' /\ Keeps
  BY DEF Enqueue, First, Free, JobsTyped, Exists, Keeps, JobRow, JobStates, NotStarted

\* A step that removes no row leaves alone what it does not write.
LEMMA Frame ==
  ASSUME TypeOK, Keeps
  PROVE  /\ slot' = slot => SlotsTyped'
         /\ main' = main => MainTyped'
         /\ web' = web => WebTyped'
<1> USE DEF TypeOK
<1>1. slot' = slot => SlotsTyped'
  BY DEF SlotsTyped, SlotRow, Keeps, KindOf
<1>2. main' = main => MainTyped'
  BY DEF MainTyped, MainRow, Keeps
<1>3. web' = web => WebTyped'
  BY DEF WebTyped, WebRow, Keeps
<1> QED
  BY <1>1, <1>2, <1>3

\* A step that rewrites rows in place removes none.
LEMMA RowsStay ==
  ASSUME TypeOK, job' \in [Jobs -> JobRow],
         \A j \in Jobs : Exists(j) => /\ job'[j].state # "none"
                                     /\ job'[j].run = job[j].run
                                     /\ job'[j].kind = job[j].kind,
         \A j \in Jobs : ~Exists(j) => job'[j] = job[j]
  PROVE  JobsTyped' /\ Keeps
BY DEF TypeOK, JobsTyped, Exists, Keeps

LEMMA Unwritten ==
  ASSUME TypeOK, job' = job
  PROVE  JobsTyped' /\ Keeps
BY DEF TypeOK, JobsTyped, Exists, Keeps

\* What a step may do to a slot's record.
LEMMA SlotFrame ==
  ASSUME TypeOK, Keeps,
         NEW s \in Slots, NEW row \in SlotRow,
         row.pc # "idle" => Exists(row.job)',
         row.pc = "chain" => NextKind(job'[row.job].kind) \in Kinds,
         slot' = [slot EXCEPT ![s] = row]
  PROVE  SlotsTyped'
<1>1. slot \in [Slots -> SlotRow]
  BY DEF TypeOK, SlotsTyped
<1>2. slot' \in [Slots -> SlotRow] /\ slot'[s] = row
  BY <1>1
<1>3. ASSUME NEW t \in Slots
      PROVE  /\ slot'[t].pc # "idle" => Exists(slot[t].job)'
             /\ slot'[t].pc = "chain" => NextKind(job'[slot'[t].job].kind) \in Kinds
  <2>1. CASE t = s
    BY <1>2, <2>1
  <2>2. CASE t # s
    <3>1. slot'[t] = slot[t]
      BY <1>1, <2>2
    <3>2. slot[t].pc # "idle" => Exists(slot[t].job)
      BY DEF TypeOK, SlotsTyped
    <3>3. slot[t].pc = "chain" => NextKind(job[slot[t].job].kind) \in Kinds
      BY DEF TypeOK, SlotsTyped, KindOf
    <3> QED
      BY <3>1, <3>2, <3>3 DEF Keeps
  <2> QED
    BY <2>1, <2>2
<1> QED
  BY <1>2, <1>3 DEF SlotsTyped, KindOf

\* A busy slot keeps its Job while its fields change.
LEMMA SlotMoves ==
  ASSUME TypeOK, Keeps, NEW s \in Slots, slot[s].pc # "idle",
         NEW row \in SlotRow, row.job = slot[s].job,
         row.pc = "chain" => NextKind(KindOf(s)) \in Kinds,
         slot' = [slot EXCEPT ![s] = row]
  PROVE  SlotsTyped'
<1>1. Exists(slot[s].job)
  BY DEF TypeOK, SlotsTyped
<1>2. Exists(row.job)' /\ job'[row.job].kind = KindOf(s)
  BY <1>1 DEF Keeps, KindOf
<1> QED
  BY <1>2, SlotFrame

SlotPCs == AtWork \union {"idle", "settle_read", "settle_write"}

LEMMA GoType ==
  ASSUME TypeOK, Keeps, NEW s \in Slots, slot[s].pc # "idle",
         NEW pc \in SlotPCs, Go(s, pc),
         pc = "chain" => NextKind(KindOf(s)) \in Kinds
  PROVE  SlotsTyped'
<1> DEFINE row == [slot[s] EXCEPT !.pc = pc]
<1>1. row \in SlotRow /\ row.job = slot[s].job /\ row.pc = pc
  BY DEF TypeOK, SlotsTyped, SlotRow, SlotPCs
<1>2. slot' = [slot EXCEPT ![s] = row]
  BY DEF Go
<1> HIDE DEF row
<1> QED
  BY <1>1, <1>2, SlotMoves

LEMMA EndsType ==
  ASSUME TypeOK, Keeps, NEW s \in Slots, slot[s].pc # "idle",
         NEW outcome \in Outcomes, Ends(s, outcome)
  PROVE  SlotsTyped'
<1> DEFINE row == [slot[s] EXCEPT !.pc = "finish", !.out = outcome]
<1>1. row \in SlotRow /\ row.job = slot[s].job /\ row.pc = "finish"
  BY DEF TypeOK, SlotsTyped, SlotRow, AtWork
<1>2. slot' = [slot EXCEPT ![s] = row]
  BY DEF Ends
<1> HIDE DEF row
<1> QED
  BY <1>1, <1>2, SlotMoves

\* The records of a free slot and of a polling loop.
LEMMA IdleTypes == /\ IdleSlot \in SlotRow /\ IdleSlot.pc = "idle"
                   /\ IdleMain \in MainRow /\ IdleMain.pc = "poll" /\ IdleMain.todo = {}
  BY DEF IdleSlot, SlotRow, Outcomes, RunStates, NoJob, IdleMain, MainRow

\* A slot's record keeps its type while it passes or fails the budget check.
LEMMA SlotFields ==
  ASSUME NEW row \in SlotRow, NEW pc \in AtWork, NEW settles \in 0..2,
         NEW outcome
  PROVE  /\ [row EXCEPT !.pc = pc, !.settles = settles] \in SlotRow
         /\ outcome \in Outcomes =>
              [row EXCEPT !.pc = pc, !.settles = settles, !.out = outcome] \in SlotRow
  BY DEF SlotRow

\* What a step may do to a request's record.
LEMMA WebFrame ==
  ASSUME TypeOK, Keeps,
         NEW q \in Requests, NEW row \in WebRow,
         row.pc # "idle" => row.run \in Runs,
         row.pc = "requeue" => \A j \in row.todo : Exists(j)',
         web' = [web EXCEPT ![q] = row]
  PROVE  WebTyped'
<1>1. web \in [Requests -> WebRow]
  BY DEF TypeOK, WebTyped
<1>2. web' \in [Requests -> WebRow] /\ web'[q] = row
  BY <1>1
<1>3. ASSUME NEW p \in Requests
      PROVE  /\ web'[p].pc # "idle" => web'[p].run \in Runs
             /\ web'[p].pc = "requeue" => \A j \in web'[p].todo : Exists(j)'
  <2>1. CASE p = q
    BY <1>2, <2>1
  <2>2. CASE p # q
    <3>1. web'[p] = web[p]
      BY <1>1, <2>2
    <3> QED
      BY <3>1 DEF Keeps, TypeOK, WebTyped
  <2> QED
    BY <2>1, <2>2
<1> QED
  BY <1>2, <1>3 DEF WebTyped

\* The record of a request that has nothing in progress.
LEMMA IdleWebType == IdleWeb \in WebRow /\ IdleWeb.pc = "idle"
  BY DEF IdleWeb, WebRow, Kinds, RunStates

LEMMA WebEnds ==
  ASSUME TypeOK, Keeps, NEW q \in Requests, web' = [web EXCEPT ![q] = IdleWeb]
  PROVE  WebTyped'
BY IdleWebType, WebFrame

\* Time ages the started rows and leaves their state and Run alone.
LEMMA TickType ==
  ASSUME job \in [Jobs -> JobRow], Tick
  PROVE  /\ job' \in [Jobs -> JobRow]
         /\ \A j \in Jobs : job'[j].state = job[j].state /\ job'[j].run = job[j].run
                              /\ job'[j].kind = job[j].kind
<1> DEFINE older(j) == IF job[j].age < MaxAge THEN job[j].age + 1 ELSE job[j].age
           aged(j, silent) == IF job[j].age = NotStarted THEN job[j]
                              ELSE [job[j] EXCEPT !.age = older(j), !.quiet = silent]
<1>1. PICK mute \in SUBSET {j \in Jobs : HoldersOf(j) # {}} :
        job' = [j \in Jobs |-> aged(j, HoldersOf(j) = {} \/ j \in mute)]
  BY DEF Tick
<1>2. ASSUME NEW j \in Jobs, NEW silent \in BOOLEAN
      PROVE  /\ aged(j, silent) \in JobRow
             /\ aged(j, silent).state = job[j].state
             /\ aged(j, silent).run = job[j].run
             /\ aged(j, silent).kind = job[j].kind
  <2>1. job[j] \in JobRow /\ job[j].age \in {NotStarted, 0, 1, 2}
    BY DEF JobRow
  <2>2. CASE job[j].age = NotStarted
    BY <2>1, <2>2
  <2>3. CASE job[j].age # NotStarted
    <3>1. older(j) \in {0, 1, 2}
      BY <2>1, <2>3, BoundsNat
    <3> HIDE DEF older
    <3> QED
      BY <2>1, <2>3, <3>1 DEF JobRow
  <2> QED
    BY <2>2, <2>3
<1>3. \A j \in Jobs : job'[j] = aged(j, HoldersOf(j) = {} \/ j \in mute)
  BY <1>1
<1>4. \A j \in Jobs : (HoldersOf(j) = {} \/ j \in mute) \in BOOLEAN
  OBVIOUS
<1>5. job' = [j \in Jobs |-> job'[j]]
  BY <1>1
<1> HIDE DEF aged
<1> QED
  BY <1>2, <1>3, <1>4, <1>5

LEMMA TypeStep == TypeOK /\ [Next]_vars => TypeOK' /\ Keeps
<1> SUFFICES ASSUME TypeOK, [Next]_vars
             PROVE  TypeOK' /\ Keeps
  OBVIOUS
<1>1. ASSUME NEW s \in Slots, Dequeue(s)
      PROVE  TypeOK' /\ Keeps
  <2> PICK i \in Jobs :
        /\ First(i, Queued)
        /\ job' = [job EXCEPT ![i] =
                    [@ EXCEPT !.state = "running", !.locked = TRUE, !.age = 0]]
        /\ slot' = [slot EXCEPT ![s] = [IdleSlot EXCEPT !.pc = "check", !.job = i]]
    BY <1>1 DEF Dequeue
  <2>1. /\ Exists(i)
        /\ job' \in [Jobs -> JobRow]
        /\ job'[i].state = "running"
        /\ job'[i].run = job[i].run /\ job'[i].kind = job[i].kind
        /\ \A j \in Jobs : j # i => job'[j] = job[j]
    BY DEF TypeOK, JobsTyped, First, Queued, Exists, JobRow, JobStates
  <2>2. JobsTyped' /\ Keeps
    BY <2>1, RowsStay DEF Exists
  <2>3. [IdleSlot EXCEPT !.pc = "check", !.job = i] \in SlotRow
    BY IdleTypes DEF SlotRow, AtWork
  <2>4. [IdleSlot EXCEPT !.pc = "check", !.job = i].job = i
    BY DEF IdleSlot
  <2>5. SlotsTyped'
    <3> DEFINE row == [IdleSlot EXCEPT !.pc = "check", !.job = i]
    <3>1. row.pc = "check" /\ Exists(row.job)'
      BY <2>1, <2>2, <2>4 DEF IdleSlot, Keeps
    <3> HIDE DEF row
    <3> QED
      BY <2>2, <2>3, <3>1, SlotFrame DEF row
  <2>6. MainTyped'
    BY <1>1 DEF Dequeue, MainTyped, IdleMain, MainRow, RunStates
  <2> QED
    BY <1>1, <2>2, <2>5, <2>6, Frame DEF Dequeue, TypeOK
<1>2. CASE DequeueNone
  <2>1. JobsTyped' /\ Keeps
    BY <1>2, Unwritten DEF DequeueNone
  <2>2. MainTyped'
    BY <1>2 DEF DequeueNone, IdleMain, MainTyped, MainRow, RunStates
  <2> QED
    BY <1>2, <2>1, <2>2, Frame DEF DequeueNone, TypeOK
<1>3. CASE SweepSelect
  <2>1. JobsTyped' /\ Keeps
    BY <1>3, Unwritten DEF SweepSelect
  <2>2. \A j \in Stale : Exists(j)
    BY DEF Stale, Exists
  <2>3. MainTyped'
    <3>1. Stale \in SUBSET Jobs
      BY DEF Stale
    <3>2. [IdleMain EXCEPT !.pc = "sweep_update", !.todo = Stale] \in MainRow
      BY <3>1, IdleTypes DEF MainRow
    <3>3. \A j \in Stale : Exists(j)'
      BY <2>1, <2>2 DEF Keeps
    <3> QED
      BY <1>3, <3>2, <3>3, IdleTypes DEF SweepSelect, MainTyped, MainRow
  <2> QED
    BY <1>3, <2>1, <2>3, Frame DEF SweepSelect, TypeOK
<1>4. CASE SweepUpdate
  <2>1. JobsTyped' /\ Keeps
    <3>1. \A j \in Jobs : job[j] \in JobRow
      BY DEF TypeOK, JobsTyped
    <3>2. job' \in [Jobs -> JobRow]
      BY <1>4, <3>1, RequeuedType DEF SweepUpdate
    <3> QED
      <4>1. \A j \in main.todo : Exists(j)
        BY DEF TypeOK, MainTyped
      <4>2. ASSUME NEW j \in Jobs
            PROVE  /\ j \in main.todo => job'[j] = Requeued(job[j])
                   /\ j \notin main.todo => job'[j] = job[j]
        BY <1>4 DEF SweepUpdate
      <4> QED
        BY <3>1, <3>2, <4>1, <4>2, RequeuedType, RowsStay DEF Exists
  <2>2. MainTyped'
    BY <1>4, <2>1 DEF SweepUpdate, TypeOK, MainTyped, MainRow, Keeps
  <2> QED
    BY <1>4, <2>1, <2>2, Frame DEF SweepUpdate, TypeOK
<1>5. ASSUME NEW j \in Jobs, SweepRead(j)
      PROVE  TypeOK' /\ Keeps
  <2>1. JobsTyped' /\ Keeps
    BY <1>5, Unwritten DEF SweepRead
  <2>2. MainTyped'
    BY <1>5, <2>1, SettleReadType DEF SweepRead, TypeOK, MainTyped, MainRow, JobsTyped, Exists
  <2> QED
    BY <1>5, <2>1, <2>2, Frame DEF SweepRead, TypeOK
<1>6. CASE SweepWrite
  <2>1. JobsTyped' /\ Keeps
    BY <1>6, Unwritten DEF SweepWrite
  <2>2. MainTyped' /\ main.run \in Runs /\ main.next \in RunStates
    BY <1>6, <2>1 DEF SweepWrite, TypeOK, MainTyped, MainRow, Keeps
  <2>3. run' \in [Runs -> RunRow]
    BY <1>6, <2>2, SettleWriteType DEF SweepWrite, TypeOK
  <2> QED
    BY <1>6, <2>1, <2>2, <2>3, Frame DEF SweepWrite, TypeOK
<1>7. ASSUME NEW s \in Slots, CheckBudget(s)
      PROVE  TypeOK' /\ Keeps
  <2>1. JobsTyped' /\ Keeps
    BY <1>7, Unwritten DEF CheckBudget
  <2>2. SlotsTyped'
    <3> DEFINE on == [slot[s] EXCEPT !.pc = "work", !.settles = 1]
               off == [slot[s] EXCEPT !.pc = "finish", !.settles = 2,
                                      !.out = "paused_on_budget"]
               row == IF WithinBudget(RunOf(s)) THEN on ELSE off
    <3>1. row \in SlotRow /\ row.job = slot[s].job /\ row.pc \in {"work", "finish"}
      <4>1. slot[s] \in SlotRow
        BY DEF TypeOK, SlotsTyped
      <4>2. on \in SlotRow /\ on.job = slot[s].job /\ on.pc = "work"
        <5>1. on \in SlotRow
          <6>1. "work" \in AtWork /\ 1 \in 0..2
            BY DEF AtWork
          <6> QED
            BY ONLY <4>1, <6>1, SlotFields, Zenon
        <5>2. on.job = slot[s].job /\ on.pc = "work"
          BY <4>1 DEF SlotRow
        <5> QED
          BY <5>1, <5>2
      <4>3. off \in SlotRow /\ off.job = slot[s].job /\ off.pc = "finish"
        <5>1. off \in SlotRow
          <6>1. "finish" \in AtWork /\ 2 \in 0..2 /\ "paused_on_budget" \in Outcomes
            BY DEF AtWork, Outcomes
          <6> QED
            BY ONLY <4>1, <6>1, SlotFields, Zenon
        <5>2. off.job = slot[s].job /\ off.pc = "finish"
          BY <4>1 DEF SlotRow
        <5> QED
          BY <5>1, <5>2
      <4> HIDE DEF on, off
      <4> QED
        BY <4>2, <4>3
    <3>2. slot' = [slot EXCEPT ![s] = row]
      BY <1>7 DEF CheckBudget
    <3> HIDE DEF row
    <3> QED
      BY <1>7, <2>1, <3>1, <3>2, SlotMoves DEF CheckBudget
  <2> QED
    BY <1>7, <2>1, <2>2, Frame DEF CheckBudget, TypeOK
<1>8. ASSUME NEW s \in Slots, Spend(s)
      PROVE  TypeOK' /\ Keeps
  <2>1. Exists(slot[s].job) /\ RunOf(s) \in Runs
    BY <1>8 DEF Spend, TypeOK, SlotsTyped, JobsTyped, RunOf, Exists
  <2>2. /\ job' \in [Jobs -> JobRow]
        /\ \A j \in Jobs : job'[j].state = job[j].state /\ job'[j].run = job[j].run
                              /\ job'[j].kind = job[j].kind
        /\ \A j \in Jobs : j # slot[s].job => job'[j] = job[j]
    <3>1. job' = [job EXCEPT ![slot[s].job] = [@ EXCEPT !.quiet = FALSE]]
      BY <1>8 DEF Spend
    <3>2. job[slot[s].job] \in JobRow
      BY <2>1 DEF TypeOK, JobsTyped, Exists
    <3>3. [job[slot[s].job] EXCEPT !.quiet = FALSE] \in JobRow
      BY <3>2 DEF JobRow
    <3> QED
      BY <2>1, <3>1, <3>2, <3>3 DEF TypeOK, JobsTyped, JobRow, Exists
  <2>3. JobsTyped' /\ Keeps
    BY <2>1, <2>2, RowsStay DEF Exists
  <2>4. run' \in [Runs -> RunRow]
    BY <1>8, <2>1, MoneyNat DEF Spend, TypeOK, RunRow
  <2>5. SlotsTyped'
    BY <1>8, <2>3, GoType DEF Spend, SlotPCs, AtWork
  <2> QED
    BY <1>8, <2>3, <2>4, <2>5, Frame DEF Spend, TypeOK
<1>9. ASSUME NEW s \in Slots, CheckBoundary(s)
      PROVE  TypeOK' /\ Keeps
  <2>1. JobsTyped' /\ Keeps
    BY <1>9, Unwritten DEF CheckBoundary
  <2>2. SlotsTyped'
    BY <1>9, <2>1, GoType, EndsType DEF CheckBoundary, SlotPCs, AtWork, Outcomes
  <2> QED
    BY <1>9, <2>1, <2>2, Frame DEF CheckBoundary, TypeOK
<1>10. ASSUME NEW s \in Slots, Fail(s)
      PROVE  TypeOK' /\ Keeps
  <2>1. JobsTyped' /\ Keeps
    BY <1>10, Unwritten DEF Fail
  <2>2. SlotsTyped'
    BY <1>10, <2>1, EndsType DEF Fail, Outcomes
  <2> QED
    BY <1>10, <2>1, <2>2, Frame DEF Fail, TypeOK
<1>11. ASSUME NEW s \in Slots, Succeed(s)
      PROVE  TypeOK' /\ Keeps
  <2>1. JobsTyped' /\ Keeps
    BY <1>11, Unwritten DEF Succeed
  <2>2. SlotsTyped'
    <3>1. Chains(s) => NextKind(KindOf(s)) \in Kinds
      BY DEF Chains, NextKind, Kinds
    <3> QED
      BY <1>11, <2>1, <3>1, GoType, EndsType DEF Succeed, SlotPCs, AtWork, Outcomes
  <2> QED
    BY <1>11, <2>1, <2>2, Frame DEF Succeed, TypeOK
<1>12. ASSUME NEW s \in Slots, ChainNext(s)
       PROVE  TypeOK' /\ Keeps
  <2>1. Exists(slot[s].job) /\ RunOf(s) \in Runs /\ job[slot[s].job].subject \in Nat
    BY <1>12 DEF ChainNext, TypeOK, SlotsTyped, JobsTyped, RunOf, Exists, JobRow
  <2>2. NextKind(KindOf(s)) \in Kinds
    BY <1>12, <2>1 DEF ChainNext, NextKind, Kinds, TypeOK, SlotsTyped
  <2>3. JobsTyped' /\ Keeps
    BY <1>12, <2>1, <2>2, EnqueueType DEF ChainNext, TypeOK
  <2>4. SlotsTyped'
    BY <1>12, <2>3, EndsType DEF ChainNext, Outcomes
  <2> QED
    BY <1>12, <2>3, <2>4, Frame DEF ChainNext, TypeOK
<1>13. ASSUME NEW s \in Slots, FinishJob(s)
       PROVE  TypeOK' /\ Keeps
  <2>1. Exists(slot[s].job) /\ slot[s].out \in Outcomes /\ job[slot[s].job] \in JobRow
    BY <1>13 DEF FinishJob, TypeOK, SlotsTyped, JobsTyped, SlotRow, Exists
  <2>2. /\ job' \in [Jobs -> JobRow]
        /\ job'[slot[s].job].state = slot[s].out
        /\ job'[slot[s].job].run = job[slot[s].job].run
        /\ job'[slot[s].job].kind = job[slot[s].job].kind
        /\ \A j \in Jobs : j # slot[s].job => job'[j] = job[j]
    BY <1>13, <2>1, FinishedType DEF FinishJob, TypeOK, JobsTyped, Exists
  <2>3. JobsTyped' /\ Keeps
    BY <2>1, <2>2, RowsStay DEF Exists, Outcomes
  <2>4. SlotsTyped'
    BY <1>13, <2>3, GoType DEF FinishJob, SlotPCs
  <2> QED
    BY <1>13, <2>3, <2>4, Frame DEF FinishJob, TypeOK
<1>14. ASSUME NEW s \in Slots, SlotSettleRead(s)
      PROVE  TypeOK' /\ Keeps
  <2>1. JobsTyped' /\ Keeps
    BY <1>14, Unwritten DEF SlotSettleRead
  <2>2. SlotsTyped'
    <3> DEFINE row == [slot[s] EXCEPT !.pc = "settle_write", !.next = SettleRead(RunOf(s))]
    <3>1. row \in SlotRow /\ row.job = slot[s].job /\ row.pc = "settle_write"
      BY SettleReadType DEF TypeOK, SlotsTyped, SlotRow
    <3>2. slot' = [slot EXCEPT ![s] = row]
      BY <1>14 DEF SlotSettleRead
    <3> HIDE DEF row
    <3> QED
      BY <1>14, <2>1, <3>1, <3>2, SlotMoves DEF SlotSettleRead
  <2> QED
    BY <1>14, <2>1, <2>2, Frame DEF SlotSettleRead, TypeOK
<1>15. ASSUME NEW s \in Slots, SlotSettleWrite(s)
       PROVE  TypeOK' /\ Keeps
  <2>1. JobsTyped' /\ Keeps
    BY <1>15, Unwritten DEF SlotSettleWrite
  <2>2. RunOf(s) \in Runs /\ slot[s].next \in RunStates
    BY <1>15 DEF SlotSettleWrite, TypeOK, SlotsTyped, SlotRow, JobsTyped, RunOf, Exists
  <2>3. run' \in [Runs -> RunRow]
    BY <1>15, <2>2, SettleWriteType DEF SlotSettleWrite, TypeOK
  <2>4. SlotsTyped'
    <3>1. slot[s].pc = "settle_write"
      BY <1>15 DEF SlotSettleWrite
    <3>2. CASE slot[s].settles > 1
      <4> DEFINE left == slot[s].settles - 1
                 row == [slot[s] EXCEPT !.pc = "settle_read", !.settles = left]
      <4>1. row \in SlotRow /\ row.job = slot[s].job /\ row.pc = "settle_read"
        <5>1. slot[s] \in SlotRow /\ slot[s].settles \in 0..2
          BY DEF TypeOK, SlotsTyped, SlotRow
        <5>2. left \in 0..2
          BY <3>2, <5>1
        <5> HIDE DEF left
        <5> QED
          BY <5>1, <5>2 DEF SlotRow
      <4>2. slot' = [slot EXCEPT ![s] = row]
        BY <1>15, <3>2 DEF SlotSettleWrite
      <4> HIDE DEF row
      <4> QED
        BY <2>1, <3>1, <4>1, <4>2, SlotMoves
    <3>3. CASE ~(slot[s].settles > 1)
      <4>1. IdleSlot \in SlotRow /\ IdleSlot.pc = "idle"
        BY IdleTypes
      <4>2. slot' = [slot EXCEPT ![s] = IdleSlot]
        BY <1>15, <3>3 DEF SlotSettleWrite
      <4> QED
        BY <2>1, <4>1, <4>2, SlotFrame
    <3> QED
      BY <3>2, <3>3
  <2> QED
    BY <1>15, <2>1, <2>3, <2>4, Frame DEF SlotSettleWrite, TypeOK
<1>16. CASE Shutdown \/ Drained \/ Boot
  <2>1. JobsTyped' /\ Keeps
    BY <1>16, Unwritten DEF Shutdown, Drained, Boot
  <2> QED
    BY <1>16, <2>1, Frame, BoundsNat DEF Shutdown, Drained, Boot, TypeOK
<1>17. CASE Crash
  <2>1. JobsTyped' /\ Keeps
    BY <1>17, Unwritten DEF Crash
  <2>2. SlotsTyped' /\ MainTyped'
    BY <1>17 DEF Crash, SlotsTyped, MainTyped, IdleSlot, IdleMain, SlotRow, MainRow,
                 Outcomes, RunStates
  <2> QED
    BY <1>17, <2>1, <2>2, Frame, BoundsNat DEF Crash, TypeOK
<1>18. CASE Tick
  <2>1. /\ job' \in [Jobs -> JobRow]
        /\ \A j \in Jobs : job'[j].state = job[j].state /\ job'[j].run = job[j].run
                              /\ job'[j].kind = job[j].kind
    BY <1>18, TickType DEF TypeOK, JobsTyped
  <2>2. JobsTyped' /\ Keeps
    BY <2>1 DEF TypeOK, JobsTyped, Exists, Keeps
  <2> QED
    BY <1>18, <2>2, Frame DEF Tick, TypeOK
<1>19. ASSUME NEW q \in Requests, NEW r \in Runs, OpenRun(q, r)
       PROVE  TypeOK' /\ Keeps
  <2>1. JobsTyped' /\ Keeps
    BY <1>19, Unwritten DEF OpenRun
  <2>a. PICK trigger \in Triggers : \E kind \in FirstKinds(trigger) :
        /\ run' = [run EXCEPT ![r] =
                    [state |-> "queued", trigger |-> trigger, spent |-> 0,
                     budget |-> PerSupplier * Cardinality(Suppliers)]]
        /\ web' = [web EXCEPT ![q] =
                    [IdleWeb EXCEPT !.pc = "enqueue", !.run = r, !.kind = kind,
                                    !.todo = Suppliers]]
    BY <1>19 DEF OpenRun
  <2>b. PICK kind \in FirstKinds(trigger) :
        /\ run' = [run EXCEPT ![r] =
                    [state |-> "queued", trigger |-> trigger, spent |-> 0,
                     budget |-> PerSupplier * Cardinality(Suppliers)]]
        /\ web' = [web EXCEPT ![q] =
                    [IdleWeb EXCEPT !.pc = "enqueue", !.run = r, !.kind = kind,
                                    !.todo = Suppliers]]
    BY <2>a
  <2>2. PerSupplier * Cardinality(Suppliers) \in Nat
    BY MoneyNat, SuppliersNat, FS_CardinalityType
  <2>3. run' \in [Runs -> RunRow]
    BY <2>2, <2>b, TriggersKnown DEF TypeOK, RunRow, RunStates
  <2>4. WebTyped'
    <3> DEFINE row == [IdleWeb EXCEPT !.pc = "enqueue", !.run = r, !.kind = kind,
                                      !.todo = Suppliers]
    <3>1. kind \in Kinds
      BY <2>b DEF FirstKinds, Kinds
    <3>2. row \in WebRow /\ row.pc = "enqueue" /\ row.run = r
      BY <3>1, IdleWebType, SuppliersNat DEF WebRow, IdleWeb, RunStates
    <3>3. web' = [web EXCEPT ![q] = row]
      BY <2>b
    <3> HIDE DEF row
    <3> QED
      BY <2>1, <3>2, <3>3, WebFrame
  <2> QED
    BY <1>19, <2>1, <2>3, <2>4, Frame DEF OpenRun, TypeOK
<1>20. ASSUME NEW q \in Requests, EnqueueJob(q)
       PROVE  TypeOK' /\ Keeps
  <2> PICK supplier \in web[q].todo :
        /\ Enqueue(web[q].run, web[q].kind, supplier)
        /\ web' = [web EXCEPT ![q] =
                    IF web[q].todo = {supplier} THEN IdleWeb
                    ELSE [web[q] EXCEPT !.todo = @ \ {supplier}]]
    BY <1>20 DEF EnqueueJob
  <2>1. supplier \in Nat /\ web[q].run \in Runs /\ web[q].kind \in Kinds
    BY <1>20 DEF EnqueueJob, WebAt, TypeOK, WebTyped, WebRow
  <2>2. JobsTyped' /\ Keeps
    BY <2>1, EnqueueType DEF TypeOK
  <2>3. WebTyped'
    <3> DEFINE row == [web[q] EXCEPT !.todo = web[q].todo \ {supplier}]
    <3>1. row \in WebRow /\ row.run = web[q].run /\ row.pc = "enqueue"
      BY <1>20 DEF EnqueueJob, WebAt, TypeOK, WebTyped, WebRow
    <3>2. web' = [web EXCEPT ![q] = IdleWeb] \/ web' = [web EXCEPT ![q] = row]
      <4>1. CASE web[q].todo = {supplier}
        BY <4>1
      <4>2. CASE web[q].todo # {supplier}
        BY <4>2
      <4> QED
        BY <4>1, <4>2
    <3> HIDE DEF row
    <3> QED
      BY <2>1, <2>2, <3>1, <3>2, WebFrame, WebEnds
  <2> QED
    BY <1>20, <2>2, <2>3, Frame DEF EnqueueJob, TypeOK
<1>21. ASSUME NEW q \in Requests, CancelJobs(q)
       PROVE  TypeOK' /\ Keeps
  <2>1. \A j \in Jobs : job[j] \in JobRow
    BY DEF TypeOK, JobsTyped
  <2>2. JobsTyped' /\ Keeps
    <3>1. job' \in [Jobs -> JobRow]
      BY <1>21, <2>1, FinishedType DEF CancelJobs
    <3> QED
      BY <1>21, <2>1, <3>1, FinishedType, RowsStay DEF CancelJobs, JobsOf, Exists
  <2>3. WebTyped'
    <3> DEFINE row == [web[q] EXCEPT !.pc = "cancel_run"]
    <3>1. row \in WebRow /\ row.run \in Runs /\ row.pc = "cancel_run"
      BY <1>21 DEF CancelJobs, WebAt, TypeOK, WebTyped, WebRow
    <3>2. web' = [web EXCEPT ![q] = row]
      BY <1>21 DEF CancelJobs
    <3> HIDE DEF row
    <3> QED
      BY <2>2, <3>1, <3>2, WebFrame
  <2> QED
    BY <1>21, <2>2, <2>3, Frame DEF CancelJobs, TypeOK
<1>22. ASSUME NEW q \in Requests, NEW r \in Runs, Retry(q, r)
       PROVE  TypeOK' /\ Keeps
  <2>1. JobsTyped' /\ Keeps
    BY <1>22, Unwritten DEF Retry
  <2>2. WebTyped'
    <3>1. PICK S \in SUBSET Retryable(r) :
            web' = [web EXCEPT ![q] =
                    [IdleWeb EXCEPT !.pc = "requeue", !.run = r, !.todo = S]]
      BY <1>22 DEF Retry
    <3>2. \A j \in S : j \in Jobs /\ Exists(j) /\ j \in Nat
      BY DEF Retryable, JobsOf, Exists, Jobs
    <3> DEFINE row == [IdleWeb EXCEPT !.pc = "requeue", !.run = r, !.todo = S]
    <3>3. row \in WebRow /\ row.run = r /\ row.pc = "requeue" /\ row.todo = S
      BY <3>2, IdleWebType DEF WebRow
    <3>4. \A j \in S : Exists(j)'
      BY <2>1, <3>2 DEF Keeps
    <3> HIDE DEF row
    <3> QED
      BY <2>1, <3>1, <3>3, <3>4, WebFrame DEF row
  <2>3. acts' \in 0..MaxActs
    BY <1>22, BoundsNat DEF Retry, Act, TypeOK
  <2> QED
    BY <1>22, <2>1, <2>2, <2>3, Frame DEF Retry, TypeOK
<1>23. ASSUME NEW q \in Requests, RequeueJobs(q)
       PROVE  TypeOK' /\ Keeps
  <2>1. \A j \in Jobs : job[j] \in JobRow
    BY DEF TypeOK, JobsTyped
  <2>2. JobsTyped' /\ Keeps
    <3>1. job' \in [Jobs -> JobRow]
      BY <1>23, <2>1, RequeuedType DEF RequeueJobs
    <3> QED
      BY <1>23, <2>1, <3>1, RequeuedType, RowsStay
         DEF RequeueJobs, WebAt, TypeOK, WebTyped, Exists
  <2>3. WebTyped'
    <3> DEFINE row == [web[q] EXCEPT !.pc = "settle_read"]
    <3>1. row \in WebRow /\ row.run \in Runs /\ row.pc = "settle_read"
      BY <1>23 DEF RequeueJobs, WebAt, TypeOK, WebTyped, WebRow
    <3>2. web' = [web EXCEPT ![q] = row]
      BY <1>23 DEF RequeueJobs
    <3> HIDE DEF row
    <3> QED
      BY <2>2, <3>1, <3>2, WebFrame
  <2> QED
    BY <1>23, <2>2, <2>3, Frame DEF RequeueJobs, TypeOK
<1>24. ASSUME NEW q \in Requests, WebSettleRead(q)
       PROVE  TypeOK' /\ Keeps
  <2>1. JobsTyped' /\ Keeps
    BY <1>24, Unwritten DEF WebSettleRead
  <2>2. WebTyped'
    <3> DEFINE row == [web[q] EXCEPT !.pc = "settle_write", !.next = SettleRead(web[q].run)]
    <3>1. row \in WebRow /\ row.run \in Runs /\ row.pc = "settle_write"
      BY <1>24, SettleReadType DEF WebSettleRead, WebAt, TypeOK, WebTyped, WebRow
    <3>2. web' = [web EXCEPT ![q] = row]
      BY <1>24 DEF WebSettleRead
    <3> HIDE DEF row
    <3> QED
      BY <2>1, <3>1, <3>2, WebFrame
  <2> QED
    BY <1>24, <2>1, <2>2, Frame DEF WebSettleRead, TypeOK, Act
<1>25. ASSUME NEW q \in Requests, WebSettleWrite(q) \/ CancelRun(q) \/ ResumeRun(q)
       PROVE  TypeOK' /\ Keeps
  <2>1. JobsTyped' /\ Keeps
    BY <1>25, Unwritten DEF WebSettleWrite, CancelRun, ResumeRun
  <2>2. web[q].run \in Runs /\ web[q].next \in RunStates /\ web[q].budget \in Nat
    BY <1>25 DEF WebSettleWrite, CancelRun, ResumeRun, WebAt, TypeOK, WebTyped, WebRow
  <2>3. run' \in [Runs -> RunRow]
    <3>1. CASE WebSettleWrite(q)
      BY <3>1, <2>2, SettleWriteType DEF WebSettleWrite, TypeOK
    <3>2. CASE CancelRun(q) \/ ResumeRun(q)
      BY <3>2, <2>2 DEF CancelRun, ResumeRun, TypeOK, RunRow, RunStates
    <3> QED
      BY <1>25, <3>1, <3>2
  <2>4. WebTyped'
    <3> DEFINE row == [web[q] EXCEPT !.pc = "resume_jobs"]
    <3>1. row \in WebRow /\ row.run = web[q].run /\ row.pc = "resume_jobs"
      BY DEF TypeOK, WebTyped, WebRow
    <3>2. web' = [web EXCEPT ![q] = IdleWeb] \/ web' = [web EXCEPT ![q] = row]
      BY <1>25 DEF WebSettleWrite, CancelRun, ResumeRun
    <3> HIDE DEF row
    <3> QED
      BY <2>1, <2>2, <3>1, <3>2, WebFrame, WebEnds
  <2> QED
    BY <1>25, <2>1, <2>3, <2>4, Frame DEF WebSettleWrite, CancelRun, ResumeRun, TypeOK
<1>26. ASSUME NEW q \in Requests, ResumeRead(q)
       PROVE  TypeOK' /\ Keeps
  <2>1. JobsTyped' /\ Keeps
    BY <1>26, Unwritten DEF ResumeRead
  <2>2. WebTyped'
    <3> DEFINE r == web[q].run
               U == {j \in JobsOf(r) : job[j].state \in {"paused_on_budget", "queued"}}
               more == run[r].budget + PerSupplier * Cardinality(U)
               row == [web[q] EXCEPT !.pc = "resume_run", !.budget = more]
    <3>1. r \in Runs /\ web[q] \in WebRow
      BY <1>26 DEF ResumeRead, WebAt, TypeOK, WebTyped
    <3>2. more \in Nat
      <4>1. Cardinality(U) \in Nat
        BY JobSetsFinite DEF JobsOf
      <4>2. run[r].budget \in Nat
        BY <3>1 DEF TypeOK, RunRow
      <4> QED
        BY <4>1, <4>2, MoneyNat
    <3>3. web' = [web EXCEPT ![q] = row]
      BY <1>26 DEF ResumeRead
    <3> HIDE DEF more
    <3>4. row \in WebRow /\ row.run \in Runs /\ row.pc = "resume_run"
      BY <3>1, <3>2 DEF WebRow
    <3> HIDE DEF row
    <3> QED
      BY <2>1, <3>3, <3>4, WebFrame
  <2> QED
    BY <1>26, <2>1, <2>2, Frame DEF ResumeRead, TypeOK
<1>27. ASSUME NEW q \in Requests, ResumeJobs(q)
       PROVE  TypeOK' /\ Keeps
  <2>1. /\ job' \in [Jobs -> JobRow]
        /\ \A j \in Jobs : Exists(j) => job'[j].state # "none"
        /\ \A j \in Jobs : job'[j].run = job[j].run /\ job'[j].kind = job[j].kind
        /\ \A j \in Jobs : ~Exists(j) => job'[j] = job[j]
    BY <1>27 DEF ResumeJobs, TypeOK, JobsTyped, JobRow, JobStates, JobsOf, Exists
  <2>2. JobsTyped' /\ Keeps
    BY <2>1, RowsStay
  <2>3. WebTyped'
    BY <1>27, <2>2, WebEnds DEF ResumeJobs
  <2> QED
    BY <1>27, <2>2, <2>3, Frame DEF ResumeJobs, TypeOK
<1>28. ASSUME NEW q \in Requests, NEW r \in Runs, ShowCancel(q, r) \/ ShowResume(q, r)
       PROVE  TypeOK' /\ Keeps
  <2>1. JobsTyped' /\ Keeps
    BY <1>28, Unwritten DEF ShowCancel, ShowResume
  <2>2. WebTyped'
    <3>1. PICK pc \in {"cancel_jobs", "resume_read"} :
            web' = [web EXCEPT ![q] = [IdleWeb EXCEPT !.pc = pc, !.run = r]]
      BY <1>28 DEF ShowCancel, ShowResume
    <3> DEFINE row == [IdleWeb EXCEPT !.pc = pc, !.run = r]
    <3>2. row \in WebRow /\ row.run = r /\ row.pc = pc
      BY IdleWebType DEF WebRow
    <3> HIDE DEF row
    <3> QED
      BY <2>1, <3>1, <3>2, WebFrame DEF row
  <2>3. acts' \in 0..MaxActs
    BY <1>28, BoundsNat DEF ShowCancel, ShowResume, Act, TypeOK
  <2> QED
    BY <1>28, <2>1, <2>2, <2>3, Frame DEF ShowCancel, ShowResume, TypeOK
<1>29. CASE UNCHANGED vars
  <2>1. JobsTyped' /\ Keeps
    BY <1>29, Unwritten DEF vars
  <2> QED
    BY <1>29, <2>1, Frame DEF vars, TypeOK
<1> QED
  BY <1>1, <1>2, <1>3, <1>4, <1>5, <1>6, <1>7, <1>8, <1>9, <1>10, <1>11, <1>12,
     <1>13, <1>14, <1>15, <1>16, <1>17, <1>18, <1>19, <1>20, <1>21, <1>22, <1>23,
     <1>24, <1>25, <1>26, <1>27, <1>28, <1>29
     DEF Next, MainStep, SlotStep, WorkerStep, WebStep

\* Every reachable state of the queue is well typed.
THEOREM QueueTypes == Spec => []TypeOK
<1> QED
  BY TypeInit, TypeStep, PTL DEF Spec

-----------------------------------------------------------------------------
(* The lock columns.  A row is in order when it carries the lock exactly   *)
(* while it is running; every statement that writes a row keeps it so.     *)

InOrder(row) == /\ row.locked <=> row.state = "running"
                /\ row.locked => row.age # NotStarted

\* The rows that the statements of runs.ts write are in order.
LEMMA WrittenInOrder ==
  ASSUME NEW row \in JobRow
  PROVE  /\ InOrder(Requeued(row))
         /\ \A outcome \in Outcomes \union {"cancelled"} : InOrder(Finished(row, outcome))
         /\ InOrder([row EXCEPT !.state = "running", !.locked = TRUE, !.age = 0])
         /\ InOrder(row) => InOrder([row EXCEPT !.quiet = FALSE])
         /\ InOrder(row) /\ row.state = "paused_on_budget"
                => InOrder([row EXCEPT !.state = "queued"])
  BY DEF JobRow, InOrder, Requeued, Finished, NotStarted, Outcomes

\* Time passing touches neither lock nor state, and starts nothing.
LEMMA TickInOrder ==
  ASSUME TypeOK, \A j \in Jobs : InOrder(job[j]), Tick
  PROVE  \A j \in Jobs : InOrder(job'[j])
<1> DEFINE older(j) == IF job[j].age < MaxAge THEN job[j].age + 1 ELSE job[j].age
           aged(j, silent) == IF job[j].age = NotStarted THEN job[j]
                              ELSE [job[j] EXCEPT !.age = older(j), !.quiet = silent]
<1>1. PICK mute \in SUBSET {j \in Jobs : HoldersOf(j) # {}} :
        job' = [j \in Jobs |-> aged(j, HoldersOf(j) = {} \/ j \in mute)]
  BY DEF Tick
<1>2. ASSUME NEW j \in Jobs, NEW silent
      PROVE  InOrder(aged(j, silent))
  <2>1. job[j] \in JobRow /\ job[j].age \in {NotStarted, 0, 1, 2}
    BY DEF TypeOK, JobsTyped, JobRow
  <2>2. CASE job[j].age = NotStarted
    BY <2>2
  <2>3. CASE job[j].age # NotStarted
    <3>1. older(j) # NotStarted
      BY <2>1, <2>3, BoundsNat DEF NotStarted
    <3> HIDE DEF older
    <3> QED
      BY <2>1, <2>3, <3>1 DEF JobRow, InOrder
  <2> QED
    BY <2>2, <2>3
<1>3. \A j \in Jobs : job'[j] = aged(j, HoldersOf(j) = {} \/ j \in mute)
  BY <1>1
<1> HIDE DEF aged
<1> QED
  BY <1>2, <1>3

LEMMA RecoverableStep ==
  ASSUME TypeOK, \A j \in Jobs : InOrder(job[j]), [Next]_vars
  PROVE  \A j \in Jobs : InOrder(job'[j])
<1>0. \A j \in Jobs : job[j] \in JobRow
  BY DEF TypeOK, JobsTyped
<1>1. ASSUME NEW s \in Slots, Dequeue(s)
      PROVE  \A j \in Jobs : InOrder(job'[j])
  BY <1>0, <1>1, WrittenInOrder DEF Dequeue, First, TypeOK, JobsTyped
<1>2. CASE SweepUpdate
  BY <1>0, <1>2, WrittenInOrder DEF SweepUpdate
<1>3. ASSUME NEW s \in Slots, Spend(s)
      PROVE  \A j \in Jobs : InOrder(job'[j])
  <2>1. slot[s].job \in Jobs
    BY <1>3 DEF Spend, TypeOK, SlotsTyped, Exists
  <2>2. job' = [job EXCEPT ![slot[s].job] = [job[slot[s].job] EXCEPT !.quiet = FALSE]]
    BY <1>3 DEF Spend
  <2> QED
    BY <1>0, <2>1, <2>2, WrittenInOrder DEF TypeOK, JobsTyped
<1>4. ASSUME NEW r, NEW kind, NEW supplier, Enqueue(r, kind, supplier)
      PROVE  \A j \in Jobs : InOrder(job'[j])
  BY <1>4 DEF Enqueue, TypeOK, JobsTyped, InOrder
<1>5. ASSUME NEW s \in Slots, FinishJob(s)
      PROVE  \A j \in Jobs : InOrder(job'[j])
  <2>1. slot[s].job \in Jobs /\ slot[s].out \in Outcomes
    BY <1>5 DEF FinishJob, TypeOK, SlotsTyped, SlotRow, Exists
  <2>2. job' = [job EXCEPT ![slot[s].job] = Finished(job[slot[s].job], slot[s].out)]
    BY <1>5 DEF FinishJob
  <2> QED
    BY <1>0, <2>1, <2>2, WrittenInOrder DEF TypeOK, JobsTyped
<1>6. CASE Tick
  BY <1>6, TickInOrder
<1>7. ASSUME NEW q \in Requests, CancelJobs(q)
      PROVE  \A j \in Jobs : InOrder(job'[j])
  BY <1>0, <1>7, WrittenInOrder DEF CancelJobs
<1>8. ASSUME NEW q \in Requests, RequeueJobs(q)
      PROVE  \A j \in Jobs : InOrder(job'[j])
  BY <1>0, <1>8, WrittenInOrder DEF RequeueJobs
<1>9. ASSUME NEW q \in Requests, ResumeJobs(q)
      PROVE  \A j \in Jobs : InOrder(job'[j])
  BY <1>0, <1>9, WrittenInOrder DEF ResumeJobs
<1>10. CASE job' = job
  BY <1>10
<1>11. ASSUME NEW s \in Slots, SlotStep(s)
       PROVE  \A j \in Jobs : InOrder(job'[j])
  BY <1>1, <1>3, <1>4, <1>5, <1>10, <1>11
     DEF SlotStep, CheckBudget, CheckBoundary, Fail, Succeed, ChainNext,
         SlotSettleRead, SlotSettleWrite
<1>12. ASSUME NEW q \in Requests, WebStep(q)
       PROVE  \A j \in Jobs : InOrder(job'[j])
  <2>1. CASE EnqueueJob(q)
    BY <2>1, <1>4 DEF EnqueueJob
  <2>2. ASSUME NEW r \in Runs,
               OpenRun(q, r) \/ Retry(q, r) \/ ShowCancel(q, r) \/ ShowResume(q, r)
        PROVE  job' = job
    BY <2>2 DEF OpenRun, Retry, ShowCancel, ShowResume
  <2>3. CASE CancelRun(q) \/ WebSettleRead(q) \/ WebSettleWrite(q) \/ ResumeRead(q)
             \/ ResumeRun(q)
    BY <2>3, <1>10 DEF CancelRun, WebSettleRead, WebSettleWrite, ResumeRead, ResumeRun
  <2> QED
    BY <1>7, <1>8, <1>9, <1>10, <1>12, <2>1, <2>2, <2>3 DEF WebStep
<1>13. CASE MainStep
  BY <1>2, <1>10, <1>13 DEF MainStep, SweepSelect, SweepRead, SweepWrite, DequeueNone
<1>14. CASE WorkerStep
  BY <1>6, <1>10, <1>14 DEF WorkerStep, Shutdown, Drained, Crash, Boot
<1>15. CASE UNCHANGED vars
  BY <1>10, <1>15 DEF vars
<1> QED
  BY <1>11, <1>12, <1>13, <1>14, <1>15 DEF Next

\* Whatever happens to the worker, a Job left running carries the lock and the
\* start time by which requeueStaleJobs() finds it, for any number of Jobs.
THEOREM QueueRecoverable == Spec => []RunningIsRecoverable
<1>1. Init => \A j \in Jobs : InOrder(job[j])
  BY DEF Init, NoRow, InOrder
<1>2. (\A j \in Jobs : InOrder(job[j])) <=> RunningIsRecoverable
  BY DEF InOrder, RunningIsRecoverable
<1>3. TypeOK /\ RunningIsRecoverable /\ [Next]_vars => RunningIsRecoverable'
  <2>1. (\A j \in Jobs : InOrder(job'[j])) => RunningIsRecoverable'
    BY DEF InOrder, RunningIsRecoverable
  <2> QED
    BY <1>2, <2>1, RecoverableStep
<1> QED
  BY <1>1, <1>2, <1>3, QueueTypes, PTL DEF Spec

-----------------------------------------------------------------------------
(* The overshoot.  A loop that passed its budget check may still spend     *)
(* RoundCost, so the inductive invariant counts every such loop as spent.  *)

Spending(r) == {s \in Slots : slot[s].pc = "work" /\ RunOf(s) = r}

Reserved ==
  \A r \in Runs : run[r].spent + RoundCost * Cardinality(Spending(r))
                     < run[r].budget + RoundCost * Cardinality(Slots)

\* Jobs and requests belong to Runs that were opened, ...
RunsOpened ==
  /\ \A j \in Jobs : Exists(j) => run[job[j].run].state # "none"
  /\ \A q \in Requests : web[q].pc # "idle" => run[web[q].run].state # "none"

\* ... and a resume in progress is about to raise the budget.
Raises == \A q \in Requests :
            web[q].pc = "resume_run" => run[web[q].run].budget <= web[q].budget

IInv == TypeOK /\ Reserved /\ RunsOpened /\ Raises

LEMMA SlotSets ==
  ASSUME NEW S \in SUBSET Slots
  PROVE  /\ IsFiniteSet(S) /\ Cardinality(S) \in Nat
         /\ Cardinality(Slots) \in Nat /\ Cardinality(Slots) > 0
         /\ Cardinality(S) <= Cardinality(Slots)
         /\ \A R \in SUBSET S : Cardinality(R) <= Cardinality(S)
         /\ \A s \in S : Cardinality(S \ {s}) = Cardinality(S) - 1
<1>1. IsFiniteSet(S) /\ Cardinality(S) \in Nat /\ Cardinality(S) <= Cardinality(Slots)
  BY SlotsFinite, FS_Subset, FS_CardinalityType
<1>2. Cardinality(Slots) \in Nat /\ Cardinality(Slots) > 0
  BY SlotsFinite, FS_CardinalityType, FS_EmptySet
<1>3. \A R \in SUBSET S : Cardinality(R) <= Cardinality(S)
  BY <1>1, FS_Subset
<1>4. \A s \in S : Cardinality(S \ {s}) = Cardinality(S) - 1
  BY <1>1, FS_RemoveElement
<1> QED
  BY <1>1, <1>2, <1>3, <1>4

\* Fewer loops that may spend, more budget: the reserve holds.
LEMMA ReserveShrinks ==
  ASSUME TypeOK, TypeOK', Reserved, NEW r \in Runs,
         Spending(r)' \subseteq Spending(r),
         run'[r].spent = run[r].spent, run[r].budget <= run'[r].budget
  PROVE  run'[r].spent + RoundCost * Cardinality(Spending(r)')
            < run'[r].budget + RoundCost * Cardinality(Slots)
<1>1. Spending(r) \in SUBSET Slots
  BY DEF Spending
<1>2. /\ Cardinality(Spending(r)') \in Nat /\ Cardinality(Spending(r)) \in Nat
      /\ Cardinality(Spending(r)') <= Cardinality(Spending(r))
      /\ Cardinality(Slots) \in Nat
  BY <1>1, SlotSets
<1>3. RoundCost * Cardinality(Spending(r)') <= RoundCost * Cardinality(Spending(r))
  BY <1>2, MoneyNat
<1>4. /\ run[r].spent \in Nat /\ run[r].budget \in Nat
      /\ run'[r].spent \in Nat /\ run'[r].budget \in Nat
  BY DEF TypeOK, RunRow
<1>5. /\ RoundCost * Cardinality(Spending(r)') \in Nat
      /\ RoundCost * Cardinality(Spending(r)) \in Nat
      /\ RoundCost * Cardinality(Slots) \in Nat
  BY <1>2, MoneyNat
<1> QED
  BY <1>3, <1>4, <1>5 DEF Reserved

\* A loop starts only within the budget, and there are only so many slots.
LEMMA ReserveStarts ==
  ASSUME TypeOK, NEW r \in Runs, WithinBudget(r), NEW S \in SUBSET Slots
  PROVE  run[r].spent + RoundCost * Cardinality(S)
            < run[r].budget + RoundCost * Cardinality(Slots)
<1>1. /\ Cardinality(S) \in Nat /\ Cardinality(Slots) \in Nat
      /\ Cardinality(S) <= Cardinality(Slots)
  BY SlotSets
<1>2. RoundCost * Cardinality(S) <= RoundCost * Cardinality(Slots)
  BY <1>1, MoneyNat
<1>3. /\ run[r].spent \in Nat /\ run[r].budget \in Nat
      /\ RoundCost * Cardinality(S) \in Nat /\ RoundCost * Cardinality(Slots) \in Nat
  BY <1>1, MoneyNat DEF TypeOK, RunRow
<1> QED
  BY <1>2, <1>3 DEF WithinBudget

\* A loop that writes its usage rows uses up its own reserve.
LEMMA ReserveUsed ==
  ASSUME IInv, TypeOK', NEW s \in Slots, Spend(s)
  PROVE  Reserved'
<1> SUFFICES ASSUME NEW r \in Runs
             PROVE  run'[r].spent + RoundCost * Cardinality(Spending(r)')
                       < run'[r].budget + RoundCost * Cardinality(Slots)
  BY DEF Reserved
<1> USE DEF IInv
<1>1. Exists(slot[s].job) /\ RunOf(s) \in Runs
  BY DEF Spend, TypeOK, SlotsTyped, JobsTyped, RunOf, Exists
<1>2. \A j \in Jobs : job'[j].run = job[j].run
  BY <1>1 DEF Spend, TypeOK, JobsTyped, JobRow, Exists
<1>3. slot' = [slot EXCEPT ![s] = [slot[s] EXCEPT !.pc = "boundary"]]
  BY DEF Spend, Go
<1>4. slot \in [Slots -> SlotRow]
  BY DEF TypeOK, SlotsTyped
<1>5. ASSUME NEW t \in Slots
      PROVE  slot'[t].job = slot[t].job
             /\ slot'[t].pc = IF t = s THEN "boundary" ELSE slot[t].pc
  BY <1>3, <1>4 DEF SlotRow
<1>6. \A t \in Slots : slot[t].pc = "work" => RunOf(t)' = RunOf(t)
  BY <1>2, <1>5 DEF RunOf, TypeOK, SlotsTyped, Exists
<1>7. Spending(r)' = Spending(r) \ {s}
  BY <1>5, <1>6 DEF Spending
<1>8. PICK cost \in 1..RoundCost : run' = [run EXCEPT ![RunOf(s)].spent = @ + cost]
  BY DEF Spend
<1>9. run[r].spent \in Nat /\ run[r].budget \in Nat /\ run[r] \in RunRow
  BY DEF TypeOK, RunRow
<1>10. CASE r # RunOf(s)
  <2>1. run'[r] = run[r]
    BY <1>1, <1>8, <1>10 DEF TypeOK
  <2>2. Spending(r)' \subseteq Spending(r) /\ run[r].budget <= run'[r].budget
    BY <1>7, <1>9, <2>1
  <2> QED
    BY <2>1, <2>2, ReserveShrinks
<1>11. CASE r = RunOf(s)
  <2>1. run'[r].spent = run[r].spent + cost /\ run'[r].budget = run[r].budget
    BY <1>1, <1>8, <1>9, <1>11 DEF TypeOK, RunRow
  <2>2. s \in Spending(r) /\ Spending(r) \in SUBSET Slots
    BY <1>11 DEF Spending, Spend
  <2> DEFINE n == Cardinality(Spending(r))
             m == Cardinality(Slots)
  <2>3. n \in Nat /\ m \in Nat /\ Cardinality(Spending(r)') = n - 1
    BY <1>7, <2>2, SlotSets
  <2>4. run[r].spent + RoundCost * n < run[r].budget + RoundCost * m
    BY DEF Reserved
  <2> HIDE DEF n, m
  <2>5. RoundCost * (n - 1) = RoundCost * n - RoundCost
    BY <2>3, MoneyNat
  <2>6. RoundCost * n \in Int /\ RoundCost * m \in Int /\ RoundCost \in Nat
        /\ cost \in Nat /\ cost <= RoundCost
    BY <2>3, MoneyNat
  <2>7. run'[r].spent + RoundCost * (n - 1) < run'[r].budget + RoundCost * m
    BY <1>9, <2>1, <2>4, <2>5, <2>6
  <2> QED
    BY <2>3, <2>7 DEF m
<1> QED
  BY <1>10, <1>11

\* What a slot's step other than Spend and CheckBudget leaves of the loops
\* that may spend.
LEMMA SpendingShrinks ==
  ASSUME TypeOK, Keeps, NEW r \in Runs,
         \A t \in Slots : slot'[t].pc = "work" =>
                             slot[t].pc = "work" /\ slot'[t].job = slot[t].job
  PROVE  Spending(r)' \subseteq Spending(r)
<1> SUFFICES ASSUME NEW t \in Slots, slot'[t].pc = "work", RunOf(t)' = r
             PROVE  RunOf(t) = r /\ slot[t].pc = "work"
  BY DEF Spending
<1>1. slot[t].pc = "work" /\ slot'[t].job = slot[t].job
  OBVIOUS
<1>2. Exists(slot[t].job)
  BY <1>1 DEF TypeOK, SlotsTyped
<1> QED
  BY <1>1, <1>2 DEF RunOf, Keeps

\* A slot that passes a budget check starts a loop; no other slot moves.
LEMMA ReserveChecked ==
  ASSUME IInv, TypeOK', Keeps, job' = job, run' = run, NEW s \in Slots,
         NEW row \in SlotRow, slot' = [slot EXCEPT ![s] = row],
         row.job = slot[s].job, slot[s].pc # "idle",
         row.pc = "work" => WithinBudget(RunOf(s))
  PROVE  Reserved'
<1> SUFFICES ASSUME NEW r \in Runs
             PROVE  run'[r].spent + RoundCost * Cardinality(Spending(r)')
                       < run'[r].budget + RoundCost * Cardinality(Slots)
  BY DEF Reserved
<1> USE DEF IInv
<1>1. slot \in [Slots -> SlotRow]
  BY DEF TypeOK, SlotsTyped
<1>2. slot'[s] = row /\ \A t \in Slots : t # s => slot'[t] = slot[t]
  BY <1>1
<1>3. CASE row.pc = "work" /\ RunOf(s) = r
  <2>1. Spending(r)' \in SUBSET Slots
    BY DEF Spending
  <2> QED
    BY <1>3, <2>1, ReserveStarts
<1>4. CASE ~(row.pc = "work" /\ RunOf(s) = r)
  <2>1. Spending(r)' \subseteq Spending(r)
    BY <1>2, <1>4 DEF Spending, RunOf
  <2>2. run[r].budget <= run'[r].budget
    BY DEF TypeOK, RunRow
  <2> QED
    BY <2>1, <2>2, ReserveShrinks
<1> QED
  BY <1>3, <1>4

\* A step that starts no loop, spends nothing and lowers no budget.
LEMMA ReserveKept ==
  ASSUME IInv, TypeOK', Keeps,
         \A t \in Slots : slot'[t].pc = "work" =>
                             slot[t].pc = "work" /\ slot'[t].job = slot[t].job,
         \A r \in Runs : run'[r].spent = run[r].spent /\ run[r].budget <= run'[r].budget
  PROVE  Reserved'
<1> SUFFICES ASSUME NEW r \in Runs
             PROVE  run'[r].spent + RoundCost * Cardinality(Spending(r)')
                       < run'[r].budget + RoundCost * Cardinality(Slots)
  BY DEF Reserved
<1> QED
  BY SpendingShrinks, ReserveShrinks DEF IInv

\* Runs stay opened, and so do the Runs of new rows and new requests.
LEMMA OpenedKept ==
  ASSUME TypeOK, RunsOpened, TypeOK', Keeps,
         \A r \in Runs : run[r].state # "none" => run'[r].state # "none",
         \A j \in Jobs : Exists(j)' /\ ~Exists(j) => run'[job'[j].run].state # "none",
         \A q \in Requests : web'[q].pc # "idle" =>
            \/ web[q].pc # "idle" /\ web'[q].run = web[q].run
            \/ web'[q].run \in Runs /\ run'[web'[q].run].state # "none"
  PROVE  RunsOpened'
<1> USE DEF TypeOK
<1>1. ASSUME NEW j \in Jobs, Exists(j)'
      PROVE  run'[job'[j].run].state # "none"
  <2>1. CASE Exists(j)
    BY <2>1 DEF Keeps, RunsOpened, JobsTyped
  <2>2. CASE ~Exists(j)
    BY <1>1, <2>2
  <2> QED
    BY <2>1, <2>2
<1>2. ASSUME NEW q \in Requests, web'[q].pc # "idle"
      PROVE  run'[web'[q].run].state # "none"
  <2>1. CASE web[q].pc # "idle" /\ web'[q].run = web[q].run
    BY <2>1 DEF RunsOpened, WebTyped
  <2> QED
    BY <1>2, <2>1
<1> QED
  BY <1>1, <1>2 DEF RunsOpened

\* The steps after which no new loop may spend.
NoLoopStarts ==
  \A t \in Slots : slot'[t].pc = "work" =>
                      slot[t].pc = "work" /\ slot'[t].job = slot[t].job

\* Runs keep their money, and do not disappear.
RunsKept ==
  \A r \in Runs : /\ run'[r].spent = run[r].spent
                  /\ run[r].budget <= run'[r].budget
                  /\ run[r].state # "none" => run'[r].state # "none"

LEMMA GoStarts ==
  ASSUME TypeOK, NEW s \in Slots, NEW pc, pc # "work",
         Go(s, pc) \/ (\E outcome : Ends(s, outcome))
  PROVE  NoLoopStarts
<1>1. slot \in [Slots -> SlotRow]
  BY DEF TypeOK, SlotsTyped
<1>2. CASE Go(s, pc)
  BY <1>1, <1>2 DEF Go, NoLoopStarts, SlotRow
<1>3. ASSUME NEW outcome, Ends(s, outcome)
      PROVE  NoLoopStarts
  <2> DEFINE row == [slot[s] EXCEPT !.pc = "finish", !.out = outcome]
  <2>0. row.pc = "finish" /\ slot' = [slot EXCEPT ![s] = row]
    BY <1>1, <1>3 DEF Ends, SlotRow
  <2> HIDE DEF row
  <2>1. slot'[s].pc = "finish" /\ \A t \in Slots : t # s => slot'[t] = slot[t]
    BY <1>1, <2>0
  <2> QED
    BY <2>1 DEF NoLoopStarts
<1> QED
  BY <1>2, <1>3

LEMMA SlotsStart ==
  ASSUME TypeOK, NEW s \in Slots, SlotStep(s), ~CheckBudget(s)
  PROVE  NoLoopStarts \/ CheckBoundary(s)
<1>1. slot \in [Slots -> SlotRow]
  BY DEF TypeOK, SlotsTyped
<1>2. CASE Dequeue(s)
  BY <1>1, <1>2 DEF Dequeue, NoLoopStarts, IdleSlot
<1>3. CASE Spend(s)
  BY <1>3, GoStarts DEF Spend
<1>4. CASE Fail(s)
  BY <1>4, GoStarts DEF Fail
<1>5. CASE Succeed(s)
  BY <1>5, GoStarts DEF Succeed
<1>6. CASE ChainNext(s)
  BY <1>6, GoStarts DEF ChainNext
<1>7. CASE FinishJob(s)
  BY <1>7, GoStarts DEF FinishJob
<1>8. CASE SlotSettleRead(s)
  BY <1>1, <1>8 DEF SlotSettleRead, NoLoopStarts, SlotRow
<1>9. CASE SlotSettleWrite(s)
  <2>1. /\ \A t \in Slots : t # s => slot'[t] = slot[t]
        /\ slot'[s].pc \in {"idle", "settle_read"}
    BY <1>1, <1>9 DEF SlotSettleWrite, SlotRow, IdleSlot
  <2> QED
    BY <2>1 DEF NoLoopStarts
<1> QED
  BY <1>2, <1>3, <1>4, <1>5, <1>6, <1>7, <1>8, <1>9 DEF SlotStep

\* settleRunState() moves no money.
LEMMA SettleKeeps ==
  ASSUME TypeOK, NEW r \in Runs, NEW next \in RunStates, run' = SettleWrite(r, next)
  PROVE  RunsKept
<1>1. /\ run \in [Runs -> RunRow]
      /\ \A p \in Runs : run[p].budget \in Nat
  BY DEF TypeOK, RunRow
<1> QED
  BY <1>1, SettleWriteType DEF RunsKept

\* Neither does any step but Spend and the two that write a Run's budget.
LEMMA MoneyKept ==
  ASSUME TypeOK, [Next]_vars,
         \A s \in Slots : ~Spend(s),
         \A q \in Requests : ~ResumeRun(q) /\ \A r \in Runs : ~OpenRun(q, r)
  PROVE  RunsKept
<1>1. CASE run' = run
  BY <1>1 DEF RunsKept, TypeOK, RunRow
<1>2. ASSUME NEW s \in Slots, SlotStep(s)
      PROVE  RunsKept
  <2>1. CASE SlotSettleWrite(s)
    <3>1. RunOf(s) \in Runs /\ slot[s].next \in RunStates
      BY <2>1 DEF SlotSettleWrite, TypeOK, SlotsTyped, SlotRow, JobsTyped, RunOf, Exists
    <3> QED
      BY <2>1, <3>1, SettleKeeps DEF SlotSettleWrite
  <2> QED
    BY <1>1, <1>2, <2>1 DEF SlotStep, Dequeue, CheckBudget, CheckBoundary, Fail,
       Succeed, ChainNext, FinishJob, SlotSettleRead
<1>3. CASE MainStep
  <2>1. CASE SweepWrite
    <3>1. main.run \in Runs /\ main.next \in RunStates
      BY <2>1 DEF SweepWrite, TypeOK, MainTyped, MainRow
    <3> QED
      BY <2>1, <3>1, SettleKeeps DEF SweepWrite
  <2> QED
    BY <1>1, <1>3, <2>1 DEF MainStep, SweepSelect, SweepUpdate, SweepRead, DequeueNone
<1>4. CASE WorkerStep
  BY <1>1, <1>4 DEF WorkerStep, Shutdown, Drained, Crash, Boot, Tick
<1>5. ASSUME NEW q \in Requests, WebStep(q)
      PROVE  RunsKept
  <2>1. CASE WebSettleWrite(q)
    <3>1. web[q].run \in Runs /\ web[q].next \in RunStates
      BY <2>1 DEF WebSettleWrite, WebAt, TypeOK, WebTyped, WebRow
    <3> QED
      BY <2>1, <3>1, SettleKeeps DEF WebSettleWrite
  <2>2. CASE CancelRun(q)
    <3>1. web[q].run \in Runs /\ run \in [Runs -> RunRow]
      BY <2>2 DEF CancelRun, WebAt, TypeOK, WebTyped
    <3> QED
      BY <2>2, <3>1 DEF CancelRun, RunsKept, RunRow
  <2>3. ASSUME NEW r \in Runs, ShowCancel(q, r) \/ Retry(q, r) \/ ShowResume(q, r)
        PROVE  RunsKept
    BY <1>1, <2>3 DEF ShowCancel, Retry, ShowResume
  <2> QED
    BY <1>1, <1>5, <2>1, <2>2, <2>3
       DEF WebStep, EnqueueJob, CancelJobs, RequeueJobs, WebSettleRead, ResumeRead,
           ResumeJobs
<1>6. CASE UNCHANGED vars
  BY <1>1, <1>6 DEF vars
<1> QED
  BY <1>2, <1>3, <1>4, <1>5, <1>6 DEF Next

\* A Run that is opened starts with nothing spent and nobody at work on it.
LEMMA ReserveOpened ==
  ASSUME IInv, TypeOK', Keeps, NEW q \in Requests, NEW r \in Runs, OpenRun(q, r)
  PROVE  Reserved'
<1> SUFFICES ASSUME NEW p \in Runs
             PROVE  run'[p].spent + RoundCost * Cardinality(Spending(p)')
                       < run'[p].budget + RoundCost * Cardinality(Slots)
  BY DEF Reserved
<1> USE DEF IInv
<1>1. slot' = slot /\ job' = job
  BY DEF OpenRun
<1>2. Spending(p)' = Spending(p)
  BY <1>1 DEF Spending, RunOf
<1>3. CASE p # r
  <2>1. run'[p] = run[p]
    BY <1>3 DEF OpenRun, TypeOK
  <2>2. run[p].budget <= run'[p].budget
    BY <2>1 DEF TypeOK, RunRow
  <2> QED
    BY <1>2, <2>1, <2>2, ReserveShrinks
<1>4. CASE p = r
  <2>1. Spending(r) = {}
    BY DEF Spending, RunOf, OpenRun, RunsOpened, TypeOK, SlotsTyped, Exists
  <2>2. Cardinality(Spending(p)') = 0
    BY <1>2, <1>4, <2>1, FS_EmptySet
  <2>3. run'[p].spent = 0 /\ run'[p].budget \in Nat
    BY <1>4 DEF OpenRun, TypeOK, RunRow
  <2>4. Cardinality(Slots) \in Nat /\ Cardinality(Slots) > 0
    BY SlotSets
  <2>5. RoundCost * Cardinality(Slots) > 0 /\ RoundCost * Cardinality(Slots) \in Nat
    BY <2>4, MoneyNat
  <2>6. RoundCost * 0 = 0
    BY MoneyNat
  <2> QED
    BY <2>2, <2>3, <2>5, <2>6
<1> QED
  BY <1>3, <1>4

\* A resume that was started sets the budget to at least what it is.
LEMMA ResumeKeeps ==
  ASSUME IInv, NEW q \in Requests, ResumeRun(q)
  PROVE  RunsKept
<1> USE DEF IInv
<1>1. /\ web[q].run \in Runs /\ run \in [Runs -> RunRow]
      /\ run[web[q].run].budget <= web[q].budget
  BY DEF ResumeRun, WebAt, TypeOK, WebTyped, Raises
<1>2. \A r \in Runs : run[r].budget \in Nat
  BY <1>1 DEF RunRow
<1>3. ASSUME NEW r \in Runs
      PROVE  /\ run'[r].spent = run[r].spent
             /\ run[r].budget <= run'[r].budget
             /\ run[r].state # "none" => run'[r].state # "none"
  <2>1. CASE r = web[q].run
    <3>1. /\ run'[r].spent = run[r].spent
          /\ run'[r].budget = web[q].budget
          /\ run'[r].state = "running"
      BY <1>1, <2>1 DEF ResumeRun, RunRow
    <3> QED
      BY <1>1, <2>1, <3>1
  <2>2. CASE r # web[q].run
    <3>1. run'[r] = run[r]
      BY <1>1, <2>2 DEF ResumeRun
    <3> QED
      BY <1>2, <3>1
  <2> QED
    BY <2>1, <2>2
<1> QED
  BY <1>3 DEF RunsKept

LEMMA ReservedStep ==
  ASSUME IInv, [Next]_vars
  PROVE  Reserved'
<1> USE DEF IInv
<1>0. TypeOK' /\ Keeps
  BY TypeStep
<1>1. ASSUME NoLoopStarts, RunsKept
      PROVE  Reserved'
  BY <1>0, <1>1, ReserveKept DEF NoLoopStarts, RunsKept
<1>2. ASSUME NEW s \in Slots, Spend(s)
      PROVE  Reserved'
  BY <1>0, <1>2, ReserveUsed
<1>3. ASSUME NEW s \in Slots, CheckBudget(s)
      PROVE  Reserved'
  <2> DEFINE on == [slot[s] EXCEPT !.pc = "work", !.settles = 1]
             off == [slot[s] EXCEPT !.pc = "finish", !.settles = 2,
                                    !.out = "paused_on_budget"]
             row == IF WithinBudget(RunOf(s)) THEN on ELSE off
  <2>1. slot[s] \in SlotRow
    BY DEF TypeOK, SlotsTyped
  <2>2. on.job = slot[s].job /\ off.job = slot[s].job /\ off.pc = "finish"
    BY <2>1 DEF SlotRow
  <2>3. slot' = [slot EXCEPT ![s] = row]
    BY <1>3 DEF CheckBudget
  <2>4. slot' \in [Slots -> SlotRow]
    BY <1>0 DEF TypeOK, SlotsTyped
  <2> HIDE DEF on, off
  <2>5. row = slot'[s]
    BY <2>3 DEF TypeOK, SlotsTyped
  <2>6. row \in SlotRow
    BY <2>4, <2>5
  <2>7. row.job = slot[s].job /\ (row.pc = "work" => WithinBudget(RunOf(s)))
    BY <2>2
  <2> HIDE DEF row
  <2> QED
    BY <1>0, <1>3, <2>3, <2>6, <2>7, ReserveChecked DEF CheckBudget
<1>4. ASSUME NEW s \in Slots, CheckBoundary(s)
      PROVE  Reserved'
  <2>1. CASE WithinBudget(RunOf(s))
    <3> DEFINE row == [slot[s] EXCEPT !.pc = "work"]
    <3>1. row \in SlotRow /\ row.job = slot[s].job
      BY DEF TypeOK, SlotsTyped, SlotRow, AtWork
    <3>2. slot' = [slot EXCEPT ![s] = row]
      BY <1>4, <2>1 DEF CheckBoundary, Go
    <3> HIDE DEF row
    <3> QED
      BY <1>0, <1>4, <2>1, <3>1, <3>2, ReserveChecked DEF CheckBoundary
  <2>2. CASE ~WithinBudget(RunOf(s))
    <3>1. NoLoopStarts
      BY <1>4, <2>2, GoStarts DEF CheckBoundary
    <3>2. RunsKept
      BY <1>4 DEF CheckBoundary, RunsKept, TypeOK, RunRow
    <3> QED
      BY <1>1, <3>1, <3>2
  <2> QED
    BY <2>1, <2>2
<1>5. ASSUME NEW q \in Requests, NEW r \in Runs, OpenRun(q, r)
      PROVE  Reserved'
  BY <1>0, <1>5, ReserveOpened
<1>6. ASSUME NEW q \in Requests, ResumeRun(q)
      PROVE  Reserved'
  <2>1. NoLoopStarts
    BY <1>6 DEF ResumeRun, NoLoopStarts
  <2> QED
    BY <1>1, <1>6, <2>1, ResumeKeeps
<1>7. ASSUME \A s \in Slots : ~Spend(s) /\ ~CheckBudget(s) /\ ~CheckBoundary(s),
             \A q \in Requests : ~ResumeRun(q) /\ \A r \in Runs : ~OpenRun(q, r)
      PROVE  Reserved'
  <2>1. RunsKept
    BY <1>7, MoneyKept
  <2>2. CASE slot' = slot
    BY <1>1, <2>1, <2>2 DEF NoLoopStarts
  <2>3. ASSUME NEW s \in Slots, SlotStep(s)
        PROVE  Reserved'
    BY <1>1, <1>7, <2>1, <2>3, SlotsStart
  <2>4. CASE MainStep
    BY <2>2, <2>4 DEF MainStep, SweepSelect, SweepUpdate, SweepRead, SweepWrite, DequeueNone
  <2>5. CASE WorkerStep
    <3>1. CASE Crash
      BY <1>1, <2>1, <3>1 DEF Crash, NoLoopStarts, IdleSlot
    <3> QED
      BY <2>2, <2>5, <3>1 DEF WorkerStep, Shutdown, Drained, Boot, Tick
  <2>6. ASSUME NEW q \in Requests, WebStep(q)
        PROVE  Reserved'
    BY <2>2, <2>6 DEF WebStep, OpenRun, ShowCancel, CancelJobs, Retry, ShowResume,
       ResumeRead, EnqueueJob, CancelRun, RequeueJobs, WebSettleRead, WebSettleWrite,
       ResumeRun, ResumeJobs
  <2>7. CASE UNCHANGED vars
    BY <2>2, <2>7 DEF vars
  <2> QED
    BY <2>3, <2>4, <2>5, <2>6, <2>7 DEF Next
<1> QED
  BY <1>2, <1>3, <1>4, <1>5, <1>6, <1>7

\* Only chainNext() and the enqueueing of an opened Run insert rows.
LEMMA NewRows ==
  ASSUME TypeOK, [Next]_vars, NEW j \in Jobs, ~Exists(j), Exists(j)'
  PROVE  \/ \E s \in Slots : ChainNext(s) /\ job'[j].run = RunOf(s)
         \/ \E q \in Requests : EnqueueJob(q) /\ job'[j].run = web[q].run
<1> USE DEF Exists
<1>0. job[j].state = "none" /\ job'[j].state # "none" /\ job \in [Jobs -> JobRow]
  BY DEF TypeOK, JobsTyped
<1>1. ASSUME NEW r, NEW kind, NEW supplier, Enqueue(r, kind, supplier)
      PROVE  job'[j].run = r
  BY <1>0, <1>1 DEF Enqueue
<1>2. ASSUME NEW s \in Slots, SlotStep(s)
      PROVE  \E t \in Slots : ChainNext(t) /\ job'[j].run = RunOf(t)
  <2>1. CASE ChainNext(s)
    BY <1>1, <2>1 DEF ChainNext
  <2>2. ~Dequeue(s)
    BY <1>0 DEF Dequeue, First, Queued
  <2>3. ~Spend(s)
    <3>1. ASSUME Spend(s)
          PROVE  FALSE
      <4>1. slot[s].job \in Jobs /\ job[slot[s].job].state # "none"
        BY <3>1 DEF Spend, TypeOK, SlotsTyped
      <4>2. j # slot[s].job => job'[j] = job[j]
        BY <1>0, <3>1, <4>1 DEF Spend
      <4> QED
        BY <1>0, <4>1, <4>2
    <3> QED
      BY <3>1
  <2>4. ~FinishJob(s)
    BY <1>0 DEF FinishJob, TypeOK, SlotsTyped
  <2> QED
    BY <1>0, <1>2, <2>1, <2>2, <2>3, <2>4
       DEF SlotStep, CheckBudget, CheckBoundary, Fail, Succeed, SlotSettleRead,
           SlotSettleWrite
<1>3. ~MainStep
  <2>1. ~SweepUpdate
    BY <1>0 DEF SweepUpdate, TypeOK, MainTyped
  <2> QED
    BY <1>0, <2>1 DEF MainStep, SweepSelect, SweepRead, SweepWrite, DequeueNone
<1>4. ~WorkerStep
  <2>1. ~Tick
    BY <1>0, TickType DEF TypeOK, JobsTyped
  <2> QED
    BY <1>0, <2>1 DEF WorkerStep, Shutdown, Drained, Crash, Boot
<1>5. ASSUME NEW q \in Requests, WebStep(q)
      PROVE  EnqueueJob(q) /\ job'[j].run = web[q].run
  <2>1. CASE EnqueueJob(q)
    BY <1>1, <2>1 DEF EnqueueJob
  <2>2. ASSUME NEW r \in Runs
        PROVE  ~OpenRun(q, r) /\ ~Retry(q, r) /\ ~ShowCancel(q, r) /\ ~ShowResume(q, r)
    BY <1>0 DEF OpenRun, Retry, ShowCancel, ShowResume
  <2>3. ~CancelJobs(q)
    BY <1>0 DEF CancelJobs
  <2>4. ~RequeueJobs(q)
    BY <1>0 DEF RequeueJobs, WebAt, TypeOK, WebTyped
  <2>5. ~ResumeJobs(q)
    BY <1>0 DEF ResumeJobs
  <2> QED
    BY <1>0, <1>5, <2>1, <2>2, <2>3, <2>4, <2>5
       DEF WebStep, CancelRun, WebSettleRead, WebSettleWrite, ResumeRead, ResumeRun
<1> QED
  BY <1>0, <1>2, <1>3, <1>4, <1>5 DEF Next, vars

\* A request keeps its Run, or takes up one that is open.
LEMMA RequestsName ==
  ASSUME TypeOK, [Next]_vars, NEW p \in Requests, web'[p].pc # "idle",
         \A r \in Runs : run[r].state # "none" => run'[r].state # "none"
  PROVE  \/ web[p].pc # "idle" /\ web'[p].run = web[p].run
         \/ web'[p].run \in Runs /\ run'[web'[p].run].state # "none"
<1>0. web \in [Requests -> WebRow] /\ run \in [Runs -> RunRow]
  BY DEF TypeOK, WebTyped
<1>1. CASE web' = web
  BY <1>1
<1>2. ASSUME NEW q \in Requests, WebStep(q)
      PROVE  \/ web[p].pc # "idle" /\ web'[p].run = web[p].run
             \/ web'[p].run \in Runs /\ run'[web'[p].run].state # "none"
  <2>1. ASSUME NEW r \in Runs, OpenRun(q, r)
        PROVE  run'[r].state # "none" /\ web'[q].run = r
               /\ \A o \in Requests : o # q => web'[o] = web[o]
    BY <1>0, <2>1 DEF OpenRun, IdleWeb
  <2>2. ASSUME NEW r \in Runs, ShowCancel(q, r) \/ Retry(q, r) \/ ShowResume(q, r)
        PROVE  run[r].state # "none" /\ web'[q].run = r
               /\ \A o \in Requests : o # q => web'[o] = web[o]
    <3>1. CASE ShowCancel(q, r)
      BY <1>0, <3>1 DEF ShowCancel, Act, IdleWeb
    <3>2. CASE Retry(q, r)
      BY <1>0, <3>2 DEF Retry, Act, IdleWeb
    <3>3. CASE ShowResume(q, r)
      BY <1>0, <3>3 DEF ShowResume, Act, IdleWeb
    <3> QED
      BY <2>2, <3>1, <3>2, <3>3
  <2>3. ASSUME CancelRun(q) \/ WebSettleWrite(q) \/ ResumeJobs(q)
        PROVE  web'[q].pc = "idle" /\ \A o \in Requests : o # q => web'[o] = web[o]
    BY <1>0, <2>3 DEF CancelRun, WebSettleWrite, ResumeJobs, IdleWeb
  <2>4. ASSUME RequeueJobs(q) \/ WebSettleRead(q) \/ ResumeRun(q) \/ EnqueueJob(q)
               \/ CancelJobs(q) \/ ResumeRead(q)
        PROVE  /\ web'[q].pc = "idle" \/ web'[q].run = web[q].run
               /\ web[q].pc # "idle"
               /\ \A o \in Requests : o # q => web'[o] = web[o]
    <3>1. CASE RequeueJobs(q)
      BY <1>0, <3>1 DEF RequeueJobs, WebAt, WebRow
    <3>2. CASE WebSettleRead(q)
      BY <1>0, <3>2 DEF WebSettleRead, WebAt, WebRow
    <3>3. CASE ResumeRun(q)
      BY <1>0, <3>3 DEF ResumeRun, WebAt, WebRow
    <3>5. CASE CancelJobs(q)
      BY <1>0, <3>5 DEF CancelJobs, WebAt, WebRow
    <3>6. CASE ResumeRead(q)
      BY <1>0, <3>6 DEF ResumeRead, WebAt, WebRow
    <3>4. CASE EnqueueJob(q)
      <4>1. PICK supplier \in web[q].todo :
              web' = [web EXCEPT ![q] =
                        IF web[q].todo = {supplier} THEN IdleWeb
                        ELSE [web[q] EXCEPT !.todo = @ \ {supplier}]]
        BY <3>4 DEF EnqueueJob
      <4>2. CASE web[q].todo = {supplier}
        BY <1>0, <3>4, <4>1, <4>2 DEF EnqueueJob, WebAt, IdleWeb
      <4>3. CASE web[q].todo # {supplier}
        BY <1>0, <3>4, <4>1, <4>3 DEF EnqueueJob, WebAt, WebRow
      <4> QED
        BY <4>2, <4>3
    <3> QED
      BY <2>4, <3>1, <3>2, <3>3, <3>4, <3>5, <3>6
  <2>5. CASE p = q
    BY <1>2, <2>1, <2>2, <2>3, <2>4, <2>5 DEF WebStep
  <2>6. CASE p # q
    <3>1. web'[p] = web[p]
      BY <1>2, <2>1, <2>2, <2>3, <2>4, <2>6 DEF WebStep
    <3> QED
      BY <3>1
  <2> QED
    BY <2>5, <2>6
<1>3. ASSUME NEW s \in Slots, SlotStep(s)
      PROVE  web' = web
  BY <1>3 DEF SlotStep, Dequeue, CheckBudget, Spend, CheckBoundary, Fail, Succeed,
         ChainNext, FinishJob, SlotSettleRead, SlotSettleWrite
<1>4. CASE MainStep \/ WorkerStep \/ UNCHANGED vars
  BY <1>1, <1>4 DEF MainStep, SweepSelect, SweepUpdate, SweepRead, SweepWrite,
         DequeueNone, WorkerStep, Shutdown, Drained, Crash, Boot, Tick, vars
<1> QED
  BY <1>1, <1>2, <1>3, <1>4 DEF Next

\* Jobs join only Runs that were opened, and a request names only such a Run.
LEMMA OpenedStep ==
  ASSUME TypeOK, RunsOpened, [Next]_vars
  PROVE  RunsOpened'
<1>0. TypeOK' /\ Keeps
  BY TypeStep
<1>1. \A r \in Runs : run[r].state # "none" => run'[r].state # "none"
  <2>1. ASSUME NEW s \in Slots, Spend(s)
        PROVE  \A r \in Runs : run[r].state # "none" => run'[r].state # "none"
    <3>1. RunOf(s) \in Runs
      BY <2>1 DEF Spend, TypeOK, SlotsTyped, JobsTyped, RunOf, Exists
    <3>2. run \in [Runs -> RunRow]
      BY DEF TypeOK
    <3> QED
      BY <2>1, <3>1, <3>2 DEF Spend, RunRow
  <2>2. ASSUME NEW q \in Requests, NEW r \in Runs, OpenRun(q, r)
        PROVE  \A p \in Runs : run[p].state # "none" => run'[p].state # "none"
    <3>1. \A p \in Runs : p # r => run'[p] = run[p]
      BY <2>2 DEF OpenRun, TypeOK
    <3>2. run[r].state = "none"
      BY <2>2 DEF OpenRun
    <3> QED
      BY <3>1, <3>2
  <2>3. CASE RunsKept
    BY <2>3 DEF RunsKept
  <2> QED
    <3>1. ASSUME NEW q \in Requests, ResumeRun(q)
          PROVE  \A r \in Runs : run[r].state # "none" => run'[r].state # "none"
      BY <3>1 DEF ResumeRun, TypeOK, RunRow
    <3> QED
      BY <2>1, <2>2, <2>3, <3>1, MoneyKept
<1>2. \A j \in Jobs : Exists(j)' /\ ~Exists(j) => run'[job'[j].run].state # "none"
  <2>1. \A s \in Slots : ChainNext(s) => RunOf(s) \in Runs /\ run[RunOf(s)].state # "none"
    BY DEF ChainNext, RunOf, TypeOK, SlotsTyped, JobsTyped, RunsOpened, Exists
  <2>2. \A q \in Requests : EnqueueJob(q) =>
            web[q].run \in Runs /\ run[web[q].run].state # "none"
    BY DEF EnqueueJob, WebAt, TypeOK, WebTyped, RunsOpened
  <2> QED
    BY <1>1, <2>1, <2>2, NewRows
<1> QED
  BY <1>0, <1>1, <1>2, RequestsName, OpenedKept

\* One person at a time: nothing comes between a resume's read and its write.
LEMMA RaisesStep ==
  ASSUME IInv, [Next]_vars, \A p, q \in Requests : p = q
  PROVE  Raises'
<1> USE DEF IInv
<1> SUFFICES ASSUME NEW p \in Requests, web'[p].pc = "resume_run"
             PROVE  run'[web'[p].run].budget <= web'[p].budget
  BY DEF Raises
<1>0. web \in [Requests -> WebRow] /\ run \in [Runs -> RunRow]
      /\ \A r \in Runs : run[r].budget \in Nat
  BY DEF TypeOK, WebTyped, RunRow
<1>1. ASSUME web' = web, \A r \in Runs : run'[r].budget = run[r].budget
      PROVE  run'[web'[p].run].budget <= web'[p].budget
  BY <1>1 DEF Raises, TypeOK, WebTyped
<1>2. ASSUME NEW q \in Requests, WebStep(q)
      PROVE  run'[web'[p].run].budget <= web'[p].budget
  <2>0. p = q
    OBVIOUS
  <2>1. ASSUME ResumeRead(q)
        PROVE  run'[web'[p].run].budget <= web'[p].budget
    <3> DEFINE r == web[q].run
               U == {j \in JobsOf(r) : job[j].state \in {"paused_on_budget", "queued"}}
               more == run[r].budget + PerSupplier * Cardinality(U)
    <3>1. Cardinality(U) \in Nat /\ r \in Runs
      BY <2>1, JobSetsFinite DEF JobsOf, ResumeRead, WebAt, TypeOK, WebTyped
    <3>2. run[r].budget <= more
      BY <1>0, <3>1, MoneyNat
    <3>3. web' = [web EXCEPT ![q] = [web[q] EXCEPT !.pc = "resume_run", !.budget = more]]
          /\ run' = run
      BY <2>1 DEF ResumeRead
    <3> HIDE DEF more
    <3>4. web'[q].run = r /\ web'[q].budget = more
      BY <1>0, <3>3 DEF WebRow
    <3> HIDE DEF r
    <3> QED
      BY <2>0, <3>2, <3>3, <3>4
  <2>2. ~(CancelRun(q) \/ WebSettleWrite(q) \/ ResumeJobs(q))
    BY <1>0, <2>0 DEF CancelRun, WebSettleWrite, ResumeJobs, IdleWeb
  <2>3. ~(RequeueJobs(q) \/ WebSettleRead(q) \/ ResumeRun(q) \/ CancelJobs(q))
    BY <1>0, <2>0 DEF RequeueJobs, WebSettleRead, ResumeRun, CancelJobs, WebRow
  <2>4. ASSUME NEW r \in Runs
        PROVE  ~(OpenRun(q, r) \/ ShowCancel(q, r) \/ ShowResume(q, r) \/ Retry(q, r))
    <3>1. ~OpenRun(q, r)
      <4>1. ASSUME OpenRun(q, r)
            PROVE  \E kind : web' = [web EXCEPT ![q] =
                      [IdleWeb EXCEPT !.pc = "enqueue", !.run = r, !.kind = kind,
                                      !.todo = Suppliers]]
        BY <4>1 DEF OpenRun
      <4> QED
        BY <1>0, <2>0, <4>1 DEF IdleWeb
    <3>2. ~ShowCancel(q, r) /\ ~ShowResume(q, r)
      BY <1>0, <2>0 DEF ShowCancel, ShowResume, IdleWeb
    <3>3. ~Retry(q, r)
      BY <1>0, <2>0 DEF Retry, IdleWeb
    <3> QED
      BY <3>1, <3>2, <3>3
  <2>5. ~EnqueueJob(q)
    <3>1. ASSUME EnqueueJob(q)
          PROVE  FALSE
      <4>1. PICK supplier \in web[q].todo :
              web' = [web EXCEPT ![q] =
                        IF web[q].todo = {supplier} THEN IdleWeb
                        ELSE [web[q] EXCEPT !.todo = @ \ {supplier}]]
        BY <3>1 DEF EnqueueJob
      <4>2. CASE web[q].todo = {supplier}
        BY <1>0, <2>0, <4>1, <4>2 DEF IdleWeb
      <4>3. CASE web[q].todo # {supplier}
        BY <1>0, <2>0, <3>1, <4>1, <4>3 DEF EnqueueJob, WebAt, WebRow
      <4> QED
        BY <4>2, <4>3
    <3> QED
      BY <3>1
  <2> QED
    BY <1>2, <2>1, <2>2, <2>3, <2>4, <2>5 DEF WebStep
<1>3. CASE ~\E q \in Requests : WebStep(q)
  <2>1. web' = web
    BY <1>3 DEF Next, SlotStep, Dequeue, CheckBudget, Spend, CheckBoundary, Fail, Succeed,
         ChainNext, FinishJob, SlotSettleRead, SlotSettleWrite, MainStep, SweepSelect,
         SweepUpdate, SweepRead, SweepWrite, DequeueNone, WorkerStep, Shutdown, Drained,
         Crash, Boot, Tick, vars
  <2>2. \A r \in Runs : run'[r].budget = run[r].budget
    <3>1. ASSUME NEW r \in Runs, NEW next \in RunStates, run' = SettleWrite(r, next)
          PROVE  \A o \in Runs : run'[o].budget = run[o].budget
      BY <1>0, <3>1, SettleWriteType
    <3>2. ASSUME NEW s \in Slots, Spend(s)
          PROVE  \A o \in Runs : run'[o].budget = run[o].budget
      BY <1>0, <3>2 DEF Spend, RunRow
    <3>3. ASSUME NEW s \in Slots, SlotSettleWrite(s)
          PROVE  \A o \in Runs : run'[o].budget = run[o].budget
      <4>1. RunOf(s) \in Runs /\ slot[s].next \in RunStates
        BY <3>3 DEF SlotSettleWrite, TypeOK, SlotsTyped, SlotRow, JobsTyped, RunOf, Exists
      <4> QED
        BY <3>1, <3>3, <4>1 DEF SlotSettleWrite
    <3>4. CASE SweepWrite
      <4>1. main.run \in Runs /\ main.next \in RunStates
        BY <3>4 DEF SweepWrite, TypeOK, MainTyped, MainRow
      <4> QED
        BY <3>1, <3>4, <4>1 DEF SweepWrite
    <3>5. CASE run' = run
      BY <3>5
    <3> QED
      BY <1>3, <3>2, <3>3, <3>4, <3>5
         DEF Next, SlotStep, Dequeue, CheckBudget, CheckBoundary, Fail, Succeed,
         ChainNext, FinishJob, SlotSettleRead, MainStep, SweepSelect,
         SweepUpdate, SweepRead, DequeueNone, WorkerStep, Shutdown, Drained,
         Crash, Boot, Tick, vars
  <2> QED
    BY <1>1, <2>1, <2>2
<1> QED
  BY <1>2, <1>3

\* For any number of slots, Runs and Jobs, whatever crashes and sweeps do, a
\* Run's spend stays below its budget plus one loop per slot, as long as one
\* person at a time acts on the Runs.
THEOREM QueueOvershoot ==
  ASSUME \A p, q \in Requests : p = q
  PROVE  Spec => []BudgetOvershoot
<1>1. Init => IInv
  <2> SUFFICES ASSUME Init
               PROVE  IInv
    OBVIOUS
  <2>1. TypeOK
    BY TypeInit
  <2>2. \A r \in Runs : run[r].spent = 0 /\ run[r].budget = 0 /\ Spending(r) = {}
    BY DEF Init, Spending, IdleSlot
  <2>3. RoundCost * Cardinality(Slots) > 0 /\ RoundCost * Cardinality(Slots) \in Nat
    <3>1. Cardinality(Slots) \in Nat /\ Cardinality(Slots) > 0
      BY SlotSets
    <3> QED
      BY <3>1, MoneyNat
  <2>4. RoundCost * 0 = 0
    BY MoneyNat
  <2>5. Reserved
    BY <2>2, <2>3, <2>4, FS_EmptySet DEF Reserved
  <2>6. RunsOpened /\ Raises
    BY DEF Init, RunsOpened, Raises, Exists, NoRow, IdleWeb
  <2> QED
    BY <2>1, <2>5, <2>6 DEF IInv
<1>2. IInv /\ [Next]_vars => IInv'
  BY TypeStep, ReservedStep, OpenedStep, RaisesStep DEF IInv
<1>3. IInv => BudgetOvershoot
  <2> SUFFICES ASSUME IInv, NEW r \in Runs
               PROVE  run[r].spent < run[r].budget + RoundCost * Cardinality(Slots)
    BY DEF BudgetOvershoot
  <2>1. Cardinality(Spending(r)) \in Nat /\ Cardinality(Slots) \in Nat
    BY SlotSets DEF Spending
  <2>2. RoundCost * Cardinality(Spending(r)) \in Nat /\ RoundCost * Cardinality(Slots) \in Nat
    BY <2>1, MoneyNat
  <2>3. run[r].spent \in Nat /\ run[r].budget \in Nat
    BY DEF IInv, TypeOK, RunRow
  <2> QED
    BY <2>2, <2>3 DEF IInv, Reserved
<1> QED
  BY <1>1, <1>2, <1>3, PTL DEF Spec
-----------------------------------------------------------------------------
(* The lease.  Both results rest on the same fact, that a Job which nobody  *)
(* has put back is held by one slot at most and only while it runs.  For    *)
(* the lease it has to hold of the Jobs that were put back too.             *)

\* A Job is worked by one slot at most, and only while it is running.
LeasedTo(j) ==
    /\ \A s, t \in HoldersOf(j) : s = t
    /\ HoldersOf(j) # {} => job[j].state = "running"

\* So is a Job that was never put back, whatever happens.
FreshAreLeased == \A j \in Jobs : job[j].attempt = 0 => LeasedTo(j)

-----------------------------------------------------------------------------
(* The kinds of step.                                                      *)

\* A row says what it said, but for its age, its lock and its silence.
SameRow(j) ==
    /\ job'[j].state = job[j].state /\ job'[j].run = job[j].run
    /\ job'[j].kind = job[j].kind /\ job'[j].subject = job[j].subject
    /\ job'[j].attempt = job[j].attempt

\* A row says what it said, but for its state.
Turns(j, state) ==
    /\ job'[j].state = state /\ job'[j].run = job[j].run
    /\ job'[j].kind = job[j].kind /\ job'[j].subject = job[j].subject
    /\ job'[j].attempt = job[j].attempt
OthersSame(S) == \A j \in Jobs \ S : SameRow(j)
OtherSlotsSame(s) == \A t \in Slots \ {s} : slot'[t] = slot[t]

\* A slot goes on with its Job, and not from its last step, or with none.
GoesOn(t) ==
    \/ slot'[t] = slot[t]
    \/ /\ slot[t].pc \in AtWork \ {"finish"} /\ slot'[t].pc \in AtWork
       /\ slot'[t].job = slot[t].job
    \/ slot[t].pc \notin AtWork /\ slot'[t].pc \notin AtWork

Quiet == OthersSame({}) /\ \A t \in Slots : GoesOn(t)
Claims(s, i) ==
    /\ job[i].state = "queued" /\ Turns(i, "running") /\ job'[i].age = 0
    /\ OthersSame({i})
    /\ slot[s].pc = "idle" /\ slot'[s].pc = "check" /\ slot'[s].job = i
    /\ OtherSlotsSame(s)
Inserts(i, r, kind, x) ==
    /\ job[i].state = "none" /\ job'[i].state = "queued" /\ job'[i].run = r
    /\ job'[i].kind = kind /\ job'[i].subject = x /\ job'[i].attempt = 0
    /\ OthersSame({i})
ChainsOn(s, i) ==
    /\ slot[s].pc = "chain"
    /\ Inserts(i, RunOf(s), NextKind(KindOf(s)), job[slot[s].job].subject)
    /\ slot'[s].pc = "finish" /\ slot'[s].out = "done" /\ slot'[s].job = slot[s].job
    /\ OtherSlotsSame(s) /\ web' = web
Opens(q, i, x) ==
    /\ EnqueueJob(q) /\ x \in web[q].todo
    /\ Inserts(i, web[q].run, web[q].kind, x)
    /\ slot' = slot
    /\ web' = [web EXCEPT ![q] = IF web[q].todo = {x} THEN IdleWeb
                                 ELSE [web[q] EXCEPT !.todo = @ \ {x}]]
Finishes(s) ==
    /\ slot[s].pc = "finish" /\ slot'[s].pc = "settle_read"
    /\ Turns(slot[s].job, slot[s].out) /\ OthersSame({slot[s].job})
    /\ OtherSlotsSame(s)
PutsBack(S) ==
    /\ \A j \in S : /\ job[j].state # "none" /\ job'[j].state = "queued"
                    /\ job'[j].run = job[j].run /\ job'[j].kind = job[j].kind
                    /\ job'[j].subject = job[j].subject
                    /\ job'[j].attempt = job[j].attempt + 1
    /\ OthersSame(S) /\ slot' = slot
Returns(S) ==
    /\ PutsBack(S)
    /\ \/ SweepUpdate /\ S = main.todo
       \/ \E q \in Requests : RequeueJobs(q) /\ S = web[q].todo
Cancels(S) ==
    /\ \A j \in S : job[j].state = "queued" /\ Turns(j, "cancelled")
    /\ OthersSame(S) /\ slot' = slot
Resumes(S) ==
    /\ \A j \in S : job[j].state = "paused_on_budget" /\ Turns(j, "queued")
    /\ OthersSame(S) /\ slot' = slot
Loses == job' = job /\ stops < MaxStops /\ \A t \in Slots : slot'[t].pc = "idle"

\* What a step does to the rows and the slots.
StepKind ==
    \/ Quiet \/ Loses
    \/ \E s \in Slots : Finishes(s) \/ \E i \in Jobs : Claims(s, i) \/ ChainsOn(s, i)
    \/ \E q \in Requests, i \in Jobs : \E x \in Nat : Opens(q, i, x)
    \/ \E S \in SUBSET Jobs :
        Returns(S) \/ Cancels(S) \/ Resumes(S)

\* A step that writes no Job, and moves at most one slot on.
LEMMA MovesOn ==
  ASSUME TypeOK, NEW s \in Slots, NEW row, slot' = [slot EXCEPT ![s] = row],
         \/ /\ slot[s].pc \in AtWork \ {"finish"} /\ row.pc \in AtWork
            /\ row.job = slot[s].job
         \/ slot[s].pc \notin AtWork /\ row.pc \notin AtWork,
         OthersSame({})
  PROVE  Quiet
<1>1. slot'[s] = row /\ \A t \in Slots \ {s} : slot'[t] = slot[t]
  BY DEF TypeOK, SlotsTyped
<1> QED
  BY <1>1 DEF Quiet, GoesOn

LEMMA RowsSame == job' = job => OthersSame({})
  BY DEF OthersSame, SameRow

LEMMA EnqueueInserts ==
  ASSUME TypeOK, NEW r, NEW kind, NEW supplier, Enqueue(r, kind, supplier)
  PROVE  \E i \in Jobs : Inserts(i, r, kind, supplier)
<1>1. PICK i \in Jobs :
        /\ First(i, Free)
        /\ job' = [job EXCEPT ![i] =
                    [state |-> "queued", run |-> r, kind |-> kind,
                     subject |-> supplier, attempt |-> 0, locked |-> FALSE,
                     age |-> NotStarted, quiet |-> TRUE]]
  BY DEF Enqueue
<1>2. job[i].state = "none" /\ job \in [Jobs -> JobRow]
  BY <1>1 DEF First, Free, TypeOK, JobsTyped
<1>3. \A j \in Jobs \ {i} : job'[j] = job[j]
  BY <1>1, <1>2
<1>4. /\ job'[i].state = "queued" /\ job'[i].run = r /\ job'[i].kind = kind
      /\ job'[i].subject = supplier /\ job'[i].attempt = 0
  BY <1>1, <1>2
<1> QED
  BY <1>2, <1>3, <1>4 DEF Inserts, OthersSame, SameRow

\* What requeueJobs() and requeueStaleJobs() write.
LEMMA RequeueingPutsBack ==
  ASSUME TypeOK, NEW S \in SUBSET Jobs, \A j \in S : Exists(j), slot' = slot,
         job' = [j \in Jobs |-> IF j \in S THEN Requeued(job[j]) ELSE job[j]]
  PROVE  PutsBack(S)
<1>1. ASSUME NEW j \in S
      PROVE  /\ job[j].state # "none" /\ job'[j].state = "queued"
             /\ job'[j].run = job[j].run /\ job'[j].kind = job[j].kind
             /\ job'[j].subject = job[j].subject
             /\ job'[j].attempt = job[j].attempt + 1
  <2>1. job'[j] = Requeued(job[j]) /\ job[j] \in JobRow /\ job[j].state # "none"
    BY DEF TypeOK, JobsTyped, Exists
  <2> QED
    BY <2>1 DEF Requeued, JobRow
<1>2. \A j \in Jobs \ S : job'[j] = job[j]
  OBVIOUS
<1> QED
  BY <1>1, <1>2 DEF PutsBack, OthersSame, SameRow

\* Time leaves all but the age and the silence of a row alone.
LEMMA TickSame == ASSUME TypeOK, Tick PROVE OthersSame({})
<1> DEFINE older(j) == IF job[j].age < MaxAge THEN job[j].age + 1 ELSE job[j].age
           aged(j, silent) == IF job[j].age = NotStarted THEN job[j]
                              ELSE [job[j] EXCEPT !.age = older(j), !.quiet = silent]
<1>1. PICK mute \in SUBSET {j \in Jobs : HoldersOf(j) # {}} :
        job' = [j \in Jobs |-> aged(j, HoldersOf(j) = {} \/ j \in mute)]
  BY DEF Tick
<1>2. ASSUME NEW j \in Jobs, NEW silent
      PROVE  /\ aged(j, silent).state = job[j].state /\ aged(j, silent).run = job[j].run
             /\ aged(j, silent).kind = job[j].kind /\ aged(j, silent).subject = job[j].subject
             /\ aged(j, silent).attempt = job[j].attempt
  <2>1. job[j] \in JobRow
    BY DEF TypeOK, JobsTyped
  <2> HIDE DEF older
  <2> QED
    BY <2>1 DEF JobRow
<1>3. \A j \in Jobs : job'[j] = aged(j, HoldersOf(j) = {} \/ j \in mute)
  BY <1>1
<1> HIDE DEF aged
<1> QED
  BY <1>2, <1>3 DEF OthersSame, SameRow

LEMMA SlotSteps ==
  ASSUME TypeOK, NEW s \in Slots, SlotStep(s)
  PROVE  \/ Quiet \/ Finishes(s)
         \/ \E i \in Jobs : Claims(s, i) \/ ChainsOn(s, i)
<1>0. slot \in [Slots -> SlotRow] /\ slot[s] \in SlotRow /\ job \in [Jobs -> JobRow]
  BY DEF TypeOK, SlotsTyped, JobsTyped
<1>1. CASE Dequeue(s)
  <2>1. PICK i \in Jobs :
          /\ First(i, Queued)
          /\ job' = [job EXCEPT ![i] =
                      [@ EXCEPT !.state = "running", !.locked = TRUE, !.age = 0]]
          /\ slot' = [slot EXCEPT ![s] = [IdleSlot EXCEPT !.pc = "check", !.job = i]]
    BY <1>1 DEF Dequeue
  <2>2. job[i].state = "queued" /\ slot[s].pc = "idle"
    BY <1>1, <2>1 DEF Dequeue, First, Queued
  <2>3. Turns(i, "running") /\ job'[i].age = 0 /\ \A j \in Jobs \ {i} : job'[j] = job[j]
    <3>1. job[i] \in JobRow
      BY <1>0
    <3>2. job'[i] = [job[i] EXCEPT !.state = "running", !.locked = TRUE, !.age = 0]
      BY <1>0, <2>1
    <3>3. \A j \in Jobs \ {i} : job'[j] = job[j]
      BY <1>0, <2>1
    <3> QED
      BY <3>1, <3>2, <3>3 DEF JobRow, Turns
  <2>4. [IdleSlot EXCEPT !.pc = "check", !.job = i].pc = "check"
        /\ [IdleSlot EXCEPT !.pc = "check", !.job = i].job = i
    BY IdleTypes DEF SlotRow
  <2>5. slot'[s].pc = "check" /\ slot'[s].job = i /\ OtherSlotsSame(s)
    BY <1>0, <2>1, <2>4 DEF OtherSlotsSame
  <2> QED
    BY <2>2, <2>3, <2>5 DEF Claims, OthersSame, SameRow
<1>2. CASE CheckBudget(s)
  <2> DEFINE row == IF WithinBudget(RunOf(s))
                    THEN [slot[s] EXCEPT !.pc = "work", !.settles = 1]
                    ELSE [slot[s] EXCEPT !.pc = "finish", !.settles = 2,
                                         !.out = "paused_on_budget"]
  <2>1. slot' = [slot EXCEPT ![s] = row] /\ slot[s].pc = "check" /\ job' = job
    BY <1>2 DEF CheckBudget
  <2>2. row.pc \in AtWork /\ row.job = slot[s].job
    BY <1>0 DEF SlotRow, AtWork
  <2> HIDE DEF row
  <2> QED
    BY <2>1, <2>2, MovesOn, RowsSame DEF AtWork
<1>3. CASE Spend(s)
  <2>1. /\ slot[s].pc = "work" /\ slot' = [slot EXCEPT ![s].pc = "boundary"]
        /\ job' = [job EXCEPT ![slot[s].job].quiet = FALSE]
    BY <1>3 DEF Spend, Go
  <2>2. OthersSame({})
    <3>1. ASSUME NEW j \in Jobs PROVE SameRow(j)
      <4>1. job[j] \in JobRow
        BY <1>0
      <4>2. job'[j] = job[j] \/ job'[j] = [job[j] EXCEPT !.quiet = FALSE]
        BY <1>0, <2>1
      <4> QED
        BY <4>1, <4>2 DEF SameRow, JobRow
    <3> QED
      BY <3>1 DEF OthersSame
  <2>3. slot' = [slot EXCEPT ![s] = [slot[s] EXCEPT !.pc = "boundary"]]
    BY <1>0, <2>1
  <2>4. [slot[s] EXCEPT !.pc = "boundary"].pc = "boundary"
        /\ [slot[s] EXCEPT !.pc = "boundary"].job = slot[s].job
    BY <1>0 DEF SlotRow
  <2> QED
    BY <2>1, <2>2, <2>3, <2>4, MovesOn DEF AtWork
<1>4. ASSUME NEW pc \in AtWork, NEW out, slot[s].pc \in AtWork \ {"finish"}, job' = job,
             \/ slot' = [slot EXCEPT ![s].pc = pc]
             \/ slot' = [slot EXCEPT ![s].pc = pc, ![s].out = out]
      PROVE  Quiet
  <2>1. \/ slot' = [slot EXCEPT ![s] = [slot[s] EXCEPT !.pc = pc]]
        \/ slot' = [slot EXCEPT ![s] = [slot[s] EXCEPT !.pc = pc, !.out = out]]
    BY <1>0, <1>4
  <2>2. /\ [slot[s] EXCEPT !.pc = pc].pc = pc
        /\ [slot[s] EXCEPT !.pc = pc].job = slot[s].job
        /\ [slot[s] EXCEPT !.pc = pc, !.out = out].pc = pc
        /\ [slot[s] EXCEPT !.pc = pc, !.out = out].job = slot[s].job
    BY <1>0 DEF SlotRow
  <2> QED
    BY <1>4, <2>1, <2>2, MovesOn, RowsSame
<1>5. CASE CheckBoundary(s) \/ Fail(s)
  <2>1. slot[s].pc \in AtWork \ {"finish"} /\ job' = job /\ {"work", "finish"} \subseteq AtWork
    BY <1>5 DEF CheckBoundary, Fail, AtWork
  <2>2. \/ slot' = [slot EXCEPT ![s].pc = "work"]
        \/ \E out : slot' = [slot EXCEPT ![s].pc = "finish", ![s].out = out]
    BY <1>5 DEF CheckBoundary, Fail, Go, Ends
  <2> QED
    BY <1>4, <2>1, <2>2
<1>6. CASE Succeed(s)
  <2>1. slot[s].pc \in AtWork \ {"finish"} /\ job' = job /\ {"chain", "finish"} \subseteq AtWork
    BY <1>6 DEF Succeed, AtWork
  <2>2. \/ slot' = [slot EXCEPT ![s].pc = "chain"]
        \/ slot' = [slot EXCEPT ![s].pc = "finish", ![s].out = "done"]
    BY <1>6 DEF Succeed, Go, Ends
  <2> QED
    BY <1>4, <2>1, <2>2
<1>7. CASE ChainNext(s)
  <2>1. /\ slot[s].pc = "chain" /\ web' = web
        /\ slot' = [slot EXCEPT ![s].pc = "finish", ![s].out = "done"]
    BY <1>7 DEF ChainNext, Ends
  <2>2. PICK i \in Jobs : Inserts(i, RunOf(s), NextKind(KindOf(s)), job[slot[s].job].subject)
    BY <1>7, EnqueueInserts DEF ChainNext
  <2>3. /\ slot'[s].pc = "finish" /\ slot'[s].out = "done" /\ slot'[s].job = slot[s].job
        /\ OtherSlotsSame(s)
    BY <1>0, <2>1 DEF SlotRow, OtherSlotsSame
  <2> QED
    BY <2>1, <2>2, <2>3 DEF ChainsOn
<1>8. CASE FinishJob(s)
  <2>1. /\ slot[s].pc = "finish" /\ slot' = [slot EXCEPT ![s].pc = "settle_read"]
        /\ job' = [job EXCEPT ![slot[s].job] = Finished(job[slot[s].job], slot[s].out)]
    BY <1>8 DEF FinishJob, Go
  <2>2. slot[s].job \in Jobs
    BY <2>1 DEF TypeOK, SlotsTyped, Exists
  <2>3. Turns(slot[s].job, slot[s].out)
    <3>1. job[slot[s].job] \in JobRow /\ job'[slot[s].job] = Finished(job[slot[s].job], slot[s].out)
      BY <1>0, <2>1, <2>2
    <3> QED
      BY <3>1 DEF Finished, Turns, JobRow
  <2>4. \A j \in Jobs \ {slot[s].job} : job'[j] = job[j]
    BY <1>0, <2>1
  <2>5. slot'[s].pc = "settle_read" /\ OtherSlotsSame(s)
    BY <1>0, <2>1 DEF SlotRow, OtherSlotsSame
  <2> QED
    BY <2>1, <2>3, <2>4, <2>5 DEF Finishes, OthersSame, SameRow
<1>9. CASE SlotSettleRead(s) \/ SlotSettleWrite(s)
  <2>1. slot[s].pc \notin AtWork /\ job' = job
    BY <1>9 DEF SlotSettleRead, SlotSettleWrite, AtWork
  <2>2. PICK row : slot' = [slot EXCEPT ![s] = row] /\ row.pc \notin AtWork
    <3>1. CASE SlotSettleRead(s)
      <4>1. slot' = [slot EXCEPT ![s] = [slot[s] EXCEPT !.pc = "settle_write",
                                                        !.next = SettleRead(RunOf(s))]]
        BY <1>0, <3>1 DEF SlotSettleRead
      <4>2. [slot[s] EXCEPT !.pc = "settle_write", !.next = SettleRead(RunOf(s))].pc = "settle_write"
        BY <1>0 DEF SlotRow
      <4> QED
        BY <4>1, <4>2 DEF AtWork
    <3>2. CASE SlotSettleWrite(s)
      <4>1. slot' = [slot EXCEPT ![s] =
                       IF slot[s].settles > 1
                       THEN [slot[s] EXCEPT !.pc = "settle_read", !.settles = @ - 1]
                       ELSE IdleSlot]
        BY <3>2 DEF SlotSettleWrite
      <4>2. [slot[s] EXCEPT !.pc = "settle_read", !.settles = @ - 1].pc = "settle_read"
            /\ IdleSlot.pc = "idle"
        BY <1>0 DEF SlotRow, IdleSlot
      <4> QED
        BY <4>1, <4>2 DEF AtWork
    <3> QED
      BY <1>9, <3>1, <3>2
  <2> QED
    BY <2>1, <2>2, MovesOn, RowsSame
<1> QED
  BY <1>1, <1>2, <1>3, <1>5, <1>6, <1>7, <1>8, <1>9 DEF SlotStep

LEMMA NothingMoves == job' = job /\ slot' = slot => Quiet
  BY DEF Quiet, GoesOn, OthersSame, SameRow

LEMMA WebSteps ==
  ASSUME TypeOK, NEW q \in Requests, WebStep(q)
  PROVE  \/ Quiet
         \/ \E i \in Jobs : \E x \in Nat : Opens(q, i, x)
         \/ \E S \in SUBSET Jobs : Returns(S) \/ Cancels(S) \/ Resumes(S)
<1>0. job \in [Jobs -> JobRow] /\ web \in [Requests -> WebRow]
  BY DEF TypeOK, JobsTyped, WebTyped
<1>1. CASE EnqueueJob(q)
  <2>1. PICK x \in web[q].todo :
          /\ Enqueue(web[q].run, web[q].kind, x)
          /\ web' = [web EXCEPT ![q] = IF web[q].todo = {x} THEN IdleWeb
                                       ELSE [web[q] EXCEPT !.todo = @ \ {x}]]
    BY <1>1 DEF EnqueueJob
  <2>2. PICK i \in Jobs : Inserts(i, web[q].run, web[q].kind, x)
    BY <2>1, EnqueueInserts
  <2>3. x \in Nat
    BY <1>0 DEF WebRow
  <2> QED
    BY <1>1, <2>1, <2>2, <2>3 DEF Opens, EnqueueJob
<1>2. CASE RequeueJobs(q)
  <2>1. /\ \A j \in web[q].todo : Exists(j)
        /\ slot' = slot
        /\ job' = [j \in Jobs |-> IF j \in web[q].todo THEN Requeued(job[j]) ELSE job[j]]
    BY <1>2 DEF RequeueJobs, WebAt, TypeOK, WebTyped
  <2>2. web[q].todo \in SUBSET Jobs
    BY <2>1 DEF Exists
  <2> QED
    BY <1>2, <2>1, <2>2, RequeueingPutsBack DEF Returns
<1>3. CASE CancelJobs(q)
  <2> DEFINE S == {j \in JobsOf(web[q].run) : job[j].state = "queued"}
  <2>1. /\ S \in SUBSET Jobs /\ slot' = slot
        /\ \A j \in S : job'[j] = Finished(job[j], "cancelled") /\ job[j].state = "queued"
        /\ \A j \in Jobs \ S : job'[j] = job[j]
    BY <1>3 DEF CancelJobs, JobsOf
  <2> HIDE DEF S
  <2>2. \A j \in S : Turns(j, "cancelled")
    <3> TAKE j \in S
    <3>1. job[j] \in JobRow /\ job'[j] = Finished(job[j], "cancelled")
      BY <1>0, <2>1
    <3> QED
      BY <3>1 DEF Finished, Turns, JobRow
  <2> QED
    BY <2>1, <2>2 DEF Cancels, OthersSame, SameRow
<1>4. CASE ResumeJobs(q)
  <2> DEFINE S == {j \in JobsOf(web[q].run) : job[j].state = "paused_on_budget"}
  <2>1. /\ S \in SUBSET Jobs /\ slot' = slot
        /\ \A j \in S : job'[j] = [job[j] EXCEPT !.state = "queued"]
                        /\ job[j].state = "paused_on_budget"
        /\ \A j \in Jobs \ S : job'[j] = job[j]
    BY <1>4 DEF ResumeJobs, JobsOf
  <2> HIDE DEF S
  <2>2. \A j \in S : Turns(j, "queued")
    <3> TAKE j \in S
    <3>1. job[j] \in JobRow /\ job'[j] = [job[j] EXCEPT !.state = "queued"]
      BY <1>0, <2>1
    <3> QED
      BY <3>1 DEF Turns, JobRow
  <2> QED
    BY <2>1, <2>2 DEF Resumes, OthersSame, SameRow
<1>5. ASSUME NEW r \in Runs, OpenRun(q, r) \/ ShowCancel(q, r) \/ Retry(q, r) \/ ShowResume(q, r)
      PROVE  job' = job /\ slot' = slot
  BY <1>5 DEF OpenRun, ShowCancel, Retry, ShowResume
<1>6. CASE CancelRun(q) \/ WebSettleRead(q) \/ WebSettleWrite(q) \/ ResumeRead(q) \/ ResumeRun(q)
  BY <1>6, NothingMoves DEF CancelRun, WebSettleRead, WebSettleWrite, ResumeRead, ResumeRun
<1> QED
  BY <1>1, <1>2, <1>3, <1>4, <1>5, <1>6, NothingMoves DEF WebStep

\* Every step is of a kind.
LEMMA Steps ==
  ASSUME TypeOK, [Next]_vars
  PROVE  StepKind
<1>1. ASSUME NEW s \in Slots, SlotStep(s) PROVE StepKind
  BY <1>1, SlotSteps DEF StepKind
<1>2. ASSUME NEW q \in Requests, WebStep(q) PROVE StepKind
  BY <1>2, WebSteps DEF StepKind
<1>3. CASE MainStep
  <2>1. CASE SweepUpdate
    <3>1. main.todo \in SUBSET Jobs /\ \A j \in main.todo : Exists(j)
      BY DEF TypeOK, MainTyped, MainRow
    <3>2. PutsBack(main.todo)
      BY <2>1, <3>1, RequeueingPutsBack DEF SweepUpdate
    <3> QED
      BY <2>1, <3>1, <3>2 DEF StepKind, Returns
  <2>2. CASE SweepSelect \/ SweepWrite \/ DequeueNone \/ \E j \in Jobs : SweepRead(j)
    BY <2>2, NothingMoves DEF SweepSelect, SweepWrite, DequeueNone, SweepRead, StepKind
  <2> QED
    BY <1>3, <2>1, <2>2 DEF MainStep
<1>4. CASE WorkerStep
  <2>1. CASE Tick
    BY <2>1, TickSame DEF Tick, Quiet, GoesOn, StepKind
  <2>2. CASE Crash
    <3>1. job' = job /\ slot' = [s \in Slots |-> IdleSlot] /\ stops < MaxStops
      BY <2>2 DEF Crash
    <3> QED
      BY <3>1, IdleTypes DEF Loses, StepKind
  <2>3. CASE Shutdown \/ Drained \/ Boot
    BY <2>3, NothingMoves DEF Shutdown, Drained, Boot, StepKind
  <2> QED
    BY <1>4, <2>1, <2>2, <2>3 DEF WorkerStep
<1>5. CASE UNCHANGED vars
  BY <1>5, NothingMoves DEF vars, StepKind
<1> QED
  BY <1>1, <1>2, <1>3, <1>4, <1>5 DEF Next

-----------------------------------------------------------------------------
(* A Job that is leased stays so until it is put back.                     *)

\* Who holds a Job after a step.
LEMMA Holding ==
  ASSUME NEW j
  PROVE  /\ \A t : t \in HoldersOf(j) <=>
                     t \in Slots /\ slot[t].pc \in AtWork /\ slot[t].job = j
         /\ \A t : t \in HoldersOf(j)' <=>
                     t \in Slots /\ slot'[t].pc \in AtWork /\ slot'[t].job = j
  BY DEF HoldersOf

\* Nobody holds a row that was not inserted.
LEMMA FreeUnheld == TypeOK => \A j \in Jobs : job[j].state = "none" => HoldersOf(j) = {}
  BY DEF TypeOK, SlotsTyped, HoldersOf, AtWork, Exists

LEMMA SameHolders ==
  ASSUME NEW j, \A t \in Slots : GoesOn(t)
  PROVE  HoldersOf(j)' = HoldersOf(j)
<1>1. \A t : t \in HoldersOf(j)' <=> t \in HoldersOf(j)
  BY Holding DEF GoesOn
<1> QED
  BY <1>1

LEMMA SlotsStay == ASSUME NEW j, slot' = slot PROVE HoldersOf(j)' = HoldersOf(j)
  BY DEF HoldersOf

LEMMA ChainsAside ==
  ASSUME TypeOK, NEW s \in Slots, NEW i \in Jobs, ChainsOn(s, i), NEW j
  PROVE  HoldersOf(j)' = HoldersOf(j)
<1>1. \A t : t \in HoldersOf(j)' <=> t \in HoldersOf(j)
  BY Holding DEF ChainsOn, OtherSlotsSame, AtWork
<1> QED
  BY <1>1

LEMMA ClaimedBy ==
  ASSUME TypeOK, NEW s \in Slots, NEW i \in Jobs, Claims(s, i), NEW j
  PROVE  HoldersOf(j)' = IF j = i THEN HoldersOf(j) \union {s} ELSE HoldersOf(j)
<1>1. CASE j = i
  <2>1. \A t : t \in HoldersOf(j)' <=> t \in HoldersOf(j) \union {s}
    BY <1>1, Holding DEF Claims, OtherSlotsSame, AtWork
  <2> QED
    BY <1>1, <2>1
<1>2. CASE j # i
  <2>1. \A t : t \in HoldersOf(j)' <=> t \in HoldersOf(j)
    BY <1>2, Holding DEF Claims, OtherSlotsSame, AtWork
  <2> QED
    BY <1>2, <2>1
<1> QED
  BY <1>1, <1>2

LEMMA FinishedBy ==
  ASSUME TypeOK, NEW s \in Slots, Finishes(s), NEW j
  PROVE  HoldersOf(j)' = HoldersOf(j) \ {s}
<1>1. \A t : t \in HoldersOf(j)' <=> t \in HoldersOf(j) \ {s}
  BY Holding DEF Finishes, OtherSlotsSame, AtWork
<1> QED
  BY <1>1

LEMMA LostHolders == ASSUME Loses, NEW j PROVE HoldersOf(j)' = {}
  BY DEF Loses, HoldersOf, AtWork

LEMMA LeaseStep ==
  ASSUME TypeOK, [Next]_vars, NEW j \in Jobs, LeasedTo(j)
  PROVE  LeasedTo(j)' \/ \E S \in SUBSET Jobs : Returns(S) /\ j \in S
<1> DEFINE H == HoldersOf(j)
           G == HoldersOf(j)'
<1>0. /\ \A s, t \in H : s = t
      /\ H # {} => job[j].state = "running"
  BY DEF LeasedTo
<1>a. SUFFICES ASSUME \A S \in SUBSET Jobs : Returns(S) => j \notin S
               PROVE  (\A s, t \in G : s = t) /\ (G # {} => job'[j].state = "running")
  BY DEF LeasedTo
<1>b. job[j].state = "none" => H = {}
  BY FreeUnheld
<1>1. CASE Quiet
  BY <1>0, <1>1, SameHolders DEF Quiet, OthersSame, SameRow
<1>2. CASE Loses
  BY <1>2, LostHolders
<1>3. ASSUME NEW s \in Slots, Finishes(s)
      PROVE  (\A t, u \in G : t = u) /\ (G # {} => job'[j].state = "running")
  <2>1. G = H \ {s}
    BY <1>3, FinishedBy
  <2>2. CASE j = slot[s].job
    <3>1. s \in H
      BY <1>3, <2>2, Holding DEF Finishes, AtWork
    <3>2. G = {}
      BY <1>0, <2>1, <3>1
    <3> QED
      BY <3>2
  <2>3. CASE j # slot[s].job
    <3>1. job'[j].state = job[j].state
      BY <1>3, <2>3 DEF Finishes, OthersSame, SameRow
    <3> QED
      BY <1>0, <2>1, <3>1
  <2> QED
    BY <2>2, <2>3
<1>4. ASSUME NEW s \in Slots, NEW i \in Jobs, Claims(s, i)
      PROVE  (\A t, u \in G : t = u) /\ (G # {} => job'[j].state = "running")
  <2>1. CASE j = i
    <3>1. H = {} /\ G = H \union {s} /\ job'[j].state = "running"
      BY <1>0, <1>4, <2>1, ClaimedBy DEF Claims, Turns
    <3> QED
      BY <3>1
  <2>2. CASE j # i
    <3>1. G = H /\ job'[j].state = job[j].state
      BY <1>4, <2>2, ClaimedBy DEF Claims, OthersSame, SameRow
    <3> QED
      BY <1>0, <3>1
  <2> QED
    BY <2>1, <2>2
<1>5. ASSUME NEW i \in Jobs, NEW r, NEW kind, NEW x, Inserts(i, r, kind, x), G = H
      PROVE  (\A t, u \in G : t = u) /\ (G # {} => job'[j].state = "running")
  BY <1>0, <1>b, <1>5 DEF Inserts, OthersSame, SameRow
<1>6. ASSUME NEW s \in Slots, NEW i \in Jobs, ChainsOn(s, i)
      PROVE  (\A t, u \in G : t = u) /\ (G # {} => job'[j].state = "running")
  BY <1>5, <1>6, ChainsAside DEF ChainsOn
<1>7. ASSUME NEW q \in Requests, NEW i \in Jobs, NEW x, Opens(q, i, x)
      PROVE  (\A t, u \in G : t = u) /\ (G # {} => job'[j].state = "running")
  BY <1>5, <1>7, SlotsStay DEF Opens
<1>8. ASSUME NEW S \in SUBSET Jobs, Returns(S) \/ Cancels(S) \/ Resumes(S)
      PROVE  (\A t, u \in G : t = u) /\ (G # {} => job'[j].state = "running")
  <2>1. G = H
    BY <1>8, SlotsStay DEF Returns, PutsBack, Cancels, Resumes
  <2>2. CASE j \in S
    <3>1. H = {}
      BY <1>0, <1>a, <1>8, <2>2 DEF Cancels, Resumes
    <3> QED
      BY <2>1, <3>1
  <2>3. CASE j \notin S
    <3>1. job'[j].state = job[j].state
      BY <1>8, <2>3 DEF Returns, PutsBack, Cancels, Resumes, OthersSame, SameRow
    <3> QED
      BY <1>0, <2>1, <3>1
  <2> QED
    BY <2>2, <2>3
<1> HIDE DEF H, G
<1> QED
  BY Steps, <1>1, <1>2, <1>3, <1>4, <1>6, <1>7, <1>8 DEF StepKind

\* What a row says of its attempts never falls, and a row once inserted keeps
\* its Run, its stage and its Supplier.
LEMMA RowsKeep ==
  ASSUME TypeOK, [Next]_vars, NEW j \in Jobs
  PROVE  /\ job[j].attempt \in Nat /\ job'[j].attempt \in Nat
         /\ job[j].attempt <= job'[j].attempt \/ job[j].state = "none"
         /\ job[j].state # "none" =>
                /\ job'[j].run = job[j].run /\ job'[j].kind = job[j].kind
                /\ job'[j].subject = job[j].subject
<1>0. job[j].attempt \in Nat /\ job'[j].attempt \in Nat
  <2>1. TypeOK'
    BY TypeStep
  <2>2. job[j] \in JobRow /\ job'[j] \in JobRow
    BY <2>1 DEF TypeOK, JobsTyped
  <2> QED
    BY <2>2 DEF JobRow
<1>1. SameRow(j) => job[j].attempt <= job'[j].attempt
                    /\ job'[j].run = job[j].run /\ job'[j].kind = job[j].kind
                    /\ job'[j].subject = job[j].subject
  BY <1>0 DEF SameRow
<1>2. ASSUME NEW state, Turns(j, state)
      PROVE  job[j].attempt <= job'[j].attempt
             /\ job'[j].run = job[j].run /\ job'[j].kind = job[j].kind
             /\ job'[j].subject = job[j].subject
  BY <1>0, <1>2 DEF Turns
<1>3. CASE Quiet
  BY <1>0, <1>1, <1>3 DEF Quiet, OthersSame
<1>4. CASE Loses
  BY <1>0, <1>4 DEF Loses
<1>5. ASSUME NEW s \in Slots, Finishes(s)
      PROVE  SameRow(j) \/ \E state : Turns(j, state)
  BY <1>5 DEF Finishes, OthersSame
<1>6. ASSUME NEW s \in Slots, NEW i \in Jobs, Claims(s, i)
      PROVE  SameRow(j) \/ \E state : Turns(j, state)
  BY <1>6 DEF Claims, OthersSame
<1>7. ASSUME NEW i \in Jobs, NEW r, NEW kind, NEW x, Inserts(i, r, kind, x)
      PROVE  SameRow(j) \/ job[j].state = "none"
  BY <1>7 DEF Inserts, OthersSame
<1>8. ASSUME NEW S \in SUBSET Jobs, Cancels(S) \/ Resumes(S)
      PROVE  SameRow(j) \/ \E state : Turns(j, state)
  BY <1>8 DEF Cancels, Resumes, OthersSame
<1>9. ASSUME NEW S \in SUBSET Jobs, Returns(S)
      PROVE  SameRow(j) \/ /\ job'[j].attempt = job[j].attempt + 1
                           /\ job'[j].run = job[j].run /\ job'[j].kind = job[j].kind
                           /\ job'[j].subject = job[j].subject
  BY <1>9 DEF Returns, PutsBack, OthersSame
<1>10. \/ SameRow(j) \/ (\E state : Turns(j, state)) \/ job[j].state = "none"
       \/ /\ job'[j].attempt = job[j].attempt + 1
          /\ job'[j].run = job[j].run /\ job'[j].kind = job[j].kind
          /\ job'[j].subject = job[j].subject
       \/ Quiet \/ Loses
  BY Steps, <1>5, <1>6, <1>7, <1>8, <1>9 DEF StepKind, ChainsOn, Opens
<1> QED
  BY <1>0, <1>1, <1>2, <1>3, <1>4, <1>10

LEMMA FreshStep ==
  ASSUME TypeOK, FreshAreLeased, [Next]_vars
  PROVE  FreshAreLeased'
<1> SUFFICES ASSUME NEW j \in Jobs, job'[j].attempt = 0
             PROVE  LeasedTo(j)'
  BY DEF FreshAreLeased
<1>1. job[j].attempt \in Nat
      /\ (job[j].attempt <= 0 \/ job[j].state = "none")
  BY RowsKeep
<1>2. LeasedTo(j)
  <2>1. CASE job[j].state = "none"
    BY <2>1, FreeUnheld DEF LeasedTo
  <2>2. CASE job[j].attempt <= 0
    BY <1>1, <2>2 DEF FreshAreLeased
  <2> QED
    BY <1>1, <2>1, <2>2
<1>3. ASSUME NEW S \in SUBSET Jobs, Returns(S), j \in S
      PROVE  FALSE
  BY <1>1, <1>3 DEF Returns, PutsBack
<1> QED
  BY <1>2, <1>3, LeaseStep

-----------------------------------------------------------------------------
(* One Job a stage.  What two slots could get wrong is chained by each of  *)
(* them in its own time, so the invariant says of every Job which one has  *)
(* queued it, and that this one will not do so again.                      *)

\* The Jobs of one Supplier in one Run, and whether one of them was put back.
JobsFor(r, x) == {j \in JobsOf(r) : job[j].subject = x}
PutBack(r, x) == \E k \in JobsFor(r, x) : job[k].attempt > 0

\* A stage is queued behind a Job that is past its chaining.
HasNext(i) == \E j \in JobsFor(job[i].run, job[i].subject) :
                  job[j].kind = NextKind(job[i].kind)
PastChaining(i) ==
    /\ job[i].state \in {"running", "done"}
    /\ \A s \in HoldersOf(i) : slot[s].pc = "finish" /\ slot[s].out = "done"

\* A Supplier whose Jobs were never put back has one Job a stage, and a Job
\* that has one behind it chains no more.
OneAStage(r, x) ==
    /\ \A i, j \in JobsFor(r, x) : job[i].kind = job[j].kind => i = j
    /\ \A i \in JobsFor(r, x) : HasNext(i) => PastChaining(i)
    /\ \A i, j \in JobsFor(r, x) :
         job[i].kind = "resolve" /\ job[j].kind = "assess" => HasNext(i)

\* A Run is opened by one request, and a Supplier it still has to enqueue has
\* no Job.
Opening(q) ==
    web[q].pc = "enqueue" =>
        /\ \A x \in web[q].todo : JobsFor(web[q].run, x) = {}
        /\ \A p \in Requests \ {q} :
             web[p].pc = "enqueue" => web[p].run # web[q].run

ChainInv ==
    /\ TypeOK /\ RunsOpened /\ FreshAreLeased
    /\ \A r \in Runs, x \in Nat : PutBack(r, x) \/ OneAStage(r, x)
    /\ \A q \in Requests : Opening(q)

LEMMA Members ==
  ASSUME NEW r, NEW x
  PROVE  /\ \A j : j \in JobsFor(r, x) <=> Exists(j) /\ job[j].run = r /\ job[j].subject = x
         /\ \A j : j \in JobsFor(r, x)' <=>
                     j \in Jobs /\ job'[j].state # "none"
                     /\ job'[j].run = r /\ job'[j].subject = x
  BY DEF JobsFor, JobsOf, Exists

LEMMA Nexts ==
  ASSUME NEW r, NEW x, NEW i
  PROVE  /\ i \in JobsFor(r, x) =>
              (HasNext(i) <=> \E j \in JobsFor(r, x) : job[j].kind = NextKind(job[i].kind))
         /\ i \in JobsFor(r, x)' =>
              (HasNext(i)' <=> \E j \in JobsFor(r, x)' : job'[j].kind = NextKind(job'[i].kind))
<1>1. CASE i \in JobsFor(r, x)
  BY <1>1, Members DEF HasNext
<1>2. CASE i \in JobsFor(r, x)'
  <2>1. job'[i].run = r /\ job'[i].subject = x
    BY <1>2, Members
  <2>2. HasNext(i)' <=> \E j \in JobsFor(job[i].run, job[i].subject)' :
                          job'[j].kind = NextKind(job'[i].kind)
    BY DEF HasNext, NextKind
  <2>3. JobsFor(job[i].run, job[i].subject)' = JobsFor(r, x)'
    BY <2>1 DEF JobsFor, JobsOf
  <2>4. i \in JobsFor(r, x) =>
          (HasNext(i) <=> \E j \in JobsFor(r, x) : job[j].kind = NextKind(job[i].kind))
    BY Members DEF HasNext
  <2> QED
    BY <2>2, <2>3, <2>4
<1> QED
  BY <1>1, <1>2

\* The stages, one after the other.
LEMMA Stages ==
  /\ \A k \in Kinds : NextKind(k) \in Kinds => k \in {"resolve", "enrich"}
  /\ NextKind("resolve") = "enrich" /\ NextKind("enrich") = "assess"
  /\ NextKind("assess") = "none"
  BY DEF Kinds, NextKind

LEMMA KindsKnown ==
  ASSUME TypeOK
  PROVE  \A j : Exists(j) => job[j].kind \in Kinds /\ job[j].attempt \in Nat /\ job[j].run \in Runs
<1> SUFFICES ASSUME NEW j, Exists(j)
             PROVE  job[j].kind \in Kinds /\ job[j].attempt \in Nat /\ job[j].run \in Runs
  OBVIOUS
<1>1. job[j] \in JobRow /\ job[j].run \in Runs
  BY DEF TypeOK, JobsTyped, Exists
<1> QED
  BY <1>1 DEF JobRow

\* Rows stay what they are, ...
LEMMA Stay ==
  ASSUME TypeOK, [Next]_vars, NEW r, NEW x
  PROVE  /\ \A j \in JobsFor(r, x) : j \in JobsFor(r, x)' /\ job'[j].kind = job[j].kind
         /\ PutBack(r, x) => PutBack(r, x)'
<1>1. ASSUME NEW j \in JobsFor(r, x)
      PROVE  j \in JobsFor(r, x)' /\ job'[j].kind = job[j].kind
             /\ job[j].attempt <= job'[j].attempt
             /\ job[j].attempt \in Nat /\ job'[j].attempt \in Nat
  <2>1. Exists(j) /\ job[j].run = r /\ job[j].subject = x /\ j \in Jobs /\ job[j].state # "none"
    BY Members DEF Exists
  <2>2. Exists(j)'
    BY <2>1, TypeStep DEF Keeps
  <2> QED
    BY <2>1, <2>2, RowsKeep, Members DEF Exists
<1>2. ASSUME PutBack(r, x)
      PROVE  PutBack(r, x)'
  <2>1. PICK k \in JobsFor(r, x) : job[k].attempt > 0
    BY <1>2 DEF PutBack
  <2>2. k \in JobsFor(r, x)' /\ job'[k].attempt > 0
    BY <1>1, <2>1
  <2> QED
    BY <2>2 DEF PutBack
<1> QED
  BY <1>1, <1>2

\* ... and new ones are chained on, or enqueued by a request.
LEMMA NewRow ==
  ASSUME TypeOK, [Next]_vars
  PROVE  \/ \A j \in Jobs : job'[j].state # "none" => Exists(j)
         \/ \E s \in Slots, i \in Jobs : ChainsOn(s, i)
         \/ \E q \in Requests, i \in Jobs : \E x \in Nat : Opens(q, i, x)
<1> DEFINE None == \A j \in Jobs : job'[j].state # "none" => Exists(j)
<1>1. \A j \in Jobs : SameRow(j) => (job'[j].state # "none" => Exists(j))
  BY DEF SameRow, Exists
<1>2. Quiet => None
  BY <1>1 DEF Quiet, OthersSame
<1>3. Loses => None
  BY DEF Loses, Exists
<1>4. ASSUME NEW s \in Slots, Finishes(s)
      PROVE  None
  <2>1. Exists(slot[s].job)
    BY <1>4 DEF Finishes, TypeOK, SlotsTyped
  <2> QED
    BY <1>1, <1>4, <2>1 DEF Finishes, OthersSame
<1>5. ASSUME NEW s \in Slots, NEW i \in Jobs, Claims(s, i)
      PROVE  None
  BY <1>1, <1>5 DEF Claims, OthersSame, Exists
<1>6. ASSUME NEW S \in SUBSET Jobs, Returns(S) \/ Cancels(S) \/ Resumes(S)
      PROVE  None
  BY <1>1, <1>6 DEF Returns, PutsBack, Cancels, Resumes, OthersSame, Exists
<1> HIDE DEF None
<1>7. None \/ (\E s \in Slots, i \in Jobs : ChainsOn(s, i))
      \/ \E q \in Requests, i \in Jobs : \E x \in Nat : Opens(q, i, x)
  BY Steps, <1>2, <1>3, <1>4, <1>5, <1>6 DEF StepKind
<1> QED
  BY <1>7 DEF None

\* A Job past its chaining is not at it again until it is put back.
LEMMA StaysPast ==
  ASSUME TypeOK, [Next]_vars, NEW i \in Jobs, PastChaining(i),
         job'[i].attempt <= job[i].attempt
  PROVE  PastChaining(i)'
<1> DEFINE Past == /\ job'[i].state \in {"running", "done"}
                   /\ \A t \in HoldersOf(i)' : slot'[t].pc = "finish" /\ slot'[t].out = "done"
<1> SUFFICES Past
  BY DEF PastChaining
<1>0. /\ job[i].state \in {"running", "done"} /\ job[i].state # "none"
      /\ \A t \in HoldersOf(i) : slot[t].pc = "finish" /\ slot[t].out = "done"
      /\ \A t \in HoldersOf(i) : t \in Slots
      /\ job[i].attempt \in Nat
  BY RowsKeep DEF PastChaining, HoldersOf
<1>1. CASE Quiet
  <2>1. HoldersOf(i)' = HoldersOf(i) /\ job'[i].state = job[i].state
    BY <1>1, SameHolders DEF Quiet, OthersSame, SameRow
  <2>2. \A t \in HoldersOf(i) : slot'[t] = slot[t]
    BY <1>0, <1>1 DEF Quiet, GoesOn, AtWork
  <2> QED
    BY <1>0, <2>1, <2>2
<1>2. CASE Loses
  <2>1. HoldersOf(i)' = {} /\ job'[i].state = job[i].state
    BY <1>2, LostHolders DEF Loses
  <2> QED
    BY <1>0, <2>1
<1>3. ASSUME NEW s \in Slots, Finishes(s)
      PROVE  Past
  <2>1. HoldersOf(i)' = HoldersOf(i) \ {s} /\ \A t \in HoldersOf(i) \ {s} : slot'[t] = slot[t]
    BY <1>0, <1>3, FinishedBy DEF Finishes, OtherSlotsSame
  <2>2. job'[i].state \in {"running", "done"}
    <3>1. CASE i = slot[s].job
      <4>1. s \in HoldersOf(i)
        BY <1>3, <3>1, Holding DEF Finishes, AtWork
      <4> QED
        BY <1>0, <1>3, <3>1, <4>1 DEF Finishes, Turns
    <3>2. CASE i # slot[s].job
      BY <1>0, <1>3, <3>2 DEF Finishes, OthersSame, SameRow
    <3> QED
      BY <3>1, <3>2
  <2> QED
    BY <1>0, <2>1, <2>2
<1>4. ASSUME NEW s \in Slots, NEW k \in Jobs, Claims(s, k)
      PROVE  Past
  <2>1. i # k /\ s \notin HoldersOf(i)
    BY <1>0, <1>4 DEF Claims
  <2>2. HoldersOf(i)' = HoldersOf(i) /\ \A t \in HoldersOf(i) : slot'[t] = slot[t]
    BY <1>0, <1>4, <2>1, ClaimedBy DEF Claims, OtherSlotsSame
  <2>3. job'[i].state = job[i].state
    BY <1>4, <2>1 DEF Claims, OthersSame, SameRow
  <2> QED
    BY <1>0, <2>2, <2>3
<1>5. ASSUME NEW s \in Slots, NEW n \in Jobs, ChainsOn(s, n)
      PROVE  Past
  <2>1. HoldersOf(i)' = HoldersOf(i) /\ s \notin HoldersOf(i) /\ i # n
    BY <1>0, <1>5, ChainsAside DEF ChainsOn, Inserts
  <2>2. \A t \in HoldersOf(i) : slot'[t] = slot[t]
    BY <1>0, <1>5, <2>1 DEF ChainsOn, OtherSlotsSame
  <2>3. job'[i].state = job[i].state
    BY <1>5, <2>1 DEF ChainsOn, Inserts, OthersSame, SameRow
  <2> QED
    BY <1>0, <2>1, <2>2, <2>3
<1>6. ASSUME NEW q \in Requests, NEW n \in Jobs, NEW x, Opens(q, n, x)
      PROVE  Past
  BY <1>0, <1>6, SlotsStay DEF Opens, Inserts, OthersSame, SameRow
<1>7. ASSUME NEW S \in SUBSET Jobs, Returns(S) \/ Cancels(S) \/ Resumes(S)
      PROVE  Past
  <2>1. i \notin S
    BY <1>0, <1>7 DEF Returns, PutsBack, Cancels, Resumes
  <2>2. job'[i].state = job[i].state /\ slot' = slot
    BY <1>7, <2>1 DEF Returns, PutsBack, Cancels, Resumes, OthersSame, SameRow
  <2> QED
    BY <1>0, <2>2, SlotsStay
<1> HIDE DEF Past
<1> QED
  BY Steps, <1>1, <1>2, <1>3, <1>4, <1>5, <1>6, <1>7 DEF StepKind

\* A step that inserts no row of this Supplier's keeps its stages.
LEMMA StagesKept ==
  ASSUME TypeOK, [Next]_vars, NEW r, NEW x, OneAStage(r, x), ~PutBack(r, x)',
         \A j \in JobsFor(r, x)' : j \in JobsFor(r, x)
  PROVE  OneAStage(r, x)'
<1>1. \A j : j \in JobsFor(r, x) <=> j \in JobsFor(r, x)'
  BY Stay
<1>2. \A j \in JobsFor(r, x) : job'[j].kind = job[j].kind
  BY Stay
<1>3. \A i \in JobsFor(r, x) : HasNext(i)' <=> HasNext(i)
  BY <1>1, <1>2, Nexts
<1>4. ASSUME NEW i \in JobsFor(r, x), PastChaining(i)
      PROVE  PastChaining(i)'
  <2>1. i \in Jobs /\ job'[i].attempt \in Nat /\ job[i].attempt \in Nat /\ Exists(i)
    BY Members, RowsKeep DEF Exists
  <2>2. job'[i].attempt <= 0
    BY <1>1, <2>1 DEF PutBack
  <2> QED
    BY <1>4, <2>1, <2>2, StaysPast
<1>5. \A i, j \in JobsFor(r, x)' : job'[i].kind = job'[j].kind => i = j
  BY <1>1, <1>2 DEF OneAStage
<1>6. \A i \in JobsFor(r, x)' : HasNext(i)' => PastChaining(i)'
  BY <1>1, <1>3, <1>4 DEF OneAStage
<1>7. \A i, j \in JobsFor(r, x)' :
        job'[i].kind = "resolve" /\ job'[j].kind = "assess" => HasNext(i)'
  BY <1>1, <1>2, <1>3 DEF OneAStage
<1> QED
  BY <1>5, <1>6, <1>7 DEF OneAStage

\* A slot queues the next stage: only it holds its Job, so nobody has queued
\* that stage before, and after this it does not chain again.
LEMMA StagesChained ==
  ASSUME TypeOK, FreshAreLeased, [Next]_vars, NEW r, NEW x,
         OneAStage(r, x), ~PutBack(r, x)',
         NEW s \in Slots, NEW n \in Jobs, ChainsOn(s, n),
         job'[n].run = r, job'[n].subject = x
  PROVE  OneAStage(r, x)'
<1> DEFINE F == JobsFor(r, x)
           G == JobsFor(r, x)'
<1>p. PICK p : p = slot[s].job
  OBVIOUS
<1>0. /\ slot[s].pc = "chain" /\ ~Exists(n) /\ job'[n].state = "queued"
      /\ job'[n].kind = NextKind(job[p].kind)
      /\ job'[n].run = job[p].run /\ job'[n].subject = job[p].subject
      /\ slot'[s].pc = "finish" /\ slot'[s].out = "done"
  BY <1>p DEF ChainsOn, Inserts, Exists, RunOf, KindOf
<1>1. Exists(p) /\ p \in Jobs /\ NextKind(job[p].kind) \in Kinds
  BY <1>0, <1>p DEF TypeOK, SlotsTyped, KindOf, Exists
<1>2. p \in F /\ p # n
  BY <1>0, <1>1, Members
<1>3. \A j : j \in G <=> j \in F \/ j = n
  <2>1. ASSUME NEW j \in G, j # n
        PROVE  j \in F
    <3>1. j \in Jobs /\ SameRow(j)
      BY <2>1, Members DEF ChainsOn, Inserts, OthersSame
    <3>2. job'[j].state # "none" /\ job'[j].run = r /\ job'[j].subject = x
      BY Members
    <3> QED
      BY <3>1, <3>2, Members DEF SameRow, Exists
  <2>2. n \in G
    BY <1>0, Members
  <2> QED
    BY <2>1, <2>2, Stay
<1>4. \A j \in F : j # n /\ job'[j].kind = job[j].kind /\ job[j].kind \in Kinds
  BY <1>0, Stay, Members, KindsKnown
<1>5. \A j \in F : job[j].attempt = 0 /\ job'[j].attempt = 0 /\ j \in Jobs
  <2> SUFFICES ASSUME NEW j \in F
               PROVE  job[j].attempt = 0 /\ job'[j].attempt = 0 /\ j \in Jobs
    OBVIOUS
  <2>1. Exists(j) /\ j \in Jobs /\ job[j].state # "none"
    BY Members DEF Exists
  <2>2. ~(job'[j].attempt > 0)
    BY <1>3 DEF PutBack
  <2> QED
    BY <2>1, <2>2, RowsKeep
<1>6. LeasedTo(p) /\ s \in HoldersOf(p)
  BY <1>0, <1>1, <1>2, <1>5, <1>p, Holding DEF FreshAreLeased, AtWork
<1>7. ~HasNext(p)
  BY <1>0, <1>2, <1>6 DEF OneAStage, PastChaining
<1>8. ASSUME NEW i \in F, PastChaining(i)
      PROVE  PastChaining(i)'
  BY <1>5, <1>8, StaysPast
<1>9. PastChaining(p)'
  <2>1. job'[p].state = "running"
    <3>1. job[p].state = "running"
      BY <1>6 DEF LeasedTo
    <3> QED
      BY <1>1, <1>2, <3>1 DEF ChainsOn, Inserts, OthersSame, SameRow
  <2>2. \A t \in HoldersOf(p)' : t = s
    <3>1. HoldersOf(p)' = HoldersOf(p)
      BY ChainsAside
    <3> QED
      BY <1>6, <3>1 DEF LeasedTo
  <2>3. \A t \in HoldersOf(p)' : slot'[t].pc = "finish" /\ slot'[t].out = "done"
    BY <1>0, <2>2
  <2> QED
    BY <2>1, <2>3 DEF PastChaining
<1> HIDE DEF F, G
<1>10. \A i, j \in G : job'[i].kind = job'[j].kind => i = j
  <2>1. \A i \in F : job'[i].kind # job'[n].kind
    BY <1>0, <1>2, <1>4, <1>7, Nexts DEF F
  <2>2. \A i, j \in F : job'[i].kind = job'[j].kind => i = j
    BY <1>4 DEF OneAStage, F
  <2> QED
    BY <1>3, <2>1, <2>2
<1>11. ASSUME NEW i \in F, i # p, HasNext(i)'
       PROVE  HasNext(i)
  <2>1. PICK j \in G : job'[j].kind = NextKind(job'[i].kind)
    BY <1>3, <1>11, Nexts DEF F, G
  <2>2. CASE j \in F
    BY <1>4, <2>1, <2>2, Nexts DEF F
  <2>3. CASE j = n
    <3>1. NextKind(job[i].kind) = NextKind(job[p].kind)
      BY <1>0, <1>4, <2>1, <2>3
    <3>2. job[i].kind = job[p].kind
      BY <1>1, <1>2, <1>4, <3>1, Stages
    <3> QED
      BY <1>2, <1>11, <3>2 DEF OneAStage, F
  <2> QED
    BY <1>3, <2>1, <2>2, <2>3
<1>12. ~HasNext(n)'
  <2>1. ASSUME NEW j \in G, job'[j].kind = NextKind(job'[n].kind)
        PROVE  FALSE
    <3>1. job[p].kind \in {"resolve", "enrich"}
      BY <1>1, <1>2, <1>4, Stages
    <3>2. j # n
      BY <1>0, <2>1, <3>1, Stages
    <3>3. j \in F /\ job[j].kind = NextKind(NextKind(job[p].kind))
      BY <1>0, <1>3, <1>4, <2>1, <3>2
    <3>4. CASE job[p].kind = "resolve"
      BY <1>2, <1>7, <3>3, <3>4, Stages DEF OneAStage, F
    <3>5. CASE job[p].kind = "enrich"
      BY <1>4, <3>3, <3>5, Stages DEF Kinds
    <3> QED
      BY <3>1, <3>4, <3>5
  <2> QED
    BY <1>3, <2>1, Nexts DEF G
<1>13. \A i \in G : HasNext(i)' => PastChaining(i)'
  BY <1>3, <1>8, <1>9, <1>11, <1>12 DEF OneAStage, F
<1>14. ASSUME NEW i \in G, NEW j \in G, job'[i].kind = "resolve", job'[j].kind = "assess"
       PROVE  HasNext(i)'
  <2>1. i \in F /\ job[i].kind = "resolve"
    <3>1. job'[n].kind # "resolve"
      BY <1>0, <1>1, <1>2, <1>4, Stages
    <3> QED
      BY <1>3, <1>4, <1>14, <3>1
  <2>2. PICK k \in F : job[k].kind = NextKind(job[i].kind)
    <3>1. CASE j \in F
      BY <1>4, <1>14, <2>1, <3>1, Nexts DEF OneAStage, F
    <3>2. CASE j = n
      <4>1. job[p].kind = "enrich"
        BY <1>0, <1>1, <1>2, <1>4, <1>14, <3>2, Stages
      <4> QED
        BY <1>2, <2>1, <4>1, Stages
    <3> QED
      BY <1>3, <3>1, <3>2
  <2>3. k \in G /\ job'[k].kind = NextKind(job'[i].kind)
    BY <1>3, <1>4, <2>1, <2>2
  <2> QED
    BY <1>14, <2>3, Nexts DEF G
<1> QED
  BY <1>10, <1>13, <1>14 DEF OneAStage, G

\* A request enqueues a Supplier it has not enqueued before.
LEMMA StagesOpened ==
  ASSUME TypeOK, TypeOK', NEW r, NEW x, JobsFor(r, x) = {},
         NEW q \in Requests, NEW n \in Jobs, NEW y, Opens(q, n, y)
  PROVE  OneAStage(r, x)'
<1>1. \A j \in JobsFor(r, x)' : j = n
  <2>1. ASSUME NEW j \in JobsFor(r, x)', j # n
        PROVE  FALSE
    <3>1. j \in Jobs /\ SameRow(j)
      BY <2>1, Members DEF Opens, Inserts, OthersSame
    <3>2. job'[j].state # "none" /\ job'[j].run = r /\ job'[j].subject = x
      BY Members
    <3>3. j \in JobsFor(r, x)
      BY <3>1, <3>2, Members DEF SameRow, Exists
    <3> QED
      BY <3>3
  <2> QED
    BY <2>1
<1>2. job'[n].kind \in Kinds
  <2>1. job'[n] \in JobRow
    BY DEF TypeOK, JobsTyped
  <2> QED
    BY <2>1 DEF JobRow
<1>3. \A i \in JobsFor(r, x)' : ~HasNext(i)'
  BY <1>1, <1>2, Nexts, Stages DEF Kinds
<1>4. job'[n].kind # "resolve" \/ job'[n].kind # "assess"
  OBVIOUS
<1> QED
  BY <1>1, <1>3, <1>4 DEF OneAStage

\* A request that enqueues has just opened its Run, or goes on with what was
\* left of it.
LEMMA Enqueueing ==
  ASSUME TypeOK, [Next]_vars, NEW q \in Requests, web'[q].pc = "enqueue"
  PROVE  \/ /\ web[q].pc = "enqueue" /\ web'[q].run = web[q].run
            /\ web'[q].todo \subseteq web[q].todo
         \/ /\ run[web'[q].run].state = "none" /\ web'[q].run \in Runs
            /\ job' = job /\ \A p \in Requests \ {q} : web'[p] = web[p]
<1>0. web \in [Requests -> WebRow] /\ web[q] \in WebRow
  BY DEF TypeOK, WebTyped
<1>1. CASE web'[q] = web[q]
  BY <1>1
<1>2. ASSUME NEW p \in Requests, p # q, WebStep(p)
      PROVE  web'[q] = web[q]
  BY <1>0, <1>2 DEF WebStep, OpenRun, ShowCancel, Retry, ShowResume, Act, EnqueueJob,
                    CancelJobs, CancelRun, RequeueJobs, WebSettleRead, WebSettleWrite,
                    ResumeRead, ResumeRun, ResumeJobs
<1>3. CASE WebStep(q)
  <2>1. ASSUME NEW r \in Runs, OpenRun(q, r)
        PROVE  /\ run[web'[q].run].state = "none" /\ web'[q].run \in Runs
               /\ job' = job /\ \A p \in Requests \ {q} : web'[p] = web[p]
    <3>1. PICK kind : web' = [web EXCEPT ![q] =
                        [IdleWeb EXCEPT !.pc = "enqueue", !.run = r, !.kind = kind,
                                        !.todo = Suppliers]]
      BY <2>1 DEF OpenRun
    <3>2. [IdleWeb EXCEPT !.pc = "enqueue", !.run = r, !.kind = kind,
                          !.todo = Suppliers].run = r
      BY IdleWebType DEF WebRow
    <3> QED
      BY <1>0, <2>1, <3>1, <3>2 DEF OpenRun
  <2>2. CASE EnqueueJob(q)
    <3>1. PICK x \in web[q].todo :
            web' = [web EXCEPT ![q] = IF web[q].todo = {x} THEN IdleWeb
                                      ELSE [web[q] EXCEPT !.todo = @ \ {x}]]
      BY <2>2 DEF EnqueueJob
    <3>2. web'[q] = [web[q] EXCEPT !.todo = web[q].todo \ {x}]
      <4>1. IdleWeb.pc # "enqueue"
        BY IdleWebType
      <4> QED
        BY <1>0, <3>1, <4>1
    <3>3. web'[q].run = web[q].run /\ web'[q].todo = web[q].todo \ {x}
      BY <1>0, <3>2 DEF WebRow
    <3> QED
      BY <2>2, <3>3 DEF EnqueueJob, WebAt
  <2>3. ASSUME NEW pc, pc # "enqueue",
               \/ web' = [web EXCEPT ![q].pc = pc]
               \/ \E next : web' = [web EXCEPT ![q].pc = pc, ![q].next = next]
               \/ \E budget : web' = [web EXCEPT ![q].pc = pc, ![q].budget = budget]
               \/ \E r : web' = [web EXCEPT ![q] = [IdleWeb EXCEPT !.pc = pc, !.run = r]]
               \/ \E r, S : web' = [web EXCEPT ![q] = [IdleWeb EXCEPT !.pc = pc, !.run = r,
                                                                     !.todo = S]]
        PROVE  FALSE
    <3>1. PICK row : web'[q] = row /\ row.pc = pc
      <4>1. CASE web' = [web EXCEPT ![q].pc = pc]
        BY <1>0, <4>1 DEF WebRow
      <4>2. CASE \E next : web' = [web EXCEPT ![q].pc = pc, ![q].next = next]
        BY <1>0, <4>2 DEF WebRow
      <4>3. CASE \E budget : web' = [web EXCEPT ![q].pc = pc, ![q].budget = budget]
        BY <1>0, <4>3 DEF WebRow
      <4>4. ASSUME NEW r, web' = [web EXCEPT ![q] = [IdleWeb EXCEPT !.pc = pc, !.run = r]]
            PROVE  web'[q].pc = pc
        <5>1. [IdleWeb EXCEPT !.pc = pc, !.run = r].pc = pc
          BY IdleWebType DEF WebRow
        <5> QED
          BY <1>0, <4>4, <5>1
      <4>5. ASSUME NEW r, NEW S, web' = [web EXCEPT ![q] = [IdleWeb EXCEPT !.pc = pc,
                                                               !.run = r, !.todo = S]]
            PROVE  web'[q].pc = pc
        <5>1. [IdleWeb EXCEPT !.pc = pc, !.run = r, !.todo = S].pc = pc
          BY IdleWebType DEF WebRow
        <5> QED
          BY <1>0, <4>5, <5>1
      <4> QED
        BY <2>3, <4>1, <4>2, <4>3, <4>4, <4>5
    <3> QED
      BY <2>3, <3>1
  <2>4. ASSUME NEW r \in Runs, ShowCancel(q, r) \/ Retry(q, r) \/ ShowResume(q, r)
        PROVE  FALSE
    <3>1. CASE ShowCancel(q, r)
      BY <2>3, <3>1 DEF ShowCancel
    <3>2. CASE Retry(q, r)
      <4>1. PICK S : web' = [web EXCEPT ![q] = [IdleWeb EXCEPT !.pc = "requeue", !.run = r,
                                                               !.todo = S]]
        BY <3>2 DEF Retry
      <4> QED
        BY <2>3, <4>1
    <3>3. CASE ShowResume(q, r)
      BY <2>3, <3>3 DEF ShowResume
    <3> QED
      BY <2>4, <3>1, <3>2, <3>3
  <2>5. ~CancelJobs(q) /\ ~RequeueJobs(q) /\ ~ResumeRun(q)
    BY <2>3 DEF CancelJobs, RequeueJobs, ResumeRun
  <2>6. ~WebSettleRead(q)
    BY <2>3 DEF WebSettleRead
  <2>7. ~ResumeRead(q)
    <3>1. ASSUME ResumeRead(q)
          PROVE  \E budget : web' = [web EXCEPT ![q].pc = "resume_run", ![q].budget = budget]
      BY <3>1 DEF ResumeRead
    <3> QED
      BY <2>3, <3>1
  <2>8. ~CancelRun(q) /\ ~WebSettleWrite(q) /\ ~ResumeJobs(q)
    <3>1. ASSUME web' = [web EXCEPT ![q] = IdleWeb]
          PROVE  FALSE
      BY <1>0, <3>1, IdleWebType
    <3> QED
      BY <3>1 DEF CancelRun, WebSettleWrite, ResumeJobs
  <2> QED
    BY <1>3, <2>1, <2>2, <2>4, <2>5, <2>6, <2>7, <2>8 DEF WebStep
<1>4. CASE web' = web
  BY <1>1, <1>4
<1>5. web' = web \/ \E p \in Requests : WebStep(p)
  <2>1. \A s \in Slots : SlotStep(s) => web' = web
    BY DEF SlotStep, Dequeue, CheckBudget, Spend, CheckBoundary, Fail, Succeed, ChainNext,
           FinishJob, SlotSettleRead, SlotSettleWrite
  <2>2. MainStep => web' = web
    BY DEF MainStep, SweepSelect, SweepUpdate, SweepRead, SweepWrite, DequeueNone
  <2>3. WorkerStep => web' = web
    BY DEF WorkerStep, Shutdown, Drained, Crash, Boot, Tick
  <2> QED
    BY <2>1, <2>2, <2>3 DEF Next, vars
<1> QED
  BY <1>1, <1>2, <1>3, <1>4, <1>5

\* A Supplier a request still has to enqueue gets no Job from anybody else.
LEMMA OpeningStep ==
  ASSUME TypeOK, RunsOpened, \A p \in Requests : Opening(p), [Next]_vars,
         NEW q \in Requests
  PROVE  Opening(q)'
<1>0. web \in [Requests -> WebRow] /\ TypeOK'
  BY TypeStep DEF TypeOK, WebTyped
<1> SUFFICES ASSUME web'[q].pc = "enqueue"
             PROVE  /\ \A x \in web'[q].todo : JobsFor(web[q].run, x)' = {}
                    /\ \A p \in Requests \ {q} :
                         web'[p].pc = "enqueue" => web'[p].run # web'[q].run
  BY DEF Opening
<1>1. CASE /\ run[web'[q].run].state = "none"
           /\ job' = job /\ \A p \in Requests \ {q} : web'[p] = web[p]
  <2>1. \A p \in Requests \ {q} : web'[p].pc = "enqueue" => web'[p].run # web'[q].run
    BY <1>1 DEF RunsOpened
  <2>2. ASSUME NEW x, NEW j \in JobsFor(web[q].run, x)'
        PROVE  FALSE
    <3>1. j \in Jobs /\ job'[j].state # "none" /\ job'[j].run = web'[q].run
      BY DEF JobsFor, JobsOf
    <3>2. Exists(j) /\ job[j].run = web'[q].run
      BY <1>1, <3>1 DEF Exists
    <3> QED
      BY <1>1, <3>2 DEF RunsOpened, Exists
  <2> QED
    BY <2>1, <2>2
<1>2. CASE /\ web[q].pc = "enqueue" /\ web'[q].run = web[q].run
           /\ web'[q].todo \subseteq web[q].todo
  <2>1. ASSUME NEW p \in Requests \ {q}, web'[p].pc = "enqueue"
        PROVE  web'[p].run # web'[q].run
    <3>1. CASE web[p].pc = "enqueue" /\ web'[p].run = web[p].run
      BY <1>2, <3>1 DEF Opening
    <3>2. CASE run[web'[p].run].state = "none"
      BY <1>2, <3>2 DEF RunsOpened
    <3> QED
      BY <2>1, <3>1, <3>2, Enqueueing
  <2>2. ASSUME NEW x \in web'[q].todo
        PROVE  JobsFor(web[q].run, x)' = {}
    <3>p. PICK r : r = web[q].run
      OBVIOUS
    <3>1. JobsFor(r, x) = {}
      BY <1>2, <3>p DEF Opening
    <3>2. ASSUME NEW j \in JobsFor(r, x)'
          PROVE  FALSE
      <4>1. j \in Jobs /\ job'[j].state # "none" /\ job'[j].run = r /\ job'[j].subject = x
        BY Members
      <4>2. ~Exists(j)
        <5>1. SUFFICES ASSUME Exists(j)
                       PROVE  FALSE
          OBVIOUS
        <5>2. job[j].run = r /\ job[j].subject = x
          BY <4>1, <5>1, RowsKeep DEF Exists
        <5> QED
          BY <3>1, <5>1, <5>2, Members
      <4>3. ~SameRow(j)
        BY <4>1, <4>2 DEF SameRow, Exists
      <4>4. ASSUME NEW s \in Slots, NEW i \in Jobs, ChainsOn(s, i)
            PROVE  FALSE
        <5>1. i = j
          BY <4>1, <4>3, <4>4 DEF ChainsOn, Inserts, OthersSame
        <5>2. r = RunOf(s) /\ x = job[slot[s].job].subject
          BY <4>1, <4>4, <5>1 DEF ChainsOn, Inserts
        <5>3. Exists(slot[s].job)
          BY <4>4 DEF ChainsOn, TypeOK, SlotsTyped
        <5>4. slot[s].job \in JobsFor(r, x)
          BY <5>2, <5>3, Members DEF RunOf
        <5> QED
          BY <3>1, <5>4
      <4>5. ASSUME NEW p \in Requests, NEW i \in Jobs, NEW y \in Nat, Opens(p, i, y)
            PROVE  FALSE
        <5>1. i = j
          BY <4>1, <4>3, <4>5 DEF Opens, Inserts, OthersSame
        <5>2. r = web[p].run /\ x = y /\ web[p].pc = "enqueue"
          BY <4>1, <4>5, <5>1 DEF Opens, Inserts, EnqueueJob, WebAt
        <5>3. p = q
          BY <1>2, <3>p, <5>2 DEF Opening
        <5>4. web'[q].todo = web[q].todo \ {x}
          <6>1. web'[q] = IF web[q].todo = {x} THEN IdleWeb ELSE [web[q] EXCEPT !.todo = @ \ {x}]
            BY <1>0, <4>5, <5>2, <5>3 DEF Opens
          <6>2. IdleWeb.pc # "enqueue"
            BY IdleWebType
          <6>3. web'[q] = [web[q] EXCEPT !.todo = @ \ {x}]
            BY <6>1, <6>2
          <6> QED
            BY <1>0, <6>3 DEF WebRow
        <5> QED
          BY <5>4
      <4> QED
        BY <4>1, <4>2, <4>4, <4>5, NewRow
    <3>3. JobsFor(r, x)' = {}
      BY <3>2
    <3>4. JobsFor(web[q].run, x)' = JobsFor(r, x)'
      BY <1>2, <3>p DEF JobsFor, JobsOf
    <3> QED
      BY <3>3, <3>4
  <2> QED
    BY <2>1, <2>2
<1> QED
  BY <1>1, <1>2, Enqueueing

LEMMA ChainStep == ChainInv /\ [Next]_vars => ChainInv'
<1> SUFFICES ASSUME ChainInv, [Next]_vars PROVE ChainInv'
  OBVIOUS
<1> USE DEF ChainInv
<1>1. TypeOK' /\ RunsOpened' /\ FreshAreLeased'
  BY TypeStep, OpenedStep, FreshStep
<1>2. \A q \in Requests : Opening(q)'
  BY OpeningStep
<1>3. ASSUME NEW r \in Runs, NEW x \in Nat, ~PutBack(r, x)'
      PROVE  OneAStage(r, x)'
  <2>1. OneAStage(r, x)
    BY <1>3, Stay
  <2>2. ASSUME NEW s \in Slots, NEW n \in Jobs, ChainsOn(s, n)
        PROVE  OneAStage(r, x)'
    <3>1. CASE job'[n].run = r /\ job'[n].subject = x
      BY <1>3, <2>1, <2>2, <3>1, StagesChained
    <3>2. CASE ~(job'[n].run = r /\ job'[n].subject = x)
      <4>1. ASSUME NEW j \in JobsFor(r, x)'
            PROVE  j \in JobsFor(r, x)
        <5>1. j \in Jobs /\ job'[j].state # "none" /\ job'[j].run = r /\ job'[j].subject = x
          BY Members
        <5>2. SameRow(j)
          BY <2>2, <3>2, <5>1 DEF ChainsOn, Inserts, OthersSame
        <5> QED
          BY <5>1, <5>2, Members DEF SameRow, Exists
      <4> QED
        BY <1>3, <2>1, <4>1, StagesKept
    <3> QED
      BY <3>1, <3>2
  <2>3. ASSUME NEW q \in Requests, NEW n \in Jobs, NEW y \in Nat, Opens(q, n, y)
        PROVE  OneAStage(r, x)'
    <3>1. CASE job'[n].run = r /\ job'[n].subject = x
      <4>1. r = web[q].run /\ x = y /\ web[q].pc = "enqueue" /\ y \in web[q].todo
        BY <2>3, <3>1 DEF Opens, Inserts, EnqueueJob, WebAt
      <4>2. JobsFor(r, x) = {}
        BY <4>1 DEF Opening
      <4> QED
        BY <1>1, <2>3, <4>2, StagesOpened
    <3>2. CASE ~(job'[n].run = r /\ job'[n].subject = x)
      <4>1. ASSUME NEW j \in JobsFor(r, x)'
            PROVE  j \in JobsFor(r, x)
        <5>1. j \in Jobs /\ job'[j].state # "none" /\ job'[j].run = r /\ job'[j].subject = x
          BY Members
        <5>2. SameRow(j)
          BY <2>3, <3>2, <5>1 DEF Opens, Inserts, OthersSame
        <5> QED
          BY <5>1, <5>2, Members DEF SameRow, Exists
      <4> QED
        BY <1>3, <2>1, <4>1, StagesKept
    <3> QED
      BY <3>1, <3>2
  <2>4. CASE \A j \in Jobs : job'[j].state # "none" => Exists(j)
    <3>1. ASSUME NEW j \in JobsFor(r, x)'
          PROVE  j \in JobsFor(r, x)
      <4>1. j \in Jobs /\ job'[j].state # "none" /\ job'[j].run = r /\ job'[j].subject = x
        BY Members
      <4>2. Exists(j) /\ job[j].state # "none"
        BY <2>4, <4>1 DEF Exists
      <4> QED
        BY <4>1, <4>2, RowsKeep, Members
    <3> QED
      BY <1>3, <2>1, <3>1, StagesKept
  <2> QED
    BY <2>2, <2>3, <2>4, NewRow
<1> QED
  BY <1>1, <1>2, <1>3

LEMMA ChainInit == Init => ChainInv
<1> SUFFICES ASSUME Init PROVE ChainInv
  OBVIOUS
<1>1. TypeOK /\ RunsOpened
  BY TypeInit, IdleWebType DEF Init, RunsOpened, Exists, NoRow
<1>2. \A j \in Jobs : job[j].state = "none"
  BY DEF Init, NoRow
<1>3. FreshAreLeased
  BY <1>1, <1>2, FreeUnheld DEF FreshAreLeased, LeasedTo
<1>4. \A r, x : JobsFor(r, x) = {}
  BY <1>2 DEF JobsFor, JobsOf
<1>5. \A r \in Runs, x \in Nat : OneAStage(r, x)
  BY <1>4 DEF OneAStage
<1>6. \A q \in Requests : Opening(q)
  BY IdleWebType DEF Init, Opening
<1> QED
  BY <1>1, <1>3, <1>5, <1>6 DEF ChainInv

\* No stage of the pipeline is queued twice for one Supplier in one Run unless
\* a Job of that Supplier was put back: whatever the slots, the requests and
\* the crashes do between chainNext() and finishJob().
THEOREM QueueChainsOnce == Spec => []ChainsOnce
<1>1. ChainInv => ChainsOnce
  <2> SUFFICES ASSUME ChainInv, NEW i \in Jobs, NEW j \in Jobs, i # j,
                      job[i].state # "none", job[j].state # "none",
                      job[i].run = job[j].run, job[i].kind = job[j].kind,
                      job[i].subject = job[j].subject
               PROVE  \E k \in JobsOf(job[i].run) :
                         job[k].subject = job[i].subject /\ job[k].attempt > 0
    BY DEF ChainsOnce
  <2>1. job[i].run \in Runs /\ job[i].subject \in Nat
    <3>1. job[i] \in JobRow /\ Exists(i)
      BY DEF ChainInv, TypeOK, JobsTyped, Exists
    <3> QED
      BY <3>1 DEF ChainInv, TypeOK, JobsTyped, JobRow
  <2>2. i \in JobsFor(job[i].run, job[i].subject) /\ j \in JobsFor(job[i].run, job[i].subject)
    BY DEF JobsFor, JobsOf
  <2>3. ~OneAStage(job[i].run, job[i].subject)
    BY <2>2 DEF OneAStage
  <2> QED
    BY <2>1, <2>3 DEF ChainInv, PutBack, JobsFor
<1> QED
  BY <1>1, ChainInit, ChainStep, PTL DEF Spec

-----------------------------------------------------------------------------
(* The lease.  A Job that is put back while a slot works it is worked by   *)
(* two; the sweep and the Run page judge that by what the rows say.        *)

\* No live Job is both beyond thirty minutes and silent for fifteen.  Either
\* nobody puts Jobs back by hand, so that only the sweep does; or one person
\* does, while the worker is never stopped and no live Job goes beyond thirty
\* minutes, so that nothing is stranded.
LeaseIsSafe ==
    /\ ~(LongJobs /\ Silence)
    /\ \/ {"retryJob", "retryRun"} \cap Acts = {}
       \/ MaxStops = 0 /\ ~LongJobs /\ \A p, q \in Requests : p = q

\* A live Job is young, or was heard of since it was claimed.
HeardOf(j) ==
    HoldersOf(j) # {} => /\ LongJobs \/ job[j].age < 2
                         /\ Silence \/ job[j].age < 1 \/ ~job[j].quiet

\* What the sweep has selected, and what a person puts back, nobody works.
SweepsTheLost ==
    main.pc = "sweep_update" =>
        \A j \in main.todo : job[j].state = "running" /\ HoldersOf(j) = {}
RetriesTheStopped ==
    \A q \in Requests : web[q].pc = "requeue" =>
        /\ {"retryJob", "retryRun"} \cap Acts # {}
        /\ \A j \in web[q].todo : job[j].state \in {"failed", "terminated"}

\* A worker that is never stopped strands nothing.
NoneStranded ==
    MaxStops = 0 => \A j \in Jobs : job[j].state = "running" => HoldersOf(j) # {}

LeaseInv ==
    /\ TypeOK
    /\ \A j \in Jobs : LeasedTo(j) /\ HeardOf(j)
    /\ SweepsTheLost /\ RetriesTheStopped /\ NoneStranded

LEMMA LeaseInit == Init => LeaseInv
<1> SUFFICES ASSUME Init PROVE LeaseInv
  OBVIOUS
<1>1. TypeOK /\ \A j \in Jobs : job[j].state = "none"
  BY TypeInit DEF Init, NoRow
<1>2. \A j \in Jobs : HoldersOf(j) = {}
  BY <1>1, FreeUnheld
<1>3. main.pc # "sweep_update" /\ \A q \in Requests : web[q].pc # "requeue"
  BY IdleWebType DEF Init, IdleMain
<1> QED
  BY <1>1, <1>2, <1>3
  DEF LeaseInv, LeasedTo, HeardOf, SweepsTheLost, RetriesTheStopped, NoneStranded

\* What the sweep finds nobody works, ...
LEMMA StaleUnheld ==
  ASSUME LeaseIsSafe, LeaseInv, NEW j \in Stale
  PROVE  HoldersOf(j) = {}
<1>1. j \in Jobs /\ job[j].age = 2 /\ job[j].quiet
  BY DEF Stale
<1> QED
  BY <1>1 DEF LeaseInv, HeardOf, LeaseIsSafe

\* ... and what a page offers to put back has stopped.
LEMMA RetryableStopped ==
  ASSUME LeaseIsSafe, LeaseInv, NEW q \in Requests, NEW r \in Runs, Retry(q, r),
         NEW j \in Retryable(r)
  PROVE  job[j].state \in {"failed", "terminated"}
<1>1. j \in Jobs
  BY DEF Retryable, JobsOf
<1>2. {"retryJob", "retryRun"} \cap Acts # {}
  BY DEF Retry, Act
<1>3. ~LongJobs /\ MaxStops = 0
  BY <1>2 DEF LeaseIsSafe
<1>4. ~(job[j].state = "running" /\ job[j].age = 2)
  BY <1>1, <1>3 DEF LeaseInv, HeardOf, NoneStranded
<1> QED
  BY <1>4 DEF Retryable

\* A row grows old, and falls silent, by time alone.
LEMMA Ages ==
  ASSUME TypeOK, [Next]_vars, ~Tick, NEW j \in Jobs
  PROVE  \/ job'[j].age \in {NotStarted, 0}
         \/ job'[j].age = job[j].age /\ (job'[j].quiet => job[j].quiet)
<1> DEFINE Fine == \/ job'[j].age \in {NotStarted, 0}
                   \/ job'[j].age = job[j].age /\ (job'[j].quiet => job[j].quiet)
<1>0. job \in [Jobs -> JobRow] /\ job[j] \in JobRow
  BY DEF TypeOK, JobsTyped
<1> HIDE DEF Fine
<1>1. job'[j] = job[j] => Fine
  BY DEF Fine
<1>2. ASSUME NEW outcome, job'[j] = Finished(job[j], outcome)
      PROVE  Fine
  BY <1>0, <1>2 DEF Finished, JobRow, Fine
<1>3. job'[j] = Requeued(job[j]) => Fine
  BY <1>0 DEF Requeued, JobRow, Fine
<1>4. job'[j] = [job[j] EXCEPT !.state = "queued"] => Fine
  BY <1>0 DEF JobRow, Fine
<1>5. ASSUME NEW r, NEW kind, NEW x, Enqueue(r, kind, x)
      PROVE  Fine
  <2>1. PICK i \in Jobs :
          job' = [job EXCEPT ![i] =
                    [state |-> "queued", run |-> r, kind |-> kind,
                     subject |-> x, attempt |-> 0, locked |-> FALSE,
                     age |-> NotStarted, quiet |-> TRUE]]
    BY <1>5 DEF Enqueue
  <2>2. job'[j] = job[j] \/ job'[j].age = NotStarted
    BY <1>0, <2>1
  <2> QED
    BY <1>1, <2>2 DEF Fine
<1>6. ASSUME NEW s \in Slots, SlotStep(s)
      PROVE  Fine
  <2>1. CASE Dequeue(s)
    <3>1. PICK i \in Jobs :
            job' = [job EXCEPT ![i] =
                      [job[i] EXCEPT !.state = "running", !.locked = TRUE, !.age = 0]]
      BY <1>0, <2>1 DEF Dequeue
    <3>2. job'[j] = job[j]
          \/ job'[j] = [job[j] EXCEPT !.state = "running", !.locked = TRUE, !.age = 0]
      BY <1>0, <3>1
    <3> QED
      BY <1>0, <1>1, <3>2 DEF JobRow, Fine
  <2>2. CASE Spend(s)
    <3>1. job'[j] = job[j] \/ job'[j] = [job[j] EXCEPT !.quiet = FALSE]
      BY <1>0, <2>2 DEF Spend
    <3> QED
      BY <1>0, <1>1, <3>1 DEF JobRow, Fine
  <2>3. CASE ChainNext(s)
    BY <1>5, <2>3 DEF ChainNext
  <2>4. CASE FinishJob(s)
    <3>1. job'[j] = job[j] \/ job'[j] = Finished(job[j], slot[s].out)
      BY <1>0, <2>4 DEF FinishJob
    <3> QED
      BY <1>1, <1>2, <3>1
  <2>5. CASE job' = job
    BY <1>1, <2>5
  <2> QED
    BY <1>6, <2>1, <2>2, <2>3, <2>4, <2>5
       DEF SlotStep, CheckBudget, CheckBoundary, Fail, Succeed, SlotSettleRead,
           SlotSettleWrite
<1>7. ASSUME NEW S, job' = [i \in Jobs |-> IF i \in S THEN Requeued(job[i]) ELSE job[i]]
      PROVE  Fine
  <2>1. job'[j] = job[j] \/ job'[j] = Requeued(job[j])
    BY <1>7
  <2> QED
    BY <1>1, <1>3, <2>1
<1>8. ASSUME MainStep PROVE Fine
  <2>1. SweepUpdate => Fine
    <3>1. SUFFICES ASSUME SweepUpdate PROVE Fine
      OBVIOUS
    <3> QED
      BY <1>7, <3>1 DEF SweepUpdate
  <2>2. job' = job => Fine
    BY <1>1
  <2>3. SweepSelect \/ SweepWrite \/ DequeueNone => job' = job
    BY DEF SweepSelect, SweepWrite, DequeueNone
  <2>4. \A i \in Jobs : SweepRead(i) => job' = job
    BY DEF SweepRead
  <2> QED
    BY <1>8, <2>1, <2>2, <2>3, <2>4 DEF MainStep
<1>9. ASSUME NEW q \in Requests, WebStep(q)
      PROVE  Fine
  <2>1. EnqueueJob(q) => Fine
    BY <1>5 DEF EnqueueJob
  <2>2. RequeueJobs(q) => Fine
    BY <1>7 DEF RequeueJobs
  <2>3. CASE CancelJobs(q)
    <3>1. job'[j] = job[j] \/ job'[j] = Finished(job[j], "cancelled")
      BY <2>3 DEF CancelJobs
    <3> QED
      BY <1>1, <1>2, <3>1
  <2>4. CASE ResumeJobs(q)
    <3>1. job'[j] = job[j] \/ job'[j] = [job[j] EXCEPT !.state = "queued"]
      BY <2>4 DEF ResumeJobs
    <3> QED
      BY <1>1, <1>4, <3>1
  <2>5. CASE job' = job
    BY <1>1, <2>5
  <2>6. \A r \in Runs : OpenRun(q, r) \/ ShowCancel(q, r) \/ Retry(q, r) \/ ShowResume(q, r)
                          => job' = job
    BY DEF OpenRun, ShowCancel, Retry, ShowResume
  <2> QED
    BY <1>9, <2>1, <2>2, <2>3, <2>4, <2>5, <2>6
       DEF WebStep, CancelRun, WebSettleRead, WebSettleWrite, ResumeRead, ResumeRun
<1>10. ASSUME WorkerStep \/ UNCHANGED vars PROVE Fine
  <2>1. job' = job
    BY <1>10 DEF WorkerStep, Shutdown, Drained, Crash, Boot, vars
  <2> QED
    BY <1>1, <2>1
<1>11. Fine
  <2>1. Next => Fine
    BY <1>6, <1>8, <1>9, <1>10 DEF Next
  <2> QED
    BY <1>10, <2>1
<1> QED
  BY <1>11 DEF Fine

\* Who is at work after a step was before it, or has just claimed the Job.
LEMMA Newcomers ==
  ASSUME TypeOK, [Next]_vars, NEW j \in Jobs, HoldersOf(j)' # {}
  PROVE  HoldersOf(j) # {} \/ job'[j].age = 0
<1>1. Quiet => HoldersOf(j)' = HoldersOf(j)
  BY SameHolders DEF Quiet
<1>2. ~Loses
  BY LostHolders
<1>3. \A s \in Slots : Finishes(s) => HoldersOf(j)' = HoldersOf(j) \ {s}
  BY FinishedBy
<1>4. \A s \in Slots, i \in Jobs : Claims(s, i) =>
          \/ HoldersOf(j)' = HoldersOf(j)
          \/ job'[j].age = 0
  BY ClaimedBy DEF Claims
<1>5. \A s \in Slots, i \in Jobs : ChainsOn(s, i) => HoldersOf(j)' = HoldersOf(j)
  BY ChainsAside
<1>6. slot' = slot => HoldersOf(j)' = HoldersOf(j)
  BY SlotsStay
<1>7. \/ HoldersOf(j)' = HoldersOf(j) \/ job'[j].age = 0
      \/ \E s \in Slots : HoldersOf(j)' = HoldersOf(j) \ {s}
  BY Steps, <1>1, <1>2, <1>3, <1>4, <1>5, <1>6
  DEF StepKind, Opens, Returns, PutsBack, Cancels, Resumes
<1> QED
  BY <1>7

LEMMA HeardStep ==
  ASSUME TypeOK, [Next]_vars, NEW j \in Jobs, HeardOf(j)
  PROVE  HeardOf(j)'
<1> SUFFICES ASSUME HoldersOf(j)' # {}
             PROVE  /\ LongJobs \/ job'[j].age < 2
                    /\ Silence \/ job'[j].age < 1 \/ ~job'[j].quiet
  BY DEF HeardOf
<1>1. CASE job'[j].age \in {NotStarted, 0}
  BY <1>1 DEF NotStarted
<1>2. CASE job'[j].age \notin {NotStarted, 0}
  <2>1. HoldersOf(j) # {}
    BY <1>2, Newcomers
  <2>2. (LongJobs \/ job[j].age < 2) /\ (Silence \/ job[j].age < 1 \/ ~job[j].quiet)
    BY <2>1 DEF HeardOf
  <2>3. CASE ~Tick
    BY <1>2, <2>2, <2>3, Ages
  <2>4. CASE Tick
    <3> DEFINE older == IF job[j].age < MaxAge THEN job[j].age + 1 ELSE job[j].age
    <3>1. PICK mute \in SUBSET {i \in Jobs : HoldersOf(i) # {}} :
            /\ ~Silence => mute = {}
            /\ job' = [i \in Jobs |->
                     IF job[i].age = NotStarted THEN job[i]
                     ELSE [job[i] EXCEPT !.age = IF @ < MaxAge THEN @ + 1 ELSE @,
                                         !.quiet = HoldersOf(i) = {} \/ i \in mute]]
      BY <2>4 DEF Tick
    <3>2. job[j] \in JobRow /\ job[j].age \in {NotStarted, 0, 1, 2}
      BY DEF TypeOK, JobsTyped, JobRow
    <3>3. job[j].age # NotStarted
      BY <1>2, <3>1
    <3>4. job'[j] = [job[j] EXCEPT !.age = older, !.quiet = HoldersOf(j) = {} \/ j \in mute]
      BY <3>1, <3>3
    <3> HIDE DEF older
    <3>5. job'[j].age = older /\ (job'[j].quiet <=> (HoldersOf(j) = {} \/ j \in mute))
      BY <3>2, <3>4 DEF JobRow
    <3>6. job[j].age = 1 => LongJobs
      BY <2>1, <2>4 DEF Tick
    <3>7. LongJobs \/ older < 2
      BY <2>2, <3>2, <3>6 DEF older, NotStarted
    <3>8. Silence \/ ~job'[j].quiet
      BY <2>1, <3>1, <3>5
    <3> QED
      BY <3>5, <3>7, <3>8
  <2> QED
    BY <2>3, <2>4
<1> QED
  BY <1>1, <1>2

\* A Job that nobody works, and that is not to be dequeued, stays where it is
\* unless it is put back.
LEMMA Unmoved ==
  ASSUME TypeOK, [Next]_vars, NEW j \in Jobs, HoldersOf(j) = {},
         job[j].state \notin {"none", "queued", "paused_on_budget"},
         \A S \in SUBSET Jobs : Returns(S) => j \notin S
  PROVE  job'[j].state = job[j].state /\ HoldersOf(j)' = {}
<1> DEFINE Same == job'[j].state = job[j].state /\ HoldersOf(j)' = {}
<1>1. ASSUME Quiet PROVE Same
  BY <1>1, SameHolders DEF Quiet, OthersSame, SameRow
<1>2. ASSUME Loses PROVE Same
  BY <1>2, LostHolders DEF Loses
<1>3. ASSUME NEW s \in Slots, Finishes(s) PROVE Same
  <2>1. j # slot[s].job
    BY <1>3, Holding DEF Finishes, AtWork
  <2> QED
    BY <1>3, <2>1, FinishedBy DEF Finishes, OthersSame, SameRow
<1>4. ASSUME NEW s \in Slots, NEW i \in Jobs, Claims(s, i) PROVE Same
  <2>1. j # i
    BY <1>4 DEF Claims
  <2> QED
    BY <1>4, <2>1, ClaimedBy DEF Claims, OthersSame, SameRow
<1>5. ASSUME NEW s \in Slots, NEW i \in Jobs, ChainsOn(s, i) PROVE Same
  BY <1>5, ChainsAside DEF ChainsOn, Inserts, OthersSame, SameRow
<1>6. ASSUME NEW q \in Requests, NEW i \in Jobs, NEW x, Opens(q, i, x) PROVE Same
  BY <1>6, SlotsStay DEF Opens, Inserts, OthersSame, SameRow
<1>7. ASSUME NEW S \in SUBSET Jobs, Returns(S) \/ Cancels(S) \/ Resumes(S) PROVE Same
  <2>1. j \notin S
    BY <1>7 DEF Cancels, Resumes
  <2> QED
    BY <1>7, <2>1, SlotsStay DEF Returns, PutsBack, Cancels, Resumes, OthersSame, SameRow
<1> HIDE DEF Same
<1>8. Same
  BY Steps, <1>1, <1>2, <1>3, <1>4, <1>5, <1>6, <1>7 DEF StepKind
<1> QED
  BY <1>8 DEF Same

\* The sweep goes on with what it has selected.
LEMMA Selecting ==
  ASSUME TypeOK, [Next]_vars, main'.pc = "sweep_update"
  PROVE  \/ SweepSelect /\ main'.todo = Stale
         \/ main.pc = "sweep_update" /\ main' = main /\ ~SweepUpdate
<1>0. main \in MainRow /\ IdleMain \in MainRow /\ IdleMain.pc = "poll"
  BY DEF TypeOK, MainTyped, IdleMain, MainRow, RunStates
<1>1. ASSUME NEW s \in Slots, SlotStep(s)
      PROVE  main' = main
  BY <1>0, <1>1 DEF SlotStep, Dequeue, CheckBudget, Spend, CheckBoundary, Fail, Succeed,
                    ChainNext, FinishJob, SlotSettleRead, SlotSettleWrite
<1>2. ASSUME NEW q \in Requests, WebStep(q)
      PROVE  main' = main
  BY <1>2 DEF WebStep, OpenRun, ShowCancel, Retry, ShowResume, Act, EnqueueJob,
              CancelJobs, CancelRun, RequeueJobs, WebSettleRead, WebSettleWrite,
              ResumeRead, ResumeRun, ResumeJobs
<1>3. ASSUME WorkerStep
      PROVE  main' = main
  BY <1>0, <1>3 DEF WorkerStep, Shutdown, Drained, Crash, Boot, Tick
<1>4. ~SweepUpdate
  <2>1. ASSUME SweepUpdate
        PROVE  main'.pc = "sweep_read"
    BY <1>0, <2>1 DEF SweepUpdate, MainRow
  <2> QED
    BY <2>1
<1>5. ~SweepWrite
  <2>1. ASSUME SweepWrite
        PROVE  main'.pc # "sweep_update"
    BY <1>0, <2>1 DEF SweepWrite, MainRow
  <2> QED
    BY <2>1
<1>6. ~DequeueNone /\ \A j \in Jobs : ~SweepRead(j)
  <2>1. ASSUME NEW j \in Jobs, SweepRead(j)
        PROVE  main'.pc = "sweep_write"
    BY <1>0, <2>1 DEF SweepRead, MainRow
  <2> QED
    BY <1>0, <2>1 DEF DequeueNone
<1>7. SweepSelect => main'.todo = Stale
  BY <1>0 DEF SweepSelect, MainRow
<1> QED
  BY <1>1, <1>2, <1>3, <1>4, <1>5, <1>6, <1>7 DEF Next, MainStep, vars

\* A person puts back what the page offered.
LEMMA Retrying ==
  ASSUME TypeOK, [Next]_vars, NEW q \in Requests, web'[q].pc = "requeue"
  PROVE  \/ /\ job' = job
            /\ \E r \in Runs : Retry(q, r) /\ web'[q].todo \subseteq Retryable(r)
         \/ web[q].pc = "requeue" /\ web'[q] = web[q] /\ ~RequeueJobs(q)
<1>0. web \in [Requests -> WebRow] /\ web[q] \in WebRow
  BY DEF TypeOK, WebTyped
<1>1. ASSUME NEW p \in Requests, p # q, WebStep(p)
      PROVE  web'[q] = web[q]
  BY <1>0, <1>1 DEF WebStep, OpenRun, ShowCancel, Retry, ShowResume, Act, EnqueueJob,
                    CancelJobs, CancelRun, RequeueJobs, WebSettleRead, WebSettleWrite,
                    ResumeRead, ResumeRun, ResumeJobs
<1>2. ASSUME NEW pc, pc # "requeue",
             \/ web' = [web EXCEPT ![q].pc = pc]
             \/ \E next : web' = [web EXCEPT ![q].pc = pc, ![q].next = next]
             \/ \E budget : web' = [web EXCEPT ![q].pc = pc, ![q].budget = budget]
      PROVE  FALSE
  BY <1>0, <1>2 DEF WebRow
<1>3. ASSUME NEW pc, pc # "requeue", NEW r, NEW kind, NEW S,
             \/ web' = [web EXCEPT ![q] = [IdleWeb EXCEPT !.pc = pc, !.run = r]]
             \/ web' = [web EXCEPT ![q] = [IdleWeb EXCEPT !.pc = pc, !.run = r,
                                                          !.kind = kind, !.todo = S]]
      PROVE  FALSE
  <2>1. [IdleWeb EXCEPT !.pc = pc, !.run = r].pc = pc
        /\ [IdleWeb EXCEPT !.pc = pc, !.run = r, !.kind = kind, !.todo = S].pc = pc
    BY IdleWebType DEF WebRow
  <2> QED
    BY <1>0, <1>3, <2>1
<1>4. ASSUME WebStep(q)
      PROVE  \E r \in Runs : Retry(q, r)
  <2>1. \A r \in Runs : ~OpenRun(q, r)
    <3>1. ASSUME NEW r \in Runs, OpenRun(q, r)
          PROVE  FALSE
      <4>1. PICK kind : web' = [web EXCEPT ![q] =
                          [IdleWeb EXCEPT !.pc = "enqueue", !.run = r, !.kind = kind,
                                          !.todo = Suppliers]]
        BY <3>1 DEF OpenRun
      <4> QED
        BY <1>3, <4>1
    <3> QED
      BY <3>1
  <2>2. \A r \in Runs : ~ShowCancel(q, r) /\ ~ShowResume(q, r)
    BY <1>3 DEF ShowCancel, ShowResume
  <2>3. ~EnqueueJob(q)
    <3>1. ASSUME EnqueueJob(q)
          PROVE  FALSE
      <4>1. PICK x \in web[q].todo :
              web' = [web EXCEPT ![q] = IF web[q].todo = {x} THEN IdleWeb
                                        ELSE [web[q] EXCEPT !.todo = @ \ {x}]]
        BY <3>1 DEF EnqueueJob
      <4>2. web[q].pc = "enqueue" /\ IdleWeb.pc = "idle"
        BY <3>1, IdleWebType DEF EnqueueJob, WebAt
      <4>3. [web[q] EXCEPT !.todo = @ \ {x}].pc = "enqueue"
        BY <1>0, <4>2 DEF WebRow
      <4> QED
        BY <1>0, <4>1, <4>2, <4>3
    <3> QED
      BY <3>1
  <2>4. ~CancelJobs(q) /\ ~RequeueJobs(q) /\ ~ResumeRun(q)
    BY <1>2 DEF CancelJobs, RequeueJobs, ResumeRun
  <2>5. ~WebSettleRead(q)
    BY <1>2 DEF WebSettleRead
  <2>6. ~ResumeRead(q)
    <3>1. ASSUME ResumeRead(q)
          PROVE  \E budget : web' = [web EXCEPT ![q].pc = "resume_run", ![q].budget = budget]
      BY <3>1 DEF ResumeRead
    <3> QED
      BY <1>2, <3>1
  <2>7. ~CancelRun(q) /\ ~WebSettleWrite(q) /\ ~ResumeJobs(q)
    <3>1. ASSUME web' = [web EXCEPT ![q] = IdleWeb]
          PROVE  FALSE
      BY <1>0, <3>1, IdleWebType
    <3> QED
      BY <3>1 DEF CancelRun, WebSettleWrite, ResumeJobs
  <2> QED
    BY <1>4, <2>1, <2>2, <2>3, <2>4, <2>5, <2>6, <2>7 DEF WebStep
<1>5. ASSUME NEW r \in Runs, Retry(q, r)
      PROVE  job' = job /\ web'[q].todo \subseteq Retryable(r)
  <2>1. PICK S \in SUBSET Retryable(r) :
          web' = [web EXCEPT ![q] = [IdleWeb EXCEPT !.pc = "requeue", !.run = r, !.todo = S]]
    BY <1>5 DEF Retry
  <2>2. [IdleWeb EXCEPT !.pc = "requeue", !.run = r, !.todo = S].todo = S
    BY IdleWebType DEF WebRow
  <2> QED
    BY <1>0, <1>5, <2>1, <2>2 DEF Retry
<1>6. ~RequeueJobs(q)
  BY <1>2 DEF RequeueJobs
<1>7. web'[q] = web[q] \/ WebStep(q)
  <2>1. \A s \in Slots : SlotStep(s) => web' = web
    BY DEF SlotStep, Dequeue, CheckBudget, Spend, CheckBoundary, Fail, Succeed, ChainNext,
           FinishJob, SlotSettleRead, SlotSettleWrite
  <2>2. MainStep => web' = web
    BY DEF MainStep, SweepSelect, SweepUpdate, SweepRead, SweepWrite, DequeueNone
  <2>3. WorkerStep => web' = web
    BY DEF WorkerStep, Shutdown, Drained, Crash, Boot, Tick
  <2> QED
    BY <1>1, <2>1, <2>2, <2>3 DEF Next, vars
<1> QED
  BY <1>4, <1>5, <1>6, <1>7

LEMMA LeasedStep ==
  ASSUME LeaseInv, [Next]_vars, NEW j \in Jobs
  PROVE  LeasedTo(j)'
<1> USE DEF LeaseInv
<1>1. ASSUME NEW S \in SUBSET Jobs, Returns(S), j \in S
      PROVE  LeasedTo(j)'
  <2>1. HoldersOf(j) = {}
    <3>1. CASE SweepUpdate /\ S = main.todo
      BY <1>1, <3>1 DEF SweepUpdate, SweepsTheLost
    <3>2. ASSUME NEW q \in Requests, RequeueJobs(q), S = web[q].todo
          PROVE  HoldersOf(j) = {}
      BY <1>1, <3>2 DEF RequeueJobs, WebAt, RetriesTheStopped, LeasedTo
    <3> QED
      BY <1>1, <3>1, <3>2 DEF Returns
  <2>2. HoldersOf(j)' = {}
    BY <1>1, <2>1, SlotsStay DEF Returns, PutsBack
  <2> QED
    BY <2>2 DEF LeasedTo
<1> QED
  BY <1>1, LeaseStep

LEMMA SweepsStep ==
  ASSUME LeaseIsSafe, LeaseInv, [Next]_vars
  PROVE  SweepsTheLost'
<1> USE DEF LeaseInv
<1> SUFFICES ASSUME main'.pc = "sweep_update", NEW j \in main'.todo
             PROVE  job'[j].state = "running" /\ HoldersOf(j)' = {}
  BY DEF SweepsTheLost
<1>1. CASE SweepSelect /\ main'.todo = Stale
  <2>1. HoldersOf(j) = {} /\ j \in Jobs /\ job[j].state = "running"
    BY <1>1, StaleUnheld DEF Stale
  <2> QED
    BY <1>1, <2>1, SlotsStay DEF SweepSelect
<1>2. CASE main.pc = "sweep_update" /\ main' = main /\ ~SweepUpdate
  <2>1. HoldersOf(j) = {} /\ job[j].state = "running"
    BY <1>2 DEF SweepsTheLost
  <2>2. j \in Jobs
    BY <1>2 DEF TypeOK, MainTyped, Exists
  <2>3. ASSUME NEW S \in SUBSET Jobs, Returns(S), j \in S
        PROVE  FALSE
    BY <1>2, <2>1, <2>3 DEF Returns, RequeueJobs, WebAt, RetriesTheStopped
  <2> QED
    BY <2>1, <2>2, <2>3, Unmoved
<1> QED
  BY <1>1, <1>2, Selecting

LEMMA RetriesStep ==
  ASSUME LeaseIsSafe, LeaseInv, [Next]_vars
  PROVE  RetriesTheStopped'
<1> USE DEF LeaseInv
<1> SUFFICES ASSUME NEW q \in Requests, web'[q].pc = "requeue"
             PROVE  /\ {"retryJob", "retryRun"} \cap Acts # {}
                    /\ \A j \in web'[q].todo : job'[j].state \in {"failed", "terminated"}
  BY DEF RetriesTheStopped
<1>0. {"retryJob", "retryRun"} \cap Acts # {}
  BY Retrying DEF Retry, Act, RetriesTheStopped
<1> SUFFICES ASSUME NEW j \in web'[q].todo
             PROVE  job'[j].state \in {"failed", "terminated"}
  BY <1>0
<1>1. ASSUME NEW r \in Runs, Retry(q, r), web'[q].todo \subseteq Retryable(r), job' = job
      PROVE  job'[j].state \in {"failed", "terminated"}
  BY <1>1, RetryableStopped
<1>2. CASE web[q].pc = "requeue" /\ web'[q] = web[q] /\ ~RequeueJobs(q)
  <2>1. j \in Jobs /\ job[j].state \in {"failed", "terminated"}
    BY <1>2 DEF RetriesTheStopped, TypeOK, WebTyped, Exists
  <2>2. HoldersOf(j) = {}
    BY <2>1 DEF LeasedTo
  <2>3. ASSUME NEW p \in Requests, RequeueJobs(p), web[p].pc = "requeue"
        PROVE  p = q
    BY <1>0 DEF LeaseIsSafe
  <2>4. ASSUME NEW S \in SUBSET Jobs, Returns(S), j \in S
        PROVE  FALSE
    BY <1>2, <2>1, <2>3, <2>4 DEF Returns, SweepUpdate, SweepsTheLost, RequeueJobs, WebAt
  <2> QED
    BY <2>1, <2>2, <2>4, Unmoved
<1> QED
  BY <1>1, <1>2, Retrying

LEMMA StrandedStep ==
  ASSUME LeaseInv, [Next]_vars
  PROVE  NoneStranded'
<1> USE DEF LeaseInv
<1> SUFFICES ASSUME MaxStops = 0, NEW j \in Jobs, job'[j].state = "running"
             PROVE  HoldersOf(j)' # {}
  BY DEF NoneStranded
<1> DEFINE Held == HoldersOf(j)' # {}
<1>0. SameRow(j) => HoldersOf(j) # {}
  BY DEF SameRow, NoneStranded
<1>1. ASSUME Quiet PROVE Held
  BY <1>0, <1>1, SameHolders DEF Quiet, OthersSame
<1>2. ~Loses
  BY BoundsNat DEF Loses, TypeOK
<1>3. ASSUME NEW s \in Slots, Finishes(s) PROVE Held
  <2>1. slot[s].out # "running"
    BY DEF TypeOK, SlotsTyped, SlotRow, Outcomes
  <2>2. j # slot[s].job
    BY <1>3, <2>1 DEF Finishes, Turns
  <2>3. s \notin HoldersOf(j)
    BY <2>2, Holding
  <2>4. SameRow(j)
    BY <1>3, <2>2 DEF Finishes, OthersSame
  <2> QED
    BY <1>0, <1>3, <2>3, <2>4, FinishedBy
<1>4. ASSUME NEW s \in Slots, NEW i \in Jobs, Claims(s, i) PROVE Held
  <2>1. CASE j = i
    BY <1>4, <2>1, ClaimedBy
  <2>2. CASE j # i
    BY <1>0, <1>4, <2>2, ClaimedBy DEF Claims, OthersSame
  <2> QED
    BY <2>1, <2>2
<1>5. ASSUME NEW s \in Slots, NEW i \in Jobs, ChainsOn(s, i) PROVE Held
  BY <1>0, <1>5, ChainsAside DEF ChainsOn, Inserts, OthersSame
<1>6. ASSUME NEW q \in Requests, NEW i \in Jobs, NEW x, Opens(q, i, x) PROVE Held
  BY <1>0, <1>6, SlotsStay DEF Opens, Inserts, OthersSame
<1>7. ASSUME NEW S \in SUBSET Jobs, Returns(S) \/ Cancels(S) \/ Resumes(S) PROVE Held
  <2>1. j \notin S
    BY <1>7 DEF Returns, PutsBack, Cancels, Resumes, Turns
  <2> QED
    BY <1>0, <1>7, <2>1, SlotsStay DEF Returns, PutsBack, Cancels, Resumes, OthersSame
<1> HIDE DEF Held
<1>8. Held
  BY Steps, <1>1, <1>2, <1>3, <1>4, <1>5, <1>6, <1>7 DEF StepKind
<1> QED
  BY <1>8 DEF Held

LEMMA LeaseInvStep ==
  ASSUME LeaseIsSafe, LeaseInv, [Next]_vars
  PROVE  LeaseInv'
<1>1. TypeOK'
  BY TypeStep DEF LeaseInv
<1>2. \A j \in Jobs : LeasedTo(j)' /\ HeardOf(j)'
  BY LeasedStep, HeardStep DEF LeaseInv
<1> QED
  BY <1>1, <1>2, SweepsStep, RetriesStep, StrandedStep DEF LeaseInv

-----------------------------------------------------------------------------
(* Every step of the queue is a step of the lease, or none of it.          *)

\* The two variables of WorkLease.
States == [j \in Jobs |-> job[j].state]
Holders == [j \in Jobs |-> HoldersOf(j)]

\* The rows outside S say what they said, and nobody has come or gone.
LEMMA StatesMove ==
  ASSUME NEW S \in SUBSET Jobs, OthersSame(S), NEW state, slot' = slot,
         \A j \in S : job'[j].state = state
  PROVE  /\ States' = [j \in Jobs |-> IF j \in S THEN state ELSE States[j]]
         /\ Holders' = Holders
<1>1. \A j \in Jobs : job'[j].state = IF j \in S THEN state ELSE job[j].state
  BY DEF OthersSame, SameRow
<1>2. \A j \in Jobs : HoldersOf(j)' = HoldersOf(j)
  BY SlotsStay
<1> QED
  BY <1>1, <1>2 DEF States, Holders

LEMMA LeaseSteps ==
  ASSUME LeaseInv, [Next]_vars
  PROVE  [Lease!Next]_(Lease!vars)
<1> DEFINE Leases == Lease!Next \/ (States' = States /\ Holders' = Holders)
<1>0. TypeOK
  BY DEF LeaseInv
<1>1. ASSUME Quiet PROVE Leases
  <2>1. \A j \in Jobs : job'[j].state = job[j].state /\ HoldersOf(j)' = HoldersOf(j)
    BY <1>1, SameHolders DEF Quiet, OthersSame, SameRow
  <2> QED
    BY <2>1 DEF States, Holders
<1>2. ASSUME Loses PROVE Leases
  <2>1. \A j \in Jobs : job'[j].state = job[j].state /\ HoldersOf(j)' = {}
    BY <1>2, LostHolders DEF Loses
  <2>2. States' = States /\ Holders' = [j \in Jobs |-> {}]
    BY <2>1 DEF States, Holders
  <2>3. Lease!Lose
    BY <2>2 DEF Lease!Lose, States, Holders
  <2> QED
    BY <2>3 DEF Lease!Next
<1>3. ASSUME NEW s \in Slots, Finishes(s) PROVE Leases
  <2>p. PICK p \in Jobs : p = slot[s].job
    BY <1>0, <1>3 DEF Finishes, TypeOK, SlotsTyped, Exists
  <2>o. PICK out : out = slot[s].out
    OBVIOUS
  <2>1. out \in Lease!Stopped \union {"done"}
    BY <1>0, <2>o DEF TypeOK, SlotsTyped, SlotRow, Outcomes, Lease!Stopped
  <2>2. s \in HoldersOf(p) /\ LeasedTo(p)
    BY <1>3, <2>p, Holding DEF Finishes, AtWork, LeaseInv
  <2>3. States[p] = "running" /\ s \in Holders[p]
    BY <2>2 DEF States, Holders, LeasedTo
  <2>4. \A j \in Jobs : /\ job'[j].state = IF j = p THEN out ELSE job[j].state
                        /\ HoldersOf(j)' = IF j = p THEN {} ELSE HoldersOf(j)
    <3> TAKE j \in Jobs
    <3>1. HoldersOf(j)' = HoldersOf(j) \ {s}
      BY <1>0, <1>3, FinishedBy
    <3>2. CASE j = p
      BY <1>3, <2>2, <2>o, <2>p, <3>1, <3>2 DEF Finishes, Turns, LeasedTo
    <3>3. CASE j # p
      <4>1. s \notin HoldersOf(j)
        BY <2>p, <3>3, Holding
      <4> QED
        BY <1>3, <2>p, <3>1, <3>3, <4>1 DEF Finishes, OthersSame, SameRow
    <3> QED
      BY <3>2, <3>3
  <2>5. /\ States' = [States EXCEPT ![p] = out]
        /\ Holders' = [Holders EXCEPT ![p] = {}]
    BY <2>4 DEF States, Holders
  <2>6. Lease!Finish(s, p, out)
    BY <2>3, <2>5 DEF Lease!Finish, States, Holders
  <2> QED
    BY <2>1, <2>6 DEF Lease!Next
<1>4. ASSUME NEW s \in Slots, NEW i \in Jobs, Claims(s, i) PROVE Leases
  <2>1. HoldersOf(i) = {}
    BY <1>4 DEF Claims, LeaseInv, LeasedTo
  <2>2. States[i] = "queued" /\ Holders[i] = {}
    BY <1>4, <2>1 DEF Claims, States, Holders
  <2>3. \A j \in Jobs : /\ job'[j].state = IF j = i THEN "running" ELSE job[j].state
                        /\ HoldersOf(j)' = IF j = i THEN {s} ELSE HoldersOf(j)
    BY <1>0, <1>4, <2>1, ClaimedBy DEF Claims, Turns, OthersSame, SameRow
  <2>4. /\ States' = [States EXCEPT ![i] = "running"]
        /\ Holders' = [Holders EXCEPT ![i] = {s}]
    BY <2>3 DEF States, Holders
  <2>5. Lease!Claim(s, i)
    BY <2>2, <2>4 DEF Lease!Claim, States, Holders
  <2> QED
    BY <2>5 DEF Lease!Next
<1>5. ASSUME NEW i \in Jobs, NEW r, NEW kind, NEW x, Inserts(i, r, kind, x),
             \A j \in Jobs : HoldersOf(j)' = HoldersOf(j)
      PROVE  Leases
  <2>1. \A j \in Jobs : job'[j].state = IF j = i THEN "queued" ELSE job[j].state
    BY <1>5 DEF Inserts, OthersSame, SameRow
  <2>2. /\ States[i] = "none" /\ Holders' = Holders
        /\ States' = [States EXCEPT ![i] = "queued"]
    BY <1>5, <2>1 DEF Inserts, States, Holders
  <2>3. Lease!Enqueue(i)
    BY <2>2 DEF Lease!Enqueue, States, Holders
  <2> QED
    BY <2>3 DEF Lease!Next
<1>6. ASSUME NEW s \in Slots, NEW i \in Jobs, ChainsOn(s, i) PROVE Leases
  <2>1. \A j \in Jobs : HoldersOf(j)' = HoldersOf(j)
    BY <1>0, <1>6, ChainsAside
  <2> HIDE DEF Leases
  <2> QED
    BY <1>5, <1>6, <2>1 DEF ChainsOn
<1>7. ASSUME NEW q \in Requests, NEW i \in Jobs, NEW x, Opens(q, i, x) PROVE Leases
  <2>1. \A j \in Jobs : HoldersOf(j)' = HoldersOf(j)
    BY <1>7, SlotsStay DEF Opens
  <2> HIDE DEF Leases
  <2> QED
    BY <1>5, <1>7, <2>1 DEF Opens
<1>8. ASSUME NEW S \in SUBSET Jobs, Returns(S) \/ Resumes(S) PROVE Leases
  <2>1. \A j \in S : /\ job[j].state \in Lease!Stopped \union {"running"}
                     /\ HoldersOf(j) = {}
    <3> SUFFICES ASSUME NEW j \in S
                 PROVE  /\ job[j].state \in Lease!Stopped \union {"running"}
                        /\ HoldersOf(j) = {}
      OBVIOUS
    <3>0. LeasedTo(j)
      BY DEF LeaseInv
    <3>1. CASE SweepUpdate /\ S = main.todo
      BY <3>1 DEF SweepUpdate, SweepsTheLost, LeaseInv
    <3>2. CASE \E q \in Requests : RequeueJobs(q) /\ S = web[q].todo
      <4>1. job[j].state \in {"failed", "terminated"}
        BY <3>2 DEF RequeueJobs, WebAt, RetriesTheStopped, LeaseInv
      <4> QED
        BY <3>0, <4>1 DEF LeasedTo, Lease!Stopped
    <3>3. CASE Resumes(S)
      BY <3>0, <3>3 DEF Resumes, LeasedTo, Lease!Stopped
    <3> QED
      BY <1>8, <3>1, <3>2, <3>3 DEF Returns
  <2>2. OthersSame(S) /\ slot' = slot /\ \A j \in S : job'[j].state = "queued"
    BY <1>8 DEF Returns, PutsBack, Resumes, Turns
  <2>3. /\ States' = [j \in Jobs |-> IF j \in S THEN "queued" ELSE States[j]]
        /\ Holders' = Holders
    BY <2>2, StatesMove
  <2>4. Lease!Return(S)
    BY <2>1, <2>3 DEF Lease!Return, States, Holders
  <2> QED
    BY <2>4 DEF Lease!Next
<1>9. ASSUME NEW S \in SUBSET Jobs, Cancels(S) PROVE Leases
  <2>1. OthersSame(S) /\ slot' = slot /\ \A j \in S : job'[j].state = "cancelled"
    BY <1>9 DEF Cancels, Turns
  <2>2. /\ States' = [j \in Jobs |-> IF j \in S THEN "cancelled" ELSE States[j]]
        /\ Holders' = Holders
    BY <2>1, StatesMove
  <2>3. Lease!Withdraw(S)
    BY <1>9, <2>2 DEF Lease!Withdraw, Cancels, States, Holders
  <2> QED
    BY <2>3 DEF Lease!Next
<1> HIDE DEF Leases
<1>10. Leases
  BY <1>0, Steps, <1>1, <1>2, <1>3, <1>4, <1>6, <1>7, <1>8, <1>9 DEF StepKind
<1> QED
  BY <1>10 DEF Leases, Lease!vars, States, Holders

\* Under LeaseIsSafe the queue leases its Jobs: no interleaving of dequeues,
\* sweeps, crashes and acts lets two slots work one Job, ends a Job its slot no
\* longer holds, or brings back a Job that was done or cancelled.
THEOREM QueueLeases == ASSUME LeaseIsSafe PROVE Spec => LeaseSpec
<1>1. Init => Lease!Init
  <2> SUFFICES ASSUME Init PROVE Lease!Init
    OBVIOUS
  <2>1. \A j \in Jobs : job[j].state = "none" /\ HoldersOf(j) = {}
    BY TypeInit, FreeUnheld DEF Init, NoRow
  <2> QED
    BY <2>1 DEF Lease!Init
<1>2. Init => LeaseInv
  BY LeaseInit
<1>3. LeaseInv /\ [Next]_vars => LeaseInv'
  BY LeaseInvStep
<1>4. LeaseInv /\ [Next]_vars => [Lease!Next]_(Lease!vars)
  BY LeaseSteps
<1> QED
  BY <1>1, <1>2, <1>3, <1>4, PTL DEF Spec, LeaseSpec, Lease!Spec
=============================================================================
