-------------------------- MODULE AgentGraphProofs --------------------------
(***************************************************************************)
(* The safety of one thread, for every set of files, every threshold and   *)
(* every budget.  The count the policy decides on never falls behind what  *)
(* was really moved, unless that can no longer matter (IInv); what is      *)
(* asked and begun stays within the budget, the request and what was       *)
(* refused (Careful); and what an approval has served, a crash half-way    *)
(* included, keeps it from serving it again (ServedInv).                   *)
(***************************************************************************)
EXTENDS AgentGraph, TLAPS, FiniteSetTheorems, SequenceTheorems

\* The tool call in progress moves files that count.
Counting == run.on /\ Cumulative(run.step)

\* Every move that was logged has been counted.
Settled == moved = mutated + unlogged

\* An approval that a crash interrupted half-way can no longer be given.
Spent == Cumulative(pending.step) /\ Stale(pending)

\* Where the stream stands when an approval is pending or a tool runs.
Places ==
    /\ Waiting => at \in {"approval", "end", "idle"}
    /\ at = "approval" => Waiting
    /\ run.on => at = (IF run.via THEN "approval" ELSE "act")
    /\ run.on /\ run.via => run.step = pending.step /\ run.left \subseteq pending.items

\* What the record of a pending approval says of its step.
Record ==
    /\ \A f \in Files : stamp[f] <= clock /\ pending.snap[f] <= clock
    /\ Waiting =>
          /\ pending.step.files \subseteq pending.items
          /\ Cumulative(pending.step) =>
                /\ ~batchRejected
                /\ pending.before + Cardinality(pending.step.files) <= pending.limit

\* What is still to be moved stays within what is allowed.
Ahead ==
    /\ limit <= granted
    /\ run.on /\ run.via /\ Cumulative(run.step) => pending.limit <= granted
    /\ Counting =>
          /\ moved = mutated + run.ok + unlogged
          /\ mutated + run.ok + Cardinality(run.left) <= Larger(Threshold, granted)
          /\ run.via /\ run.ok > 0 => Stale(pending)

\* While the request may still move files, the count is exact.
Exact ==
    /\ at = "perceive" => Settled
    /\ ~Counting /\ (at # "idle" \/ Waiting)
          => batchRejected \/ Settled \/ (Waiting /\ Spent)

IInv == Places /\ Record /\ Ahead /\ Exact /\ BulkNeedsApproval

-----------------------------------------------------------------------------
(* Types. *)

USE DEF disk, intent, planning, approvals, budget, history

\* The step at hand is one of the planner's, or none.
LEMMA StepTyped ==
    ASSUME PlanType
    PROVE  /\ Step \in StepRecords
           /\ Step = NoStep \/ (Step \in Steps /\ idx \in DOMAIN plan)
<1>1. NoStep \in StepRecords
  BY DEF NoStep, StepRecords, Tools
<1>2. \A i \in DOMAIN plan : plan[i] \in Steps
  BY ElementOfSeq DEF PlanType
<1>3. Steps \subseteq StepRecords
  BY StepsAssumption DEF StepRecords
<1>4. QED
  BY <1>1, <1>2, <1>3 DEF Step

\* What a step proposes is a number, and never less than the files it names.
LEMMA ProposedCovers ==
    ASSUME PlanType
    PROVE  /\ Proposed(Step) \in Nat
           /\ Cumulative(Step) =>
                 /\ Cardinality(Step.files) \in Nat
                 /\ Cardinality(Step.files) <= Proposed(Step)
<1> DEFINE Singles == {j \in Rest : plan[j].tool = "single"}
<1>1. Step \in StepRecords
  BY StepTyped
<1>2. IsFiniteSet(Step.files) /\ Cardinality(Step.files) \in Nat
  BY <1>1, FilesAssumption, FS_Subset, FS_CardinalityType DEF StepRecords
<1>3. IsFiniteSet(Rest)
  <2>1. idx \in Int /\ Len(plan) \in Int
    BY LenProperties DEF PlanType
  <2>2. QED
    BY <2>1, FS_Interval DEF Rest
<1>4. IsFiniteSet(Singles) /\ Cardinality(Singles) \in Nat
  BY <1>3, FS_Subset, FS_CardinalityType
<1>5. ASSUME Step.tool = "single"
      PROVE  Cardinality(Step.files) = 1 /\ Cardinality(Singles) >= 1
  <2>1. idx \in DOMAIN plan /\ Step \in Steps
    BY <1>5, StepTyped DEF NoStep
  <2>2. PICK f \in Files : Step.files = {f}
    BY <1>5, <2>1, StepsAssumption
  <2>3. idx \in Rest
    BY <2>1, LenProperties DEF Rest, PlanType
  <2>4. Singles # {}
    BY <1>5, <2>1, <2>3 DEF Step
  <2>5. Cardinality(Singles) # 0
    BY <1>4, <2>4, FS_EmptySet
  <2>6. QED
    BY <1>4, <2>2, <2>5, FS_Singleton
<1>6. QED
  BY <1>2, <1>4, <1>5 DEF Proposed, Cumulative

\* The routing tables end in nodes of the graph.
LEMMA RouteTyped ==
    \A st, d : AfterReflect(st, d) \in {"end", "planning", "act"}
  BY DEF AfterReflect

\* The values the fields are reset to.
LEMMA ResetTyped ==
    ASSUME TRUE
    PROVE  /\ NoStep \in StepRecords
           /\ NoPending \in PendingRecords
           /\ NoBatch \in BatchRecords
           /\ NoRun \in RunRecords
<1>1. NoStep \in StepRecords
  BY DEF NoStep, StepRecords, Tools
<1>2. QED
  BY <1>1 DEF NoPending, NoBatch, NoRun, Absent, PendingRecords, BatchRecords,
            RunRecords

\* A file leaves the work list, whether it counts as moved or not.
LEMMA RunUpdate ==
    \A r \in RunRecords, f \in Files, n \in Nat :
        LET h == Handled(r, f, n)
        IN  /\ h \in RunRecords
            /\ h.on = r.on /\ h.via = r.via /\ h.step = r.step
            /\ h.left = r.left \ {f} /\ h.ok = r.ok + n
<1> SUFFICES ASSUME NEW r \in RunRecords, NEW f \in Files, NEW n \in Nat
             PROVE  LET h == Handled(r, f, n)
                    IN  /\ h \in RunRecords
                        /\ h.on = r.on /\ h.via = r.via /\ h.step = r.step
                        /\ h.left = r.left \ {f} /\ h.ok = r.ok + n
  OBVIOUS
<1>1. r.left \ {f} \in SUBSET Files /\ r.ok + n \in Nat
  BY DEF RunRecords
<1>2. QED
  BY <1>1 DEF Handled, RunRecords

\* A count moves by one at most.
LEMMA CountUpdate ==
    ASSUME NEW n \in Nat, NEW P
    PROVE  n + (IF P THEN 1 ELSE 0) \in Nat
  OBVIOUS

\* A new thread is well formed.
LEMMA TypeInit == Init => TypeOK
<1> SUFFICES ASSUME Init PROVE TypeOK
  OBVIOUS
<1>1. DiskType /\ IntentType /\ OutcomeType /\ BudgetType /\ CountType
  BY DEF Init, DiskType, IntentType, OutcomeType, BudgetType, CountType,
         Statuses, Outcomes
<1>2. PlanType
  BY EmptySeq DEF Init, PlanType
<1>3. PendingType /\ BatchType /\ RunType
  BY ResetTyped DEF Init, PendingType, BatchType, RunType, Nodes
<1>4. FlagType
  BY DEF Init, FlagType
<1>5. QED
  BY <1>1, <1>2, <1>3, <1>4 DEF TypeOK

\* Flags are only ever set and reset.
LEMMA FlagNext == FlagType /\ [Next]_vars => FlagType'
<1> SUFFICES ASSUME FlagType, [Next]_vars PROVE FlagType'
  OBVIOUS
<1> USE DEF FlagType
<1>1. CASE UNCHANGED vars
  BY <1>1 DEF vars
<1>2a. CASE Start
  BY <1>2a DEF Start
<1>2b. CASE Perceive \/ BudgetStop \/ StreamEnd \/ Cancel
  BY <1>2b DEF Perceive, BudgetStop, StreamEnd, Cancel
<1>2c. CASE Planning
  BY <1>2c DEF Planning, PlanSteps, PlanEmpty, PlanError
<1>3. CASE Act
  BY <1>3 DEF Act, Observe, ActClarify, ActDenied, ActBatchRejected,
              ActNotCovered, ActStaleReference, ActRefusedBefore, Ask, ActBegin
<1>4. CASE Tool
  <2>1. CASE \E f \in Files : FileDone(f) \/ FileUnlogged(f) \/ FileFailed(f)
    BY <2>1 DEF FileDone, FileUnlogged, FileFailed
  <2>2. CASE \E n \in 0 .. MaxInner : ToolReturn(n)
    <3>1. PICK n \in 0 .. MaxInner : ToolReturn(n)
      BY <2>2
    <3>2. batchApproved' \in {batchApproved, TRUE}
      BY <3>1 DEF ToolReturn
    <3>3. observed' = TRUE /\ UNCHANGED <<scopeLapsed, batchRejected,
                                         approvalLapsed, overtime>>
      BY <3>1 DEF ToolReturn
    <3>4. QED
      BY <3>2, <3>3
  <2>3. QED
    BY <1>4, <2>1, <2>2 DEF Tool
<1>5. CASE Approval
  BY <1>5 DEF Approval, Interrupt, ApprovalTurnedDown, ApprovalBegin
<1>6. CASE Reflect
  BY <1>6 DEF Reflect, ReflectSkip, ReflectGoOn, ReflectDone, ReflectError
<1>7. CASE \E a \in {"approve", "reject"} : Respond(a)
  BY <1>7 DEF Respond
<1>8. CASE Environment
  BY <1>8 DEF Environment, Edit, ScopeLapse, ApprovalLapse, Overtime, Crash
<1>9. QED
  BY <1>1, <1>2a, <1>2b, <1>2c, <1>3, <1>4, <1>5, <1>6, <1>7, <1>8
  DEF Next, Graph, User

\* All the other fields, action by action.
DataType ==
    /\ DiskType /\ IntentType /\ OutcomeType /\ PlanType /\ PendingType
    /\ BatchType /\ BudgetType /\ RunType /\ CountType

\* Each action keeps the types.
LEMMA DataNext == DataType /\ [Next]_vars => DataType'
<1> SUFFICES ASSUME DataType, [Next]_vars PROVE DataType'
  OBVIOUS
<1> USE ResetTyped, RouteTyped
        DEF DataType, DiskType, IntentType, OutcomeType, PlanType, PendingType,
            BatchType, BudgetType, RunType, CountType, Nodes
<1>s. Step \in StepRecords /\ Proposed(Step) \in Nat
  BY StepTyped, ProposedCovers
<1>1. CASE Start
  BY <1>1, EmptySeq DEF Start, Statuses, Outcomes
<1>2. CASE Perceive
  BY <1>2, EmptySeq, SMTT(30) DEF Perceive, Statuses, Outcomes
<1>3. CASE BudgetStop
  BY <1>3 DEF BudgetStop, EndAs, Statuses, Outcomes
<1>4. CASE Planning
  <2>1. ASSUME NEW p \in Plans, PlanSteps(p) PROVE DataType'
    <3>1. p \in Seq(Steps)
      BY <2>1, BoundsAssumption DEF Plans
    <3>2. QED
      BY <2>1, <3>1, SMTT(30) DEF PlanSteps, Statuses
  <2>2. ASSUME NEW o \in DoneOutcomes, PlanEmpty(o) PROVE DataType'
    BY <2>2, EmptySeq, SMTT(30) DEF PlanEmpty, StatusOf, DoneOutcomes, Statuses, Outcomes
  <2>3. CASE PlanError
    BY <2>3, EmptySeq, SMTT(30) DEF PlanError, DoneOutcomes, Statuses, Outcomes
  <2>4. QED
    BY <1>4, <2>1, <2>2, <2>3 DEF Planning
<1>5. CASE Act
  <2>1. CASE ActClarify
    BY <2>1, EmptySeq, SMTT(30) DEF ActClarify, EndAs, Statuses, Outcomes
  <2>2. CASE Observe
    BY <2>2, SMTT(30) DEF Observe, Statuses
  <2>3. CASE Ask
    <3>1. PendingType'
      <4>1. Step.files \subseteq Files
        BY <1>s DEF StepRecords
      <4>2. Sources \subseteq Files
        BY ElementOfSeq, LenProperties, StepsAssumption DEF Sources, Rest
      <4>3. PICK covered \in SUBSET Files :
               pending' = [id |-> lastId + 1, request |-> request, step |-> Step,
                           sources |-> covered, items |-> Step.files \cup covered,
                           snap |-> stamp, before |-> mutated,
                           limit |-> mutated + Proposed(Step)]
        BY <2>3, <4>2 DEF Ask
      <4>4. /\ lastId + 1 \in Nat /\ request \in Nat /\ mutated \in Nat
            /\ mutated + Proposed(Step) \in Nat
            /\ Step.files \cup covered \in SUBSET Files /\ stamp \in [Files -> Nat]
        BY <1>s, <4>1
      <4>5. QED
        BY <1>s, <4>3, <4>4, ZenonT(30) DEF PendingRecords
    <3>2. BatchType' /\ OutcomeType' /\ RunType'
      BY <2>3, SMTT(30) DEF Ask, Statuses
    <3>3. QED
      BY <2>3, <3>1, <3>2 DEF Ask
  <2>4. CASE ActBegin
    BY <2>4, <1>s DEF ActBegin, StepRecords, RunRecords
  <2>5. QED
    BY <1>5, <2>1, <2>2, <2>3, <2>4
    DEF Act, ActDenied, ActBatchRejected, ActNotCovered, ActStaleReference,
        ActRefusedBefore
<1>6. CASE Tool
  <2>1. ASSUME NEW f \in Files, FileDone(f) PROVE DataType'
    <3>1. DiskType'
      BY <2>1 DEF FileDone, FileGone, Absent
    <3>2. RunType'
      <4>1. run' \in RunRecords
        <5>1. run' = Handled(run, f, 1)
          BY <2>1 DEF FileDone
        <5>2. QED
          BY <5>1, RunUpdate
      <4>2. QED
        BY <2>1, <4>1 DEF FileDone
    <3>3. CountType'
      <4>1. Serving(f) \in Nat \X Files
        BY DEF Serving, PendingRecords, BatchRecords
      <4>2. QED
        BY <2>1, <4>1, CountUpdate DEF FileDone, FileGone
    <3>4. QED
      BY <2>1, <3>1, <3>2, <3>3 DEF FileDone
  <2>2. ASSUME NEW f \in Files, FileUnlogged(f) PROVE DataType'
    <3>1. DiskType'
      BY <2>2 DEF FileUnlogged, FileGone, Absent
    <3>2. RunType'
      <4>1. run' \in RunRecords
        <5>1. run' = Handled(run, f, 0)
          BY <2>2 DEF FileUnlogged
        <5>2. QED
          BY <5>1, RunUpdate
      <4>2. QED
        BY <2>2, <4>1 DEF FileUnlogged
    <3>3. CountType'
      <4>1. Serving(f) \in Nat \X Files
        BY DEF Serving, PendingRecords, BatchRecords
      <4>2. QED
        BY <2>2, <4>1, CountUpdate DEF FileUnlogged, FileGone
    <3>4. QED
      BY <2>2, <3>1, <3>2, <3>3 DEF FileUnlogged
  <2>3. ASSUME NEW f \in Files, FileFailed(f) PROVE DataType'
    BY <2>3, RunUpdate DEF FileFailed
  <2>4. ASSUME NEW n \in 0 .. MaxInner, ToolReturn(n) PROVE DataType'
    <3>0. RunType' /\ OutcomeType' /\ PlanType'
      BY <2>4 DEF ToolReturn, Statuses
    <3>1. BudgetType' /\ CountType'
      <4>1. run.ok \in Nat
        BY DEF RunRecords
      <4>2. mutated' \in {mutated, mutated + run.ok}
        BY <2>4 DEF ToolReturn
      <4>3. QED
        BY <2>4, <4>1, <4>2, BoundsAssumption DEF ToolReturn
    <3>2. PendingType'
      BY <2>4, SMTT(30) DEF ToolReturn, UseUp
    <3>3. BatchType'
      <4>1. \A b \in BatchRecords :
               MarkDone(b, run.step) \in BatchRecords
        BY DEF MarkDone, StepRecords, BatchRecords, RunRecords
      <4>2. [id |-> pending.id, done |-> {}, sources |-> pending.sources]
               \in BatchRecords
        BY DEF BatchRecords, PendingRecords
      <4>3. batch' \in BatchRecords
        <5>1. \/ batch' = MarkDone([id |-> pending.id, done |-> {},
                                     sources |-> pending.sources], run.step)
              \/ batch' = MarkDone(batch, run.step)
              \/ batch' = batch
          BY <2>4 DEF ToolReturn
        <5>2. QED
          BY <4>1, <4>2, <5>1
      <4>4. limit' \in Nat /\ consumed' \subseteq Nat
        <5>1. limit' \in {limit, Larger(limit, pending.limit)}
          BY <2>4 DEF ToolReturn
        <5>2. consumed' \in {consumed, consumed \cup {pending.id}}
          BY <2>4 DEF ToolReturn, UseUp
        <5>3. QED
          BY <5>1, <5>2 DEF Larger, PendingRecords
      <4>5. QED
        BY <2>4, <4>3, <4>4 DEF ToolReturn
    <3>4. QED
      BY <2>4, <3>0, <3>1, <3>2, <3>3 DEF ToolReturn
  <2>5. QED
    BY <1>6, <2>1, <2>2, <2>3, <2>4 DEF Tool
<1>7. CASE Approval
  <2>1. CASE Interrupt
    BY <2>1 DEF Interrupt
  <2>2. CASE ApprovalTurnedDown
    <3>1. OutcomeType' /\ PlanType' /\ PendingType' /\ RunType'
      BY <2>2, SMTT(30) DEF ApprovalTurnedDown, UseUp, Statuses
    <3>2. BatchType'
      <4>1. /\ consumed' = consumed \cup {pending.id}
            /\ refused' = refused \cup {pending.step}
            /\ UNCHANGED <<batch, limit, lastId>>
        BY <2>2 DEF ApprovalTurnedDown, UseUp
      <4>2. pending.id \in Nat /\ pending.step \in StepRecords
        BY DEF PendingRecords
      <4>3. QED
        BY <4>1, <4>2
    <3>3. QED
      BY <2>2, <3>1, <3>2 DEF ApprovalTurnedDown
  <2>3. CASE ApprovalBegin
    BY <2>3 DEF ApprovalBegin, Larger, StepRecords, PendingRecords, RunRecords
  <2>4. QED
    BY <1>7, <2>1, <2>2, <2>3 DEF Approval
<1>8. CASE Reflect
  <2>1. CASE ReflectSkip
    BY <2>1 DEF ReflectSkip
  <2>2. ASSUME NEW d \in {"continue", "replan", "done"}, ReflectGoOn(d)
        PROVE  DataType'
    BY <2>2, SMTT(30) DEF ReflectGoOn, Ruling, Statuses
  <2>3. ASSUME NEW d \in {"continue", "replan", "done"},
               NEW o \in DoneOutcomes, ReflectDone(d, o)
        PROVE  DataType'
    BY <2>3, SMTT(30) DEF ReflectDone, StatusOf, DoneOutcomes, Statuses, Outcomes
  <2>4. CASE ReflectError
    BY <2>4, SMTT(30) DEF ReflectError, DoneOutcomes, Statuses, Outcomes
  <2>5. QED
    BY <1>8, <2>1, <2>2, <2>3, <2>4 DEF Reflect
<1>9. CASE StreamEnd
  BY <1>9 DEF StreamEnd
<1>10. CASE Cancel
  BY <1>10 DEF Cancel, EndAs, Statuses, Outcomes
<1>11. ASSUME NEW a \in {"approve", "reject"}, Respond(a) PROVE DataType'
  BY <1>11 DEF Respond
<1>12. ASSUME NEW f \in Files, Edit(f) PROVE DataType'
  <2>1. DiskType'
    <3>1. \/ stamp' = [stamp EXCEPT ![f] = clock + 1]
          \/ stamp' = [stamp EXCEPT ![f] = Absent]
      BY <1>12 DEF Edit
    <3>2. clock' = clock + 1
      BY <1>12 DEF Edit
    <3>3. QED
      <4>1. clock + 1 \in Nat /\ Absent \in Nat
        BY DEF Absent
      <4>2. stamp' \in [Files -> Nat]
        BY <3>1, <4>1, Zenon
      <4>3. QED
        BY <3>2, <4>1, <4>2
  <2>2. QED
    BY <1>12, <2>1 DEF Edit
<1>13. CASE ScopeLapse \/ ApprovalLapse \/ Overtime \/ Crash
  <2>1. CASE ScopeLapse
    BY <2>1 DEF ScopeLapse
  <2>2. CASE ApprovalLapse
    BY <2>2 DEF ApprovalLapse
  <2>3. CASE Overtime
    BY <2>3 DEF Overtime
  <2>4. CASE Crash
    BY <2>4 DEF Crash
  <2>5. QED
    BY <1>13, <2>1, <2>2, <2>3, <2>4
<1>14. CASE UNCHANGED vars
  BY <1>14 DEF vars
<1>15. QED
  BY <1>1, <1>2, <1>3, <1>4, <1>5, <1>6, <1>7, <1>8, <1>9, <1>10, <1>11, <1>12,
     <1>13, <1>14
  DEF Next, Graph, User, Environment

\* TypeOK holds in every behaviour: what the checkpoint stores is well formed,
\* whatever order the handlers, the crashes and the edits come in.
THEOREM TypeCorrect == Spec => []TypeOK
<1>1. TypeOK /\ [Next]_vars => TypeOK'
  BY FlagNext, DataNext DEF TypeOK, DataType
<1>2. QED
  BY TypeInit, <1>1, PTL DEF Spec

-----------------------------------------------------------------------------
(* The bound on what one request moves. *)

\* Steps that only take the stream to another node.
Still == UNCHANGED <<stamp, clock, pending, batchRejected, mutated, limit, run,
                     moved, unlogged, granted>>

\* Such a step keeps the invariant, wherever it may lead from there.
LEMMA StillKeeps ==
    ASSUME IInv, Still,
           run.on => at' = at,
           Waiting => at' \in {"approval", "end", "idle"},
           at' = "approval" => Waiting,
           at' = "perceive" => at = "perceive",
           at' # "idle" => at # "idle" \/ Waiting
    PROVE  IInv'
<1> USE DEF IInv, Still
<1>0. Waiting' = Waiting /\ Stale(pending)' = Stale(pending)
        /\ Counting' = Counting /\ Settled' = Settled /\ Spent' = Spent
  BY DEF Waiting, Stale, Counting, Settled, Spent
<1>1. Places'
  BY <1>0 DEF Places
<1>2. Record'
  BY <1>0 DEF Record
<1>3. Ahead'
  BY <1>0 DEF Ahead
<1>4. Exact'
  BY <1>0 DEF Exact
<1>5. BulkNeedsApproval'
  BY DEF BulkNeedsApproval
<1>6. QED
  BY <1>1, <1>2, <1>3, <1>4, <1>5

\* A new thread has nothing to count.
LEMMA InvInit == Init => IInv
<1> SUFFICES ASSUME Init PROVE IInv
  OBVIOUS
<1>1. ~Waiting /\ ~run.on /\ ~Counting
  BY DEF Init, Waiting, NoPending, NoRun, Counting
<1>2. Places
  BY <1>1 DEF Places, Init
<1>3. Record
  BY <1>1 DEF Record, Init, NoPending, Absent
<1>4. Ahead
  BY <1>1 DEF Ahead, Init
<1>5. Exact
  BY <1>1 DEF Exact, Init, Settled
<1>6. BulkNeedsApproval
  BY BoundsAssumption DEF BulkNeedsApproval, Init, Larger
<1>7. QED
  BY <1>2, <1>3, <1>4, <1>5, <1>6 DEF IInv

\* A new message starts from nothing.
LEMMA InvStart == DataType /\ IInv /\ Start => IInv'
<1> SUFFICES ASSUME DataType, IInv, Start PROVE IInv'
  OBVIOUS
<1>1. ~Waiting' /\ ~run'.on /\ ~Counting'
  BY DEF Start, Waiting, Counting, IInv, Places
<1>2. Places'
  BY <1>1 DEF Places, Start
<1>3. Record'
  BY <1>1 DEF Record, Start, IInv
<1>4. Ahead'
  BY <1>1 DEF Ahead, Start
<1>5. Exact'
  BY <1>1 DEF Exact, Start, Settled
<1>6. BulkNeedsApproval'
  BY BoundsAssumption DEF BulkNeedsApproval, Start, Larger
<1>7. QED
  BY <1>2, <1>3, <1>4, <1>5, <1>6 DEF IInv

\* Perceiving drops the approvals but not the counts.
LEMMA InvPerceive == DataType /\ IInv /\ Perceive => IInv'
<1> SUFFICES ASSUME DataType, IInv, Perceive PROVE IInv'
  OBVIOUS
<1>1. ~run'.on /\ ~Counting' /\ UNCHANGED <<stamp, clock, mutated, limit, run,
                                            moved, unlogged, granted>>
        /\ pending' = NoPending /\ at' = "planning" /\ Settled
  BY DEF Perceive, Counting, IInv, Places, Exact
<1>2. ~Waiting'
  BY <1>1 DEF Waiting, NoPending
<1>3. Places'
  BY <1>1, <1>2 DEF Places
<1>4. Record'
  BY <1>1, <1>2 DEF Record, IInv, NoPending, Absent, DataType, DiskType
<1>5. Ahead'
  BY <1>1 DEF Ahead, IInv
<1>6. Exact'
  BY <1>1 DEF Exact, Settled
<1>7. BulkNeedsApproval'
  BY <1>1 DEF BulkNeedsApproval, IInv
<1>8. QED
  BY <1>3, <1>4, <1>5, <1>6, <1>7 DEF IInv

\* A run that stops leaves no approval behind.
LEMMA InvEnd == DataType /\ IInv /\ (BudgetStop \/ ActClarify \/ Cancel) => IInv'
<1> SUFFICES ASSUME DataType, IInv, BudgetStop \/ ActClarify \/ Cancel PROVE IInv'
  OBVIOUS
<1>1. /\ ~run.on
      /\ UNCHANGED <<stamp, clock, mutated, limit, run, moved, unlogged, granted,
                     batchRejected>>
      /\ pending' = NoPending
  BY DEF BudgetStop, ActClarify, Cancel, EndAs, Acting
<1>2. \/ at \in {"planning", "act", "reflecting"}
            /\ at' \in {"reflecting", "end", "planning", "act"}
      \/ at' = "idle"
  BY RouteTyped DEF BudgetStop, ActClarify, Cancel, EndAs, Acting
<1>3. ~Waiting' /\ ~Counting' /\ ~Counting
  BY <1>1 DEF Waiting, NoPending, Counting
<1>4. Places'
  BY <1>1, <1>2, <1>3 DEF Places
<1>5. Record'
  BY <1>1, <1>3 DEF Record, IInv, NoPending, Absent, DataType, DiskType
<1>6. Ahead'
  BY <1>1, <1>3 DEF Ahead, IInv
<1>7. Exact'
  BY <1>1, <1>2, <1>3 DEF Exact, IInv, Places, Settled
<1>8. BulkNeedsApproval'
  BY <1>1 DEF BulkNeedsApproval, IInv
<1>9. QED
  BY <1>4, <1>5, <1>6, <1>7, <1>8 DEF IInv

\* Asking: the record allows for every file its own step names.
LEMMA InvAsk == DataType /\ IInv /\ Ask => IInv'
<1> SUFFICES ASSUME DataType, IInv, Ask PROVE IInv'
  OBVIOUS
<1> DEFINE covered == IF Cumulative(Step) THEN Sources ELSE {}
<1>1. /\ UNCHANGED <<stamp, clock, mutated, limit, run, moved, unlogged, granted,
                     batchRejected>>
      /\ pending' = [id |-> lastId + 1, request |-> request, step |-> Step,
                     sources |-> covered, items |-> Step.files \cup covered,
                     snap |-> stamp, before |-> mutated,
                     limit |-> mutated + Proposed(Step)]
      /\ at = "act" /\ at' = "approval" /\ ~run.on
      /\ Cumulative(Step) => ~batchRejected
  BY DEF Ask, Cleared, Acting
<1>2. lastId \in Nat /\ mutated \in Nat
  BY DEF DataType, BatchType, CountType
<1>3. Waiting' /\ ~Waiting /\ ~Counting /\ ~Counting'
  BY <1>1, <1>2 DEF Waiting, Counting, IInv, Places
<1>4. Places'
  BY <1>1, <1>3 DEF Places
<1>5. Record'
  <2>1. Step.files \subseteq pending'.items
    BY <1>1
  <2>2. ASSUME Cumulative(Step)
        PROVE  mutated + Cardinality(Step.files) <= mutated + Proposed(Step)
    BY <1>2, <2>2, ProposedCovers DEF DataType
  <2>3. QED
    BY <1>1, <2>1, <2>2 DEF Record, IInv
<1>6. Ahead'
  BY <1>1, <1>3 DEF Ahead, IInv
<1>7. Exact'
  BY <1>1, <1>3 DEF Exact, IInv, Settled
<1>8. BulkNeedsApproval'
  BY <1>1 DEF BulkNeedsApproval, IInv
<1>9. QED
  BY <1>4, <1>5, <1>6, <1>7, <1>8 DEF IInv

\* A step that begins without asking fits under the threshold or the limit.
LEMMA InvActBegin == DataType /\ IInv /\ ActBegin => IInv'
<1> SUFFICES ASSUME DataType, IInv, ActBegin PROVE IInv'
  OBVIOUS
<1>1. /\ UNCHANGED <<stamp, clock, pending, mutated, limit, moved, unlogged,
                     granted, batchRejected, at>>
      /\ run' = [on |-> TRUE, step |-> Step, ok |-> 0, via |-> FALSE,
                 left |-> IF Cumulative(Step) THEN Step.files ELSE {}]
      /\ at = "act" /\ ~run.on /\ ~NeedsApproval(Step)
      /\ Cumulative(Step) => ~batchRejected
  BY DEF ActBegin, Cleared, Acting
<1>2. /\ ~Waiting /\ ~Waiting' /\ ~Counting /\ (Counting' => Cumulative(Step))
      /\ Settled' = Settled
  <2>1. ~Waiting /\ ~Counting
    BY <1>1 DEF IInv, Places, Counting
  <2>2. ~Waiting'
    BY <1>1, <2>1 DEF Waiting
  <2>3. Counting' => Cumulative(Step)
    <3>1. run'.step = Step
      BY <1>1
    <3>2. QED
      BY <3>1 DEF Counting, Cumulative
  <2>4. QED
    BY <1>1, <2>1, <2>2, <2>3 DEF Settled
<1>3. Places'
  BY <1>1, <1>2 DEF Places
<1>4. Record'
  BY <1>1, <1>2 DEF Record, IInv
<1>5. Ahead'
  <2>1. ASSUME Cumulative(Step)
        PROVE  /\ moved = mutated + unlogged
               /\ mutated + Cardinality(Step.files) <= Larger(Threshold, granted)
    <3>1. Settled
      BY <1>1, <1>2, <2>1 DEF IInv, Exact
    <3>2. \/ mutated + Proposed(Step) <= Threshold
          \/ mutated + Proposed(Step) <= limit
      BY <1>1, <2>1, ProposedCovers, BoundsAssumption
      DEF NeedsApproval, DataType, CountType, BatchType
    <3>3. mutated + Cardinality(Step.files) <= mutated + Proposed(Step)
      BY <2>1, ProposedCovers DEF DataType, CountType
    <3>4. Cardinality(Step.files) \in Nat /\ Proposed(Step) \in Nat
      BY <2>1, ProposedCovers DEF DataType
    <3>5. QED
      BY <3>1, <3>2, <3>3, <3>4, BoundsAssumption
      DEF Settled, IInv, Ahead, Larger, DataType, CountType, BatchType
  <2>2. QED
    BY <1>1, <1>2, <2>1 DEF Ahead, IInv, Counting, DataType, CountType
<1>6. Exact'
  BY <1>1, <1>2 DEF Exact, IInv, Spent
<1>7. BulkNeedsApproval'
  BY <1>1 DEF BulkNeedsApproval, IInv
<1>8. QED
  BY <1>3, <1>4, <1>5, <1>6, <1>7 DEF IInv

\* An approval that verifies was not interrupted half-way: its count is exact.
LEMMA InvApprovalBegin == DataType /\ IInv /\ ApprovalBegin => IInv'
<1> SUFFICES ASSUME DataType, IInv, ApprovalBegin PROVE IInv'
  OBVIOUS
<1>1. /\ UNCHANGED <<stamp, clock, pending, mutated, limit, moved, unlogged,
                     batchRejected, at>>
      /\ run' = [on |-> TRUE, step |-> pending.step, left |-> pending.step.files,
                 ok |-> 0, via |-> TRUE]
      /\ granted' = IF Cumulative(pending.step)
                    THEN Larger(granted, pending.limit) ELSE granted
      /\ at = "approval" /\ ~run.on
      /\ pending.before = mutated /\ ~Stale(pending)
  BY DEF ApprovalBegin, Verified
<1>2. /\ Waiting /\ Waiting' /\ ~Counting /\ ~Spent
      /\ Counting' = Cumulative(pending.step)
      /\ Settled' = Settled /\ Spent' = Spent
  <2>1. Waiting /\ ~Counting
    BY <1>1 DEF IInv, Places, Counting
  <2>2. Waiting'
    BY <1>1, <2>1 DEF Waiting
  <2>3. Counting' = Cumulative(pending.step)
    <3>1. run'.step = pending.step /\ run'.on
      BY <1>1
    <3>2. QED
      BY <3>1 DEF Counting, Cumulative
  <2>4. Stale(pending)' = Stale(pending)
    BY <1>1 DEF Stale
  <2>5. Spent' = Spent /\ ~Spent
    BY <1>1, <2>4 DEF Spent
  <2>6. QED
    BY <1>1, <2>1, <2>2, <2>3, <2>5 DEF Settled
<1>3. pending.limit \in Nat /\ granted' \in Nat /\ granted <= granted'
  BY <1>1 DEF Larger, DataType, PendingType, PendingRecords, CountType
<1>4. Places'
  BY <1>1, <1>2 DEF Places, IInv, Record
<1>5. Record'
  BY <1>1, <1>2 DEF Record, IInv
<1>6. Ahead'
  <2>1. limit' <= granted'
    BY <1>1, <1>3 DEF IInv, Ahead, DataType, BatchType, CountType
  <2>2. ASSUME Cumulative(pending.step)
        PROVE  /\ moved = mutated + unlogged
               /\ pending.limit <= granted'
               /\ mutated + Cardinality(pending.step.files)
                     <= Larger(Threshold, granted')
    <3>1. ~batchRejected /\ Settled
      BY <1>1, <1>2, <2>2 DEF IInv, Exact, Record
    <3>2. pending.limit <= granted'
      BY <1>1, <1>3, <2>2 DEF Larger, DataType, CountType
    <3>3. mutated + Cardinality(pending.step.files) <= pending.limit
      BY <1>1, <1>2, <2>2 DEF IInv, Record
    <3>4. Cardinality(pending.step.files) \in Nat
      BY FilesAssumption, FS_Subset, FS_CardinalityType
      DEF DataType, PendingType, PendingRecords, StepRecords
    <3>5. QED
      BY <1>3, <3>1, <3>2, <3>3, <3>4, BoundsAssumption
      DEF Settled, Larger, DataType, CountType
  <2>3. QED
    BY <1>1, <1>2, <2>1, <2>2 DEF Ahead, Counting, DataType, CountType
<1>7. Exact'
  BY <1>1, <1>2 DEF Exact, IInv
<1>8. BulkNeedsApproval'
  BY <1>1, <1>3, BoundsAssumption
  DEF BulkNeedsApproval, IInv, Larger, DataType, CountType
<1>9. QED
  BY <1>4, <1>5, <1>6, <1>7, <1>8 DEF IInv

\* A file that was taken away makes the approval naming it stale, for good.
LEMMA GoneIsStale ==
    ASSUME NEW f \in Files, DataType,
           stamp' = stamp \/ stamp' = [stamp EXCEPT ![f] = Absent],
           UNCHANGED pending
    PROVE  /\ Stale(pending) => Stale(pending)'
           /\ stamp'[f] = Absent /\ f \in pending.items => Stale(pending)'
<1>1. stamp \in [Files -> Nat] /\ pending.items \subseteq Files
  BY DEF DataType, DiskType, PendingType, PendingRecords
<1>2. CASE stamp' = stamp
  BY <1>1, <1>2 DEF Stale
<1>3. CASE stamp' = [stamp EXCEPT ![f] = Absent]
  <2>1. \A g \in Files : stamp'[g] = IF g = f THEN Absent ELSE stamp[g]
    BY <1>1, <1>3
  <2>2. QED
    BY <1>1, <2>1 DEF Stale
<1>4. QED
  BY <1>2, <1>3

\* One file of the work list is handled: n are counted, u moved but not logged.
FileStep(f, n, u) ==
    /\ run.on /\ f \in run.left
    /\ run' = Handled(run, f, n)
    /\ stamp' = stamp \/ stamp' = [stamp EXCEPT ![f] = Absent]
    /\ n = 1 => stamp'[f] = Absent
    /\ unlogged' = unlogged + (IF Cumulative(run.step) THEN u ELSE 0)
    /\ moved' = moved + (IF Cumulative(run.step) THEN n + u ELSE 0)
    /\ UNCHANGED <<clock, pending, batchRejected, mutated, limit, granted, at>>

\* The three ways a file can be handled, as one.
LEMMA FileSteps ==
    ASSUME NEW f \in Files, DataType,
           FileDone(f) \/ FileUnlogged(f) \/ FileFailed(f)
    PROVE  FileStep(f, 1, 0) \/ FileStep(f, 0, 1) \/ FileStep(f, 0, 0)
<1>1. CASE FileDone(f)
  <2>1. stamp'[f] = Absent /\ unlogged' = unlogged + 0
        /\ (1 + 0 = 1) /\ UNCHANGED unlogged
    BY <1>1 DEF FileDone, FileGone, DataType, DiskType, CountType
  <2>2. QED
    BY <1>1, <2>1 DEF FileDone, FileGone, FileStep
<1>2. CASE FileUnlogged(f)
  BY <1>2 DEF FileUnlogged, FileGone, FileStep
<1>3. CASE FileFailed(f)
  <2>1. moved' = moved + 0 /\ unlogged' = unlogged + 0 /\ (0 + 0 = 0)
    BY <1>3 DEF FileFailed, DataType, CountType
  <2>2. QED
    BY <1>3, <2>1 DEF FileFailed, FileStep
<1>4. QED
  BY <1>1, <1>2, <1>3

\* Each file handled leaves one less to be moved.
LEMMA InvFile ==
    ASSUME DataType, IInv, NEW f \in Files, NEW n \in {0, 1}, NEW u \in {0, 1},
           n + u <= 1, FileStep(f, n, u)
    PROVE  IInv'
<1>1. /\ run \in RunRecords /\ pending \in PendingRecords
      /\ stamp \in [Files -> Nat] /\ clock \in Nat
      /\ mutated \in Nat /\ moved \in Nat /\ unlogged \in Nat /\ granted \in Nat
  BY DEF DataType, RunType, PendingType, DiskType, CountType
<1>2. /\ run'.on = run.on /\ run'.via = run.via /\ run'.step = run.step
      /\ run'.left = run.left \ {f} /\ run'.ok = run.ok + n
  <2>1. n \in Nat /\ run' = Handled(run, f, n)
    BY DEF FileStep
  <2>2. QED
    BY <1>1, <2>1, RunUpdate
<1>3. /\ run.on /\ f \in run.left
      /\ UNCHANGED <<clock, pending, batchRejected, mutated, limit, granted, at>>
  BY DEF FileStep
<1>4. Waiting' = Waiting /\ Counting' = Counting /\ (Counting <=> Cumulative(run.step))
  BY <1>2, <1>3 DEF Waiting, Counting, Cumulative
<1>5. /\ Stale(pending) => Stale(pending)'
      /\ stamp'[f] = Absent /\ f \in pending.items => Stale(pending)'
  BY <1>3, GoneIsStale DEF FileStep
<1>6. Places'
  BY <1>2, <1>3, <1>4 DEF IInv, Places
<1>7. Record'
  <2>1. \A g \in Files : stamp'[g] <= clock
    <3>1. \A g \in Files : stamp'[g] \in {stamp[g], Absent}
      BY <1>1 DEF FileStep
    <3>2. QED
      BY <1>1, <3>1 DEF IInv, Record, Absent
  <2>2. QED
    BY <1>3, <1>4, <2>1 DEF IInv, Record
<1>8. ASSUME Counting
      PROVE  /\ moved' = mutated + run'.ok + unlogged'
             /\ mutated + run'.ok + Cardinality(run'.left)
                   <= Larger(Threshold, granted)
             /\ mutated + run'.ok <= Larger(Threshold, granted)
  <2>1. moved' = moved + (n + u) /\ unlogged' = unlogged + u
    BY <1>4, <1>8 DEF FileStep
  <2>2. /\ run.ok \in Nat /\ n \in Nat /\ u \in Nat /\ n <= 1
        /\ Larger(Threshold, granted) \in Nat
    BY <1>1, BoundsAssumption DEF RunRecords, Larger
  <2>3. /\ Cardinality(run.left) \in Nat
        /\ Cardinality(run'.left) = Cardinality(run.left) - 1
        /\ Cardinality(run'.left) \in Nat
    <3>1. IsFiniteSet(run.left)
      BY <1>1, FilesAssumption, FS_Subset DEF RunRecords
    <3>2. IsFiniteSet(run.left \ {f})
      BY <3>1, FS_Subset
    <3>3. QED
      BY <1>2, <1>3, <3>1, <3>2, FS_RemoveElement, FS_CardinalityType
  <2>4. /\ moved = mutated + run.ok + unlogged
        /\ mutated + run.ok + Cardinality(run.left) <= Larger(Threshold, granted)
    BY <1>8 DEF IInv, Ahead
  <2>5. run'.ok = run.ok + n
    BY <1>2
  <2>6. QED
    BY <1>1, <2>1, <2>2, <2>3, <2>4, <2>5
<1>9. ASSUME ~Counting
      PROVE  moved' = moved /\ unlogged' = unlogged
  BY <1>1, <1>4, <1>9 DEF FileStep
<1>10. ASSUME Counting, run.via, run'.ok > 0 PROVE Stale(pending)'
  <2>1. f \in pending.items
    BY <1>3, <1>10 DEF IInv, Places
  <2>2. CASE n = 1
    BY <2>1, <2>2, <1>5 DEF FileStep
  <2>3. CASE n = 0
    <3>1. run.ok > 0
      BY <1>1, <1>2, <1>10, <2>3 DEF RunRecords
    <3>2. QED
      BY <1>5, <1>10, <3>1 DEF IInv, Ahead
  <2>4. QED
    BY <2>2, <2>3
<1>11. Ahead'
  BY <1>2, <1>3, <1>4, <1>8, <1>10 DEF IInv, Ahead
<1>12. Exact'
  <2>1. at' # "perceive"
    BY <1>3 DEF IInv, Places
  <2>2. ASSUME ~Counting
        PROVE  (at # "idle" \/ Waiting)
                  => batchRejected \/ Settled' \/ (Waiting /\ Spent')
    BY <1>3, <1>5, <1>9, <2>2 DEF IInv, Exact, Settled, Spent
  <2>3. QED
    BY <1>3, <1>4, <2>1, <2>2 DEF Exact
<1>13. BulkNeedsApproval'
  <2>1. CASE Counting
    <3>1. unlogged' \in Nat /\ run'.ok \in Nat /\ Larger(Threshold, granted) \in Nat
      BY <1>1, <1>2, BoundsAssumption DEF FileStep, RunRecords, Larger
    <3>2. QED
      BY <1>1, <1>3, <1>8, <2>1, <3>1 DEF BulkNeedsApproval
  <2>2. CASE ~Counting
    BY <1>3, <1>9, <2>2 DEF IInv, BulkNeedsApproval
  <2>3. QED
    BY <2>1, <2>2
<1>14. QED
  BY <1>6, <1>7, <1>11, <1>12, <1>13 DEF IInv

\* A tool that returns leaves an exact count, and no approval to use again.
LEMMA InvToolReturn ==
    ASSUME DataType, IInv, NEW n \in 0 .. MaxInner, ToolReturn(n)
    PROVE  IInv'
<1>1. /\ run \in RunRecords /\ clock \in Nat /\ stamp \in [Files -> Nat]
      /\ mutated \in Nat /\ moved \in Nat /\ unlogged \in Nat /\ granted \in Nat
      /\ limit \in Nat /\ pending \in PendingRecords
  BY DEF DataType, RunType, DiskType, CountType, BatchType, PendingType
<1>2. /\ run.on /\ run.left = {} /\ run' = NoRun /\ at' = "reflecting"
      /\ UNCHANGED <<stamp, clock, batchRejected, moved, unlogged, granted>>
      /\ mutated' = mutated + (IF Cumulative(run.step) THEN run.ok ELSE 0)
  BY DEF ToolReturn
<1>3. \/ pending' = NoPending
      \/ pending' = pending /\ ~run.via
  BY DEF ToolReturn, UseUp
<1>4. ~run'.on /\ ~Counting' /\ (Counting <=> Cumulative(run.step))
  BY <1>2 DEF NoRun, Counting
<1>5. ~Waiting' /\ (~run.via => ~Waiting)
  <2>1. ~run.via => ~Waiting
    BY <1>2 DEF IInv, Places
  <2>2. QED
    BY <1>3, <2>1 DEF Waiting, NoPending
<1>6. Places'
  BY <1>2, <1>4, <1>5 DEF Places
<1>7. Record'
  <2>1. \A f \in Files : stamp[f] <= clock /\ pending.snap[f] <= clock
    BY DEF IInv, Record
  <2>2. \A f \in Files : NoPending.snap[f] <= clock
    BY <1>1 DEF NoPending, Absent
  <2>3. QED
    BY <1>2, <1>3, <1>5, <2>1, <2>2 DEF Record
<1>8. limit' <= granted
  <2>1. limit <= granted
    BY DEF IInv, Ahead
  <2>2. \/ limit' = limit
        \/ /\ run.via /\ Cumulative(run.step)
           /\ limit' = Larger(limit, pending.limit)
    BY DEF ToolReturn
  <2>3. run.via /\ Cumulative(run.step) => pending.limit <= granted
    BY <1>2 DEF IInv, Ahead
  <2>4. QED
    BY <2>1, <2>2, <2>3 DEF Larger
<1>9. Ahead'
  BY <1>2, <1>4, <1>8 DEF Ahead
<1>10. batchRejected \/ moved = mutated' + unlogged
  <2>1. CASE Counting
    <3>1. moved = mutated + run.ok + unlogged
      BY <2>1 DEF IInv, Ahead
    <3>2. mutated' = mutated + run.ok
      BY <1>2, <1>4, <2>1
    <3>3. QED
      BY <3>1, <3>2
  <2>2. CASE ~Counting
    <3>1. mutated' = mutated
      BY <1>1, <1>2, <1>4, <2>2
    <3>2. at # "idle"
      BY <1>2 DEF IInv, Places
    <3>3. ~ (Waiting /\ Spent)
      <4>1. run.via => ~Spent
        BY <1>2, <1>4, <2>2 DEF IInv, Places, Spent
      <4>2. QED
        BY <1>5, <4>1
    <3>4. QED
      BY <2>2, <3>1, <3>2, <3>3 DEF IInv, Exact, Settled
  <2>3. QED
    BY <2>1, <2>2
<1>11. Exact'
  BY <1>2, <1>5, <1>10 DEF Exact, Settled
<1>12. BulkNeedsApproval'
  BY <1>2 DEF IInv, BulkNeedsApproval
<1>13. QED
  BY <1>6, <1>7, <1>9, <1>11, <1>12 DEF IInv

\* Turning an interrupted bulk approval down refuses the rest of the request.
LEMMA InvTurnedDown == DataType /\ IInv /\ ApprovalTurnedDown => IInv'
<1> SUFFICES ASSUME DataType, IInv, ApprovalTurnedDown PROVE IInv'
  OBVIOUS
<1>1. /\ at = "approval" /\ at' = "reflecting" /\ ~run.on
      /\ pending' = NoPending
      /\ UNCHANGED <<stamp, clock, mutated, limit, run, moved, unlogged, granted>>
      /\ batchRejected' = (batchRejected \/ Cumulative(pending.step))
  BY DEF ApprovalTurnedDown, UseUp
<1>2. ~Waiting' /\ ~Counting /\ ~Counting'
  BY <1>1 DEF Waiting, NoPending, Counting
<1>3. Places'
  BY <1>1, <1>2 DEF Places
<1>4. Record'
  BY <1>1, <1>2 DEF Record, IInv, NoPending, Absent, DataType, DiskType
<1>5. Ahead'
  BY <1>1, <1>2 DEF Ahead, IInv
<1>6. Exact'
  <2>1. batchRejected \/ Settled \/ Spent
    BY <1>1, <1>2 DEF IInv, Exact
  <2>2. Settled' = Settled
    BY <1>1 DEF Settled
  <2>3. batchRejected' \/ Settled'
    BY <1>1, <2>1, <2>2 DEF Spent
  <2>4. QED
    BY <1>1, <2>3 DEF Exact
<1>7. BulkNeedsApproval'
  BY <1>1 DEF BulkNeedsApproval, IInv
<1>8. QED
  BY <1>3, <1>4, <1>5, <1>6, <1>7 DEF IInv

\* A crash forgets what the tool did, but then the approval is stale.
LEMMA InvCrash == DataType /\ IInv /\ Crash => IInv'
<1> SUFFICES ASSUME DataType, IInv, Crash PROVE IInv'
  OBVIOUS
<1>1. /\ at # "idle" /\ at' = "idle" /\ run' = NoRun
      /\ UNCHANGED <<stamp, clock, pending, batchRejected, mutated, limit, moved,
                     unlogged, granted>>
  BY DEF Crash
<1>2. ~run'.on /\ ~Counting'
  BY <1>1 DEF NoRun, Counting
<1>3. Waiting' = Waiting /\ Spent' = Spent /\ Settled' = Settled
  BY <1>1 DEF Waiting, Spent, Stale, Settled
<1>4. Places'
  BY <1>1, <1>2 DEF Places
<1>5. Record'
  BY <1>1, <1>3 DEF Record, IInv
<1>6. Ahead'
  BY <1>1, <1>2 DEF Ahead, IInv
<1>7. Waiting => batchRejected \/ Settled \/ Spent
  <2>1. CASE ~Counting
    BY <1>1, <2>1 DEF IInv, Exact
  <2>2. CASE Counting /\ Waiting
    <3>1. run.via /\ run.step = pending.step /\ Cumulative(run.step)
      BY <2>2 DEF IInv, Places, Counting
    <3>2. run.ok \in Nat
      BY DEF DataType, RunType, RunRecords
    <3>3. CASE run.ok > 0
      BY <2>2, <3>1, <3>3 DEF IInv, Ahead, Spent
    <3>4. CASE run.ok = 0
      BY <2>2, <3>4 DEF IInv, Ahead, Settled, DataType, CountType
    <3>5. QED
      BY <3>2, <3>3, <3>4
  <2>3. QED
    BY <2>1, <2>2
<1>8. Exact'
  BY <1>1, <1>3, <1>7 DEF Exact
<1>9. BulkNeedsApproval'
  BY <1>1 DEF BulkNeedsApproval, IInv
<1>10. QED
  BY <1>4, <1>5, <1>6, <1>8, <1>9 DEF IInv

\* A file that is edited gets a stamp no earlier snapshot can hold.
LEMMA InvEdit == ASSUME DataType, IInv, NEW f \in Files, Edit(f) PROVE IInv'
<1>1. /\ stamp \in [Files -> Nat] /\ clock \in Nat /\ pending \in PendingRecords
      /\ clock' = clock + 1
      /\ \A g \in Files : stamp[g] <= clock /\ pending.snap[g] <= clock
  BY DEF Edit, DataType, DiskType, PendingType, IInv, Record
<1>2. UNCHANGED <<pending, batchRejected, mutated, limit, run, moved, unlogged,
                  granted, at>>
  BY DEF Edit
<1>3. \A g \in Files : \/ stamp'[g] = stamp[g]
                       \/ g = f /\ stamp'[g] \in {Absent, clock + 1}
  BY <1>1 DEF Edit
<1>4. Stale(pending) => Stale(pending)'
  <2> SUFFICES ASSUME Stale(pending) PROVE Stale(pending)'
    OBVIOUS
  <2>1. PICK g \in pending.items : stamp[g] = Absent \/ stamp[g] # pending.snap[g]
    BY DEF Stale
  <2>2. g \in Files /\ pending.snap[g] \in Nat
    BY <1>1 DEF PendingRecords
  <2>3. CASE stamp'[g] = stamp[g]
    BY <1>2, <2>1, <2>3 DEF Stale
  <2>4. CASE stamp'[g] = Absent
    BY <1>2, <2>1, <2>4 DEF Stale
  <2>5. CASE stamp'[g] = clock + 1
    <3>1. stamp'[g] # pending.snap[g]
      BY <1>1, <2>2, <2>5
    <3>2. QED
      BY <1>2, <2>1, <3>1 DEF Stale
  <2>6. QED
    BY <1>3, <2>2, <2>3, <2>4, <2>5
<1>5. Waiting' = Waiting /\ Counting' = Counting /\ Settled' = Settled
        /\ (Spent => Spent')
  BY <1>2, <1>4 DEF Waiting, Counting, Settled, Spent
<1>6. Places'
  BY <1>2, <1>5 DEF Places, IInv
<1>7. Record'
  <2>1. \A g \in Files : stamp'[g] <= clock' /\ pending.snap[g] <= clock'
    <3>1. \A g \in Files : pending.snap[g] \in Nat /\ stamp[g] \in Nat
      BY <1>1 DEF PendingRecords
    <3>2. QED
      BY <1>1, <1>3, <3>1 DEF Absent
  <2>2. QED
    BY <1>2, <1>5, <2>1 DEF Record, IInv
<1>8. Ahead'
  BY <1>2, <1>4, <1>5 DEF Ahead, IInv
<1>9. Exact'
  BY <1>2, <1>5 DEF Exact, IInv
<1>10. BulkNeedsApproval'
  BY <1>2 DEF BulkNeedsApproval, IInv
<1>11. QED
  BY <1>6, <1>7, <1>8, <1>9, <1>10 DEF IInv

\* Deciding what to do next moves nothing and counts nothing.
LEMMA InvThink ==
    DataType /\ IInv /\ (Planning \/ Reflect \/ StreamEnd \/ Interrupt) => IInv'
<1> SUFFICES ASSUME DataType, IInv, Planning \/ Reflect \/ StreamEnd \/ Interrupt
             PROVE  IInv'
  OBVIOUS
<1>1. CASE Planning
  <2>1. at = "planning" /\ at' \in {"act", "end"} /\ Still
    BY <1>1 DEF Planning, PlanSteps, PlanEmpty, PlanError, Still
  <2>2. ~run.on /\ ~Waiting
    BY <2>1 DEF IInv, Places
  <2>3. QED
    BY <2>1, <2>2, StillKeeps
<1>2. CASE Reflect
  <2>1. at = "reflecting" /\ at' \in {"end", "planning", "act"} /\ Still
    BY <1>2, RouteTyped
    DEF Reflect, ReflectSkip, ReflectGoOn, ReflectDone, ReflectError, Still
  <2>2. ~run.on /\ ~Waiting
    BY <2>1 DEF IInv, Places
  <2>3. QED
    BY <2>1, <2>2, StillKeeps
<1>3. CASE StreamEnd
  <2>1. at = "end" /\ at' = "idle" /\ Still
    BY <1>3 DEF StreamEnd, Still
  <2>2. ~run.on
    BY <2>1 DEF IInv, Places
  <2>3. QED
    BY <2>1, <2>2, StillKeeps
<1>4. CASE Interrupt
  <2>1. at = "approval" /\ at' = "end" /\ ~run.on /\ Still
    BY <1>4 DEF Interrupt, Still
  <2>2. QED
    BY <2>1, StillKeeps
<1>5. QED
  BY <1>1, <1>2, <1>3, <1>4

\* A step that is only observed moves nothing.
LEMMA InvObserve ==
    /\ DataType /\ IInv
    /\ \/ ActDenied \/ ActBatchRejected \/ ActNotCovered
       \/ ActStaleReference \/ ActRefusedBefore
    => IInv'
<1> SUFFICES ASSUME DataType, IInv,
                    \/ ActDenied \/ ActBatchRejected \/ ActNotCovered
                    \/ ActStaleReference \/ ActRefusedBefore
             PROVE  IInv'
  OBVIOUS
<1>1. at = "act" /\ ~run.on /\ Observe
  BY DEF ActDenied, ActBatchRejected, ActNotCovered, ActStaleReference,
         ActRefusedBefore, Cleared, Acting
<1>2. at' = "reflecting" /\ Still
  BY <1>1 DEF Observe, Still
<1>3. ~Waiting
  BY <1>1 DEF IInv, Places
<1>4. QED
  BY <1>1, <1>2, <1>3, StillKeeps

\* Neither does an answer, nor time.
LEMMA InvOutside ==
    /\ DataType /\ IInv
    /\ \/ \E a \in {"approve", "reject"} : Respond(a)
       \/ ScopeLapse \/ ApprovalLapse \/ Overtime \/ UNCHANGED vars
    => IInv'
<1> SUFFICES ASSUME DataType, IInv,
                    \/ \E a \in {"approve", "reject"} : Respond(a)
                    \/ ScopeLapse \/ ApprovalLapse \/ Overtime \/ UNCHANGED vars
             PROVE  IInv'
  OBVIOUS
<1>1. CASE \E a \in {"approve", "reject"} : Respond(a)
  <2>1. at = "idle" /\ Waiting /\ at' = "approval" /\ Still
    BY <1>1 DEF Respond, Still
  <2>2. ~run.on
    BY <2>1 DEF IInv, Places
  <2>3. QED
    BY <2>1, <2>2, StillKeeps
<1>2. CASE ScopeLapse \/ ApprovalLapse \/ Overtime \/ UNCHANGED vars
  <2>1. at' = at /\ Still
    BY <1>2 DEF ScopeLapse, ApprovalLapse, Overtime, vars, Still
  <2>2. /\ Waiting => at \in {"approval", "end", "idle"}
        /\ at = "approval" => Waiting
    BY DEF IInv, Places
  <2>3. QED
    BY <2>1, <2>2, StillKeeps
<1>3. QED
  BY <1>1, <1>2

\* The invariant is inductive.
LEMMA InvNext == DataType /\ IInv /\ [Next]_vars => IInv'
<1> SUFFICES ASSUME DataType, IInv, [Next]_vars PROVE IInv'
  OBVIOUS
<1>1. CASE Act
  BY <1>1, InvEnd, InvObserve, InvAsk, InvActBegin DEF Act
<1>2. CASE Tool
  <2>1. ASSUME NEW f \in Files, FileDone(f) \/ FileUnlogged(f) \/ FileFailed(f)
        PROVE  IInv'
    <3>1. CASE FileStep(f, 1, 0)
      BY <3>1, InvFile
    <3>2. CASE FileStep(f, 0, 1)
      BY <3>2, InvFile
    <3>3. CASE FileStep(f, 0, 0)
      BY <3>3, InvFile
    <3>4. QED
      BY <2>1, <3>1, <3>2, <3>3, FileSteps
  <2>2. QED
    BY <1>2, <2>1, InvToolReturn DEF Tool
<1>3. CASE Approval
  BY <1>3, InvThink, InvTurnedDown, InvApprovalBegin DEF Approval
<1>4. CASE Perceive \/ BudgetStop \/ Planning \/ Reflect \/ StreamEnd
  BY <1>4, InvPerceive, InvEnd, InvThink
<1>5. CASE User
  BY <1>5, InvStart, InvEnd, InvOutside DEF User
<1>6. CASE Environment
  BY <1>6, InvEdit, InvOutside, InvCrash DEF Environment
<1>7. CASE UNCHANGED vars
  BY <1>7, InvOutside
<1>8. QED
  BY <1>1, <1>2, <1>3, <1>4, <1>5, <1>6, <1>7 DEF Next, Graph

\* However a request is replanned, interrupted, crashed and resumed, and
\* whatever other programs do to the files, it never really moves more of them
\* than the larger of the threshold and what the user has approved for it.
THEOREM BulkSafe == Spec => []BulkNeedsApproval
<1>1. Init => DataType /\ IInv
  BY TypeInit, InvInit DEF TypeOK, DataType
<1>2. DataType /\ IInv /\ [Next]_vars => DataType' /\ IInv'
  BY DataNext, InvNext
<1>3. IInv => BulkNeedsApproval
  BY DEF IInv
<1>4. QED
  BY <1>1, <1>2, <1>3, PTL DEF Spec

-----------------------------------------------------------------------------
(* The budget, the pending approval, and the refusal of a bulk change. *)

\* A tool that runs, or may be approved, has an allowance left.
Within == run.on \/ Waiting => tools < MaxTools

\* Ids are handed out once.
Numbered ==
    /\ pending.id <= lastId /\ batch.id <= lastId
    /\ \A i \in consumed : i <= lastId
    /\ \A s \in served : s[1] <= lastId

\* What counts is begun only while nothing was refused.
Unrefused == Counting => ~batchRejected

Careful == BudgetKept /\ Within /\ PendingCurrent /\ Numbered /\ Unrefused

\* At first nothing is asked and nothing runs.
LEMMA CarefulInit == Init => Careful
<1> SUFFICES ASSUME Init PROVE Careful
  OBVIOUS
<1>1. ~Waiting /\ ~run.on
  BY DEF Init, Waiting, NoPending, NoRun
<1>2. BudgetKept /\ Numbered
  BY BoundsAssumption DEF Init, BudgetKept, Numbered, NoPending, NoBatch
<1>3. QED
  BY <1>1, <1>2 DEF Careful, Within, PendingCurrent, Unrefused, Counting

\* Whoever waits or works on an approval keeps what it rests on; the rest of the state
\* only has to keep its numbers.
LEMMA CarefulKept ==
    ASSUME Careful, UNCHANGED <<tools, lastId, batchRejected>>,
           calls' = calls \/ (~Exceeded /\ calls' = calls + 1), calls \in Nat,
           served' = served \/ \A s \in served' : s[1] <= lastId,
           batch' = batch \/ batch'.id <= lastId,
           consumed' = consumed \/ consumed' = consumed \cup {pending.id},
           run' = run \/ ~run'.on,
           ~Waiting' \/ UNCHANGED <<request, plan, idx, pending, mutated, consumed>>,
           pending' = pending \/ pending'.id <= lastId
    PROVE  Careful'
<1> USE DEF Careful
<1>1. BudgetKept'
  BY BoundsAssumption DEF BudgetKept, Exceeded
<1>2. Waiting' => Waiting
  BY DEF Waiting
<1>3. Within'
  BY <1>2 DEF Within
<1>4. PendingCurrent'
  <2>1. ASSUME Waiting' PROVE Step' = Step
    BY <2>1 DEF Step
  <2>2. QED
    BY <1>2, <2>1 DEF PendingCurrent
<1>5. Numbered'
  BY DEF Numbered
<1>6. Unrefused'
  BY DEF Unrefused, Counting, Cumulative
<1>7. QED
  BY <1>1, <1>3, <1>4, <1>5, <1>6

\* Thinking costs calls only, and happens while nothing is asked.
LEMMA CarefulThink ==
    ASSUME DataType, IInv, Careful, Planning \/ Reflect
    PROVE  Careful'
<1> USE DEF Planning, PlanSteps, PlanEmpty, PlanError,
            Reflect, ReflectSkip, ReflectGoOn, ReflectDone, ReflectError
<1>1. at \in {"planning", "reflecting"}
  OBVIOUS
<1>2. ~Waiting
  BY <1>1 DEF IInv, Places
<1>3. /\ UNCHANGED <<tools, lastId, batchRejected, served, batch, consumed, run, pending>>
      /\ calls' = calls \/ (~Exceeded /\ calls' = calls + 1)
  OBVIOUS
<1>4. ~Waiting' /\ calls \in Nat
  BY <1>2, <1>3 DEF Waiting, DataType, BudgetType
<1> HIDE DEF Planning, Reflect
<1>5. QED
  BY <1>3, <1>4, CarefulKept

\* Steps of the environment, of the stream and of the user that leave all this alone.
LEMMA CarefulIdle ==
    ASSUME DataType, IInv, Careful,
           \/ StreamEnd \/ Interrupt \/ \E a \in {"approve", "reject"} : Respond(a)
           \/ \E f \in Files : Edit(f)
           \/ ScopeLapse \/ ApprovalLapse \/ Overtime \/ Crash \/ UNCHANGED vars
    PROVE  Careful'
<1>1. /\ UNCHANGED <<tools, lastId, batchRejected, calls, served, batch, consumed, pending,
                    request, plan, idx, mutated>>
      /\ run' = run \/ run' = NoRun
  BY DEF StreamEnd, Interrupt, Respond, Edit, ScopeLapse, ApprovalLapse, Overtime, Crash, vars
<1>2. ~NoRun.on /\ calls \in Nat
  BY DEF NoRun, DataType, BudgetType
<1>3. QED
  BY <1>1, <1>2, CarefulKept

\* An end, and a new beginning, drop the pending approval.
LEMMA CarefulEnd ==
    ASSUME DataType, IInv, Careful, Perceive \/ BudgetStop \/ ActClarify \/ Cancel
    PROVE  Careful'
<1>1. /\ UNCHANGED <<tools, lastId, batchRejected, calls, served, consumed, run>>
         \/ (Perceive /\ UNCHANGED <<tools, lastId, calls, served, consumed, run>>)
      /\ pending' = NoPending /\ (batch' = batch \/ batch' = NoBatch)
  BY DEF Perceive, BudgetStop, ActClarify, Cancel, EndAs
<1>2. ~Waiting' /\ NoPending.id = 0 /\ NoBatch.id = 0 /\ 0 <= lastId /\ calls \in Nat
  BY <1>1 DEF Waiting, NoPending, NoBatch, DataType, BatchType, BudgetType
<1>3. CASE UNCHANGED batchRejected
  BY <1>1, <1>2, <1>3, CarefulKept
<1>4. CASE Perceive
  <2>1. ~run.on
    BY <1>4 DEF Perceive, IInv, Places
  <2>2. UNCHANGED <<tools, lastId, calls, served, consumed, run>>
    BY <1>1
  <2>3. QED
    BY <1>1, <1>2, <2>1, <2>2 DEF Careful, BudgetKept, Within, PendingCurrent, Numbered,
                             Unrefused, Counting
<1>5. QED
  BY <1>1, <1>3, <1>4

\* A step that is only observed is not asked about.
LEMMA CarefulObserve ==
    ASSUME DataType, IInv, Careful,
           \/ ActDenied \/ ActBatchRejected \/ ActNotCovered
           \/ ActStaleReference \/ ActRefusedBefore
    PROVE  Careful'
<1>1. at = "act" /\ Observe
  BY DEF ActDenied, ActBatchRejected, ActNotCovered, ActStaleReference,
         ActRefusedBefore, Cleared, Acting
<1>2. /\ UNCHANGED <<tools, lastId, batchRejected, calls, served, batch, consumed, run, pending>>
  BY <1>1 DEF Observe
<1>3. ~Waiting' /\ calls \in Nat
  BY <1>1, <1>2 DEF IInv, Places, Waiting, DataType, BudgetType
<1>4. QED
  BY <1>2, <1>3, CarefulKept

\* A new request starts its counts again.
LEMMA CarefulStart == ASSUME DataType, IInv, Careful, Start PROVE Careful'
<1>1. /\ ~Waiting /\ at = "idle"
      /\ calls' = 0 /\ tools' = 0 /\ consumed' = {} /\ served' = {} /\ batchRejected' = FALSE
      /\ batch' = NoBatch /\ UNCHANGED <<pending, lastId, run>>
  BY DEF Start
<1>2. ~Waiting' /\ ~run'.on
  BY <1>1 DEF Waiting, IInv, Places
<1>3. pending.id = 0 /\ NoBatch.id = 0 /\ lastId \in Nat
  BY <1>1 DEF Waiting, NoBatch, DataType, BatchType
<1>4. Numbered'
  BY <1>1, <1>3 DEF Numbered
<1>5. QED
  BY <1>1, <1>2, <1>4, BoundsAssumption
  DEF Careful, BudgetKept, Within, PendingCurrent, Unrefused, Counting

\* What is asked is asked for the step at hand, under an id of its own.
LEMMA CarefulAsk == ASSUME DataType, IInv, Careful, Ask PROVE Careful'
<1> DEFINE covered == IF Cumulative(Step) THEN Sources ELSE {}
           p == [id |-> lastId + 1, request |-> request, step |-> Step,
                 sources |-> covered, items |-> Step.files \cup covered,
                 snap |-> stamp, before |-> mutated,
                 limit |-> mutated + Proposed(Step)]
<1>1. /\ pending' = p /\ lastId' = lastId + 1 /\ ~Exceeded /\ at = "act" /\ ~run.on
      /\ UNCHANGED <<tools, batchRejected, calls, served, batch, consumed, run, request,
                    plan, idx, mutated>>
  BY DEF Ask, Cleared, Acting
<1>2. p.id = lastId + 1 /\ p.request = request /\ p.step = Step /\ p.before = mutated
  OBVIOUS
<1> HIDE DEF p
<1>3. Step' = Step
  BY <1>1 DEF Step
<1>4. lastId \in Nat /\ tools \in Nat /\ calls \in Nat /\ consumed \subseteq Nat
      /\ batch.id \in Nat /\ \A s \in served : s[1] \in Nat
  BY DEF DataType, BatchType, BudgetType, BatchRecords, CountType
<1>5. PendingCurrent' /\ Numbered'
  BY <1>1, <1>2, <1>3, <1>4 DEF Careful, PendingCurrent, Numbered
<1>6. BudgetKept' /\ Within' /\ Unrefused'
  BY <1>1, <1>4, BoundsAssumption
  DEF Careful, BudgetKept, Within, Exceeded, Unrefused, Counting
<1>7. QED
  BY <1>5, <1>6 DEF Careful

\* A tool begins within its allowance, and no refused one that counts.
LEMMA CarefulBegin ==
    ASSUME DataType, IInv, Careful, ActBegin \/ ApprovalBegin
    PROVE  Careful'
<1>1. /\ UNCHANGED <<tools, lastId, batchRejected, calls, served, batch, consumed, pending,
                    request, plan, idx, mutated>>
      /\ ActBegin => ~Exceeded /\ run'.step = Step /\ (Cumulative(Step) => ~batchRejected)
      /\ ApprovalBegin => at = "approval" /\ run'.step = pending.step
  BY DEF ActBegin, ApprovalBegin, Cleared, Acting
<1>2. Waiting' = Waiting /\ Step' = Step
  BY <1>1 DEF Waiting, Step
<1>3. tools < MaxTools
  <2>1. CASE ActBegin
    BY <1>1, <2>1, BoundsAssumption DEF Exceeded, DataType, BudgetType
  <2>2. CASE ApprovalBegin
    BY <1>1, <2>2 DEF IInv, Places, Careful, Within
  <2>3. QED
    BY <2>1, <2>2
<1>4. Unrefused'
  <2>1. CASE ActBegin
    BY <1>1, <2>1 DEF Unrefused, Counting, Cumulative
  <2>2. CASE ApprovalBegin
    <3>1. Cumulative(pending.step) => ~batchRejected
      BY <1>1, <2>2 DEF IInv, Places, Record
    <3>2. QED
      BY <1>1, <2>2, <3>1 DEF Unrefused, Counting, Cumulative
  <2>3. QED
    BY <2>1, <2>2
<1>5. QED
  BY <1>1, <1>2, <1>3, <1>4 DEF Careful, BudgetKept, Within, PendingCurrent, Numbered

\* A file is served under the approval in hand.
LEMMA CarefulFile ==
    ASSUME DataType, IInv, Careful, NEW f \in Files,
           FileDone(f) \/ FileUnlogged(f) \/ FileFailed(f)
    PROVE  Careful'
<1>1. /\ UNCHANGED <<tools, lastId, batchRejected, calls, batch, consumed, pending,
                    request, plan, idx, mutated>>
      /\ served' = served \/ served' = served \cup {Serving(f)}
      /\ run.on /\ \E n \in {0, 1} : run' = Handled(run, f, n)
  BY DEF FileDone, FileUnlogged, FileFailed, FileGone
<1>2. run \in RunRecords
  BY DEF DataType, RunType
<1>3. run'.on = run.on /\ run'.step = run.step
  <2>1. PICK n \in {0, 1} : run' = Handled(run, f, n)
    BY <1>1
  <2>2. n \in Nat
    OBVIOUS
  <2>3. QED
    BY <1>2, <2>1, <2>2, RunUpdate
<1>4. Waiting' = Waiting /\ Step' = Step /\ (Counting' <=> Counting)
  BY <1>1, <1>3 DEF Waiting, Step, Counting, Cumulative
<1>5. Serving(f)[1] \in {pending.id, batch.id}
  BY DEF Serving
<1>6. QED
  BY <1>1, <1>3, <1>4, <1>5
  DEF Careful, BudgetKept, Within, PendingCurrent, Numbered, Unrefused

\* A tool that returns has used its allowance, and its approval.
LEMMA CarefulReturn ==
    ASSUME DataType, IInv, Careful, NEW n \in 0 .. MaxInner, ToolReturn(n)
    PROVE  Careful'
<1>1. /\ run.on /\ run' = NoRun /\ n <= CallsLeft
      /\ calls' = calls + n /\ tools' = tools + 1
      /\ UNCHANGED <<lastId, served, batchRejected>>
  BY DEF ToolReturn
<1>2. \/ pending' = NoPending /\ consumed' = consumed \cup {pending.id}
      \/ pending' = pending /\ consumed' = consumed /\ at = "act" /\ ~run.via
  BY DEF ToolReturn, UseUp, IInv, Places
<1>3. ~Waiting' /\ ~run'.on
  BY <1>1, <1>2 DEF Waiting, NoPending, NoRun, IInv, Places
<1>4. calls \in Nat /\ tools \in Nat /\ n \in Nat /\ lastId \in Nat /\ pending.id \in Nat
  BY BoundsAssumption DEF DataType, BudgetType, BatchType, PendingType, PendingRecords
<1>5. BudgetKept'
  BY <1>1, <1>4, BoundsAssumption DEF Careful, BudgetKept, Within, CallsLeft
<1>6. batch'.id \in {batch.id, pending.id}
  <2>1. batch \in BatchRecords
    BY DEF DataType, BatchType
  <2>2. \A b \in BatchRecords : MarkDone(b, run.step).id = b.id
    BY DEF MarkDone, BatchRecords
  <2>3. [id |-> pending.id, done |-> {}, sources |-> pending.sources] \in BatchRecords
    BY DEF DataType, PendingType, PendingRecords, BatchRecords
  <2>4. \/ batch' = MarkDone([id |-> pending.id, done |-> {},
                             sources |-> pending.sources], run.step)
        \/ batch' = MarkDone(batch, run.step) \/ batch' = batch
    BY DEF ToolReturn
  <2>5. QED
    BY <2>1, <2>2, <2>3, <2>4
<1>7. Numbered'
  BY <1>1, <1>2, <1>4, <1>6 DEF Careful, Numbered, NoPending
<1>8. QED
  BY <1>3, <1>5, <1>7 DEF Careful, Within, PendingCurrent, Unrefused, Counting

\* A refusal uses the approval up, too.
LEMMA CarefulTurnedDown ==
    ASSUME DataType, IInv, Careful, ApprovalTurnedDown
    PROVE  Careful'
<1>1. /\ ~run.on /\ UNCHANGED <<lastId, served, batch, calls, tools, run>>
      /\ pending' = NoPending /\ consumed' = consumed \cup {pending.id}
  BY DEF ApprovalTurnedDown, UseUp
<1>2. ~Waiting' /\ NoPending.id = 0 /\ lastId \in Nat
  BY <1>1 DEF Waiting, NoPending, DataType, BatchType
<1>3. QED
  BY <1>1, <1>2
  DEF Careful, BudgetKept, Within, PendingCurrent, Numbered, Unrefused, Counting

\* Every step keeps all this.
LEMMA CarefulNext == DataType /\ IInv /\ Careful /\ [Next]_vars => Careful'
<1> SUFFICES ASSUME DataType, IInv, Careful, [Next]_vars PROVE Careful'
  OBVIOUS
<1>1. CASE Act
  BY <1>1, CarefulEnd, CarefulObserve, CarefulAsk, CarefulBegin DEF Act
<1>2. CASE Tool
  BY <1>2, CarefulFile, CarefulReturn DEF Tool
<1>3. CASE Approval
  BY <1>3, CarefulIdle, CarefulTurnedDown, CarefulBegin DEF Approval
<1>4. CASE Perceive \/ BudgetStop \/ Planning \/ Reflect \/ StreamEnd
  BY <1>4, CarefulEnd, CarefulThink, CarefulIdle
<1>5. CASE User
  BY <1>5, CarefulStart, CarefulEnd, CarefulIdle DEF User
<1>6. CASE Environment \/ UNCHANGED vars
  BY <1>6, CarefulIdle DEF Environment
<1>7. QED
  BY <1>1, <1>2, <1>3, <1>4, <1>5, <1>6 DEF Next, Graph

\* What these theorems rest on, all at once, along every behaviour.
LEMMA CarefulAlways == Spec => [](DataType /\ IInv /\ Careful)
<1>1. Init => DataType /\ IInv /\ Careful
  BY TypeInit, InvInit, CarefulInit DEF TypeOK, DataType
<1>2. DataType /\ IInv /\ Careful /\ [Next]_vars => (DataType /\ IInv /\ Careful)'
  BY DataNext, InvNext, CarefulNext
<1>3. QED
  BY <1>1, <1>2, PTL DEF Spec

\* Neither limit of the budget is ever passed, however many steps are approved and
\* however often the tools call the model themselves.  (_budget_exceeded)
THEOREM BudgetSafe == Spec => []BudgetKept
<1>1. Careful => BudgetKept
  BY DEF Careful
<1>2. QED
  BY <1>1, CarefulAlways, PTL

\* What waits for an answer is always the step the plan stands at, asked for this
\* request, at the present count, and never answered before.  (verify_pending_approval)
THEOREM PendingSafe == Spec => []PendingCurrent
<1>1. Careful => PendingCurrent
  BY DEF Careful
<1>2. QED
  BY <1>1, CarefulAlways, PTL

\* A refused bulk change refuses the request: no step of it moves a file any more,
\* under whatever plan.  (batch_rejected in _act and _approval)
THEOREM RefusalSafe == Spec => RejectedStops
<1>1. ASSUME DataType, Careful, [Next]_vars, batchRejected PROVE moved' <= moved
  <2>1. moved \in Nat
    BY <1>1 DEF DataType, CountType
  <2>2. ~Counting
    BY <1>1 DEF Careful, Unrefused
  <2>3. \/ UNCHANGED moved
        \/ moved' = 0
        \/ \E f \in Files : FileGone(f)
    BY <1>1, Zenon
    DEF Next, Graph, Perceive, BudgetStop, Planning, PlanSteps, PlanEmpty, PlanError,
        Act, ActClarify, ActDenied, ActBatchRejected, ActNotCovered, ActStaleReference,
        ActRefusedBefore, Observe, Ask, ActBegin, Tool, FileDone, FileUnlogged, FileFailed,
        ToolReturn, Approval, Interrupt, ApprovalTurnedDown, ApprovalBegin, Reflect,
        ReflectSkip, ReflectGoOn, ReflectDone, ReflectError, StreamEnd, User, Start,
        Cancel, Respond, Environment, Edit, ScopeLapse, ApprovalLapse, Overtime, Crash,
        vars
  <2>4. ASSUME NEW f \in Files, FileGone(f) PROVE moved' = moved + 0
    BY <2>2, <2>4 DEF FileGone, Counting
  <2>5. QED
    BY <2>1, <2>3, <2>4
<1>2. DataType /\ Careful /\ [Next]_vars => [batchRejected => moved' <= moved]_vars
  BY <1>1
<1>3. QED
  BY <1>2, CarefulAlways, PTL DEF Spec, RejectedStops

-----------------------------------------------------------------------------
(* Only approved files, and each once. *)

\* The approval that covers a bulk change has been used.
Approved == batchApproved => batch.id \in consumed

\* A crash may leave an approval half served: what it has served is not as it was.
ServedPending ==
    Waiting => \A f \in Files :
        <<pending.id, f>> \in served =>
            f \in pending.step.files /\ (stamp[f] = Absent \/ stamp[f] > pending.snap[f])

\* What the covering approval has served is marked as done once its tool returns.
Marked(f) ==
    \/ f \in batch.done
    \/ Counting /\ ~run.via /\ f \in run.step.files \ run.left

ServedBatch ==
    batchApproved /\ batch.sources # {} /\ (at # "idle" \/ Waiting) =>
        \A f \in Files : <<batch.id, f>> \in served => Marked(f)

\* What a tool may still move it may move under an approval that has not moved it.
Hand ==
    run.on =>
        /\ run.left \subseteq run.step.files
        /\ run.via => \A f \in run.left : <<pending.id, f>> \notin served
        /\ ~run.via => /\ run.step.tool # "delete"
                       /\ ~Cumulative(run.step) => run.left = {}
                       /\ batchApproved => run.left \subseteq batch.sources \ batch.done

ServedInv == Approved /\ ServedPending /\ ServedBatch /\ Hand

\* At first nothing is approved and nothing runs.
LEMMA ServedInit == Init => ServedInv
  BY DEF Init, ServedInv, Approved, ServedPending, ServedBatch, Hand, Waiting, NoPending, NoRun

\* Whoever moves no file and begins no tool keeps all this.
LEMMA ServedKept ==
    ASSUME ServedInv, UNCHANGED <<stamp, batch, batchApproved, served>>,
           consumed \subseteq consumed',
           pending' = pending \/ (~Waiting' /\ ~run'.on),
           run' = run \/ (~run'.on /\ (run.on /\ ~run.via => ~Waiting' /\ at' = "idle")),
           at' # "idle" \/ Waiting' => at # "idle" \/ Waiting
    PROVE  ServedInv'
<1> USE DEF ServedInv
<1>1. Approved'
  BY DEF Approved
<1>2. ServedPending'
  BY DEF ServedPending, Waiting
<1>3. ServedBatch'
  <2>1. ASSUME at' # "idle" \/ Waiting', NEW f \in Files, Marked(f) PROVE Marked(f)'
    BY <2>1 DEF Marked, Counting, Cumulative
  <2>2. QED
    BY <2>1 DEF ServedBatch
<1>4. Hand'
  BY DEF Hand, Cumulative
<1>5. QED
  BY <1>1, <1>2, <1>3, <1>4

\* Everything that only plans, ends, asks back, answers or lets time pass.
LEMMA ServedIdle ==
    ASSUME DataType, IInv, ServedInv,
           \/ BudgetStop \/ ActClarify \/ Cancel \/ Planning \/ Reflect
           \/ ActDenied \/ ActBatchRejected \/ ActNotCovered
           \/ ActStaleReference \/ ActRefusedBefore \/ ApprovalTurnedDown
           \/ StreamEnd \/ Interrupt \/ \E a \in {"approve", "reject"} : Respond(a)
           \/ ScopeLapse \/ ApprovalLapse \/ Overtime \/ Crash \/ UNCHANGED vars
    PROVE  ServedInv'
<1>1. /\ ~NoRun.on /\ NoPending.id = 0
      /\ run.on => at \in {"act", "approval"}
      /\ run.on /\ ~run.via => at = "act"
      /\ Waiting => at \in {"approval", "end", "idle"}
  BY DEF NoRun, NoPending, IInv, Places
<1>2. CASE BudgetStop \/ ActClarify \/ Cancel \/ ApprovalTurnedDown
  <2>1. /\ UNCHANGED <<stamp, batch, batchApproved, served, run>> /\ ~run.on
        /\ pending' = NoPending /\ consumed \subseteq consumed' /\ at # "idle"
    BY <1>2 DEF BudgetStop, ActClarify, Cancel, ApprovalTurnedDown, EndAs, UseUp, Acting
  <2>2. ~Waiting'
    BY <1>1, <2>1 DEF Waiting
  <2>3. QED
    BY <2>1, <2>2, ServedKept
<1>3. CASE Planning \/ Reflect
  <2>1. /\ UNCHANGED <<stamp, batch, batchApproved, served, run, pending, consumed>>
        /\ at # "idle"
    BY <1>3
    DEF Planning, PlanSteps, PlanEmpty, PlanError,
        Reflect, ReflectSkip, ReflectGoOn, ReflectDone, ReflectError
  <2>2. QED
    BY <2>1, ServedKept
<1>4. CASE \/ ActDenied \/ ActBatchRejected \/ ActNotCovered
           \/ ActStaleReference \/ ActRefusedBefore
  <2>1. /\ UNCHANGED <<stamp, batch, batchApproved, served, run, pending, consumed>>
        /\ at # "idle"
    BY <1>4 DEF ActDenied, ActBatchRejected, ActNotCovered, ActStaleReference,
                ActRefusedBefore, Cleared, Acting, Observe
  <2>2. QED
    BY <2>1, ServedKept
<1>5. CASE StreamEnd \/ Interrupt \/ \E a \in {"approve", "reject"} : Respond(a)
  <2>1. /\ UNCHANGED <<stamp, batch, batchApproved, served, run, pending, consumed>>
        /\ at # "idle" \/ Waiting
    BY <1>5 DEF StreamEnd, Interrupt, Respond
  <2>2. QED
    BY <2>1, ServedKept
<1>6. CASE ScopeLapse \/ ApprovalLapse \/ Overtime \/ UNCHANGED vars
  <2>1. /\ UNCHANGED <<stamp, batch, batchApproved, served, run, pending, consumed, at>>
    BY <1>6 DEF ScopeLapse, ApprovalLapse, Overtime, vars
  <2>2. Waiting' = Waiting
    BY <2>1 DEF Waiting
  <2>3. QED
    BY <2>1, <2>2, ServedKept
<1>7. CASE Crash
  <2>1. /\ UNCHANGED <<stamp, batch, batchApproved, served, pending, consumed>>
        /\ run' = NoRun /\ at # "idle" /\ at' = "idle"
    BY <1>7 DEF Crash
  <2>2. run.on /\ ~run.via => ~Waiting'
    BY <1>1, <2>1 DEF Waiting
  <2>3. QED
    BY <1>1, <2>1, <2>2, ServedKept
<1>8. QED
  BY <1>2, <1>3, <1>4, <1>5, <1>6, <1>7

\* A request, and a new thread of it, begin with no approval at all.
LEMMA ServedFresh ==
    ASSUME DataType, IInv, ServedInv, Start \/ Perceive
    PROVE  ServedInv'
<1>1. ~batchApproved' /\ UNCHANGED run /\ ~run.on
  BY DEF Start, Perceive, IInv, Places
<1>2. ~Waiting'
  BY DEF Start, Perceive, Waiting, NoPending
<1>3. QED
  BY <1>1, <1>2 DEF ServedInv, Approved, ServedPending, ServedBatch, Hand

\* An approval that is only asked for has served nothing yet.
LEMMA ServedAsk == ASSUME DataType, IInv, Careful, ServedInv, Ask PROVE ServedInv'
<1>1. /\ UNCHANGED <<stamp, batch, batchApproved, consumed, run, served>>
      /\ ~run.on /\ at = "act" /\ pending'.id = lastId + 1
  BY DEF Ask, Cleared, Acting
<1>2. \A f \in Files : <<pending'.id, f>> \notin served
  <2>1. lastId \in Nat
    BY DEF DataType, BatchType
  <2>2. \A s \in served : s[1] <= lastId
    BY DEF Careful, Numbered
  <2>3. \A f \in Files : <<pending'.id, f>>[1] = lastId + 1
    BY <1>1
  <2>4. QED
    BY <2>1, <2>2, <2>3
<1>3. \A f \in Files : Marked(f) => Marked(f)'
  BY <1>1 DEF Marked, Counting
<1>4. QED
  BY <1>1, <1>2, <1>3 DEF ServedInv, Approved, ServedPending, ServedBatch, Hand

\* A tool that needs no approval of its own takes only what the last one covers.
LEMMA ServedBegin == ASSUME DataType, IInv, ServedInv, ActBegin PROVE ServedInv'
<1>1. /\ UNCHANGED <<stamp, batch, batchApproved, consumed, pending, served, at>>
      /\ ~run.on /\ Cleared /\ ~NeedsApproval(Step)
      /\ run'.on /\ ~run'.via /\ run'.step = Step
      /\ run'.left = IF Cumulative(Step) THEN Step.files ELSE {}
  BY DEF ActBegin, Cleared, Acting
<1>2. /\ Step.tool # "delete"
      /\ Cumulative(Step) /\ batchApproved => ~OutsideApproval(Step)
  BY <1>1 DEF NeedsApproval, Cleared
<1>3. ~OutsideApproval(Step) => Step.files \subseteq batch.sources \ batch.done
  BY DEF OutsideApproval
<1>4. Hand'
  <2>1. run'.left \subseteq run'.step.files
    BY <1>1
  <2>2. Cumulative(run'.step) = Cumulative(Step)
    BY <1>1
  <2>3. batchApproved' => run'.left \subseteq batch'.sources \ batch'.done
    BY <1>1, <1>2, <1>3
  <2>4. QED
    BY <1>1, <1>2, <2>1, <2>2, <2>3 DEF Hand, Cumulative
<1>5. \A f \in Files : Marked(f) => Marked(f)'
  BY <1>1 DEF Marked, Counting
<1>6. Waiting' = Waiting
  BY <1>1 DEF Waiting
<1>7. QED
  BY <1>1, <1>4, <1>5, <1>6 DEF ServedInv, Approved, ServedPending, ServedBatch

\* An approval that still verifies has served none of its files.
LEMMA ServedApproval == ASSUME DataType, IInv, ServedInv, ApprovalBegin PROVE ServedInv'
<1>1. /\ UNCHANGED <<stamp, batch, batchApproved, consumed, pending, served, at>>
      /\ ~run.on /\ at = "approval" /\ ~Stale(pending)
      /\ run'.on /\ run'.via /\ run'.step = pending.step /\ run'.left = pending.step.files
  BY DEF ApprovalBegin, Verified
<1>2. Waiting /\ Waiting' = Waiting
  BY <1>1 DEF IInv, Places, Waiting
<1>3. pending.step.files \subseteq pending.items
  BY <1>2 DEF IInv, Record
<1>4. pending.items \subseteq Files /\ pending.snap \in [Files -> Nat]
  BY DEF DataType, PendingType, PendingRecords
<1>5. \A f \in pending.items : stamp[f] # Absent /\ stamp[f] = pending.snap[f]
  BY <1>1 DEF Stale
<1>6. \A f \in pending.step.files : <<pending.id, f>> \notin served
  <2> SUFFICES ASSUME NEW f \in pending.step.files, <<pending.id, f>> \in served
               PROVE  FALSE
    OBVIOUS
  <2>1. f \in Files /\ f \in pending.items
    BY <1>3, <1>4
  <2>2. stamp[f] = Absent \/ stamp[f] > pending.snap[f]
    BY <1>2, <2>1 DEF ServedInv, ServedPending
  <2>3. stamp[f] \in Nat
    BY <2>1 DEF DataType, DiskType
  <2>4. QED
    BY <1>5, <2>1, <2>2, <2>3
<1>7. Hand'
  BY <1>1, <1>6 DEF Hand
<1>8. \A f \in Files : Marked(f) => Marked(f)'
  BY <1>1 DEF Marked, Counting
<1>9. QED
  BY <1>1, <1>2, <1>7, <1>8 DEF ServedInv, Approved, ServedPending, ServedBatch

\* A file that is edited or taken away keeps telling that it is not as it was.
LEMMA ServedEdit ==
    ASSUME DataType, IInv, ServedInv, NEW f \in Files, Edit(f)
    PROVE  ServedInv'
<1>1. /\ UNCHANGED <<batch, batchApproved, consumed, pending, served, at, run>>
      /\ stamp \in [Files -> Nat] /\ clock \in Nat
      /\ \/ stamp' = [stamp EXCEPT ![f] = clock + 1]
         \/ stamp' = [stamp EXCEPT ![f] = Absent]
  BY DEF Edit, DataType, DiskType
<1>2. \A g \in Files : pending.snap[g] \in Nat /\ pending.snap[g] <= clock
  BY DEF DataType, PendingType, PendingRecords, IInv, Record
<1>3. \A g \in Files : stamp'[g] \in {stamp[g], Absent} \/ stamp'[g] = clock + 1
  BY <1>1
<1>4. Waiting' = Waiting
  BY <1>1 DEF Waiting
<1>5. ServedPending'
  <2> SUFFICES ASSUME Waiting, NEW g \in Files, <<pending.id, g>> \in served
               PROVE  /\ g \in pending.step.files
                      /\ stamp'[g] = Absent \/ stamp'[g] > pending.snap[g]
    BY <1>1, <1>4 DEF ServedPending
  <2>1. /\ g \in pending.step.files
        /\ stamp[g] = Absent \/ stamp[g] > pending.snap[g]
    BY DEF ServedInv, ServedPending
  <2>2. CASE stamp'[g] = clock + 1
    BY <1>1, <1>2, <2>1, <2>2
  <2>3. CASE stamp'[g] \in {stamp[g], Absent}
    BY <2>1, <2>3
  <2>4. QED
    BY <1>3, <2>2, <2>3
<1>6. \A g \in Files : Marked(g)' = Marked(g)
  BY <1>1 DEF Marked, Counting
<1>7. QED
  BY <1>1, <1>4, <1>5, <1>6 DEF ServedInv, Approved, ServedBatch, Hand, Cumulative

\* Every file handled is one the approval names and has not moved before.
LEMMA ServedFile ==
    ASSUME DataType, IInv, Careful, ServedInv, NEW f \in Files,
           FileDone(f) \/ FileUnlogged(f) \/ FileFailed(f)
    PROVE  ServedInv'
<1>1. /\ UNCHANGED <<batch, batchApproved, consumed, pending, at>>
      /\ run.on /\ f \in run.left
      /\ \E n \in {0, 1} : run' = Handled(run, f, n)
      /\ \/ UNCHANGED <<stamp, served>>
         \/ stamp' = [stamp EXCEPT ![f] = Absent] /\ served' = served \cup {Serving(f)}
  BY DEF FileDone, FileUnlogged, FileFailed, FileGone
<1>2. /\ run'.on = run.on /\ run'.via = run.via /\ run'.step = run.step
      /\ run'.left = run.left \ {f}
  <2>1. PICK n \in {0, 1} : run' = Handled(run, f, n)
    BY <1>1
  <2>2. n \in Nat /\ run \in RunRecords
    BY DEF DataType, RunType
  <2>3. QED
    BY <2>1, <2>2, RunUpdate
<1>3. /\ Waiting' = Waiting
      /\ run.via => Waiting /\ run.step = pending.step
      /\ ~run.via => ~Waiting
      /\ at # "idle"
  BY <1>1 DEF IInv, Places, Waiting
<1>4. batchApproved /\ run.via => pending.id # batch.id
  BY <1>3 DEF Careful, PendingCurrent, ServedInv, Approved
<1>5. Serving(f) = <<IF run.via THEN pending.id ELSE batch.id, f>>
  BY DEF Serving
<1>6. f \in run.step.files /\ (~run.via => Cumulative(run.step))
  BY <1>1 DEF ServedInv, Hand
<1>7. \A g \in Files : stamp'[g] \in {stamp[g], Absent}
  BY <1>1 DEF DataType, DiskType
<1>8. served' # served => stamp'[f] = Absent
  BY <1>1 DEF DataType, DiskType
<1>9. ServedPending'
  <2> SUFFICES ASSUME Waiting, NEW g \in Files, <<pending.id, g>> \in served'
               PROVE  /\ g \in pending.step.files
                      /\ stamp'[g] = Absent \/ stamp'[g] > pending.snap[g]
    BY <1>1, <1>3 DEF ServedPending
  <2>1. CASE <<pending.id, g>> \in served
    BY <1>7, <2>1 DEF ServedInv, ServedPending
  <2>2. CASE <<pending.id, g>> \notin served
    <3>1. <<pending.id, g>> = Serving(f)
      BY <1>1, <2>2
    <3>2. g = f
      BY <1>5, <3>1
    <3>3. QED
      BY <1>3, <1>6, <1>8, <2>2, <3>2
  <2>3. QED
    BY <2>1, <2>2
<1>10. \A g \in Files : Marked(g) => Marked(g)'
  BY <1>1, <1>2 DEF Marked, Counting, Cumulative
<1>11. ~run.via => Marked(f)'
  BY <1>1, <1>2, <1>6 DEF Marked, Counting, Cumulative
<1>12. ServedBatch'
  <2> SUFFICES ASSUME batchApproved, batch.sources # {},
                      NEW g \in Files, <<batch.id, g>> \in served'
               PROVE  Marked(g)'
    BY <1>1, <1>3 DEF ServedBatch
  <2>1. CASE <<batch.id, g>> \in served
    BY <1>3, <1>10, <2>1 DEF ServedInv, ServedBatch
  <2>2. CASE <<batch.id, g>> \notin served
    <3>1. <<batch.id, g>> = Serving(f)
      BY <1>1, <2>2
    <3>2. g = f /\ ~run.via
      BY <1>4, <1>5, <3>1
    <3>3. QED
      BY <1>11, <3>2
  <2>3. QED
    BY <2>1, <2>2
<1>13. Hand'
  <2>1. run'.left \subseteq run'.step.files /\ run'.left \subseteq run.left
    BY <1>1, <1>2 DEF ServedInv, Hand
  <2>2. ASSUME run.via, NEW g \in run'.left PROVE <<pending.id, g>> \notin served'
    <3>1. g # f /\ <<pending.id, g>> \notin served
      BY <1>1, <1>2, <2>2 DEF ServedInv, Hand
    <3>2. <<pending.id, g>> # Serving(f)
      BY <1>5, <3>1
    <3>3. QED
      BY <1>1, <3>1, <3>2
  <2>3. ~run.via => /\ run.step.tool # "delete"
                    /\ batchApproved => run'.left \subseteq batch.sources \ batch.done
    BY <1>1, <2>1 DEF ServedInv, Hand
  <2>4. Cumulative(run'.step) = Cumulative(run.step)
    BY <1>2
  <2>5. QED
    BY <1>1, <1>2, <1>6, <2>1, <2>2, <2>3, <2>4 DEF Hand
<1>14. Approved'
  BY <1>1 DEF ServedInv, Approved
<1>15. QED
  BY <1>9, <1>12, <1>13, <1>14 DEF ServedInv

\* A tool that returns marks what it was given, moved or not.
LEMMA ServedReturn ==
    ASSUME DataType, IInv, ServedInv, NEW n \in 0 .. MaxInner, ToolReturn(n)
    PROVE  ServedInv'
<1> DEFINE fresh == [id |-> pending.id, sources |-> pending.sources, done |-> {}]
<1>1. /\ run.on /\ run.left = {} /\ run' = NoRun /\ UNCHANGED <<stamp, served>>
      /\ run.via => pending' = NoPending /\ consumed' = consumed \cup {pending.id}
      /\ ~run.via => UNCHANGED <<pending, consumed, batchApproved>>
      /\ run.via /\ Cumulative(run.step) => batchApproved' /\ batch' = MarkDone(fresh, run.step)
      /\ run.via /\ ~Cumulative(run.step) => UNCHANGED <<batch, batchApproved>>
      /\ ~run.via => batch' = MarkDone(batch, run.step)
  BY DEF ToolReturn, UseUp
<1>2. /\ at # "idle"
      /\ run.via => Waiting /\ run.step = pending.step
      /\ ~run.via => ~Waiting
  BY <1>1 DEF IInv, Places, Waiting
<1>3. ~run'.on /\ ~Waiting'
  BY <1>1, <1>2 DEF NoRun, NoPending, Waiting
<1>4. \A b \in BatchRecords :
         LET m == MarkDone(b, run.step)
         IN  /\ m.id = b.id /\ m.sources = b.sources /\ b.done \subseteq m.done
             /\ Cumulative(run.step) /\ b.sources # {} => m.done = b.done \cup run.step.files
  BY DEF MarkDone, BatchRecords
<1>5. batch \in BatchRecords /\ fresh \in BatchRecords
  BY DEF DataType, BatchType, PendingType, PendingRecords, BatchRecords
<1>6. fresh.id = pending.id /\ fresh.sources = pending.sources
  OBVIOUS
<1> HIDE DEF fresh
<1>7. Approved'
  <2>1. CASE run.via /\ Cumulative(run.step)
    <3>1. batch'.id = pending.id
      BY <1>1, <1>4, <1>5, <1>6, <2>1
    <3>2. QED
      BY <1>1, <2>1, <3>1 DEF Approved
  <2>2. CASE run.via /\ ~Cumulative(run.step)
    BY <1>1, <2>2 DEF ServedInv, Approved
  <2>3. CASE ~run.via
    <3>1. batch'.id = batch.id
      BY <1>1, <1>4, <1>5, <2>3
    <3>2. QED
      BY <1>1, <2>3, <3>1 DEF ServedInv, Approved
  <2>4. QED
    BY <2>1, <2>2, <2>3
<1>8. ServedBatch'
  <2> SUFFICES ASSUME batchApproved', batch'.sources # {},
                      NEW g \in Files, <<batch'.id, g>> \in served
               PROVE  g \in batch'.done
    BY <1>1 DEF ServedBatch, Marked
  <2>1. CASE run.via /\ Cumulative(run.step)
    <3>1. batch'.id = pending.id /\ batch'.sources = fresh.sources
      BY <1>1, <1>4, <1>5, <1>6, <2>1
    <3>2. g \in run.step.files
      BY <1>2, <2>1, <3>1 DEF ServedInv, ServedPending
    <3>3. batch'.done = fresh.done \cup run.step.files
      BY <1>1, <1>4, <1>5, <2>1, <3>1
    <3>4. QED
      BY <3>2, <3>3
  <2>2. CASE run.via /\ ~Cumulative(run.step)
    BY <1>1, <1>2, <2>2 DEF ServedInv, ServedBatch, Marked
  <2>3. CASE ~run.via
    <3>1. /\ batch'.id = batch.id /\ batch'.sources = batch.sources
          /\ batch.done \subseteq batch'.done
          /\ Cumulative(run.step) => batch'.done = batch.done \cup run.step.files
      BY <1>1, <1>4, <1>5, <2>3
    <3>2. Marked(g)
      BY <1>1, <1>2, <2>3, <3>1 DEF ServedInv, ServedBatch
    <3>3. QED
      BY <3>1, <3>2 DEF Marked, Counting
  <2>4. QED
    BY <2>1, <2>2, <2>3
<1>9. ServedPending' /\ Hand'
  BY <1>3 DEF ServedPending, Hand
<1>10. QED
  BY <1>7, <1>8, <1>9 DEF ServedInv

\* Every step keeps all this.
LEMMA ServedNext == DataType /\ IInv /\ Careful /\ ServedInv /\ [Next]_vars => ServedInv'
<1> SUFFICES ASSUME DataType, IInv, Careful, ServedInv, [Next]_vars PROVE ServedInv'
  OBVIOUS
<1>1. CASE Act
  BY <1>1, ServedIdle, ServedAsk, ServedBegin DEF Act
<1>2. CASE Tool
  BY <1>2, ServedFile, ServedReturn DEF Tool
<1>3. CASE Approval
  BY <1>3, ServedIdle, ServedApproval DEF Approval
<1>4. CASE Perceive \/ BudgetStop \/ Planning \/ Reflect \/ StreamEnd
  BY <1>4, ServedFresh, ServedIdle
<1>5. CASE User
  BY <1>5, ServedFresh, ServedIdle DEF User
<1>6. CASE Environment \/ UNCHANGED vars
  BY <1>6, ServedEdit, ServedIdle DEF Environment
<1>7. QED
  BY <1>1, <1>2, <1>3, <1>4, <1>5, <1>6 DEF Next, Graph

\* The disk changes by the hand of a tool, or the clock shows that it was not.
LEMMA OnlyTheTool ==
    ASSUME [Next]_vars, UNCHANGED clock, clock \in Nat
    PROVE  UNCHANGED stamp \/ \E g \in Files : FileGone(g)
<1>1. ASSUME NEW g \in Files, Edit(g) PROVE FALSE
  BY <1>1 DEF Edit
<1>2. QED
  BY <1>1, Zenon
  DEF Next, Graph, Perceive, BudgetStop, Planning, PlanSteps, PlanEmpty, PlanError,
      Act, ActClarify, ActDenied, ActBatchRejected, ActNotCovered, ActStaleReference,
      ActRefusedBefore, Observe, Ask, ActBegin, Tool, FileDone, FileUnlogged, FileFailed,
      ToolReturn, Approval, Interrupt, ApprovalTurnedDown, ApprovalBegin, Reflect,
      ReflectSkip, ReflectGoOn, ReflectDone, ReflectError, StreamEnd, User, Start,
      Cancel, Respond, Environment, ScopeLapse, ApprovalLapse, Overtime, Crash, vars

\* A tool takes only what the approval it works under names, never deletes without one,
\* and takes no file twice under one approval, whatever crashed or was replanned between
\* (whether a file has changed since the user was asked is not part of it).
\* (_approved_batch_violation, _mark_batch_done, verify_pending_approval)
THEOREM ApprovalsSafe == Spec => OnlyApprovedFiles
<1> DEFINE Good == \A f \in Files :
              run.on /\ clock' = clock /\ stamp'[f] # stamp[f]
                  => /\ Allowed(f)
                     /\ run.via \/ batchApproved => Serving(f) \notin served
<1>1. ASSUME DataType, IInv, Careful, ServedInv, [Next]_vars PROVE Good
  <2> SUFFICES ASSUME NEW f \in Files, run.on, clock' = clock, stamp'[f] # stamp[f]
               PROVE  /\ Allowed(f)
                      /\ run.via \/ batchApproved => Serving(f) \notin served
    OBVIOUS
  <2>1. f \in run.left
    <3>1. clock \in Nat /\ stamp \in [Files -> Nat]
      BY <1>1 DEF DataType, DiskType
    <3>2. PICK g \in Files : FileGone(g)
      BY <1>1, <3>1, OnlyTheTool
    <3>3. g = f
      BY <3>1, <3>2 DEF FileGone
    <3>4. QED
      BY <3>2, <3>3 DEF FileGone
  <2>2. /\ run.via => Waiting /\ run.left \subseteq pending.items
        /\ at # "idle"
    BY <1>1 DEF IInv, Places
  <2>3. Allowed(f)
    BY <1>1, <2>1, <2>2 DEF Allowed, ServedInv, Hand
  <2>4. CASE run.via
    BY <1>1, <2>1, <2>3, <2>4 DEF ServedInv, Hand, Serving
  <2>5. CASE ~run.via /\ batchApproved
    <3>1. f \in batch.sources /\ f \notin batch.done
      BY <1>1, <2>1, <2>5 DEF ServedInv, Hand
    <3>2. ~Marked(f)
      BY <2>1, <3>1 DEF Marked
    <3>3. <<batch.id, f>> \notin served
      BY <1>1, <2>2, <2>5, <3>1, <3>2 DEF ServedInv, ServedBatch
    <3>4. QED
      BY <2>3, <2>5, <3>3 DEF Serving
  <2>6. QED
    BY <2>3, <2>4, <2>5
<1>2. Init => DataType /\ IInv /\ Careful /\ ServedInv
  BY TypeInit, InvInit, CarefulInit, ServedInit DEF TypeOK, DataType
<1>3. DataType /\ IInv /\ Careful /\ ServedInv /\ [Next]_vars
         => (DataType /\ IInv /\ Careful /\ ServedInv)'
  BY DataNext, InvNext, CarefulNext, ServedNext
<1>4. DataType /\ IInv /\ Careful /\ ServedInv /\ [Next]_vars => [Good]_vars
  BY <1>1
<1>5. QED
  BY <1>2, <1>3, <1>4, PTL DEF Spec, OnlyApprovedFiles
=============================================================================
