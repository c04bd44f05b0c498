----------------------------- MODULE AgentGraph -----------------------------
(***************************************************************************)
(* One conversation thread of the agent: the LangGraph state machine       *)
(* perceive -> planning -> act -> (approval) -> reflecting of              *)
(* agent/graph.py, together with the policy that decides when a step needs *)
(* the user's approval (policy/engine.py) and the record that binds an     *)
(* approval to exactly what will be executed (policy/approval.py).         *)
(*                                                                         *)
(* The model proposes plans and reflections freely: the planner and the    *)
(* reflector are nondeterministic choices.  The environment edits and      *)
(* removes files, time passes, and the process may die between any two     *)
(* steps, a half-finished batch included.                                  *)
(***************************************************************************)
EXTENDS Naturals, Sequences, FiniteSets

CONSTANTS
    Files,          \* source paths a step may name
    Steps,          \* plan steps the planner can produce: [tool, files]
    Threshold,      \* batch_approval_threshold
    MaxPlan,        \* _MAX_PLAN_STEPS
    MaxReplans,     \* _MAX_REPLANS
    MaxCalls,       \* agent_max_model_calls
    MaxTools,       \* agent_max_tool_calls
    MaxInner,       \* bound: model calls one tool makes by itself
    MaxRequests,    \* bound: user messages
    MaxClock        \* bound: edits and removals made by the environment

\* "invalid" stands for every step the policy turns down whatever the scope says,
\* a clarify without a usable question included.
Tools == {"other", "single", "batch", "delete", "clarify", "invalid"}
Effects == {"move", "delete"}

ASSUME FilesAssumption == IsFiniteSet(Files)
ASSUME StepsAssumption ==
    /\ Steps \subseteq [tool : Tools, files : SUBSET Files]
    /\ \A s \in Steps : s.tool \in {"single", "delete"}
                            => \E f \in Files : s.files = {f}
ASSUME BoundsAssumption ==
    /\ Threshold \in Nat \ {0} /\ MaxPlan \in Nat /\ MaxReplans \in Nat
    /\ MaxCalls \in Nat \ {0} /\ MaxTools \in Nat \ {0} /\ MaxInner \in Nat
    /\ MaxRequests \in Nat /\ MaxClock \in Nat

VARIABLES
    \* The disk, as the source paths show it.
    stamp,          \* [Files -> Nat]: size and mtime as one number, or Absent
    clock,          \* largest stamp given so far
    \* The checkpoint of the thread.
    request,        \* request_id (0: no message yet)
    scope,          \* effects the user's own words allow
    scopeLapsed,    \* the scope's expires_at has passed
    status, outcome,
    plan, idx,      \* plan and step_index (counted from 1)
    observed,       \* observations # []
    replans, decision,
    pending,        \* pending_approval, id 0 when there is none
    batchApproved, batchRejected, batch,
    mutated,        \* mutations.move + mutations.rename
    limit,          \* approved_mutation_limit
    consumed, refused,
    calls, tools, overtime,     \* run_trace against the budget
    \* The process (lost in a crash).
    at,             \* node the graph runs next; "idle": no stream
    answer,         \* decision carried by Command(resume=...)
    run,            \* tool call in progress
    \* Observability (never read by the code's actions).
    lastId,         \* approval ids handed out
    approvalLapsed, \* the pending approval expired, or a target was taken
    moved,          \* files really moved or renamed for this request
    unlogged,       \* those of them whose audit record could not be written
    granted,        \* largest limit the user has approved for this request
    served          \* <<approval id, file>> really moved or renamed

disk == <<stamp, clock>>
intent == <<request, scope, scopeLapsed>>
planning == <<plan, idx, observed, replans, decision>>
approvals == <<pending, batchApproved, batchRejected, batch, limit, consumed,
               refused, lastId, approvalLapsed>>
budget == <<calls, tools, overtime>>
history == <<moved, unlogged, granted, served>>
vars == <<disk, intent, status, outcome, planning, approvals, mutated, budget,
          at, answer, run, history>>

-----------------------------------------------------------------------------
Absent == 0
Larger(a, b) == IF a >= b THEN a ELSE b

NoStep == [tool |-> "other", files |-> {}]
NoPending == [id |-> 0, request |-> 0, step |-> NoStep, sources |-> {},
              items |-> {}, snap |-> [f \in Files |-> Absent],
              before |-> 0, limit |-> 0]
NoBatch == [id |-> 0, sources |-> {}, done |-> {}]
NoRun == [on |-> FALSE, step |-> NoStep, left |-> {}, ok |-> 0, via |-> FALSE]

Waiting == pending.id # 0
Terminal == {"completed", "failed", "cancelled", "needs_clarification"}
DoneOutcomes == {"success", "partial", "goal_unmet", "rejected", "unknown",
                 "failed"}
\* Mutant: the outcome is taken for the status.
StatusIsOutcome(o) == o
StatusOf(o) == IF o = "failed" THEN "failed" ELSE "completed"

\* act is never entered past the end of the plan; NoStep only makes Step total.
Step == IF idx \in DOMAIN plan THEN plan[idx] ELSE NoStep
Rest == idx .. Len(plan)

\* Tools whose file changes count towards the request's total.
Cumulative(s) == s.tool \in {"single", "batch"}

\* Files the rest of the plan will move or rename.
Sources == UNION {plan[j].files : j \in {k \in Rest : Cumulative(plan[k])}}

\* Changes a step proposes: a batch counts its matches, a single move counts
\* every single move still to come.
Proposed(s) ==
    CASE s.tool = "batch"  -> Cardinality(s.files)
      [] s.tool = "single" -> Cardinality({j \in Rest : plan[j].tool = "single"})
      [] OTHER             -> 1

\* PolicyEngine.evaluate: the scope allows the effect and has not expired;
\* reading needs neither.
Authorized(s) ==
    CASE Cumulative(s)        -> "move" \in scope /\ ~scopeLapsed
      [] s.tool = "delete"    -> "delete" \in scope /\ ~scopeLapsed
      [] s.tool = "invalid"   -> FALSE
      [] OTHER                -> TRUE

\* Mutant: each step is held against the threshold by itself.
NeedsApprovalPerStep(s) ==
    s.tool = "delete" \/ (Cumulative(s) /\ Proposed(s) > Threshold)

\* Deleting always asks; moves ask once the request's total passes both the
\* threshold and what the user has approved so far.
NeedsApproval(s) ==
    \/ s.tool = "delete"
    \/ /\ Cumulative(s)
       /\ mutated + Proposed(s) > Threshold
       /\ mutated + Proposed(s) > limit

\* Why a step may not run under the approval given earlier.
OutsideApproval(s) ==
    \/ batch.sources = {}
    \/ /\ s.files # {}
       /\ \/ ~ (s.files \subseteq batch.sources)
          \/ s.files \cap batch.done # {}

Stale(p) == \E f \in p.items : stamp[f] = Absent \/ stamp[f] # p.snap[f]

\* verify_pending_approval: what was approved is still what would be executed.
Verified ==
    /\ ~approvalLapsed
    /\ pending.id \notin consumed
    /\ pending.request = request
    /\ ~scopeLapsed
    /\ pending.step = Step
    /\ Cumulative(pending.step) => pending.sources = Sources
    /\ pending.step.tool = "batch" => pending.items = pending.step.files
    /\ pending.before = mutated
    /\ ~Stale(pending)

\* Mutant: what was handled is not recorded.
MarkNothing(b, s) == b

\* A source file is recorded as handled once its step ran, moved or not.
MarkDone(b, s) ==
    IF Cumulative(s) /\ b.sources # {}
    THEN [b EXCEPT !.done = @ \cup s.files] ELSE b

Exceeded == calls >= MaxCalls \/ tools >= MaxTools \/ overtime
\* Mutant: every tool is given the full allowance again.
CallsLeftFull == MaxCalls
CallsLeft == IF calls >= MaxCalls THEN 0 ELSE MaxCalls - calls

\* Routing after the reflecting node.
AfterReflect(st, d) ==
    CASE st \in Terminal -> "end"
      [] d = "replan"    -> "planning"
      [] d = "continue"  -> "act"
      [] OTHER           -> "end"

\* The run is over, with this status and outcome, and asks for nothing.
EndAs(st, o) == status' = st /\ outcome' = o /\ pending' = NoPending

\* Mutant: a used approval stays the pending one.
UseUpKeeps == consumed' = consumed \cup {pending.id} /\ UNCHANGED pending

\* An approval serves once, whatever came of it.
UseUp == pending' = NoPending /\ consumed' = consumed \cup {pending.id}

Plans == UNION {[1 .. n -> Steps] : n \in 1 .. MaxPlan}

-----------------------------------------------------------------------------
Init ==
    /\ stamp = [f \in Files |-> 1] /\ clock = 1
    /\ request = 0 /\ scope = {} /\ scopeLapsed = FALSE
    /\ status = "none" /\ outcome = "none"
    /\ plan = <<>> /\ idx = 1 /\ observed = FALSE
    /\ replans = 0 /\ decision = "none"
    /\ pending = NoPending /\ lastId = 0 /\ approvalLapsed = FALSE
    /\ batchApproved = FALSE /\ batchRejected = FALSE /\ batch = NoBatch
    /\ mutated = 0 /\ limit = 0 /\ consumed = {} /\ refused = {}
    /\ calls = 0 /\ tools = 0 /\ overtime = FALSE
    /\ at = "idle" /\ answer = "none" /\ run = NoRun
    /\ moved = 0 /\ unlogged = 0 /\ granted = 0 /\ served = {}

\* start_stream: a new message starts a new request.  It is refused while an
\* approval is pending.  Only an answer to the agent's own question keeps the
\* earlier scope (and its expiry); every count of the old request is dropped.
Start ==
    /\ at = "idle" /\ ~Waiting
    /\ request < MaxRequests
    /\ request' = request + 1
    /\ \/ status = "needs_clarification" /\ UNCHANGED <<scope, scopeLapsed>>
       \/ scope' \in SUBSET Effects /\ scopeLapsed' = FALSE
    /\ status' = "perceiving" /\ outcome' = "none"
    /\ plan' = <<>> /\ idx' = 1 /\ observed' = FALSE
    /\ replans' = 0 /\ decision' = "none"
    /\ batchApproved' = FALSE /\ batchRejected' = FALSE /\ batch' = NoBatch
    /\ mutated' = 0 /\ limit' = 0 /\ consumed' = {} /\ refused' = {}
    /\ calls' = 0 /\ tools' = 0 /\ overtime' = FALSE
    /\ moved' = 0 /\ unlogged' = 0 /\ granted' = 0 /\ served' = {}
    /\ at' = "perceive"
    /\ UNCHANGED <<disk, pending, lastId, approvalLapsed, answer, run>>

\* _perceive resets the run once more; the scope and the counts stay.
Perceive ==
    /\ at = "perceive"
    /\ status' = "perceiving" /\ outcome' = "none"
    /\ plan' = <<>> /\ idx' = 1 /\ observed' = FALSE
    /\ pending' = NoPending
    /\ batchApproved' = FALSE /\ batchRejected' = FALSE /\ batch' = NoBatch
    /\ at' = "planning"
    /\ UNCHANGED <<disk, intent, replans, decision, limit, consumed, refused,
                   lastId, approvalLapsed, mutated, budget, answer, run, history>>

\* Mutant: after a stop the route is chosen by the last decision alone.
BudgetStopGoesOn ==
    /\ at \in {"planning", "act", "reflecting"} /\ ~run.on
    /\ Exceeded
    /\ EndAs("completed", "budget_exhausted")
    /\ at' = CASE at = "act"        -> "reflecting"
              [] at = "reflecting" -> AfterReflect("running", decision)
              [] OTHER             -> "end"
    /\ UNCHANGED <<disk, intent, planning, batchApproved, batchRejected, batch,
                   limit, consumed, refused, lastId, approvalLapsed, mutated,
                   budget, answer, run, history>>

\* _timed_node: the budget is checked before planning, act and reflecting (but
\* not before approval); once it is spent the run stops there.
BudgetStop ==
    /\ at \in {"planning", "act", "reflecting"} /\ ~run.on
    /\ Exceeded
    /\ EndAs("completed", "budget_exhausted")
    /\ at' = CASE at = "act"        -> "reflecting"
              [] at = "reflecting" -> AfterReflect(status', decision)
              [] OTHER             -> "end"
    /\ UNCHANGED <<disk, intent, planning, batchApproved, batchRejected, batch,
                   limit, consumed, refused, lastId, approvalLapsed, mutated,
                   budget, answer, run, history>>

-----------------------------------------------------------------------------
\* _plan.  A plan made after observations is a replan; approvals, counts and
\* refusals belong to the request and survive it.
PlanSteps(p) ==
    /\ at = "planning" /\ ~Exceeded
    /\ plan' = p /\ idx' = 1
    /\ status' = "planning"
    /\ replans' = replans + (IF observed THEN 1 ELSE 0)
    /\ calls' = calls + 1
    /\ at' = "act"
    /\ UNCHANGED <<disk, intent, outcome, observed, decision, approvals, mutated,
                   tools, overtime, answer, run, history>>

\* An empty plan ends the run; with no observation there is nothing to judge.
PlanEmpty(o) ==
    /\ at = "planning" /\ ~Exceeded
    /\ o \in DoneOutcomes /\ (~observed => o = "unknown")
    /\ plan' = <<>> /\ idx' = 1
    /\ status' = StatusOf(o) /\ outcome' = o
    /\ calls' = calls + 1
    /\ at' = "end"
    /\ UNCHANGED <<disk, intent, observed, replans, decision, approvals, mutated,
                   tools, overtime, answer, run, history>>

PlanError ==
    /\ at = "planning" /\ ~Exceeded
    /\ plan' = <<>>
    /\ status' = "failed" /\ outcome' = "failed"
    /\ calls' = calls + 1
    /\ at' = "end"
    /\ UNCHANGED <<disk, intent, idx, observed, replans, decision, approvals,
                   mutated, tools, overtime, answer, run, history>>

-----------------------------------------------------------------------------
\* _act: one disjunct per early return, in the order of the code.
Acting == at = "act" /\ ~run.on /\ ~Exceeded

\* The step leaves an observation and no effect; the run goes on.
Observe ==
    /\ idx' = idx + 1 /\ observed' = TRUE
    /\ status' = "running"
    /\ at' = "reflecting"
    /\ UNCHANGED <<disk, intent, outcome, plan, replans, decision, approvals,
                   mutated, budget, answer, run, history>>

ActClarify ==
    /\ Acting /\ Step.tool = "clarify"
    /\ plan' = <<>> /\ idx' = 1
    /\ EndAs("needs_clarification", "needs_clarification")
    /\ at' = "reflecting"
    /\ UNCHANGED <<disk, intent, observed, replans, decision, batchApproved,
                   batchRejected, batch, limit, consumed, refused, lastId,
                   approvalLapsed, mutated, budget, answer, run, history>>

ActDenied == Acting /\ ~Authorized(Step) /\ Observe

ActBatchRejected ==
    /\ Acting /\ Authorized(Step)
    /\ Cumulative(Step) /\ batchRejected
    /\ Observe

ActNotCovered ==
    /\ Acting /\ Authorized(Step)
    /\ Cumulative(Step) /\ ~batchRejected /\ batchApproved
    /\ ~NeedsApproval(Step) /\ OutsideApproval(Step)
    /\ Observe

\* Mutant: the refusal of a bulk change is forgotten.
ClearedDespiteRefusal ==
    /\ Acting /\ Authorized(Step) /\ Step.tool # "clarify"
    /\ Cumulative(Step) => \/ ~batchApproved
                           \/ NeedsApproval(Step)
                           \/ ~OutsideApproval(Step)

\* The step gets past the refusals above.
Cleared ==
    /\ Acting /\ Authorized(Step) /\ Step.tool # "clarify"
    /\ Cumulative(Step) => /\ ~batchRejected
                           /\ \/ ~batchApproved
                              \/ NeedsApproval(Step)
                              \/ ~OutsideApproval(Step)

\* The scan a batch refers to is gone, or the file to delete is: no approval
\* is asked for.
ActStaleReference ==
    /\ Cleared
    /\ \/ Step.tool = "batch"
       \/ Step.tool = "delete" /\ \A f \in Step.files : stamp[f] = Absent
    /\ Observe

Present == Step.tool = "delete" => \A f \in Step.files : stamp[f] # Absent

\* The user already refused this very operation.
ActRefusedBefore ==
    /\ Cleared /\ Present
    /\ NeedsApproval(Step) /\ Step \in refused
    /\ Observe

\* build_pending_approval: the record names the step, the files of the whole
\* remaining plan and what each of them looked like when the user was asked.
Ask ==
    /\ Cleared /\ Present
    /\ NeedsApproval(Step) /\ Step \notin refused
    /\ lastId' = lastId + 1 /\ approvalLapsed' = FALSE
    /\ LET covered == IF Cumulative(Step) THEN Sources ELSE {}
       IN pending' = [id |-> lastId + 1, request |-> request, step |-> Step,
                      sources |-> covered, items |-> Step.files \cup covered,
                      snap |-> stamp, before |-> mutated,
                      limit |-> mutated + Proposed(Step)]
    /\ status' = "waiting_approval"
    /\ at' = "approval"
    /\ UNCHANGED <<disk, intent, outcome, planning, batchApproved, batchRejected,
                   batch, limit, consumed, refused, mutated, budget, answer,
                   run, history>>

ActBegin ==
    /\ Cleared /\ ~NeedsApproval(Step)
    /\ run' = [on |-> TRUE, step |-> Step, ok |-> 0, via |-> FALSE,
               left |-> IF Cumulative(Step) THEN Step.files ELSE {}]
    /\ UNCHANGED <<disk, intent, status, outcome, planning, approvals, mutated,
                   budget, at, answer, history>>

-----------------------------------------------------------------------------
\* The tool at work (ToolExecutor.execute), one file at a time.
Serving(f) == <<IF run.via THEN pending.id ELSE batch.id, f>>

\* The loop goes on to its next file; n more have succeeded.
Handled(r, f, n) ==
    [on |-> r.on, step |-> r.step, via |-> r.via,
     left |-> r.left \ {f}, ok |-> r.ok + n]

FileGone(f) ==
    /\ run.on /\ f \in run.left /\ stamp[f] # Absent
    /\ stamp' = [stamp EXCEPT ![f] = Absent]
    /\ moved' = moved + (IF Cumulative(run.step) THEN 1 ELSE 0)
    /\ served' = served \cup {Serving(f)}

FileDone(f) ==
    /\ FileGone(f)
    /\ run' = Handled(run, f, 1)
    /\ UNCHANGED <<clock, intent, status, outcome, planning, approvals, mutated,
                   budget, at, answer, unlogged, granted>>

\* The file is gone but log_operation raises (only OSError is expected there):
\* the item is reported as failed and is not counted.
FileUnlogged(f) ==
    /\ FileGone(f)
    /\ run' = Handled(run, f, 0)
    /\ unlogged' = unlogged + (IF Cumulative(run.step) THEN 1 ELSE 0)
    /\ UNCHANGED <<clock, intent, status, outcome, planning, approvals, mutated,
                   budget, at, answer, granted>>

\* The source is missing, or the operating system refuses.
FileFailed(f) ==
    /\ run.on /\ f \in run.left
    /\ run' = Handled(run, f, 0)
    /\ UNCHANGED <<disk, intent, status, outcome, planning, approvals, mutated,
                   budget, at, answer, history>>

\* The node returns and its update is written to the checkpoint.
ToolReturn(inner) ==
    /\ run.on /\ run.left = {}
    /\ inner \in 0 .. MaxInner /\ inner <= CallsLeft
    /\ idx' = idx + 1 /\ observed' = TRUE /\ status' = "running"
    /\ calls' = calls + inner /\ tools' = tools + 1
    /\ mutated' = mutated + (IF Cumulative(run.step) THEN run.ok ELSE 0)
    /\ IF run.via
       THEN /\ UseUp
            /\ IF Cumulative(run.step)
               THEN /\ batchApproved' = TRUE
                    /\ limit' = Larger(limit, pending.limit)
                    /\ batch' = MarkDone([id |-> pending.id, done |-> {},
                                          sources |-> pending.sources], run.step)
               ELSE UNCHANGED <<batchApproved, limit, batch>>
       ELSE /\ batch' = MarkDone(batch, run.step)
            /\ UNCHANGED <<pending, consumed, batchApproved, limit>>
    /\ run' = NoRun /\ answer' = "none"
    /\ at' = "reflecting"
    /\ UNCHANGED <<disk, intent, outcome, plan, replans, decision, batchRejected,
                   refused, lastId, approvalLapsed, overtime, history>>

-----------------------------------------------------------------------------
\* _approval: the first visit stops at interrupt() and ends the stream.
Interrupt ==
    /\ at = "approval" /\ ~run.on /\ answer = "none"
    /\ at' = "end"
    /\ UNCHANGED <<disk, intent, status, outcome, planning, approvals, mutated,
                   budget, answer, run, history>>

\* The user answers.  An approval that no longer verifies is turned down with
\* 409 before the graph is resumed, and stays pending.
Respond(a) ==
    /\ at = "idle" /\ Waiting
    /\ a = "approve" => Verified
    /\ answer' = a /\ at' = "approval"
    /\ UNCHANGED <<disk, intent, status, outcome, planning, approvals, mutated,
                   budget, run, history>>

\* Refused by the user, or approved and found changed when checked again: the
\* id is used up, and a refused batch refuses the rest of the request.
ApprovalTurnedDown ==
    /\ at = "approval" /\ ~run.on
    /\ answer = "reject" \/ (answer = "approve" /\ ~Verified)
    /\ UseUp
    /\ refused' = refused \cup {pending.step}
    /\ batchRejected' = (batchRejected \/ Cumulative(pending.step))
    /\ idx' = idx + 1 /\ observed' = TRUE /\ status' = "running"
    /\ answer' = "none" /\ at' = "reflecting"
    /\ UNCHANGED <<disk, intent, outcome, plan, replans, decision, batchApproved,
                   batch, limit, lastId, approvalLapsed, mutated, budget, run,
                   history>>

ApprovalBegin ==
    /\ at = "approval" /\ ~run.on
    /\ answer = "approve" /\ Verified
    /\ run' = [on |-> TRUE, step |-> pending.step, left |-> pending.step.files,
               ok |-> 0, via |-> TRUE]
    /\ granted' = IF Cumulative(pending.step)
                  THEN Larger(granted, pending.limit) ELSE granted
    /\ UNCHANGED <<disk, intent, status, outcome, planning, approvals, mutated,
                   budget, at, answer, moved, unlogged, served>>

-----------------------------------------------------------------------------
\* _reflect on a run that is already over changes nothing.
ReflectSkip ==
    /\ at = "reflecting" /\ ~Exceeded
    /\ status \in Terminal
    /\ at' = AfterReflect(status, decision)
    /\ UNCHANGED <<disk, intent, status, outcome, planning, approvals, mutated,
                   budget, answer, run, history>>

\* The code overrules the model: no replan past the limit, no continuing past
\* the end of the plan.
Ruling(d) ==
    IF \/ d = "replan" /\ replans >= MaxReplans
       \/ d = "continue" /\ idx > Len(plan)
    THEN "done" ELSE d

ReflectGoOn(d) ==
    /\ at = "reflecting" /\ ~Exceeded /\ status \notin Terminal
    /\ Ruling(d) # "done"
    /\ status' = "running" /\ decision' = Ruling(d)
    /\ calls' = calls + 1
    /\ at' = AfterReflect(status', decision')
    /\ UNCHANGED <<disk, intent, outcome, plan, idx, observed, replans, approvals,
                   mutated, tools, overtime, answer, run, history>>

ReflectDone(d, o) ==
    /\ at = "reflecting" /\ ~Exceeded /\ status \notin Terminal
    /\ Ruling(d) = "done" /\ o \in DoneOutcomes
    /\ status' = StatusOf(o) /\ outcome' = o /\ decision' = d
    /\ calls' = calls + 1
    /\ at' = AfterReflect(status', decision')
    /\ UNCHANGED <<disk, intent, plan, idx, observed, replans, approvals, mutated,
                   tools, overtime, answer, run, history>>

ReflectError ==
    /\ at = "reflecting" /\ ~Exceeded /\ status \notin Terminal
    /\ status' = "failed" /\ outcome' = "failed"
    /\ calls' = calls + 1
    /\ at' = AfterReflect(status', decision)
    /\ UNCHANGED <<disk, intent, planning, approvals, mutated, tools, overtime,
                   answer, run, history>>

\* The stream is exhausted.
StreamEnd ==
    /\ at = "end"
    /\ at' = "idle"
    /\ UNCHANGED <<disk, intent, status, outcome, planning, approvals, mutated,
                   budget, answer, run, history>>

-----------------------------------------------------------------------------
\* cancel(): _run_stream stops between two items of the stream and writes the
\* cancellation to the checkpoint.  A cancelled wait is first resumed with a
\* rejection, so a stream carrying one is not cut before that is consumed.  (When
\* that write fails the stream still ends: what is left is as after Crash.)
Cancel ==
    /\ at # "idle" /\ ~run.on /\ answer # "reject"
    /\ EndAs("cancelled", "cancelled")
    /\ at' = "idle" /\ answer' = "none"
    /\ UNCHANGED <<disk, intent, planning, batchApproved, batchRejected, batch,
                   limit, consumed, refused, lastId, approvalLapsed, mutated,
                   budget, run, history>>

\* The process dies, or the graph raises: what the last node wrote survives.
Crash ==
    /\ at # "idle"
    /\ at' = "idle" /\ answer' = "none" /\ run' = NoRun
    /\ UNCHANGED <<disk, intent, status, outcome, planning, approvals, mutated,
                   budget, history>>

\* Other programs write to a file, or take it away.
Edit(f) ==
    /\ clock < MaxClock
    /\ clock' = clock + 1
    /\ \/ stamp' = [stamp EXCEPT ![f] = clock + 1]
       \/ stamp' = [stamp EXCEPT ![f] = Absent]
    /\ UNCHANGED <<intent, status, outcome, planning, approvals, mutated, budget,
                   at, answer, run, history>>

\* Time passes: for the scope, the pending approval, or the execution budget.
\* ApprovalLapse also stands for a target that gets occupied: an approval that
\* fails for that reason changes nothing, so one that is freed again before the
\* next check was never taken as far as the state can tell.
ScopeLapse ==
    /\ ~scopeLapsed /\ scopeLapsed' = TRUE
    /\ UNCHANGED <<disk, request, scope, status, outcome, planning, approvals,
                   mutated, budget, at, answer, run, history>>

ApprovalLapse ==
    /\ Waiting /\ ~approvalLapsed /\ approvalLapsed' = TRUE
    /\ UNCHANGED <<disk, intent, status, outcome, planning, pending, batchApproved,
                   batchRejected, batch, limit, consumed, refused, lastId, mutated,
                   budget, at, answer, run, history>>

Overtime ==
    /\ at # "idle" /\ ~overtime /\ overtime' = TRUE
    /\ UNCHANGED <<disk, intent, status, outcome, planning, approvals, mutated,
                   calls, tools, at, answer, run, history>>

-----------------------------------------------------------------------------
Planning ==
    \/ \E p \in Plans : PlanSteps(p)
    \/ \E o \in DoneOutcomes : PlanEmpty(o)
    \/ PlanError

Act ==
    \/ ActClarify \/ ActDenied \/ ActBatchRejected \/ ActNotCovered
    \/ ActStaleReference \/ ActRefusedBefore \/ Ask \/ ActBegin

Tool ==
    \/ \E f \in Files : FileDone(f) \/ FileUnlogged(f) \/ FileFailed(f)
    \/ \E n \in 0 .. MaxInner : ToolReturn(n)

Approval == Interrupt \/ ApprovalTurnedDown \/ ApprovalBegin

Reflect ==
    \/ ReflectSkip
    \/ \E d \in {"continue", "replan", "done"} :
          ReflectGoOn(d) \/ \E o \in DoneOutcomes : ReflectDone(d, o)
    \/ ReflectError

\* What the stream does by itself, once it has been started or resumed.
Graph == Perceive \/ BudgetStop \/ Planning \/ Act \/ Tool \/ Approval
             \/ Reflect \/ StreamEnd

User == Start \/ Cancel \/ \E a \in {"approve", "reject"} : Respond(a)

Environment == (\E f \in Files : Edit(f)) \/ ScopeLapse \/ ApprovalLapse
                   \/ Overtime \/ Crash

Next == Graph \/ User \/ Environment

Spec == Init /\ [][Next]_vars

\* The stream is consumed until it ends (_run_stream loops on next()), so the
\* graph's own steps are weakly fair.  Nothing is assumed of user or disk.
FairSpec == Spec /\ WF_vars(Graph)

-----------------------------------------------------------------------------
Statuses == {"none", "perceiving", "planning", "running", "waiting_approval",
             "completed", "failed", "cancelled", "needs_clarification"}
Outcomes == {"none", "budget_exhausted", "cancelled", "needs_clarification"}
                \cup DoneOutcomes
Nodes == {"idle", "perceive", "planning", "act", "approval", "reflecting", "end"}
StepRecords == [tool : Tools, files : SUBSET Files]
PendingRecords ==
    [id : Nat, request : Nat, step : StepRecords, sources : SUBSET Files,
     items : SUBSET Files, snap : [Files -> Nat], before : Nat, limit : Nat]
BatchRecords == [id : Nat, sources : SUBSET Files, done : SUBSET Files]
RunRecords ==
    [on : BOOLEAN, step : StepRecords, left : SUBSET Files, ok : Nat,
     via : BOOLEAN]

DiskType == stamp \in [Files -> Nat] /\ clock \in Nat
IntentType == request \in Nat /\ scope \subseteq Effects
OutcomeType == status \in Statuses /\ outcome \in Outcomes
PlanType ==
    /\ plan \in Seq(Steps) /\ idx \in Nat \ {0} /\ replans \in Nat
    /\ decision \in {"none", "continue", "replan", "done"}
PendingType ==
    pending \in PendingRecords
BatchType ==
    /\ batch \in BatchRecords
    /\ limit \in Nat /\ lastId \in Nat
    /\ consumed \subseteq Nat /\ refused \subseteq StepRecords
BudgetType == calls \in Nat /\ tools \in Nat
RunType ==
    /\ at \in Nodes /\ answer \in {"none", "approve", "reject"}
    /\ run \in RunRecords
CountType ==
    /\ mutated \in Nat /\ moved \in Nat /\ unlogged \in Nat /\ granted \in Nat
    /\ served \subseteq Nat \X Files
FlagType ==
    /\ scopeLapsed \in BOOLEAN /\ observed \in BOOLEAN
    /\ batchApproved \in BOOLEAN /\ batchRejected \in BOOLEAN
    /\ approvalLapsed \in BOOLEAN /\ overtime \in BOOLEAN

TypeOK ==
    /\ DiskType /\ IntentType /\ OutcomeType /\ PlanType /\ PendingType
    /\ BatchType /\ BudgetType /\ RunType /\ CountType /\ FlagType

\* However often the agent replans, crashes or is resumed, one request never
\* really moves more files than the larger of the threshold and what the user
\* has approved for it; only files whose audit record failed escape the count.
\* (PolicyEngine.evaluate, _apply_mutation_count, approved_mutation_limit)
BulkNeedsApproval == moved <= Larger(Threshold, granted) + unlogged

\* What is removed while an approval runs is what that approval lists; a delete
\* never runs otherwise; after a bulk approval only its own files are moved;
\* and no file is served twice by one approval, a crash half-way included.  What
\* the files look like by then is not part of it.
\* (_approved_batch_violation, _mark_batch_done, verify_pending_approval)
Allowed(f) ==
    IF run.via THEN f \in pending.items
    ELSE /\ run.step.tool # "delete"
         /\ batchApproved => f \in batch.sources

OnlyApprovedFiles ==
    [][\A f \in Files :
          run.on /\ clock' = clock /\ stamp'[f] # stamp[f]
              => /\ Allowed(f)
                 /\ run.via \/ batchApproved => Serving(f) \notin served]_vars

\* After the user has refused a bulk change, the request moves no file any more,
\* under no later plan either.  (batch_rejected in _act and _approval)
RejectedStops == [][batchRejected => moved' <= moved]_vars

\* The approval node is not budget-checked and tools call the model themselves,
\* yet neither limit is ever passed.  (_budget_exceeded, _remaining_model_calls)
BudgetKept == calls <= MaxCalls /\ tools <= MaxTools

\* A pending approval is always one of this request, for the step the plan
\* stands at, asked at the present count and never used before; so a message, a
\* budget stop or a cancel never leaves one behind that a later answer revives.
PendingCurrent ==
    Waiting => /\ pending.request = request
               /\ pending.step = Step
               /\ pending.before = mutated
               /\ pending.id \notin consumed

\* A stream that was started or resumed ends: it finishes, asks or is stopped.
RunEnds == at # "idle" ~> at = "idle"
=============================================================================
