--------------------------- MODULE PlanningApproval ---------------------------
(*****************************************************************************)
(* Planning and human approval of ONE task (milestones M5 and M6).           *)
(*                                                                           *)
(* Three kinds of process share the rows of the task:                        *)
(*   - HTTP requests that post a decision (api/routes/tasks.py);             *)
(*   - the consumer of the planning queue, which resumes the LangGraph       *)
(*     thread of the task with a decision (workers/planning_queue.py);       *)
(*   - the consumer of the repository queue, which runs the same graph for   *)
(*     the first time, at the end of its pipeline.                           *)
(*                                                                           *)
(* The business rows (task, plans, dec) are PostgreSQL: every action that    *)
(* writes them is one committed transaction.  The checkpoint (ckpt) lives in *)
(* another schema and is written by LangGraph after the node that produced   *)
(* it, never in the node's transaction: mem is what a running graph knows,   *)
(* ckpt what a restarted process finds.  Everything else is lost in a crash. *)
(*                                                                           *)
(* Data that no property tells apart is left out: the text of a plan, the    *)
(* evidence and the comment (a comment that differs acts like an action that *)
(* differs in the comparison of a retried request).                          *)
(*****************************************************************************)
EXTENDS Naturals, Sequences, FiniteSets

CONSTANTS
    Keys,              \* idempotency keys; a decision is named by its key
    NoKey,             \* no decision
    PlanItem,          \* the queue item that asks for plan_task
    Requests,          \* POST requests that may be in flight at once
    RevisionLimit,     \* settings.planning_revision_limit
    SchemaMaxVersion,  \* upper bound of expected_plan_version in the schema
    QueueCapacity,     \* settings.planning_decision_queue_capacity
    FaultKinds,        \* the failures the environment may inject
    MaxFaults          \* how many of them in one behaviour

ASSUME KeyAssumption == NoKey \notin Keys /\ PlanItem \notin Keys \cup {NoKey}
ASSUME LimitAssumption == /\ RevisionLimit \in Nat \ {0}
                          /\ SchemaMaxVersion \in Nat \ {0}
                          /\ QueueCapacity \in Nat \ {0}
                          /\ MaxFaults \in Nat
ASSUME FaultAssumption ==
    FaultKinds \subseteq {"crash", "infrastructure", "llm", "evidence", "workspace"}

-----------------------------------------------------------------------------
Workers == {"repository", "planning"}
Actions == {"approve", "request_changes", "reject"}

\* create_decision accepts only the current version when it lies in the
\* schema's range, so no revision goes beyond the range plus one.
Versions == 1 .. SchemaMaxVersion + 1

TaskStatus == {"analyzing", "waiting_approval", "decision_pending", "revising",
               "approved", "rejected", "recovery_blocked", "failed"}
Terminal   == {"approved", "rejected", "recovery_blocked", "failed"}
PlanStatus == {"none", "proposed", "approved", "rejected", "superseded"}

Decision   == [status  : {"none", "pending", "applied", "failed"},
               action  : Actions,
               version : {0} \cup Versions]
NoDecision == [status |-> "none", action |-> "approve", version |-> 0]

\* What a decision request carries.
Payload   == [key : Keys \cup {NoKey}, action : Actions, version : 1 .. SchemaMaxVersion]
NoPayload == [key |-> NoKey, action |-> "approve", version |-> 1]

\* The channels of the graph thread that matter here: the node that runs next,
\* plan_version (0 until persist_plan) and the decision that resumed it.
DraftNodes == {"retrieve_code", "analyze_requirement", "create_plan"}
Nodes == DraftNodes \cup {"persist_plan", "await_approval", "apply_approval",
                          "apply_rejection", "revise_plan", "persist_revision", "end"}
Snapshot == [next : Nodes \cup {"missing"}, version : {0} \cup Versions,
             decision : Keys \cup {NoKey}]
NoCheckpoint == [next |-> "missing", version |-> 0, decision |-> NoKey]

AfterDraft == [retrieve_code       |-> "analyze_requirement",
               analyze_requirement |-> "create_plan",
               create_plan         |-> "persist_plan"]
DecisionRoute == [approve         |-> "apply_approval",
                  reject          |-> "apply_rejection",
                  request_changes |-> "revise_plan"]

\* Where a worker is: "resumed" is the first node of a graph resumed with a
\* decision, "run" any later one; "fail", "block" settle a decision after a
\* failure, "fail_task", "block_task" a task; "handler" is the failure handler
\* of the repository queue.
Stages == {"idle", "plan", "prepare", "resume", "resumed", "run",
           "fail", "block", "fail_task", "block_task", "handler"}

-----------------------------------------------------------------------------
VARIABLES
    task,     \* tasks.status
    plans,    \* implementation_plans.status, by version
    dec,      \* planning_decisions, by idempotency key
    ckpt,     \* the latest durable checkpoint of the thread
    queue,    \* PlanningQueue
    pc,       \* stage of each worker
    item,     \* the work item each worker holds
    seen,     \* plan version each worker loaded with the planning response
    mem,      \* graph state of each running worker
    unsaved,  \* workers whose graph state is not in the checkpoint yet
    rpc,      \* stage of each request
    payload,  \* what each request carries
    faults    \* failures left to the environment

business == <<task, plans, dec>>
workers  == <<pc, item, seen, mem, unsaved>>
requests == <<rpc, payload>>
vars == <<business, ckpt, queue, workers, requests, faults>>

\* load_planning: the plan with the highest version; 0 when there is none.
LatestVersion ==
    IF \A v \in Versions : plans[v] = "none" THEN 0
    ELSE CHOOSE v \in Versions :
           plans[v] # "none" /\ \A u \in Versions : plans[u] # "none" => u <= v

Proposed == {v \in Versions : plans[v] = "proposed"}
Pending  == {k \in Keys : dec[k].status = "pending"}

Fault(kind) == kind \in FaultKinds /\ faults > 0 /\ faults' = faults - 1

SetPc(w, stage) == pc' = [pc EXCEPT ![w] = stage]

\* LangGraph writes a checkpoint behind the node that produced it, and waits
\* for its writes before a run returns or raises.
Durable(w) == w \notin unsaved

Adopt(w, state) == mem' = [mem EXCEPT ![w] = state] /\ unsaved' = unsaved \ {w}
Produce(w, state) == mem' = [mem EXCEPT ![w] = state] /\ unsaved' = unsaved \cup {w}

-----------------------------------------------------------------------------
(* A task that reached ANALYZING in the pipeline, or one planned before the  *)
(* approval workflow was enabled: a plan and no checkpoint.                  *)
Init ==
    /\ \/ /\ task = "analyzing"
          /\ plans = [v \in Versions |-> "none"]
          /\ pc = [w \in Workers |-> IF w = "repository" THEN "plan" ELSE "idle"]
       \/ /\ task = "waiting_approval"
          /\ plans = [v \in Versions |-> IF v = 1 THEN "proposed" ELSE "none"]
          /\ pc = [w \in Workers |-> "idle"]
    /\ dec = [k \in Keys |-> NoDecision]
    /\ ckpt = NoCheckpoint
    /\ queue = <<>>
    /\ item = [w \in Workers |-> PlanItem]
    /\ seen = [w \in Workers |-> 0]
    /\ mem = [w \in Workers |-> NoCheckpoint]
    /\ unsaved = {}
    /\ rpc = [r \in Requests |-> "idle"]
    /\ payload = [r \in Requests |-> NoPayload]
    /\ faults = MaxFaults

-----------------------------------------------------------------------------
(* HTTP: POST /planning/decisions.  Three awaits: the planning is read and   *)
(* the revision limit checked, the decision is created under the task lock,  *)
(* and the decision is put on the queue.                                     *)

Reply(r) == /\ rpc' = [rpc EXCEPT ![r] = "idle"]
            /\ payload' = [payload EXCEPT ![r] = NoPayload]

Advance(r, stage) == rpc' = [rpc EXCEPT ![r] = stage] /\ UNCHANGED payload

Receive(r, k, a, v) ==
    /\ rpc[r] = "idle"
    /\ rpc' = [rpc EXCEPT ![r] = "received"]
    /\ payload' = [payload EXCEPT ![r] = [key |-> k, action |-> a, version |-> v]]
    /\ UNCHANGED <<business, ckpt, queue, workers, faults>>

ReachesLimit(p) == p.action = "request_changes" /\ LatestVersion >= RevisionLimit

\* submit_decision up to create_decision: 409 without a plan or at the limit.
CheckLimit(r) ==
    /\ rpc[r] = "received"
    /\ IF LatestVersion = 0 \/ ReachesLimit(payload[r])
       THEN Reply(r)
       ELSE Advance(r, "checked")
    /\ UNCHANGED <<business, ckpt, queue, workers, faults>>

\* Mutant: the key of a failed decision may be used again.
RecordedLive(p) == p.key \in Keys /\ dec[p.key].status \in {"pending", "applied"}
Recorded(p) == p.key \in Keys /\ dec[p.key].status # "none"
SameDecision(p) == dec[p.key].action = p.action /\ dec[p.key].version = p.version
\* Mutant: the task status is not checked under the lock.
SubmittableByVersion(p) == p.version \in Proposed
Submittable(p) == task = "waiting_approval" /\ p.version \in Proposed

\* create_decision when the key is known: the stored decision or 409.  Only a
\* decision that is still pending goes back on the queue.
ReturnDecision(r) ==
    LET p == payload[r] IN
    /\ rpc[r] = "checked" /\ Recorded(p)
    /\ IF SameDecision(p) /\ dec[p.key].status = "pending"
       THEN Advance(r, "created")
       ELSE Reply(r)
    /\ UNCHANGED <<business, ckpt, queue, workers, faults>>

\* create_decision with a new key: the pending intent and the task status are
\* one transaction under the locks on the task and its proposed plan.
CreateDecision(r) ==
    LET p == payload[r] IN
    /\ rpc[r] = "checked" /\ ~Recorded(p) /\ Submittable(p)
    /\ dec' = [dec EXCEPT ![p.key] =
                 [status |-> "pending", action |-> p.action, version |-> p.version]]
    /\ task' = "decision_pending"
    /\ Advance(r, "created")
    /\ UNCHANGED <<plans, ckpt, queue, workers, faults>>

\* create_decision with a new key the task cannot accept: 409.
RefuseDecision(r) ==
    /\ rpc[r] = "checked" /\ ~Recorded(payload[r]) /\ ~Submittable(payload[r])
    /\ Reply(r)
    /\ UNCHANGED <<business, ckpt, queue, workers, faults>>

\* Mutant: the queue has no capacity.
EnqueueUnbounded(r) ==
    /\ rpc[r] = "created"
    /\ queue' = Append(queue, payload[r].key)
    /\ Reply(r)
    /\ UNCHANGED <<business, ckpt, workers, faults>>

\* A full queue answers 503 and leaves the decision pending.
Enqueue(r) ==
    /\ rpc[r] = "created"
    /\ queue' = IF Len(queue) < QueueCapacity
                THEN Append(queue, payload[r].key) ELSE queue
    /\ Reply(r)
    /\ UNCHANGED <<business, ckpt, workers, faults>>

-----------------------------------------------------------------------------
(* Planning queue: one consumer, one item at a time.                         *)

TakeWork ==
    LET i == Head(queue)
        w == "planning" IN
    /\ pc[w] = "idle" /\ queue # <<>>
    /\ queue' = Tail(queue)
    /\ item' = [item EXCEPT ![w] = i]
    /\ SetPc(w, IF i = PlanItem THEN "plan"
                ELSE IF i \in Pending THEN "prepare" ELSE "idle")
    /\ UNCHANGED <<business, ckpt, seen, mem, unsaved, requests, faults>>

\* process_decision before the graph: reload the planning, verify commits,
\* evidence hash and worktree, and mark a revision as started.
Prepare ==
    LET w == "planning" IN
    /\ pc[w] = "prepare"
    /\ \/ /\ seen' = [seen EXCEPT ![w] = LatestVersion]
          /\ SetPc(w, "resume")
          /\ task' = IF dec[item[w]].action = "request_changes" THEN "revising" ELSE task
          /\ UNCHANGED faults
       \/ /\ Fault("workspace")
          /\ SetPc(w, "block")
          /\ UNCHANGED <<task, seen>>
    /\ UNCHANGED <<plans, dec, ckpt, queue, item, mem, unsaved, requests>>

\* _resume_decision: a thread without a checkpoint is initialised from the
\* stored plan; any other must stand at the plan the worker loaded.
Resume ==
    LET w == "planning"
        bootstrap == [next |-> "await_approval", version |-> seen[w], decision |-> NoKey] IN
    /\ pc[w] = "resume"
    /\ \/ /\ ckpt = NoCheckpoint
          /\ ckpt' = bootstrap
          /\ Adopt(w, bootstrap)
          /\ SetPc(w, "resumed")
       \/ /\ ckpt # NoCheckpoint /\ ckpt.version = seen[w]
          /\ Adopt(w, ckpt)
          /\ SetPc(w, "resumed")
          /\ UNCHANGED ckpt
       \/ /\ ckpt # NoCheckpoint /\ ckpt.version # seen[w]
          /\ SetPc(w, "block")
          /\ UNCHANGED <<ckpt, mem, unsaved>>
    /\ UNCHANGED <<business, queue, item, seen, requests, faults>>

\* fail_decision: only a pending decision is settled.
FailDecision ==
    LET w == "planning"
        k == item[w] IN
    /\ pc[w] \in {"fail", "block"}
    /\ IF k \in Pending
       THEN /\ dec' = [dec EXCEPT ![k].status = "failed"]
            /\ task' = IF pc[w] = "fail" THEN "waiting_approval" ELSE "recovery_blocked"
       ELSE UNCHANGED <<dec, task>>
    /\ SetPc(w, "idle")
    /\ UNCHANGED <<plans, ckpt, queue, item, seen, mem, unsaved, requests, faults>>

-----------------------------------------------------------------------------
(* plan_task: the first run of the graph, by either worker.                  *)

PlanTask(w) ==
    /\ pc[w] = "plan"
    /\ \/ /\ IF task # "analyzing"
             THEN SetPc(w, "idle") /\ UNCHANGED <<mem, unsaved>>
             ELSE /\ SetPc(w, "run")
                  /\ IF ckpt = NoCheckpoint
                     THEN Produce(w, [next |-> "retrieve_code", version |-> 0, decision |-> NoKey])
                     ELSE Adopt(w, ckpt)
          /\ UNCHANGED faults
       \/ /\ task = "analyzing" /\ ckpt # NoCheckpoint
          /\ Fault("workspace")
          /\ SetPc(w, "block_task")
          /\ UNCHANGED <<mem, unsaved>>
    /\ UNCHANGED <<business, ckpt, queue, item, seen, requests>>

\* set_status of plan_task: unconditional, whatever the task has become.
FailTask(w) ==
    /\ pc[w] \in {"fail_task", "block_task"}
    /\ task' = IF pc[w] = "fail_task" THEN "failed" ELSE "recovery_blocked"
    /\ SetPc(w, "idle")
    /\ UNCHANGED <<plans, dec, ckpt, queue, item, seen, mem, unsaved, requests, faults>>

\* Mutant: the failure handler updates the task without its condition.
MarkFailedAlways(w) ==
    /\ pc[w] = "handler"
    /\ task' = "failed"
    /\ SetPc(w, "idle")
    /\ UNCHANGED <<plans, dec, ckpt, queue, item, seen, mem, unsaved, requests, faults>>

\* mark_repository_task_failed: a conditional update of an active task.
MarkFailed(w) ==
    /\ pc[w] = "handler"
    /\ task' = IF task = "analyzing" THEN "failed" ELSE task
    /\ SetPc(w, "idle")
    /\ UNCHANGED <<plans, dec, ckpt, queue, item, seen, mem, unsaved, requests, faults>>

-----------------------------------------------------------------------------
(* Nodes of the graph.                                                       *)

Running(w, node) == pc[w] \in {"resumed", "run"} /\ mem[w].next = node

Goto(w, node) == Produce(w, [mem[w] EXCEPT !.next = node]) /\ SetPc(w, "run")

Draft(w) ==
    \E node \in DraftNodes :
        /\ Running(w, node)
        /\ Goto(w, AfterDraft[node])
        /\ UNCHANGED <<business, ckpt, queue, item, seen, requests, faults>>

\* Worktree, model or evidence fails a node of the first run.
DraftFails(w) ==
    /\ Durable(w)
    /\ \/ Running(w, "retrieve_code") /\ Fault("workspace")
       \/ Running(w, "analyze_requirement") /\ Fault("llm")
       \/ Running(w, "create_plan") /\ Fault("llm")
       \/ Running(w, "persist_plan") /\ Fault("evidence")
    /\ SetPc(w, "fail_task")
    /\ UNCHANGED <<business, ckpt, queue, item, seen, mem, unsaved, requests>>

\* persist_planning: version 1 and WAITING_APPROVAL in one transaction.  Its
\* check that the task is still ANALYZING holds whenever the node runs.  The
\* input checkpoint was written before the model calls returned.
PersistPlan(w) ==
    /\ Running(w, "persist_plan") /\ ckpt # NoCheckpoint /\ task = "analyzing"
    /\ plans' = [plans EXCEPT ![1] = "proposed"]
    /\ task' = "waiting_approval"
    /\ Produce(w, [next |-> "await_approval", version |-> 1, decision |-> NoKey])
    /\ SetPc(w, "run")
    /\ UNCHANGED <<dec, ckpt, queue, item, seen, requests, faults>>

\* await_approval: the value of Command(resume) is there for the first node of
\* the resumed run only; without it the node interrupts and the run returns.
AwaitApproval(w) ==
    /\ Running(w, "await_approval")
    /\ \/ /\ pc[w] = "resumed"
          /\ Produce(w, [next |-> DecisionRoute[dec[item[w]].action],
                      version |-> mem[w].version, decision |-> item[w]])
          /\ SetPc(w, "run")
       \/ /\ pc[w] = "run" /\ Durable(w)
          /\ SetPc(w, "idle")
          /\ UNCHANGED <<mem, unsaved>>
    /\ UNCHANGED <<business, ckpt, queue, item, seen, requests, faults>>

\* Mutant: a decision that was settled already may be applied.
PendingActionRecorded(k, action) ==
    /\ k \in Keys
    /\ dec[k].action = action
    /\ plans[dec[k].version] = "proposed"

\* _require_pending_action.
PendingAction(k, action) ==
    /\ k \in Pending
    /\ dec[k].action = action
    /\ plans[dec[k].version] = "proposed"

\* Mutant: the decision is left pending when the plan is settled.
ApplyTerminalOnly(w, node, action, outcome) ==
    LET k == mem[w].decision IN
    /\ Running(w, node) /\ PendingAction(k, action)
    /\ plans' = [plans EXCEPT ![dec[k].version] = outcome]
    /\ task' = outcome
    /\ Goto(w, "end")
    /\ UNCHANGED <<dec, ckpt, queue, item, seen, requests, faults>>

\* apply_terminal_decision: plan, decision and task in one transaction.
ApplyTerminal(w, node, action, outcome) ==
    LET k == mem[w].decision IN
    /\ Running(w, node) /\ PendingAction(k, action)
    /\ plans' = [plans EXCEPT ![dec[k].version] = outcome]
    /\ dec' = [dec EXCEPT ![k].status = "applied"]
    /\ task' = outcome
    /\ Goto(w, "end")
    /\ UNCHANGED <<ckpt, queue, item, seen, requests, faults>>

ApplyApproval(w)  == ApplyTerminal(w, "apply_approval", "approve", "approved")
ApplyRejection(w) == ApplyTerminal(w, "apply_rejection", "reject", "rejected")

\* Mutant: the graph counts the new version before it is stored.
RevisePlanCounts(w) ==
    /\ Running(w, "revise_plan")
    /\ Produce(w, [mem[w] EXCEPT !.next = "persist_revision", !.version = @ + 1])
    /\ SetPc(w, "run")
    /\ UNCHANGED <<business, ckpt, queue, item, seen, requests, faults>>

RevisePlan(w) ==
    /\ Running(w, "revise_plan")
    /\ Goto(w, "persist_revision")
    /\ UNCHANGED <<business, ckpt, queue, item, seen, requests, faults>>

\* Mutant: the previous version stays proposed.
PersistRevisionBeside(w) ==
    LET k == mem[w].decision
        v == dec[k].version IN
    /\ Running(w, "persist_revision") /\ PendingAction(k, "request_changes")
    /\ plans' = [plans EXCEPT ![v + 1] = "proposed"]
    /\ dec' = [dec EXCEPT ![k].status = "applied"]
    /\ task' = "waiting_approval"
    /\ Produce(w, [next |-> "await_approval", version |-> v + 1, decision |-> NoKey])
    /\ SetPc(w, "run")
    /\ UNCHANGED <<ckpt, queue, item, seen, requests, faults>>

\* Mutant: the revision is stored for whatever decision the task has pending.
PersistRevisionOfTask(w) ==
    \E k \in Pending :
        LET v == dec[k].version IN
        /\ Running(w, "persist_revision") /\ PendingAction(k, "request_changes")
        /\ plans' = [plans EXCEPT ![v] = "superseded", ![v + 1] = "proposed"]
        /\ dec' = [dec EXCEPT ![k].status = "applied"]
        /\ task' = "waiting_approval"
        /\ Produce(w, [next |-> "await_approval", version |-> v + 1, decision |-> NoKey])
        /\ SetPc(w, "run")
        /\ UNCHANGED <<ckpt, queue, item, seen, requests, faults>>

\* persist_revision: vN superseded, vN+1 proposed, the decision applied.
PersistRevision(w) ==
    LET k == mem[w].decision
        v == dec[k].version IN
    /\ Running(w, "persist_revision") /\ PendingAction(k, "request_changes")
    /\ plans' = [plans EXCEPT ![v] = "superseded", ![v + 1] = "proposed"]
    /\ dec' = [dec EXCEPT ![k].status = "applied"]
    /\ task' = "waiting_approval"
    /\ Produce(w, [next |-> "await_approval", version |-> v + 1, decision |-> NoKey])
    /\ SetPc(w, "run")
    /\ UNCHANGED <<ckpt, queue, item, seen, requests, faults>>

\* PlanningConflictError of _require_pending_action is no failure process_decision
\* knows: it reaches the queue consumer, which logs it and drops the item.
RevisionConflict(w) ==
    /\ Running(w, "persist_revision") /\ Durable(w)
    /\ ~PendingAction(mem[w].decision, "request_changes")
    /\ SetPc(w, "idle")
    /\ UNCHANGED <<business, ckpt, queue, item, seen, mem, unsaved, requests, faults>>

\* The model fails, or its revision cites invalid evidence.
RevisionFails(w) ==
    /\ Durable(w)
    /\ \/ Running(w, "revise_plan") /\ Fault("llm")
       \/ Running(w, "persist_revision") /\ Fault("evidence")
    /\ SetPc(w, "fail")
    /\ UNCHANGED <<business, ckpt, queue, item, seen, mem, unsaved, requests>>

Finish(w) ==
    /\ Running(w, "end") /\ Durable(w)
    /\ SetPc(w, "idle")
    /\ UNCHANGED <<business, ckpt, queue, item, seen, mem, unsaved, requests, faults>>

\* LangGraph writes checkpoints behind the running nodes.
SaveCheckpoint(w) ==
    /\ pc[w] \in {"resumed", "run"} /\ ~Durable(w)
    /\ ckpt' = mem[w]
    /\ unsaved' = unsaved \ {w}
    /\ UNCHANGED <<business, queue, pc, item, seen, mem, requests, faults>>

-----------------------------------------------------------------------------
(* Failures of the environment.                                              *)

\* The database, the checkpointer or git is unavailable: the error leaves the
\* processor.  The planning queue drops the item; the repository queue calls
\* its failure handler.
InfrastructureError(w) ==
    /\ pc[w] # "idle" /\ Fault("infrastructure")
    /\ SetPc(w, IF w = "repository" /\ pc[w] # "handler" THEN "handler" ELSE "idle")
    /\ UNCHANGED <<business, ckpt, queue, item, seen, mem, unsaved, requests>>

\* Mutant: start-up restores tasks but no decisions.
RecoveredTasks == IF task = "analyzing" THEN <<PlanItem>> ELSE <<>>

\* Mutant: start-up restores decisions but no tasks.
RecoveredDecisions == IF Pending # {} THEN <<CHOOSE k \in Pending : TRUE>> ELSE <<>>

\* _enqueue_pending_decisions at start-up: pending decisions first, then tasks
\* still ANALYZING.  A task has at most one pending decision.
RecoveredWork ==
    IF Pending # {} THEN <<CHOOSE k \in Pending : TRUE>>
    ELSE IF task = "analyzing" THEN <<PlanItem>> ELSE <<>>

\* The process dies and the lifespan of the next one starts.
CrashRestart ==
    /\ Fault("crash")
    /\ queue' = RecoveredWork
    /\ pc' = [w \in Workers |-> "idle"]
    /\ item' = [w \in Workers |-> PlanItem]
    /\ seen' = [w \in Workers |-> 0]
    /\ mem' = [w \in Workers |-> NoCheckpoint]
    /\ unsaved' = {}
    /\ rpc' = [r \in Requests |-> "idle"]
    /\ payload' = [r \in Requests |-> NoPayload]
    /\ UNCHANGED <<business, ckpt>>

-----------------------------------------------------------------------------
RequestStep(r) == \/ CheckLimit(r) \/ ReturnDecision(r) \/ CreateDecision(r)
                  \/ RefuseDecision(r) \/ Enqueue(r)

GraphStep(w) == \/ Draft(w) \/ PersistPlan(w) \/ AwaitApproval(w)
                \/ ApplyApproval(w) \/ ApplyRejection(w)
                \/ RevisePlan(w) \/ PersistRevision(w) \/ RevisionConflict(w)
                \/ Finish(w) \/ SaveCheckpoint(w)

TaskStep(w) == PlanTask(w) \/ FailTask(w) \/ MarkFailed(w) \/ GraphStep(w)

DecisionStep == TakeWork \/ Prepare \/ Resume \/ FailDecision

FailureStep == \/ CrashRestart
               \/ \E w \in Workers : \/ DraftFails(w) \/ RevisionFails(w)
                                     \/ InfrastructureError(w)

Next == \/ \E r \in Requests, k \in Keys, a \in Actions, v \in 1 .. SchemaMaxVersion :
              Receive(r, k, a, v)
        \/ \E r \in Requests : RequestStep(r)
        \/ \E w \in Workers : TaskStep(w)
        \/ DecisionStep
        \/ FailureStep

Spec == Init /\ [][Next]_vars

\* The event loop runs both consumers and every request it has accepted.
Fairness == /\ WF_vars(TaskStep("repository"))
            /\ WF_vars(TaskStep("planning") \/ DecisionStep)
            /\ \A r \in Requests : WF_vars(RequestStep(r))

FairSpec == Spec /\ Fairness

-----------------------------------------------------------------------------
(* Properties.                                                               *)

TypeOK ==
    /\ task \in TaskStatus
    /\ plans \in [Versions -> PlanStatus]
    /\ dec \in [Keys -> Decision]
    /\ ckpt \in Snapshot
    /\ queue \in Seq(Keys \cup {PlanItem}) /\ Len(queue) <= QueueCapacity
    /\ pc \in [Workers -> Stages]
    /\ item \in [Workers -> Keys \cup {PlanItem}]
    /\ seen \in [Workers -> {0} \cup Versions]
    /\ mem \in [Workers -> Snapshot]
    /\ unsaved \subseteq Workers
    /\ rpc \in [Requests -> {"idle", "received", "checked", "created"}]
    /\ payload \in [Requests -> Payload]
    /\ faults \in 0 .. MaxFaults

\* The versions of a plan form one chain without gaps: every version below a
\* stored one is superseded, and a superseded version has a successor.  This is
\* what the partial unique index on proposed plans and persist_revision's
\* flush order are there for.
PlanChain ==
    \A v \in Versions :
        /\ plans[v] # "none" => \A u \in 1 .. v - 1 : plans[u] = "superseded"
        /\ plans[v] = "superseded" => v + 1 \in Versions /\ plans[v + 1] # "none"

\* Whatever requests race and wherever the process dies, a task has one pending
\* decision while it says so, none otherwise, and that decision is about the
\* plan that is proposed.
OneOpenDecision ==
    /\ \A k, l \in Pending : k = l
    /\ Pending # {} <=> task \in {"decision_pending", "revising"}
    /\ \A k \in Pending : plans[dec[k].version] = "proposed"
    /\ task = "waiting_approval" => Proposed # {}

Outcome == [approve |-> "approved", reject |-> "rejected", request_changes |-> "superseded"]
AppliedTo(v) == {k \in Keys : dec[k].status = "applied" /\ dec[k].version = v}

\* No plan changes its status without a decision, and no decision takes effect
\* twice: a plan that is no longer proposed was settled by exactly one applied
\* decision, whose action gave it that status, and a task is approved or
\* rejected exactly when one of its plans is.
VerdictIsDecided ==
    /\ \A v \in Versions :
          /\ plans[v] \in {"approved", "rejected", "superseded"} =>
                 \E k \in AppliedTo(v) : Outcome[dec[k].action] = plans[v]
          /\ plans[v] \in {"none", "proposed"} => AppliedTo(v) = {}
          /\ \A k, l \in AppliedTo(v) : k = l
    /\ \A s \in {"approved", "rejected"} : task = s <=> \E v \in Versions : plans[v] = s

\* A task that failed has no plan: neither the unconditional set_status of
\* plan_task nor the late failure handler of the repository queue overwrites a
\* task whose plan a user can already decide on.
FailedTaskHasNoPlan == task = "failed" => LatestVersion = 0

\* The checkpoint, written behind the business rows, is never ahead of them:
\* it names no plan version and no node that the rows do not justify.
CheckpointBehindRows ==
    /\ ckpt.version <= LatestVersion
    /\ ckpt.next = "end" => task \in {"approved", "rejected"}
    /\ ckpt.decision # NoKey => dec[ckpt.decision].status # "none"

\* A decision that is applied or failed stays so, and so do a plan that is no
\* longer proposed and a task in a terminal state: a replayed queue item, a
\* restart or a late worker changes nothing.
SettledForever ==
    [][/\ \A k \in Keys : dec[k].status \in {"applied", "failed"} => dec'[k] = dec[k]
       /\ \A v \in Versions : plans[v] \in {"approved", "rejected", "superseded"} =>
                                  plans'[v] = plans[v]
       /\ task \in Terminal => task' = task]_vars

\* A decision takes effect only through the worker that holds its item: a graph
\* that still carries an older decision never applies another one.
AppliedByItsWorker ==
    [][\A k \in Pending : dec'[k].status = "applied" =>
          item["planning"] = k /\ mem["planning"].decision = k]_vars

-----------------------------------------------------------------------------
(* The life of the task its client sees.                                     *)

LifeStage == CASE task = "analyzing" -> "planning"
               [] task = "waiting_approval" -> "awaiting"
               [] task \in {"decision_pending", "revising"} -> "deciding"
               [] task = "recovery_blocked" -> "blocked"
               [] OTHER -> task

OpenDecision == IF Pending = {} THEN NoKey
                ELSE LET k == CHOOSE k \in Pending : TRUE
                     IN  [key |-> k, action |-> dec[k].action]

Life == INSTANCE ApprovalLifecycle
            WITH Nobody <- NoKey, stage <- LifeStage, version <- LatestVersion,
                 open <- OpenDecision, used <- {k \in Keys : dec[k].status # "none"}

\* Queue, workers, checkpoints, restarts and retries are invisible: the task
\* goes through the stages of ApprovalLifecycle, one decision after the other,
\* and each decision has the effect its client asked for, once, or none.
ImplementsLifecycle == Life!Spec

-----------------------------------------------------------------------------
(* Liveness, and a promise of the design document.                           *)

Scheduled(k) == \/ \E i \in DOMAIN queue : queue[i] = k
                \/ pc["planning"] # "idle" /\ item["planning"] = k

\* A pending decision the planning worker has been given is applied or failed in
\* the end, across restarts.  (One refused by a full queue waits for its client.)
DecisionSettles ==
    \A k \in Keys : (k \in Pending /\ Scheduled(k)) ~> k \notin Pending

\* A task does not stay in ANALYZING, across restarts.
AnalysisSettles == task = "analyzing" ~> task # "analyzing"

\* design.md of M6: a retried request with a known key returns the decision.
RetryReturnsDecision ==
    [][\A r \in Requests :
          rpc[r] = "received" /\ rpc'[r] = "idle" /\ faults' = faults =>
             ~(Recorded(payload[r]) /\ SameDecision(payload[r]))]_vars

=============================================================================
