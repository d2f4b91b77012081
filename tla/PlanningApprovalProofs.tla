------------------------ MODULE PlanningApprovalProofs ------------------------
(*****************************************************************************)
(* The safety properties of PlanningApproval, for every number of keys and   *)
(* requests, every limit and every number and kind of failures.              *)
(*                                                                           *)
(* The invariants of the rows are not inductive alone: a worker writes the   *)
(* rows long after it read them.  Rows says what the rows look like between  *)
(* transactions, Control what a worker between two steps may rely on.        *)
(*****************************************************************************)
EXTENDS PlanningApproval, TLAPS

\* Only a plan that is stored is decided on, and only within the schema's range.
DecidedPlanStored ==
    \A k \in Keys : dec[k].status # "none" =>
        dec[k].version \in 1 .. SchemaMaxVersion /\ plans[dec[k].version] # "none"

\* While a task is ANALYZING, and once it FAILED, nothing was planned.
NothingPlanned == task \in {"analyzing", "failed"} => \A v \in Versions : plans[v] = "none"

\* A task with a plan has a current one.
CurrentPlan ==
    (\E u \in Versions : plans[u] # "none") =>
        \E v \in Versions : plans[v] \in {"proposed", "approved", "rejected"}

Rows == /\ PlanChain /\ OneOpenDecision /\ VerdictIsDecided
        /\ DecidedPlanStored /\ NothingPlanned /\ CurrentPlan

\* Nodes before await_approval carry no plan version, nodes after it a decision.
WellFormed(s) ==
    /\ s.next \in DraftNodes \cup {"persist_plan"} => s.version = 0
    /\ s.next \in {"apply_approval", "apply_rejection", "revise_plan", "persist_revision"} =>
          s.decision \in Keys

Known(k) == k \in Keys => dec[k].status # "none"

\* The first run of the graph, and what settles the task when it fails.
FirstRun(w) == \/ pc[w] = "run" /\ mem[w].next \in DraftNodes \cup {"persist_plan"}
               \/ pc[w] \in {"fail_task", "block_task"}

\* The repository worker plans, and never resumes a decision.
RepositoryOnlyPlans ==
    /\ pc["repository"] \in {"idle", "plan", "run", "fail_task", "block_task", "handler"}
    /\ mem["repository"].decision = NoKey
    /\ item["repository"] = PlanItem

\* A task has one planner: the repository worker, or the queue after a restart.
OnePlanner ==
    /\ pc["repository"] # "idle" =>
          /\ \A i \in 1 .. Len(queue) : queue[i] \in Keys
          /\ pc["planning"] # "idle" => item["planning"] \in Keys
    /\ \A w \in Workers : pc[w] = "plan" => item[w] = PlanItem
    /\ \A w \in Workers : FirstRun(w) => task = "analyzing" /\ item[w] = PlanItem

\* A decision stays pending until its graph runs, and a running graph carries
\* no pending decision but its worker's.
OwnDecision ==
    /\ pc["planning"] # "handler"
    /\ pc["planning"] \in {"prepare", "resume", "resumed"} => item["planning"] \in Pending
    /\ pc["planning"] = "resume" => seen["planning"] \in Versions
    /\ pc["planning"] = "resumed" => mem["planning"].version \in Versions
    /\ \A k \in Pending : pc["planning"] \in {"resumed", "run"} /\ mem["planning"].decision = k
                             => item["planning"] = k

\* Threads are well formed, and a decision they carry was recorded.
Threads == /\ WellFormed(ckpt) /\ Known(ckpt.decision)
           /\ \A w \in Workers : WellFormed(mem[w]) /\ Known(mem[w].decision)

RequestsKeyed == \A r \in Requests : rpc[r] # "idle" => payload[r].key \in Keys

Control == /\ RepositoryOnlyPlans /\ OnePlanner /\ OwnDecision
           /\ Threads /\ RequestsKeyed

IInv == TypeOK /\ Rows /\ Control

-----------------------------------------------------------------------------
(* Facts about the data.                                                     *)

LEMMA VersionFacts ==
    /\ Versions = 1 .. SchemaMaxVersion + 1
    /\ SchemaMaxVersion \in Nat /\ 1 <= SchemaMaxVersion
    /\ 1 \in Versions
    /\ \A v \in 1 .. SchemaMaxVersion : v \in Versions /\ v + 1 \in Versions
BY LimitAssumption DEF Versions

\* The plan with the highest version exists: it is the current one.
LEMMA LatestVersionExists ==
    ASSUME TypeOK, PlanChain, CurrentPlan
    PROVE  /\ LatestVersion \in {0} \cup Versions
           /\ (LatestVersion = 0) = (\A v \in Versions : plans[v] = "none")
<1>0. \A v \in Versions : v \in Nat /\ v # 0
  BY VersionFacts
<1>1. CASE \A v \in Versions : plans[v] = "none"
  BY <1>1 DEF LatestVersion
<1>2. CASE \E u \in Versions : plans[u] # "none"
  <2>1. PICK v \in Versions : plans[v] \in {"proposed", "approved", "rejected"}
    BY <1>2 DEF CurrentPlan
  <2>2. \A u \in Versions : plans[u] # "none" => u <= v
    BY <2>1, VersionFacts DEF PlanChain
  <2>3. \E x \in Versions :
          plans[x] # "none" /\ \A u \in Versions : plans[u] # "none" => u <= x
    BY <2>1, <2>2
  <2>4. LatestVersion \in Versions
    BY <1>2, <2>3 DEF LatestVersion
  <2> QED
    BY <1>0, <1>2, <2>4
<1> QED
  BY <1>1, <1>2

\* It is stored, and no later one is.
LEMMA LatestVersionStored ==
    ASSUME TypeOK, PlanChain, CurrentPlan, NEW u \in Versions, plans[u] # "none"
    PROVE  LatestVersion \in Versions /\ plans[LatestVersion] # "none" /\ u <= LatestVersion
<1>1. PICK v \in Versions : plans[v] \in {"proposed", "approved", "rejected"}
  BY DEF CurrentPlan
<1>2. \A x \in Versions : plans[x] # "none" => x <= v
  BY <1>1, VersionFacts DEF PlanChain
<1>3. \E y \in Versions :
        plans[y] # "none" /\ \A x \in Versions : plans[x] # "none" => x <= y
  BY <1>1, <1>2
<1> QED
  BY <1>3 DEF LatestVersion

LEMMA QueueTail ==
    ASSUME TypeOK, queue # <<>>
    PROVE  /\ Head(queue) \in Keys \cup {PlanItem}
           /\ Tail(queue) \in Seq(Keys \cup {PlanItem})
           /\ Len(Tail(queue)) <= QueueCapacity
           /\ \A j \in 1 .. Len(Tail(queue)) : j + 1 \in 1 .. Len(queue) /\ Tail(queue)[j] = queue[j + 1]
           /\ Head(queue) = queue[1] /\ 1 \in 1 .. Len(queue)
BY LimitAssumption DEF TypeOK

-----------------------------------------------------------------------------
(* Type correctness.                                                         *)

LEMMA InitType == Init => TypeOK
BY VersionFacts, LimitAssumption
   DEF Init, TypeOK, TaskStatus, PlanStatus, Decision, NoDecision, Actions, Snapshot,
       NoCheckpoint, Nodes, DraftNodes, Workers, Stages, Payload, NoPayload

USE DEF business, workers, requests, SetPc

LEMMA GotoType ==
    ASSUME TypeOK, NEW w \in Workers, NEW n \in Nodes, Goto(w, n)
    PROVE  mem' \in [Workers -> Snapshot] /\ unsaved' \subseteq Workers /\ pc' \in [Workers -> Stages]
BY DEF Goto, Produce, TypeOK, Snapshot, Stages

LEMMA ReplyType ==
    ASSUME TypeOK, NEW r \in Requests
    PROVE  /\ Reply(r) => rpc' \in [Requests -> {"idle", "received", "checked", "created"}]
                          /\ payload' \in [Requests -> Payload]
           /\ \A stage \in {"checked", "created"} :
                Advance(r, stage) => rpc' \in [Requests -> {"idle", "received", "checked", "created"}]
                                     /\ payload' \in [Requests -> Payload]
<1>1. NoPayload \in Payload
  BY VersionFacts DEF Payload, NoPayload, Actions
<1> QED
  BY <1>1 DEF Reply, Advance, TypeOK

LEMMA SettledType ==
    ASSUME TypeOK, NEW k, NEW status \in {"applied", "failed"}
    PROVE  [dec EXCEPT ![k].status = status] \in [Keys -> Decision]
BY DEF TypeOK, Decision

LEMMA FaultType ==
    ASSUME TypeOK, NEW kind, Fault(kind)
    PROVE  faults' \in 0 .. MaxFaults
BY LimitAssumption DEF TypeOK, Fault

LEMMA StateType ==
    ASSUME TypeOK, NEW w \in Workers, NEW s \in Snapshot
    PROVE  /\ Adopt(w, s) => mem' \in [Workers -> Snapshot] /\ unsaved' \subseteq Workers
           /\ Produce(w, s) => mem' \in [Workers -> Snapshot] /\ unsaved' \subseteq Workers
BY DEF Adopt, Produce, TypeOK

LEMMA NextType == TypeOK /\ Rows /\ Control /\ [Next]_vars => TypeOK'
<1> SUFFICES ASSUME TypeOK, Rows, Control, [Next]_vars PROVE TypeOK'
  OBVIOUS
<1> USE VersionFacts, LimitAssumption
<1>1. ASSUME NEW r \in Requests, NEW k \in Keys, NEW a \in Actions,
             NEW v \in 1 .. SchemaMaxVersion, Receive(r, k, a, v)
      PROVE  TypeOK'
  BY <1>1 DEF Receive, TypeOK, Payload
<1>2. ASSUME NEW r \in Requests, CheckLimit(r) PROVE TypeOK'
  BY <1>2, ReplyType DEF CheckLimit, TypeOK
<1>3. ASSUME NEW r \in Requests, ReturnDecision(r) PROVE TypeOK'
  BY <1>3, ReplyType DEF ReturnDecision, TypeOK
<1>4. ASSUME NEW r \in Requests, CreateDecision(r) PROVE TypeOK'
  BY <1>4 DEF CreateDecision, Advance, TypeOK, Payload, Decision, TaskStatus, Control, RequestsKeyed
<1>5. ASSUME NEW r \in Requests, RefuseDecision(r) PROVE TypeOK'
  BY <1>5 DEF RefuseDecision, Reply, TypeOK, Payload, NoPayload, Actions
<1>6. ASSUME NEW r \in Requests, Enqueue(r) PROVE TypeOK'
  <2>1. payload[r].key \in Keys
    BY <1>6 DEF Enqueue, Control, RequestsKeyed
  <2>2. queue' \in Seq(Keys \cup {PlanItem}) /\ Len(queue') <= QueueCapacity
    BY <1>6, <2>1 DEF Enqueue, TypeOK
  <2> QED
    BY <1>6, <2>2 DEF Enqueue, Reply, TypeOK, Payload, NoPayload, Actions
<1>7. ASSUME TakeWork PROVE TypeOK'
  BY <1>7, QueueTail DEF TakeWork, TypeOK, Stages, Workers
<1>8. ASSUME Prepare PROVE TypeOK'
  <2>1. seen' \in [Workers -> {0} \cup Versions] /\ task' \in TaskStatus
    BY <1>8, LatestVersionExists DEF Prepare, TypeOK, TaskStatus, Rows
  <2>2. faults' \in 0 .. MaxFaults /\ pc' \in [Workers -> Stages]
    BY <1>8, FaultType DEF Prepare, TypeOK, Stages
  <2> QED
    BY <1>8, <2>1, <2>2 DEF Prepare, TypeOK
<1>9. ASSUME Resume PROVE TypeOK'
  <2> DEFINE s == [next |-> "await_approval", version |-> seen["planning"], decision |-> NoKey]
  <2>1. s \in Snapshot /\ ckpt \in Snapshot /\ "planning" \in Workers
    BY DEF TypeOK, Snapshot, Nodes, Workers
  <2>2. /\ mem' \in [Workers -> Snapshot] /\ unsaved' \subseteq Workers
        /\ ckpt' \in Snapshot
        /\ pc' \in [Workers -> Stages]
    BY <1>9, <2>1, StateType DEF Resume, TypeOK, Stages
  <2> QED
    BY <1>9, <2>2 DEF Resume, TypeOK
<1>10. ASSUME FailDecision PROVE TypeOK'
  <2>1. dec' \in [Keys -> Decision]
    <3>1. [dec EXCEPT ![item["planning"]].status = "failed"] \in [Keys -> Decision]
      BY SettledType
    <3> QED
      BY <1>10, <3>1 DEF FailDecision, TypeOK
  <2>2. task' \in TaskStatus
    BY <1>10 DEF FailDecision, TypeOK, TaskStatus
  <2> QED
    BY <1>10, <2>1, <2>2 DEF FailDecision, TypeOK, Stages, Workers
<1>11. ASSUME NEW w \in Workers, PlanTask(w) PROVE TypeOK'
  <2> DEFINE s == [next |-> "retrieve_code", version |-> 0, decision |-> NoKey]
  <2>1. s \in Snapshot /\ ckpt \in Snapshot
    BY DEF TypeOK, Snapshot, Nodes, DraftNodes
  <2>2. mem' \in [Workers -> Snapshot] /\ unsaved' \subseteq Workers
    BY <1>11, <2>1, StateType DEF PlanTask, TypeOK
  <2>3. pc' \in [Workers -> Stages] /\ faults' \in 0 .. MaxFaults
    BY <1>11, FaultType DEF PlanTask, TypeOK, Stages
  <2> QED
    BY <1>11, <2>2, <2>3 DEF PlanTask, TypeOK
<1>12. ASSUME NEW w \in Workers, FailTask(w) PROVE TypeOK'
  BY <1>12 DEF FailTask, TypeOK, Stages, TaskStatus
<1>13. ASSUME NEW w \in Workers, MarkFailed(w) PROVE TypeOK'
  BY <1>13 DEF MarkFailed, TypeOK, Stages, TaskStatus
<1>14. ASSUME NEW w \in Workers, Draft(w) PROVE TypeOK'
  <2>1. PICK n \in DraftNodes : Goto(w, AfterDraft[n])
    BY <1>14 DEF Draft
  <2>2. AfterDraft[n] \in Nodes
    BY <2>1 DEF DraftNodes, AfterDraft, Nodes
  <2> QED
    BY <1>14, <2>1, <2>2, GotoType DEF Draft, TypeOK
<1>15. ASSUME NEW w \in Workers, PersistPlan(w) PROVE TypeOK'
  BY <1>15 DEF PersistPlan, Produce, TypeOK, Stages, Snapshot, Nodes, PlanStatus, TaskStatus
<1>16. ASSUME NEW w \in Workers, AwaitApproval(w) PROVE TypeOK'
  <2>1. ASSUME pc[w] = "resumed"
        PROVE  w = "planning" /\ DecisionRoute[dec[item[w]].action] \in Nodes
                              /\ item[w] \in Keys
    BY <2>1 DEF Control, RepositoryOnlyPlans, OwnDecision, Pending, Workers, TypeOK,
                Decision, Actions, DecisionRoute, Nodes
  <2> DEFINE s == [next |-> DecisionRoute[dec[item[w]].action],
                   version |-> mem[w].version, decision |-> item[w]]
  <2>2. pc[w] = "resumed" => s \in Snapshot
    BY <2>1 DEF Snapshot, TypeOK
  <2>3. mem' \in [Workers -> Snapshot] /\ unsaved' \subseteq Workers
    BY <1>16, <2>2, StateType DEF AwaitApproval, TypeOK
  <2> QED
    BY <1>16, <2>3 DEF AwaitApproval, TypeOK, Stages
<1>17. ASSUME NEW w \in Workers, NEW n \in Nodes, NEW a \in Actions,
              NEW o \in {"approved", "rejected"}, ApplyTerminal(w, n, a, o)
       PROVE  TypeOK'
  <2>1. "end" \in Nodes
    BY DEF Nodes
  <2>2. dec' \in [Keys -> Decision] /\ plans' \in [Versions -> PlanStatus] /\ task' \in TaskStatus
    BY <1>17, SettledType DEF ApplyTerminal, TypeOK, PlanStatus, TaskStatus
  <2> QED
    BY <1>17, <2>1, <2>2, GotoType DEF ApplyTerminal, TypeOK
<1>18. ASSUME NEW w \in Workers, RevisePlan(w) PROVE TypeOK'
  <2>1. "persist_revision" \in Nodes
    BY DEF Nodes
  <2> QED
    BY <1>18, <2>1, GotoType DEF RevisePlan, TypeOK
<1>19. ASSUME NEW w \in Workers, PersistRevision(w) PROVE TypeOK'
  <2> DEFINE k == mem[w].decision
  <2>1. dec[k].version + 1 \in Versions /\ k \in Keys
    BY <1>19 DEF PersistRevision, PendingAction, Pending, Rows, DecidedPlanStored
  <2> DEFINE s == [next |-> "await_approval", version |-> dec[k].version + 1, decision |-> NoKey]
  <2>2. dec' \in [Keys -> Decision] /\ plans' \in [Versions -> PlanStatus] /\ task' \in TaskStatus
    BY <1>19, SettledType DEF PersistRevision, TypeOK, PlanStatus, TaskStatus
  <2>3. s \in Snapshot
    BY <2>1 DEF Snapshot, Nodes
  <2>4. mem' \in [Workers -> Snapshot] /\ unsaved' \subseteq Workers
    BY <1>19, <2>3, StateType DEF PersistRevision
  <2> QED
    BY <1>19, <2>2, <2>4 DEF PersistRevision, TypeOK, Stages
<1>20. ASSUME NEW w \in Workers, RevisionConflict(w) \/ Finish(w) PROVE TypeOK'
  BY <1>20 DEF RevisionConflict, Finish, TypeOK, Stages
<1>21. ASSUME NEW w \in Workers, SaveCheckpoint(w) PROVE TypeOK'
  BY <1>21 DEF SaveCheckpoint, TypeOK
<1>22. ASSUME NEW w \in Workers, DraftFails(w) \/ RevisionFails(w) \/ InfrastructureError(w)
       PROVE  TypeOK'
  <2>1. faults' \in 0 .. MaxFaults /\ pc' \in [Workers -> Stages]
    BY <1>22, FaultType DEF DraftFails, RevisionFails, InfrastructureError, TypeOK, Stages
  <2> QED
    BY <1>22, <2>1 DEF DraftFails, RevisionFails, InfrastructureError, TypeOK
<1>23. ASSUME CrashRestart PROVE TypeOK'
  <2>1. RecoveredWork \in Seq(Keys \cup {PlanItem}) /\ Len(RecoveredWork) <= QueueCapacity
    <3>1. Pending # {} => (CHOOSE k \in Pending : TRUE) \in Keys
      BY DEF Pending
    <3>2. \A x \in Keys \cup {PlanItem} :
            <<x>> \in Seq(Keys \cup {PlanItem}) /\ Len(<<x>>) = 1
      OBVIOUS
    <3>3. <<>> \in Seq(Keys \cup {PlanItem}) /\ Len(<<>>) = 0
      OBVIOUS
    <3>4. \/ RecoveredWork = <<>>
          \/ \E x \in Keys \cup {PlanItem} : RecoveredWork = <<x>>
      BY <3>1, Zenon DEF RecoveredWork
    <3>5. RecoveredWork \in Seq(Keys \cup {PlanItem}) /\ Len(RecoveredWork) \in {0, 1}
      BY <3>2, <3>3, <3>4, Zenon
    <3> QED
      BY <3>5
  <2>2. NoPayload \in Payload /\ NoCheckpoint \in Snapshot
    BY DEF Payload, NoPayload, Actions, NoCheckpoint, Snapshot
  <2> QED
    BY <1>23, <2>1, <2>2, FaultType DEF CrashRestart, TypeOK, Stages
<1>24. CASE UNCHANGED vars
  BY <1>24 DEF vars, TypeOK
<1> QED
  <2>1. {"apply_approval", "apply_rejection"} \subseteq Nodes /\ {"approve", "reject"} \subseteq Actions
    BY DEF Nodes, Actions
  <2> QED
    BY <1>1, <1>2, <1>3, <1>4, <1>5, <1>6, <1>7, <1>8, <1>9, <1>10, <1>11, <1>12, <1>13, <1>14,
       <1>15, <1>16, <1>17, <1>18, <1>19, <1>20, <1>21, <1>22, <1>23, <1>24, <2>1
       DEF Next, RequestStep, GraphStep, TaskStep, DecisionStep, FailureStep,
           ApplyApproval, ApplyRejection

-----------------------------------------------------------------------------
(* The rows between transactions.                                            *)

\* VerdictIsDecided, of one version.
VersionVerdict(u) ==
    /\ plans[u] \in {"approved", "rejected", "superseded"} =>
           \E l \in AppliedTo(u) : Outcome[dec[l].action] = plans[u]
    /\ plans[u] \in {"none", "proposed"} => AppliedTo(u) = {}
    /\ \A l, m \in AppliedTo(u) : l = m

LEMMA VersionVerdictKept ==
    ASSUME NEW u, VersionVerdict(u), plans'[u] = plans[u], AppliedTo(u)' = AppliedTo(u),
           \A l \in AppliedTo(u) : dec'[l] = dec[l]
    PROVE  VersionVerdict(u)'
<1> DEFINE A == AppliedTo(u)
           B == AppliedTo(u)'
<1>1. A = B /\ \A l \in A : dec'[l] = dec[l]
  OBVIOUS
<1>2. /\ plans[u] \in {"approved", "rejected", "superseded"} =>
            \E l \in A : Outcome[dec[l].action] = plans[u]
      /\ plans[u] \in {"none", "proposed"} => A = {}
      /\ \A l, m \in A : l = m
  BY DEF VersionVerdict
<1> HIDE DEF A, B
<1>3. /\ plans'[u] \in {"approved", "rejected", "superseded"} =>
            \E l \in B : Outcome[dec'[l].action] = plans'[u]
      /\ plans'[u] \in {"none", "proposed"} => B = {}
      /\ \A l, m \in B : l = m
  BY <1>1, <1>2
<1> QED
  BY <1>3 DEF B, VersionVerdict

\* The verdicts stay, when only decisions that are not applied change.
LEMMA VerdictKept ==
    ASSUME VerdictIsDecided, UNCHANGED plans,
           \A u \in Versions : AppliedTo(u)' = AppliedTo(u),
           \A u \in Versions : \A l \in AppliedTo(u) : dec'[l] = dec[l],
           \A s \in {"approved", "rejected"} : task' = s <=> task = s
    PROVE  VerdictIsDecided'
<1>1. ASSUME NEW u \in Versions PROVE VersionVerdict(u)'
  BY <1>1, VersionVerdictKept DEF VerdictIsDecided, VersionVerdict
<1>2. \A s \in {"approved", "rejected"} : task' = s <=> \E u \in Versions : plans'[u] = s
  BY DEF VerdictIsDecided
<1> QED
  BY <1>1, <1>2 DEF VerdictIsDecided, VersionVerdict

\* A pending decision that is applied joins the decisions applied to its plan.
LEMMA AppliedJoins ==
    ASSUME TypeOK, NEW k \in Pending, dec' = [dec EXCEPT ![k].status = "applied"],
           NEW u \in Versions
    PROVE  /\ u = dec[k].version => AppliedTo(u)' = AppliedTo(u) \cup {k}
           /\ u # dec[k].version => AppliedTo(u)' = AppliedTo(u)
           /\ \A l \in AppliedTo(u) : dec'[l] = dec[l]
<1>1. k \in Keys /\ dec[k].status = "pending"
  BY DEF Pending
<1>2. /\ dec'[k].status = "applied" /\ dec'[k].version = dec[k].version
      /\ \A l \in Keys \ {k} : dec'[l] = dec[l]
  BY <1>1 DEF TypeOK, Decision
<1>3. \A l : l \in AppliedTo(u)' <=> l \in Keys /\ dec'[l].status = "applied" /\ dec'[l].version = u
  BY DEF AppliedTo
<1>4. \A l : l \in AppliedTo(u) <=> l \in Keys /\ dec[l].status = "applied" /\ dec[l].version = u
  BY DEF AppliedTo
<1> DEFINE A == AppliedTo(u)
           B == AppliedTo(u)'
<1>5. k \notin A /\ A \subseteq Keys /\ \A l \in A : dec'[l] = dec[l]
  BY <1>1, <1>2, <1>4
<1>6. \A l : l \in B <=> l \in A \/ (l = k /\ u = dec[k].version)
  BY <1>1, <1>2, <1>3, <1>4
<1> HIDE DEF A, B
<1>7. (u = dec[k].version => B = A \cup {k}) /\ (u # dec[k].version => B = A)
  BY <1>6
<1> QED
  BY <1>5, <1>7 DEF A, B

LEMMA RowsUnchanged == ASSUME Rows, UNCHANGED business PROVE Rows'
<1>1. PlanChain' /\ OneOpenDecision'
  BY DEF Rows, PlanChain, OneOpenDecision, Pending, Proposed
<1>2. VerdictIsDecided'
  BY VerdictKept DEF Rows, AppliedTo
<1>3. DecidedPlanStored' /\ NothingPlanned' /\ CurrentPlan'
  BY DEF Rows, DecidedPlanStored, NothingPlanned, CurrentPlan
<1> QED
  BY <1>1, <1>2, <1>3 DEF Rows

\* The pending decision, when there is one, is the only one and names the
\* current plan: nothing was applied to it, and no later version exists.
LEMMA PendingFacts ==
    ASSUME TypeOK, Rows, NEW k \in Pending
    PROVE  /\ k \in Keys /\ Pending = {k}
           /\ task \in {"decision_pending", "revising"}
           /\ dec[k].version \in 1 .. SchemaMaxVersion
           /\ plans[dec[k].version] = "proposed"
           /\ AppliedTo(dec[k].version) = {}
           /\ \A v \in Versions : plans[v] \notin {"approved", "rejected"}
           /\ \A v \in Versions : v > dec[k].version => plans[v] = "none"
<1>1. k \in Keys /\ Pending = {k} /\ task \in {"decision_pending", "revising"}
      /\ plans[dec[k].version] = "proposed"
  BY DEF Rows, OneOpenDecision, Pending
<1>2. dec[k].version \in 1 .. SchemaMaxVersion
  BY <1>1 DEF Rows, DecidedPlanStored, Pending
<1>3. dec[k].version \in Versions
  BY <1>2, VersionFacts
<1>4. AppliedTo(dec[k].version) = {}
  BY <1>1, <1>3 DEF Rows, VerdictIsDecided
<1>5. \A v \in Versions : plans[v] \notin {"approved", "rejected"}
  BY <1>1 DEF Rows, VerdictIsDecided
<1>6. \A v \in Versions : v > dec[k].version => plans[v] = "none"
  BY <1>1, <1>2, VersionFacts DEF Rows, PlanChain
<1> QED
  BY <1>1, <1>2, <1>4, <1>5, <1>6

\* Before there is a plan there is no decision.
LEMMA UnplannedFacts ==
    ASSUME TypeOK, Rows, \A v \in Versions : plans[v] = "none"
    PROVE  /\ \A k \in Keys : dec[k].status = "none"
           /\ Pending = {}
           /\ \A v \in Versions : AppliedTo(v) = {}
BY VersionFacts DEF Rows, DecidedPlanStored, Pending, AppliedTo

LEMMA CreateDecisionRows ==
    ASSUME TypeOK, Rows, Control, NEW r \in Requests, CreateDecision(r)
    PROVE  Rows'
<1> DEFINE k == payload[r].key
           v == payload[r].version
<1> USE DEF CreateDecision
<1>1. k \in Keys /\ dec[k].status = "none" /\ v \in 1 .. SchemaMaxVersion
      /\ plans[v] = "proposed" /\ v \in Versions
  BY DEF Control, RequestsKeyed, Recorded, Submittable, Proposed, TypeOK, Payload, Decision
<1>2. /\ dec'[k].status = "pending" /\ dec'[k].version = v
      /\ \A l \in Keys \ {k} : dec'[l] = dec[l]
  BY <1>1 DEF TypeOK
<1>3. Pending = {}
  BY DEF Submittable, Rows, OneOpenDecision
<1>4. Pending' = {k}
  BY <1>1, <1>2, <1>3 DEF Pending
<1>5. PlanChain' /\ OneOpenDecision'
  BY <1>1, <1>2, <1>4 DEF Rows, PlanChain, OneOpenDecision
<1>6. \A u \in Versions : AppliedTo(u)' = AppliedTo(u)
  BY <1>1, <1>2 DEF AppliedTo
<1>7. \A u \in Versions : \A l \in AppliedTo(u) : dec'[l] = dec[l]
  BY <1>1, <1>2 DEF AppliedTo
<1>8. VerdictIsDecided'
  BY <1>6, <1>7, VerdictKept DEF Rows, Submittable
<1>9. DecidedPlanStored' /\ NothingPlanned' /\ CurrentPlan'
  BY <1>1, <1>2 DEF Rows, DecidedPlanStored, NothingPlanned, CurrentPlan
<1> QED
  BY <1>5, <1>8, <1>9 DEF Rows

LEMMA PrepareRows ==
    ASSUME TypeOK, Rows, Control, Prepare
    PROVE  Rows'
<1>1. item["planning"] \in Pending
  BY DEF Prepare, Control, OwnDecision
<1>2. task \in {"decision_pending", "revising"} /\ task' \in {"decision_pending", "revising"}
      /\ plans' = plans /\ dec' = dec
  BY <1>1, PendingFacts DEF Prepare
<1> QED
  BY <1>2 DEF Rows, PlanChain, OneOpenDecision, Pending, Proposed, VerdictIsDecided,
              AppliedTo, DecidedPlanStored, NothingPlanned, CurrentPlan

LEMMA FailDecisionRows ==
    ASSUME TypeOK, Rows, FailDecision
    PROVE  Rows'
<1> DEFINE k == item["planning"]
<1>1. CASE k \notin Pending
  BY <1>1, RowsUnchanged DEF FailDecision
<1>2. CASE k \in Pending
  <2>1. /\ k \in Keys /\ Pending = {k}
        /\ dec[k].version \in Versions /\ plans[dec[k].version] = "proposed"
        /\ task \in {"decision_pending", "revising"}
    BY <1>2, PendingFacts, VersionFacts
  <2>2. /\ dec'[k].status = "failed" /\ dec'[k].version = dec[k].version
        /\ \A l \in Keys \ {k} : dec'[l] = dec[l]
        /\ task' \in {"waiting_approval", "recovery_blocked"} /\ plans' = plans
    BY <1>2, <2>1 DEF FailDecision, TypeOK, Decision
  <2>3. Pending' = {} /\ Proposed' # {}
    BY <2>1, <2>2 DEF Pending, Proposed
  <2>4. \A u \in Versions : AppliedTo(u)' = AppliedTo(u)
    BY <1>2, <2>1, <2>2 DEF AppliedTo, Pending
  <2>5. \A u \in Versions : \A l \in AppliedTo(u) : dec'[l] = dec[l]
    BY <1>2, <2>1, <2>2 DEF AppliedTo, Pending
  <2>6. PlanChain' /\ OneOpenDecision'
    BY <2>2, <2>3 DEF Rows, PlanChain, OneOpenDecision
  <2>7. VerdictIsDecided'
    BY <2>1, <2>2, <2>4, <2>5, VerdictKept DEF Rows
  <2>8. DecidedPlanStored' /\ NothingPlanned' /\ CurrentPlan'
    BY <1>2, <2>1, <2>2 DEF Rows, DecidedPlanStored, NothingPlanned, CurrentPlan, Pending
  <2> QED
    BY <2>6, <2>7, <2>8 DEF Rows
<1> QED
  BY <1>1, <1>2

LEMMA SettleTaskRows ==
    ASSUME TypeOK, Rows, task = "analyzing", task' \in {"failed", "recovery_blocked"},
           UNCHANGED <<plans, dec>>
    PROVE  Rows'
BY DEF Rows, PlanChain, OneOpenDecision, Pending, Proposed, VerdictIsDecided,
       AppliedTo, DecidedPlanStored, NothingPlanned, CurrentPlan

LEMMA PersistPlanRows ==
    ASSUME TypeOK, Rows, NEW w \in Workers, PersistPlan(w)
    PROVE  Rows'
<1>1. \A v \in Versions : plans[v] = "none"
  BY DEF PersistPlan, Rows, NothingPlanned
<1>2. /\ plans'[1] = "proposed" /\ \A v \in Versions \ {1} : plans'[v] = "none"
      /\ task' = "waiting_approval" /\ dec' = dec
  BY <1>1, VersionFacts DEF PersistPlan, TypeOK
<1>3. Pending' = {} /\ \A v \in Versions : AppliedTo(v)' = {}
  BY <1>1, <1>2, UnplannedFacts DEF Pending, AppliedTo
<1>4. PlanChain' /\ OneOpenDecision'
  BY <1>2, <1>3, VersionFacts DEF PlanChain, OneOpenDecision, Proposed
<1>5. VerdictIsDecided'
  BY <1>2, <1>3, VersionFacts DEF VerdictIsDecided
<1>6. DecidedPlanStored' /\ NothingPlanned' /\ CurrentPlan'
  BY <1>1, <1>2, UnplannedFacts, VersionFacts DEF DecidedPlanStored, NothingPlanned, CurrentPlan
<1> QED
  BY <1>4, <1>5, <1>6 DEF Rows

LEMMA ApplyTerminalRows ==
    ASSUME TypeOK, Rows, NEW w \in Workers, ApplyApproval(w) \/ ApplyRejection(w)
    PROVE  Rows'
<1>1. PICK o, k, v :
        /\ o \in {"approved", "rejected"} /\ k \in Pending
        /\ v = dec[k].version /\ Outcome[dec[k].action] = o
        /\ plans' = [plans EXCEPT ![v] = o]
        /\ dec' = [dec EXCEPT ![k].status = "applied"]
        /\ task' = o
  BY DEF ApplyApproval, ApplyRejection, ApplyTerminal, PendingAction, Outcome
<1>2. /\ k \in Keys /\ Pending = {k} /\ v \in Versions /\ v \in 1 .. SchemaMaxVersion
      /\ plans[v] = "proposed" /\ AppliedTo(v) = {}
      /\ \A u \in Versions : plans[u] \notin {"approved", "rejected"}
      /\ \A u \in Versions : u > v => plans[u] = "none"
  BY <1>1, PendingFacts, VersionFacts
<1>3. /\ dec'[k].status = "applied" /\ dec'[k].version = v /\ dec'[k].action = dec[k].action
      /\ \A l \in Keys \ {k} : dec'[l] = dec[l]
      /\ plans'[v] = o /\ o \in {"approved", "rejected"}
      /\ \A u \in Versions \ {v} : plans'[u] = plans[u]
  BY <1>1, <1>2 DEF TypeOK, Decision
<1>4. Pending' = {}
  BY <1>2, <1>3 DEF Pending
<1>5. AppliedTo(v)' = {k} /\ \A u \in Versions \ {v} : AppliedTo(u)' = AppliedTo(u)
  BY <1>1, <1>2, AppliedJoins
<1>6. \A u \in Versions \ {v} : \A l \in AppliedTo(u) : dec'[l] = dec[l]
  BY <1>1, <1>2, AppliedJoins
<1>7. PlanChain'
  BY <1>2, <1>3, VersionFacts DEF Rows, PlanChain
<1>8. OneOpenDecision'
  BY <1>1, <1>4 DEF OneOpenDecision
<1>9. VerdictIsDecided'
  <2>1. ASSUME NEW u \in Versions
        PROVE  VersionVerdict(u)'
    <3>1. CASE u = v
      BY <1>1, <1>3, <1>5, <3>1 DEF VersionVerdict
    <3>2. CASE u # v
      BY <1>3, <1>5, <1>6, <3>2, VersionVerdictKept DEF Rows, VerdictIsDecided, VersionVerdict
    <3> QED
      BY <3>1, <3>2
  <2>2. \A s \in {"approved", "rejected"} : task' = s <=> \E u \in Versions : plans'[u] = s
    BY <1>1, <1>2, <1>3
  <2> QED
    BY <2>1, <2>2 DEF VerdictIsDecided, VersionVerdict
<1>10. DecidedPlanStored' /\ NothingPlanned' /\ CurrentPlan'
  BY <1>1, <1>2, <1>3 DEF Rows, DecidedPlanStored, NothingPlanned, CurrentPlan
<1> QED
  BY <1>7, <1>8, <1>9, <1>10 DEF Rows

LEMMA PersistRevisionRows ==
    ASSUME TypeOK, Rows, NEW w \in Workers, PersistRevision(w)
    PROVE  Rows'
<1>1. PICK k, v :
      /\ k \in Pending
      /\ v = dec[k].version /\ dec[k].action = "request_changes"
      /\ plans' = [plans EXCEPT ![v] = "superseded", ![v + 1] = "proposed"]
      /\ dec' = [dec EXCEPT ![k].status = "applied"]
      /\ task' = "waiting_approval"
  BY DEF PersistRevision, PendingAction
<1>2. /\ k \in Keys /\ Pending = {k} /\ v \in 1 .. SchemaMaxVersion
      /\ plans[v] = "proposed" /\ AppliedTo(v) = {}
      /\ \A u \in Versions : plans[u] \notin {"approved", "rejected"}
      /\ \A u \in Versions : u > v => plans[u] = "none"
  BY <1>1, PendingFacts
<1>3. v \in Versions /\ v + 1 \in Versions /\ v + 1 # v /\ plans[v + 1] = "none"
  BY <1>2, VersionFacts
<1>4. /\ dec'[k].status = "applied" /\ dec'[k].version = v /\ dec'[k].action = dec[k].action
      /\ \A l \in Keys \ {k} : dec'[l] = dec[l]
      /\ plans'[v] = "superseded" /\ plans'[v + 1] = "proposed"
      /\ \A u \in Versions \ {v, v + 1} : plans'[u] = plans[u]
  BY <1>1, <1>2, <1>3 DEF TypeOK, Decision
<1>5. Pending' = {} /\ Proposed' # {}
  BY <1>2, <1>3, <1>4 DEF Pending, Proposed
<1>6. AppliedTo(v)' = {k} /\ \A u \in Versions \ {v} : AppliedTo(u)' = AppliedTo(u)
  BY <1>1, <1>2, <1>3, AppliedJoins
<1>7. \A u \in Versions \ {v} : \A l \in AppliedTo(u) : dec'[l] = dec[l]
  BY <1>1, <1>2, AppliedJoins
<1>8. PlanChain'
  <2>1. \A u \in 1 .. v - 1 : u \in Versions /\ plans[u] = "superseded"
    BY <1>2, <1>3, VersionFacts DEF Rows, PlanChain
  <2>2. \A u \in Versions : u > v + 1 => plans'[u] = "none"
    BY <1>2, <1>4, VersionFacts
  <2>3. \A u \in Versions : u <= v => plans'[u] = "superseded"
    BY <1>2, <1>4, <2>1, VersionFacts
  <2>4. \A u \in Versions : plans'[u] # "none" => u <= v + 1
    BY <1>2, <2>2, VersionFacts
  <2>5. ASSUME NEW x \in Versions, plans'[x] # "none", NEW u \in 1 .. x - 1
        PROVE  plans'[u] = "superseded"
    BY <1>2, <2>3, <2>4, <2>5, VersionFacts
  <2>6. ASSUME NEW x \in Versions, plans'[x] = "superseded"
        PROVE  x + 1 \in Versions /\ plans'[x + 1] # "none"
    <3>1. x <= v
      BY <1>2, <1>4, <2>4, <2>6, VersionFacts
    <3>2. x + 1 \in Versions /\ (x + 1 <= v \/ x + 1 = v + 1)
      BY <1>2, <3>1, VersionFacts
    <3> QED
      BY <1>4, <2>3, <3>2
  <2> QED
    BY <2>5, <2>6 DEF PlanChain
<1>9. OneOpenDecision'
  BY <1>1, <1>5 DEF OneOpenDecision
<1>10. VerdictIsDecided'
  <2>1. ASSUME NEW u \in Versions
        PROVE  VersionVerdict(u)'
    <3>1. CASE u = v
      BY <1>1, <1>4, <1>6, <3>1 DEF Outcome, VersionVerdict
    <3>2. CASE u = v + 1
      BY <1>3, <1>4, <1>6, <3>2 DEF Rows, VerdictIsDecided, VersionVerdict
    <3>3. CASE u \notin {v, v + 1}
      BY <1>4, <1>6, <1>7, <3>3, VersionVerdictKept DEF Rows, VerdictIsDecided, VersionVerdict
    <3> QED
      BY <3>1, <3>2, <3>3
  <2>2. \A s \in {"approved", "rejected"} : task' = s <=> \E u \in Versions : plans'[u] = s
    BY <1>1, <1>2, <1>4
  <2> QED
    BY <2>1, <2>2 DEF VerdictIsDecided, VersionVerdict
<1>11. DecidedPlanStored'
  <2>1. \A u \in Versions : plans[u] # "none" => plans'[u] # "none"
    BY <1>4
  <2>2. \A l \in Keys : dec'[l].status # "none" =>
           dec[l].status # "none" /\ dec'[l].version = dec[l].version
    BY <1>1, <1>4 DEF Pending
  <2>3. \A l \in Keys : dec'[l].status # "none" =>
           dec[l].version \in 1 .. SchemaMaxVersion /\ plans[dec[l].version] # "none"
    BY <2>2 DEF Rows, DecidedPlanStored
  <2> QED
    BY <2>1, <2>2, <2>3, VersionFacts DEF DecidedPlanStored
<1>12. NothingPlanned' /\ CurrentPlan'
  BY <1>1, <1>3, <1>4 DEF NothingPlanned, CurrentPlan
<1> QED
  BY <1>8, <1>9, <1>10, <1>11, <1>12 DEF Rows

LEMMA NextRows == TypeOK /\ Rows /\ Control /\ [Next]_vars => Rows'
<1> SUFFICES ASSUME TypeOK, Rows, Control, [Next]_vars PROVE Rows'
  OBVIOUS
<1>1. ASSUME NEW w \in Workers, FailTask(w) \/ MarkFailed(w) PROVE Rows'
  <2>1. CASE FailTask(w)
    BY <2>1, SettleTaskRows DEF FailTask, Control, OnePlanner, FirstRun
  <2>2. CASE MarkFailed(w) /\ task = "analyzing"
    BY <2>2, SettleTaskRows DEF MarkFailed
  <2>3. CASE MarkFailed(w) /\ task # "analyzing"
    BY <2>3, RowsUnchanged DEF MarkFailed
  <2> QED
    BY <1>1, <2>1, <2>2, <2>3
<1>2. ASSUME NEW r \in Requests,
             CheckLimit(r) \/ ReturnDecision(r) \/ RefuseDecision(r) \/ Enqueue(r)
      PROVE  Rows'
  BY <1>2, RowsUnchanged DEF CheckLimit, ReturnDecision, RefuseDecision, Enqueue
<1>3. ASSUME NEW w \in Workers,
             \/ PlanTask(w) \/ Draft(w) \/ AwaitApproval(w) \/ RevisePlan(w)
             \/ RevisionConflict(w) \/ Finish(w) \/ SaveCheckpoint(w)
             \/ DraftFails(w) \/ RevisionFails(w) \/ InfrastructureError(w)
      PROVE  Rows'
  BY <1>3, RowsUnchanged
     DEF PlanTask, Draft, AwaitApproval, RevisePlan, RevisionConflict, Finish, SaveCheckpoint,
         DraftFails, RevisionFails, InfrastructureError
<1>4. ASSUME TakeWork \/ Resume \/ CrashRestart \/ UNCHANGED vars PROVE Rows'
  BY <1>4, RowsUnchanged DEF TakeWork, Resume, CrashRestart, vars
<1>5. ASSUME NEW r \in Requests, NEW k \in Keys, NEW a \in Actions,
             NEW v \in 1 .. SchemaMaxVersion, Receive(r, k, a, v)
      PROVE  Rows'
  BY <1>5, RowsUnchanged DEF Receive
<1> QED
  BY <1>1, <1>2, <1>3, <1>4, <1>5, CreateDecisionRows, PrepareRows, FailDecisionRows,
     PersistPlanRows, ApplyTerminalRows, PersistRevisionRows
     DEF Next, RequestStep, GraphStep, TaskStep, DecisionStep, FailureStep

-----------------------------------------------------------------------------
(* Between two steps of a worker.                                            *)

LEMMA RecordedStays ==
    ASSUME TypeOK, [Next]_vars, NEW k \in Keys, dec[k].status # "none"
    PROVE  dec'[k].status # "none"
<1>1. \/ UNCHANGED dec
      \/ \E l : dec' = [dec EXCEPT ![l].status = "applied"]
      \/ \E l : dec' = [dec EXCEPT ![l].status = "failed"]
      \/ \E r \in Requests : CreateDecision(r)
  <2>1. ASSUME NEW r \in Requests,
               \/ RequestStep(r)
               \/ \E l \in Keys, a \in Actions, v \in 1 .. SchemaMaxVersion : Receive(r, l, a, v)
        PROVE  UNCHANGED dec \/ CreateDecision(r)
    BY <2>1 DEF RequestStep, Receive, CheckLimit, ReturnDecision, RefuseDecision, Enqueue
  <2>2. ASSUME NEW w \in Workers, ApplyApproval(w) \/ ApplyRejection(w) \/ PersistRevision(w)
        PROVE  \E l : dec' = [dec EXCEPT ![l].status = "applied"]
    BY <2>2 DEF ApplyApproval, ApplyRejection, ApplyTerminal, PersistRevision
  <2>3. ASSUME NEW w \in Workers,
               \/ PlanTask(w) \/ FailTask(w) \/ MarkFailed(w) \/ Draft(w) \/ PersistPlan(w)
               \/ AwaitApproval(w) \/ RevisePlan(w) \/ RevisionConflict(w) \/ Finish(w)
               \/ SaveCheckpoint(w) \/ DraftFails(w) \/ RevisionFails(w) \/ InfrastructureError(w)
        PROVE  UNCHANGED dec
    BY <2>3 DEF PlanTask, FailTask, MarkFailed, Draft, PersistPlan, AwaitApproval, RevisePlan,
                RevisionConflict, Finish, SaveCheckpoint, DraftFails, RevisionFails,
                InfrastructureError
  <2>4. ASSUME DecisionStep \/ CrashRestart \/ UNCHANGED vars
        PROVE  UNCHANGED dec \/ \E l : dec' = [dec EXCEPT ![l].status = "failed"]
    <3>1. CASE FailDecision
      <4>1. UNCHANGED dec \/ dec' = [dec EXCEPT ![item["planning"]].status = "failed"]
        BY <3>1 DEF FailDecision
      <4> QED
        BY <4>1
    <3>2. CASE TakeWork \/ Prepare \/ Resume \/ CrashRestart \/ UNCHANGED vars
      BY <3>2 DEF TakeWork, Prepare, Resume, CrashRestart, vars
    <3> QED
      BY <2>4, <3>1, <3>2 DEF DecisionStep
  <2> QED
    BY <2>1, <2>2, <2>3, <2>4 DEF Next, TaskStep, GraphStep, FailureStep
<1>2. ASSUME NEW l, NEW status \in {"applied", "failed"},
             dec' = [dec EXCEPT ![l].status = status]
      PROVE  dec'[k].status # "none"
  BY <1>2 DEF TypeOK, Decision
<1>3. ASSUME NEW r \in Requests, CreateDecision(r) PROVE dec'[k].status # "none"
  BY <1>3 DEF CreateDecision, TypeOK
<1> QED
  BY <1>1, <1>2, <1>3

LEMMA ThreadsKept ==
    ASSUME TypeOK, Threads, [Next]_vars, UNCHANGED <<ckpt, mem>>
    PROVE  Threads'
<1>1. \A k : Known(k) => Known(k)'
  BY RecordedStays DEF Known
<1> QED
  BY <1>1 DEF Threads, Known

LEMMA ThreadsMove ==
    ASSUME TypeOK, Threads, [Next]_vars, NEW w \in Workers, NEW s \in Snapshot,
           WellFormed(s), Known(s.decision), UNCHANGED ckpt, mem' = [mem EXCEPT ![w] = s]
    PROVE  Threads'
<1>1. \A k : Known(k) => Known(k)'
  BY RecordedStays DEF Known
<1>2. mem'[w] = s /\ \A x \in Workers \ {w} : mem'[x] = mem[x]
  BY DEF TypeOK
<1>3. WellFormed(ckpt)' /\ \A x \in Workers : WellFormed(mem[x])'
  BY <1>2 DEF Threads, WellFormed
<1>4. \A x \in Workers : Known(mem[x].decision)'
  BY <1>1, <1>2 DEF Threads, Known
<1>5. Known(ckpt.decision)'
  BY <1>1 DEF Threads, Known
<1> QED
  BY <1>3, <1>4, <1>5 DEF Threads

LEMMA PlanningWorker == Workers = {"repository", "planning"}
BY DEF Workers

\* Whoever holds a plan item is the only worker in a first run.
LEMMA OnlyPlanner ==
    ASSUME TypeOK, Control, NEW w \in Workers, NEW x \in Workers,
           pc[w] # "idle", item[w] = PlanItem, FirstRun(x)
    PROVE  x = w
BY KeyAssumption DEF Control, OnePlanner, RepositoryOnlyPlans, FirstRun, Workers

\* A draft node runs only in a first run.
LEMMA DraftRuns ==
    ASSUME TypeOK, Control, NEW w \in Workers, NEW node \in DraftNodes \cup {"persist_plan"},
           Running(w, node)
    PROVE  /\ pc[w] = "run" /\ FirstRun(w) /\ task = "analyzing" /\ item[w] = PlanItem
           /\ mem[w].version = 0
<1>1. mem[w].version = 0
  BY DEF Running, Control, Threads, WellFormed
<1>2. pc[w] = "run"
  <2>1. CASE pc[w] = "resumed"
    <3>1. w = "planning" /\ mem[w].version \in Versions
      BY <2>1, PlanningWorker DEF Control, RepositoryOnlyPlans, OwnDecision
    <3> QED
      BY <1>1, <3>1, VersionFacts
  <2> QED
    BY <2>1 DEF Running
<1> QED
  BY <1>1, <1>2 DEF Running, FirstRun, Control, OnePlanner

\* A node that carries a decision is run by the planning worker.
LEMMA DecisionRuns ==
    ASSUME TypeOK, Control, NEW w \in Workers,
           mem[w].next \in {"apply_approval", "apply_rejection", "revise_plan", "persist_revision"}
    PROVE  w = "planning" /\ mem[w].decision \in Keys
BY KeyAssumption DEF Control, RepositoryOnlyPlans, Threads, WellFormed, Workers

\* With a decision pending, nobody is planning.
LEMMA PendingNoFirstRun ==
    ASSUME TypeOK, Rows, Control, Pending # {}, NEW w \in Workers
    PROVE  ~FirstRun(w) /\ task # "analyzing"
BY DEF Rows, OneOpenDecision, Control, OnePlanner

\* Requests touch the queue, the decisions and the task, and no worker.
LEMMA RequestControl ==
    ASSUME TypeOK, Rows, Control, [Next]_vars, NEW r \in Requests,
           RequestStep(r) \/ \E k \in Keys, a \in Actions, v \in 1 .. SchemaMaxVersion : Receive(r, k, a, v)
    PROVE  Control'
<1>1. RequestsKeyed'
  BY DEF RequestStep, Receive, CheckLimit, ReturnDecision, CreateDecision, RefuseDecision, Enqueue,
         Reply, Advance, Control, RequestsKeyed, TypeOK
<1>2. RepositoryOnlyPlans' /\ Threads'
  BY ThreadsKept DEF RequestStep, Receive, CheckLimit, ReturnDecision, CreateDecision, RefuseDecision,
         Enqueue, Control, RepositoryOnlyPlans
<1>3. CASE CreateDecision(r)
  <2> DEFINE k == payload[r].key
  <2>1. k \in Keys /\ dec[k].status = "none" /\ task = "waiting_approval" /\ Pending = {}
    BY <1>3 DEF CreateDecision, Control, RequestsKeyed, Recorded, Submittable, Rows, OneOpenDecision
  <2>2. Pending' = {k}
    BY <1>3, <2>1 DEF CreateDecision, Pending, TypeOK
  <2>3. \A w \in Workers : ~FirstRun(w)
    BY <2>1 DEF Control, OnePlanner
  <2>4. OnePlanner'
    BY <1>3, <2>3 DEF CreateDecision, Control, OnePlanner, FirstRun
  <2>5. mem["planning"].decision # k
    BY <2>1, PlanningWorker DEF Control, Threads, Known
  <2>6. OwnDecision'
    BY <1>3, <2>1, <2>2, <2>5 DEF CreateDecision, Control, OwnDecision
  <2> QED
    BY <1>1, <1>2, <2>4, <2>6 DEF Control
<1>4. CASE Enqueue(r)
  <2>1. payload[r].key \in Keys
    BY <1>4 DEF Enqueue, Control, RequestsKeyed
  <2>2. \/ queue' = queue
        \/ /\ Len(queue') = Len(queue) + 1
           /\ \A i \in 1 .. Len(queue') :
                queue'[i] = payload[r].key \/ (i \in 1 .. Len(queue) /\ queue'[i] = queue[i])
    BY <1>4 DEF Enqueue, TypeOK
  <2>3. (\A i \in 1 .. Len(queue) : queue[i] \in Keys) => \A i \in 1 .. Len(queue') : queue'[i] \in Keys
    BY <2>1, <2>2
  <2>4. OnePlanner' /\ OwnDecision'
    BY <1>4, <2>3 DEF Enqueue, Control, OnePlanner, FirstRun, OwnDecision, Pending
  <2> QED
    BY <1>1, <1>2, <2>4 DEF Control
<1>5. CASE UNCHANGED <<business, ckpt, queue, workers>>
  BY <1>1, <1>2, <1>5 DEF Control, OnePlanner, FirstRun, OwnDecision, Pending
<1> QED
  BY <1>3, <1>4, <1>5 DEF RequestStep, Receive, CheckLimit, ReturnDecision, RefuseDecision

LEMMA DecisionControl ==
    ASSUME TypeOK, Rows, Control, [Next]_vars, DecisionStep
    PROVE  Control'
<1>1. RequestsKeyed' /\ RepositoryOnlyPlans'
  BY DEF DecisionStep, TakeWork, Prepare, Resume, FailDecision, Adopt, Control, RequestsKeyed,
         RepositoryOnlyPlans, TypeOK, Workers
<1>2. CASE TakeWork
  <2>1. Threads' /\ OwnDecision'
    BY <1>2, ThreadsKept DEF TakeWork, Control, OwnDecision, Pending, TypeOK, Workers
  <2>2. OnePlanner'
    BY <1>2, QueueTail DEF TakeWork, Control, OnePlanner, FirstRun, TypeOK, Workers, Pending
  <2> QED
    BY <1>1, <2>1, <2>2 DEF Control
<1>3. CASE Prepare
  <2>1. item["planning"] \in Pending /\ item' = item /\ dec' = dec /\ mem' = mem /\ ckpt' = ckpt
        /\ queue' = queue
    BY <1>3 DEF Prepare, Control, OwnDecision
  <2>2. \A w \in Workers : ~FirstRun(w)
    BY <2>1, PendingNoFirstRun
  <2>3. pc' = [pc EXCEPT !["planning"] = "resume"] \/ pc' = [pc EXCEPT !["planning"] = "block"]
    BY <1>3 DEF Prepare
  <2>4. OnePlanner'
    BY <2>1, <2>2, <2>3, PlanningWorker, <1>3 DEF Control, OnePlanner, FirstRun, TypeOK, Prepare
  <2>5. LatestVersion \in Versions
    <3>1. dec[item["planning"]].version \in Versions
          /\ plans[dec[item["planning"]].version] # "none"
      BY <2>1, PendingFacts, VersionFacts
    <3> QED
      BY <3>1, LatestVersionExists DEF Rows
  <2>6. pc'["planning"] = "resume" => seen'["planning"] \in Versions
    BY <1>3, <2>3, <2>5, PlanningWorker DEF Prepare, TypeOK
  <2>7. pc'["planning"] \in {"resume", "block"}
    BY <2>3, PlanningWorker DEF TypeOK
  <2>8. OwnDecision'
    BY <2>1, <2>6, <2>7 DEF OwnDecision, Pending
  <2> QED
    BY <1>1, <2>1, <2>4, <2>8, ThreadsKept DEF Control
<1>4. CASE Resume
  <2> DEFINE s == [next |-> "await_approval", version |-> seen["planning"], decision |-> NoKey]
  <2>1. OnePlanner' /\ OwnDecision'
    <3>1. item["planning"] \in Pending /\ seen["planning"] \in Versions
      BY <1>4 DEF Resume, Control, OwnDecision
    <3>2. item["planning"] \in Keys /\ \A k \in Pending : k = item["planning"]
      BY <3>1, PendingFacts
    <3>3. \A w \in Workers : ~FirstRun(w)
      BY <3>1, PendingNoFirstRun
    <3>4. /\ pc'["planning"] \in {"resumed", "block"}
          /\ pc'["repository"] = pc["repository"] /\ mem'["repository"] = mem["repository"]
          /\ pc'["planning"] = "resumed" => mem'["planning"].version = seen["planning"]
          /\ item' = item /\ queue' = queue /\ dec' = dec
      BY <1>4 DEF Resume, Adopt, TypeOK, Workers
    <3>5. OnePlanner'
      BY <3>2, <3>3, <3>4, PlanningWorker DEF Control, OnePlanner, FirstRun
    <3>6. OwnDecision'
      BY <3>1, <3>2, <3>4 DEF OwnDecision, Pending
    <3> QED
      BY <3>5, <3>6
  <2>2. Threads'
    <3>1. WellFormed(s) /\ Known(s.decision) /\ WellFormed(ckpt) /\ Known(ckpt.decision)
          /\ s.decision \notin Keys
      BY KeyAssumption DEF WellFormed, Known, DraftNodes, Control, Threads
    <3>2. dec' = dec /\ ckpt' \in {s, ckpt}
          /\ mem'["planning"] \in {s, ckpt, mem["planning"]} /\ mem'["repository"] = mem["repository"]
      BY <1>4 DEF Resume, Adopt, TypeOK, Workers
    <3> HIDE DEF s
    <3>3. WellFormed(ckpt)' /\ Known(ckpt.decision)'
      BY <3>1, <3>2 DEF WellFormed, Known
    <3>4. \A w \in Workers : mem'[w] \in {s, ckpt, mem[w]}
      BY <3>2, PlanningWorker
    <3>5. \A w \in Workers : WellFormed(mem'[w]) /\ Known(mem'[w].decision)
      BY <3>1, <3>4 DEF Control, Threads
    <3>6. \A w \in Workers : WellFormed(mem[w])' /\ Known(mem[w].decision)'
      BY <3>2, <3>5 DEF WellFormed, Known
    <3> QED
      BY <3>3, <3>6 DEF Threads
  <2> QED
    BY <1>1, <2>1, <2>2 DEF Control
<1>5. CASE FailDecision
  <2>1. pc'["planning"] = "idle" /\ pc'["repository"] = pc["repository"]
        /\ mem' = mem /\ ckpt' = ckpt /\ item' = item /\ queue' = queue
    BY <1>5 DEF FailDecision, TypeOK, Workers
  <2>2. FirstRun("repository") => task' = task
    BY <1>5, PendingNoFirstRun, PlanningWorker DEF FailDecision
  <2>3. OnePlanner' /\ OwnDecision'
    BY <2>1, <2>2, PlanningWorker DEF Control, OnePlanner, FirstRun, OwnDecision
  <2> QED
    BY <1>1, <2>1, <2>3, ThreadsKept DEF Control
<1> QED
  BY <1>2, <1>3, <1>4, <1>5 DEF DecisionStep

\* What settles a task when its first run or its pipeline fails.
LEMMA FailureControl ==
    ASSUME TypeOK, Rows, Control, [Next]_vars, NEW w \in Workers,
           FailTask(w) \/ MarkFailed(w) \/ DraftFails(w) \/ RevisionFails(w) \/ InfrastructureError(w)
    PROVE  Control'
<1>1. /\ UNCHANGED <<plans, dec, ckpt, queue, item, seen, mem, requests>>
      /\ \A x \in Workers \ {w} : pc'[x] = pc[x]
  BY DEF FailTask, MarkFailed, DraftFails, RevisionFails, InfrastructureError, TypeOK
<1>2. CASE FailTask(w) \/ MarkFailed(w)
  <2>1. pc'[w] = "idle" /\ pc[w] # "idle" /\ item[w] = PlanItem
    BY <1>2, PlanningWorker DEF FailTask, MarkFailed, TypeOK, Control, OnePlanner, FirstRun,
       OwnDecision, RepositoryOnlyPlans
  <2>2. \A x \in Workers \ {w} : ~FirstRun(x)
    BY <2>1, OnlyPlanner
  <2>3. OnePlanner'
    BY <1>1, <2>1, <2>2, PlanningWorker DEF Control, OnePlanner, FirstRun
  <2> QED
    BY <1>1, <2>1, <2>3, ThreadsKept, PlanningWorker
       DEF Control, RepositoryOnlyPlans, OwnDecision, Pending, RequestsKeyed
<1>3. CASE DraftFails(w)
  <2>1. FirstRun(w) /\ task = "analyzing" /\ item[w] = PlanItem /\ pc[w] = "run"
    BY <1>3, DraftRuns DEF DraftFails, DraftNodes
  <2>2. pc'[w] = "fail_task" /\ task' = task
    BY <1>3 DEF DraftFails, TypeOK
  <2>3. OnePlanner'
    BY <1>1, <2>1, <2>2, PlanningWorker DEF Control, OnePlanner, FirstRun
  <2> QED
    BY <1>1, <2>2, <2>3, ThreadsKept, PlanningWorker
       DEF Control, RepositoryOnlyPlans, OwnDecision, Pending, RequestsKeyed
<1>4. CASE RevisionFails(w)
  <2>1. w = "planning" /\ pc'[w] = "fail" /\ pc[w] # "idle" /\ task' = task
    BY <1>4, DecisionRuns DEF RevisionFails, Running, TypeOK
  <2> QED
    BY <1>1, <2>1, ThreadsKept, PlanningWorker
       DEF Control, OnePlanner, FirstRun, RepositoryOnlyPlans, OwnDecision, Pending, RequestsKeyed
<1>5. CASE InfrastructureError(w)
  <2>1. pc'[w] \in {"idle", "handler"} /\ (pc'[w] = "handler" => w = "repository") /\ pc[w] # "idle"
        /\ task' = task
    BY <1>5 DEF InfrastructureError, TypeOK
  <2> QED
    BY <1>1, <2>1, ThreadsKept, PlanningWorker
       DEF Control, OnePlanner, FirstRun, RepositoryOnlyPlans, OwnDecision, Pending, RequestsKeyed
<1> QED
  BY <1>2, <1>3, <1>4, <1>5

\* A graph that starts or advances: the state it produces is well formed, it is
\* the first run that stays one, and a pending decision stays its worker's.
LEMMA ProduceControl ==
    ASSUME TypeOK, Rows, Control, [Next]_vars, NEW w \in Workers, NEW s \in Snapshot,
           mem' = [mem EXCEPT ![w] = s], pc' = [pc EXCEPT ![w] = "run"], pc[w] # "idle",
           UNCHANGED <<ckpt, queue, item, seen, requests>>,
           WellFormed(s), Known(s.decision),
           w = "repository" => s.decision = NoKey,
           s.next \in DraftNodes \cup {"persist_plan"} => task' = "analyzing" /\ item[w] = PlanItem,
           \A x \in Workers \ {w} : FirstRun(x) => task' = "analyzing",
           Pending' \subseteq Pending,
           \A k \in Pending' : s.decision = k => item[w] = k,
           w = "repository" => \A k \in Pending : k \in Pending'
    PROVE  Control'
<1>1. /\ mem'[w] = s /\ pc'[w] = "run"
      /\ \A x \in Workers \ {w} : mem'[x] = mem[x] /\ pc'[x] = pc[x]
      /\ item' = item /\ queue' = queue /\ seen' = seen
  BY DEF TypeOK
<1>2. RequestsKeyed' /\ Threads'
  BY ThreadsMove DEF Control, RequestsKeyed
<1>3. RepositoryOnlyPlans'
  BY <1>1, PlanningWorker DEF Control, RepositoryOnlyPlans
<1>4. OnePlanner'
  <2>1. \A x \in Workers \ {w} : FirstRun(x)' => FirstRun(x)
    BY <1>1 DEF FirstRun
  <2>2. FirstRun(w)' => s.next \in DraftNodes \cup {"persist_plan"}
    BY <1>1 DEF FirstRun
  <2>3. \A x \in Workers : FirstRun(x)' => task' = "analyzing" /\ item[x] = PlanItem
    BY <2>1, <2>2 DEF Control, OnePlanner
  <2> QED
    BY <1>1, <2>3, PlanningWorker DEF Control, OnePlanner
<1>5. OwnDecision'
  <2>1. CASE w = "planning"
    BY <1>1, <2>1 DEF OwnDecision
  <2>2. CASE w = "repository"
    BY <1>1, <2>2, PlanningWorker DEF Control, OwnDecision
  <2> QED
    BY <2>1, <2>2, PlanningWorker
<1> QED
  BY <1>2, <1>3, <1>4, <1>5 DEF Control

\* The graph of a worker that runs.
LEMMA GraphControl ==
    ASSUME TypeOK, Rows, Control, [Next]_vars, NEW w \in Workers,
           PlanTask(w) \/ GraphStep(w)
    PROVE  Control'
<1>1. CASE PlanTask(w)
  <2>0. item[w] = PlanItem /\ pc[w] = "plan"
    BY <1>1 DEF PlanTask, Control, OnePlanner
  <2>1. CASE pc' = [pc EXCEPT ![w] = "run"] /\ task = "analyzing"
    <3> DEFINE s == [next |-> "retrieve_code", version |-> 0, decision |-> NoKey]
    <3>1. s \in Snapshot /\ ckpt \in Snapshot
      BY DEF TypeOK, Snapshot, Nodes, DraftNodes
    <3>2. WellFormed(s) /\ WellFormed(ckpt) /\ Known(s.decision) /\ Known(ckpt.decision)
      BY KeyAssumption DEF WellFormed, Known, DraftNodes, Control, Threads
    <3>3. Pending = {} /\ \A k \in Keys : dec[k].status = "none"
      BY <2>1, UnplannedFacts DEF Rows, NothingPlanned
    <3>4. ckpt.decision = NoKey
      BY <3>1, <3>2, <3>3 DEF Known, Snapshot
    <3>5. mem' = [mem EXCEPT ![w] = s] \/ mem' = [mem EXCEPT ![w] = ckpt]
      BY <1>1, <2>1, <2>0 DEF PlanTask, Produce, Adopt, TypeOK
    <3>6. UNCHANGED <<business, ckpt, queue, item, seen, requests>>
      BY <1>1 DEF PlanTask
    <3>7. Pending' = Pending
      BY <3>6 DEF Pending
    <3>8. s.decision = NoKey
      OBVIOUS
    <3> HIDE DEF s
    <3>9. PICK x \in {s, ckpt} : mem' = [mem EXCEPT ![w] = x]
      BY <3>5
    <3>10. x \in Snapshot /\ WellFormed(x) /\ Known(x.decision) /\ x.decision = NoKey
      BY <3>1, <3>2, <3>4, <3>8, <3>9
    <3> QED
      BY <2>0, <2>1, <3>3, <3>6, <3>7, <3>9, <3>10, ProduceControl
  <2>2. CASE /\ \/ pc' = [pc EXCEPT ![w] = "idle"]
                \/ pc' = [pc EXCEPT ![w] = "block_task"] /\ task = "analyzing"
             /\ UNCHANGED <<mem, unsaved>>
    <3>1. /\ UNCHANGED <<business, ckpt, queue, item, seen, mem, requests>>
          /\ pc'[w] \in {"idle", "block_task"} /\ (pc'[w] = "block_task" => task = "analyzing")
          /\ \A x \in Workers \ {w} : pc'[x] = pc[x]
      BY <1>1, <2>2 DEF PlanTask, TypeOK
    <3> QED
      BY <2>0, <3>1, ThreadsKept, PlanningWorker
         DEF Control, OnePlanner, FirstRun, RepositoryOnlyPlans, OwnDecision, Pending, RequestsKeyed
  <2> QED
    BY <1>1, <2>1, <2>2 DEF PlanTask
<1>2. CASE Draft(w)
  <2>1. PICK node \in DraftNodes : Running(w, node) /\ Goto(w, AfterDraft[node])
    BY <1>2 DEF Draft
  <2> DEFINE s == [mem[w] EXCEPT !.next = AfterDraft[node]]
  <2>2. task = "analyzing" /\ item[w] = PlanItem /\ pc[w] = "run" /\ mem[w].version = 0
    BY <2>1, DraftRuns
  <2>3. mem' = [mem EXCEPT ![w] = s] /\ pc' = [pc EXCEPT ![w] = "run"]
    BY <2>1 DEF Goto, Produce
  <2>4. AfterDraft[node] \in {"analyze_requirement", "create_plan", "persist_plan"}
    BY <2>1 DEF AfterDraft, DraftNodes
  <2>5. /\ s \in Snapshot /\ s.decision = mem[w].decision /\ s.version = 0
        /\ s.next \in DraftNodes \cup {"persist_plan"}
    BY <2>2, <2>4 DEF TypeOK, Snapshot, Nodes, DraftNodes
  <2>6. WellFormed(s)
    BY <2>5 DEF WellFormed, DraftNodes
  <2>7. Known(s.decision) /\ (w = "repository" => s.decision = NoKey)
    BY <2>5 DEF Control, Threads, RepositoryOnlyPlans
  <2>8. UNCHANGED <<business, ckpt, queue, item, seen, requests>> /\ Pending' = {} /\ Pending = {}
    BY <1>2, <2>2 DEF Draft, Pending, Rows, OneOpenDecision
  <2> HIDE DEF s
  <2> QED
    BY <2>2, <2>3, <2>5, <2>6, <2>7, <2>8, ProduceControl
<1>3. CASE PersistPlan(w)
  <2> DEFINE s == [next |-> "await_approval", version |-> 1, decision |-> NoKey]
  <2>1. s \in Snapshot /\ WellFormed(s) /\ Known(s.decision) /\ s.decision = NoKey
        /\ s.next \notin DraftNodes \cup {"persist_plan"}
    BY VersionFacts, KeyAssumption DEF Snapshot, Nodes, DraftNodes, WellFormed, Known
  <2>2. task = "analyzing" /\ item[w] = PlanItem /\ pc[w] = "run"
    BY <1>3, DraftRuns DEF PersistPlan
  <2>3. \A x \in Workers \ {w} : ~FirstRun(x)
    BY <2>2, OnlyPlanner
  <2>4. Pending = {} /\ Pending' = {}
    BY <1>3, <2>2 DEF PersistPlan, Pending, Rows, OneOpenDecision
  <2>5. /\ mem' = [mem EXCEPT ![w] = s] /\ pc' = [pc EXCEPT ![w] = "run"]
        /\ UNCHANGED <<ckpt, queue, item, seen, requests>>
    BY <1>3 DEF PersistPlan, Produce
  <2> HIDE DEF s
  <2> QED
    BY <2>1, <2>2, <2>3, <2>4, <2>5, ProduceControl
<1>4. CASE AwaitApproval(w)
  <2>1. CASE pc[w] = "resumed"
    <3> DEFINE s == [next |-> DecisionRoute[dec[item[w]].action],
                     version |-> mem[w].version, decision |-> item[w]]
    <3>1. w = "planning" /\ item[w] \in Pending /\ item[w] \in Keys
      BY <2>1, PlanningWorker DEF Control, RepositoryOnlyPlans, OwnDecision, Pending
    <3>2. /\ mem' = [mem EXCEPT ![w] = s] /\ pc' = [pc EXCEPT ![w] = "run"]
          /\ UNCHANGED <<business, ckpt, queue, item, seen, requests>> /\ Pending' = Pending
      BY <1>4, <2>1 DEF AwaitApproval, Produce, Pending
    <3>3. s.next \in {"apply_approval", "apply_rejection", "revise_plan"} /\ s.decision = item[w]
      BY <3>1 DEF TypeOK, Decision, Actions, DecisionRoute
    <3>4. s \in Snapshot
      BY <3>1, <3>3 DEF Snapshot, Nodes, TypeOK
    <3>5. WellFormed(s) /\ Known(s.decision) /\ s.next \notin DraftNodes \cup {"persist_plan"}
      BY <3>1, <3>3 DEF WellFormed, Known, Pending, DraftNodes
    <3>6. \A x \in Workers : ~FirstRun(x)
      BY <3>1, PendingNoFirstRun
    <3> HIDE DEF s
    <3> QED
      BY <2>1, <3>1, <3>2, <3>3, <3>4, <3>5, <3>6, ProduceControl
  <2>2. CASE pc[w] = "run"
    <3>1. UNCHANGED <<business, ckpt, queue, item, seen, mem, requests>>
          /\ pc'[w] = "idle" /\ \A x \in Workers \ {w} : pc'[x] = pc[x]
      BY <1>4, <2>2 DEF AwaitApproval, TypeOK
    <3> QED
      BY <3>1, ThreadsKept, PlanningWorker
         DEF Control, OnePlanner, FirstRun, RepositoryOnlyPlans, OwnDecision, Pending, RequestsKeyed
  <2> QED
    BY <1>4, <2>1, <2>2 DEF AwaitApproval, Running
<1>5. CASE ApplyApproval(w) \/ ApplyRejection(w)
  <2> DEFINE s == [mem[w] EXCEPT !.next = "end"]
  <2>1. /\ mem[w].next \in {"apply_approval", "apply_rejection"} /\ mem[w].decision \in Pending
        /\ mem' = [mem EXCEPT ![w] = s] /\ pc' = [pc EXCEPT ![w] = "run"] /\ pc[w] # "idle"
        /\ dec' = [dec EXCEPT ![mem[w].decision].status = "applied"]
        /\ UNCHANGED <<ckpt, queue, item, seen, requests>>
    BY <1>5 DEF ApplyApproval, ApplyRejection, ApplyTerminal, Goto, Produce, Running, PendingAction
  <2>2. w = "planning" /\ Pending = {mem[w].decision} /\ mem[w].decision \in Keys
    BY <2>1, DecisionRuns, PendingFacts
  <2>3. Pending' = {}
    BY <2>1, <2>2 DEF Pending, TypeOK
  <2>4. s \in Snapshot /\ s.next = "end" /\ s.decision = mem[w].decision
    BY DEF TypeOK, Snapshot, Nodes
  <2>5. WellFormed(s) /\ Known(s.decision) /\ s.next \notin DraftNodes \cup {"persist_plan"}
    BY <2>4 DEF WellFormed, Control, Threads, DraftNodes
  <2>6. \A x \in Workers : ~FirstRun(x)
    BY <2>2, PendingNoFirstRun
  <2> HIDE DEF s
  <2> QED
    BY <2>1, <2>2, <2>3, <2>4, <2>5, <2>6, ProduceControl
<1>6. CASE RevisePlan(w)
  <2> DEFINE s == [mem[w] EXCEPT !.next = "persist_revision"]
  <2>1. /\ mem[w].next = "revise_plan" /\ pc[w] \in {"resumed", "run"}
        /\ mem' = [mem EXCEPT ![w] = s] /\ pc' = [pc EXCEPT ![w] = "run"]
        /\ UNCHANGED <<business, ckpt, queue, item, seen, requests>> /\ Pending' = Pending
    BY <1>6 DEF RevisePlan, Goto, Produce, Running, Pending
  <2>2. w = "planning" /\ mem[w].decision \in Keys
    BY <2>1, DecisionRuns
  <2>3. s \in Snapshot /\ s.next = "persist_revision" /\ s.decision = mem[w].decision
    BY DEF TypeOK, Snapshot, Nodes
  <2>4. WellFormed(s) /\ Known(s.decision) /\ s.next \notin DraftNodes \cup {"persist_plan"}
    BY <2>2, <2>3 DEF WellFormed, Control, Threads, DraftNodes
  <2>5. \A k \in Pending : mem[w].decision = k => item[w] = k
    BY <2>1, <2>2 DEF Control, OwnDecision
  <2>6. \A x \in Workers \ {w} : FirstRun(x) => task' = "analyzing"
    BY <2>1 DEF Control, OnePlanner
  <2> HIDE DEF s
  <2> QED
    BY <2>1, <2>2, <2>3, <2>4, <2>5, <2>6, ProduceControl
<1>7. CASE PersistRevision(w)
  <2>1. PICK v : v = dec[mem[w].decision].version
    OBVIOUS
  <2> DEFINE s == [next |-> "await_approval", version |-> v + 1, decision |-> NoKey]
  <2>2. /\ mem[w].next = "persist_revision" /\ mem[w].decision \in Pending /\ pc[w] # "idle"
        /\ mem' = [mem EXCEPT ![w] = s] /\ pc' = [pc EXCEPT ![w] = "run"]
        /\ dec' = [dec EXCEPT ![mem[w].decision].status = "applied"]
        /\ UNCHANGED <<ckpt, queue, item, seen, requests>>
    BY <1>7, <2>1 DEF PersistRevision, Produce, Running, PendingAction
  <2>3. w = "planning" /\ Pending = {mem[w].decision} /\ mem[w].decision \in Keys
        /\ v + 1 \in Versions
    BY <2>1, <2>2, DecisionRuns, PendingFacts, VersionFacts
  <2>4. Pending' = {}
    BY <2>2, <2>3 DEF Pending, TypeOK
  <2>5. s \in Snapshot /\ WellFormed(s) /\ Known(s.decision) /\ s.decision = NoKey
        /\ s.next \notin DraftNodes \cup {"persist_plan"}
    BY <2>3, KeyAssumption DEF Snapshot, Nodes, DraftNodes, WellFormed, Known
  <2>6. \A x \in Workers : ~FirstRun(x)
    BY <2>3, PendingNoFirstRun
  <2> HIDE DEF s
  <2> QED
    BY <2>2, <2>3, <2>4, <2>5, <2>6, ProduceControl
<1>8. CASE RevisionConflict(w) \/ Finish(w)
  <2>1. UNCHANGED <<business, ckpt, queue, item, seen, mem, requests>>
        /\ pc'[w] = "idle" /\ \A x \in Workers \ {w} : pc'[x] = pc[x]
    BY <1>8 DEF RevisionConflict, Finish, TypeOK
  <2> QED
    BY <2>1, ThreadsKept, PlanningWorker
       DEF Control, OnePlanner, FirstRun, RepositoryOnlyPlans, OwnDecision, Pending, RequestsKeyed
<1>9. CASE SaveCheckpoint(w)
  <2>1. ckpt' = mem[w] /\ UNCHANGED <<business, queue, pc, item, seen, mem, requests>>
    BY <1>9 DEF SaveCheckpoint
  <2>2. Threads'
    BY <2>1 DEF Control, Threads, WellFormed, Known
  <2> QED
    BY <2>1, <2>2 DEF Control, OnePlanner, FirstRun, RepositoryOnlyPlans, OwnDecision, Pending, RequestsKeyed
<1> QED
  BY <1>1, <1>2, <1>3, <1>4, <1>5, <1>6, <1>7, <1>8, <1>9 DEF GraphStep

LEMMA CrashControl ==
    ASSUME TypeOK, Rows, Control, [Next]_vars, CrashRestart
    PROVE  Control'
<1>1. /\ UNCHANGED <<business, ckpt>> /\ item' = [w \in Workers |-> PlanItem]
      /\ pc' = [w \in Workers |-> "idle"] /\ mem' = [w \in Workers |-> NoCheckpoint]
      /\ rpc' = [r \in Requests |-> "idle"]
  BY DEF CrashRestart
<1>2. RepositoryOnlyPlans' /\ OnePlanner' /\ OwnDecision' /\ RequestsKeyed'
  BY <1>1 DEF RepositoryOnlyPlans, OnePlanner, FirstRun, OwnDecision, RequestsKeyed, Workers,
              NoCheckpoint
<1>3. WellFormed(NoCheckpoint) /\ NoCheckpoint.decision \notin Keys
  BY KeyAssumption DEF WellFormed, NoCheckpoint, DraftNodes
<1>4. \A w \in Workers : mem'[w] = NoCheckpoint
  BY <1>1
<1>5. Threads'
  BY <1>1, <1>3, <1>4 DEF Control, Threads, Known, WellFormed
<1> QED
  BY <1>2, <1>5 DEF Control

LEMMA InitInvariant == Init => IInv
<1> SUFFICES ASSUME Init PROVE IInv
  OBVIOUS
<1>1. TypeOK
  BY InitType
<1>2. /\ \A k \in Keys : dec[k].status = "none"
      /\ \A v \in Versions : plans[v] \in {"none", "proposed"}
      /\ \A v \in Versions : plans[v] = "proposed" => v = 1 /\ task = "waiting_approval"
      /\ task = "waiting_approval" => plans[1] = "proposed"
      /\ task \in {"analyzing", "waiting_approval"}
  BY VersionFacts DEF Init, NoDecision
<1>3. Pending = {} /\ \A v \in Versions : AppliedTo(v) = {}
  BY <1>2 DEF Pending, AppliedTo
<1>4. PlanChain /\ OneOpenDecision /\ VerdictIsDecided
  BY <1>2, <1>3, VersionFacts DEF PlanChain, OneOpenDecision, VerdictIsDecided, Proposed
<1>5. DecidedPlanStored /\ NothingPlanned /\ CurrentPlan
  BY <1>2 DEF DecidedPlanStored, NothingPlanned, CurrentPlan
<1>6. WellFormed(NoCheckpoint) /\ NoCheckpoint.decision \notin Keys /\ NoCheckpoint.decision = NoKey
  BY KeyAssumption DEF WellFormed, NoCheckpoint, DraftNodes
<1>7. Threads
  BY <1>6 DEF Init, Threads, Known
<1>8. RepositoryOnlyPlans /\ OnePlanner /\ OwnDecision /\ RequestsKeyed
  BY <1>3, <1>6 DEF Init, RepositoryOnlyPlans, OnePlanner, FirstRun, OwnDecision, RequestsKeyed,
                    Workers
<1> QED
  BY <1>1, <1>4, <1>5, <1>7, <1>8 DEF IInv, Rows, Control

-----------------------------------------------------------------------------
(* The theorems.                                                             *)

LEMMA NextInvariant == IInv /\ [Next]_vars => IInv'
<1> SUFFICES ASSUME TypeOK, Rows, Control, [Next]_vars PROVE IInv'
  BY DEF IInv
<1>1. TypeOK' /\ Rows'
  BY NextType, NextRows
<1>2. CASE UNCHANGED vars
  <2>1. UNCHANGED <<task, plans, dec, ckpt, queue, pc, item, seen, mem, rpc, payload>>
    BY <1>2 DEF vars
  <2>2. Threads'
    BY <2>1, ThreadsKept DEF Control
  <2>3. Control'
    BY <2>1, <2>2 DEF Control, OnePlanner, FirstRun, RepositoryOnlyPlans, OwnDecision,
                      Pending, RequestsKeyed
  <2> QED
    BY <1>1, <2>3 DEF IInv
<1>3. ASSUME NEW r \in Requests,
             \/ RequestStep(r)
             \/ \E k \in Keys, a \in Actions, v \in 1 .. SchemaMaxVersion : Receive(r, k, a, v)
      PROVE  Control'
  BY <1>3, RequestControl
<1>4. ASSUME NEW w \in Workers, PlanTask(w) \/ GraphStep(w) PROVE Control'
  BY <1>4, GraphControl
<1>5. ASSUME NEW w \in Workers,
             FailTask(w) \/ MarkFailed(w) \/ DraftFails(w) \/ RevisionFails(w) \/ InfrastructureError(w)
      PROVE  Control'
  BY <1>5, FailureControl
<1>6. ASSUME DecisionStep \/ CrashRestart PROVE Control'
  BY <1>6, DecisionControl, CrashControl
<1> QED
  BY <1>1, <1>2, <1>3, <1>4, <1>5, <1>6 DEF IInv, Next, TaskStep, FailureStep

\* Every reachable state satisfies the inductive invariant: what the code finds
\* when it locks the rows, and what it may rely on after it released them.
THEOREM Invariance == Spec => []IInv
<1>1. Init => IInv
  BY InitInvariant
<1>2. IInv /\ [Next]_vars => IInv'
  BY NextInvariant
<1> QED
  BY <1>1, <1>2, PTL DEF Spec

\* The variables keep their types; in particular the queue stays in its
\* capacity and no revision leaves the versions the schema can name by more
\* than one.
THEOREM TypeCorrect == Spec => []TypeOK
<1>1. IInv => TypeOK
  BY DEF IInv
<1> QED
  BY <1>1, Invariance, PTL

\* persist_planning and persist_revision keep one chain of versions.
THEOREM PlansChained == Spec => []PlanChain
<1>1. IInv => PlanChain
  BY DEF IInv, Rows
<1> QED
  BY <1>1, Invariance, PTL

\* create_decision lets one decision in at a time, and fail_decision,
\* apply_terminal_decision and persist_revision let it out.
THEOREM OneDecisionOpen == Spec => []OneOpenDecision
<1>1. IInv => OneOpenDecision
  BY DEF IInv, Rows
<1> QED
  BY <1>1, Invariance, PTL

\* What became of a plan is what exactly one decision asked for.
THEOREM VerdictsDecided == Spec => []VerdictIsDecided
<1>1. IInv => VerdictIsDecided
  BY DEF IInv, Rows
<1> QED
  BY <1>1, Invariance, PTL

\* Neither plan_task nor the failure handler of the repository queue fails a
\* task that has a plan.
THEOREM FailedUnplanned == Spec => []FailedTaskHasNoPlan
<1>1. IInv => FailedTaskHasNoPlan
  BY LatestVersionExists DEF IInv, Rows, NothingPlanned, FailedTaskHasNoPlan
<1> QED
  BY <1>1, Invariance, PTL

\* What one step does to a decision, a plan and the task that are settled.
Settled == /\ \A k \in Keys : dec[k].status \in {"applied", "failed"} => dec'[k] = dec[k]
           /\ \A v \in Versions : plans[v] \in {"approved", "rejected", "superseded"} =>
                                      plans'[v] = plans[v]
           /\ task \in Terminal => task' = task

LEMMA PendingSettled ==
    ASSUME TypeOK, Rows, NEW k \in Pending, NEW status, dec' = [dec EXCEPT ![k].status = status]
    PROVE  \A l \in Keys : dec[l].status \in {"applied", "failed"} => dec'[l] = dec[l]
BY DEF Pending, TypeOK

LEMMA NextSettled == IInv /\ [Next]_vars => Settled
<1> SUFFICES ASSUME TypeOK, Rows, Control, [Next]_vars PROVE Settled
  BY DEF IInv
<1>1. ASSUME UNCHANGED business PROVE Settled
  BY <1>1 DEF Settled
<1>2. ASSUME NEW r \in Requests,
             \/ RequestStep(r)
             \/ \E k \in Keys, a \in Actions, v \in 1 .. SchemaMaxVersion : Receive(r, k, a, v)
      PROVE  Settled
  <2>1. CASE CreateDecision(r)
    <3>1. payload[r].key \in Keys /\ dec[payload[r].key].status = "none" /\ task = "waiting_approval"
      BY <2>1 DEF CreateDecision, Control, RequestsKeyed, Recorded, Submittable
    <3> QED
      BY <2>1, <3>1 DEF CreateDecision, Settled, TypeOK, Terminal
  <2> QED
    BY <1>1, <1>2, <2>1 DEF RequestStep, Receive, CheckLimit, ReturnDecision, RefuseDecision, Enqueue
<1>3. ASSUME DecisionStep \/ CrashRestart \/ UNCHANGED vars PROVE Settled
  <2>1. CASE Prepare
    <3>1. item["planning"] \in Pending
      BY <2>1 DEF Prepare, Control, OwnDecision
    <3> QED
      BY <2>1, <3>1, PendingFacts DEF Prepare, Settled, Terminal
  <2>2. CASE FailDecision
    <3>1. CASE item["planning"] \in Pending
      BY <2>2, <3>1, PendingFacts, PendingSettled DEF FailDecision, Settled, Terminal
    <3>2. CASE item["planning"] \notin Pending
      BY <1>1, <2>2, <3>2 DEF FailDecision
    <3> QED
      BY <3>1, <3>2
  <2> QED
    BY <1>1, <1>3, <2>1, <2>2 DEF DecisionStep, TakeWork, Resume, CrashRestart, vars
<1>4. ASSUME NEW w \in Workers, FailTask(w) \/ MarkFailed(w) PROVE Settled
  <2>1. task = "analyzing" \/ UNCHANGED business
    BY <1>4 DEF FailTask, MarkFailed, Control, OnePlanner, FirstRun
  <2>2. UNCHANGED <<plans, dec>>
    BY <1>4 DEF FailTask, MarkFailed
  <2> QED
    BY <2>1, <2>2, <1>1 DEF Settled, Terminal
<1>5. ASSUME NEW w \in Workers, PersistPlan(w) PROVE Settled
  <2>1. \A v \in Versions : plans[v] = "none"
    BY <1>5 DEF PersistPlan, Rows, NothingPlanned
  <2> QED
    BY <1>5, <2>1 DEF PersistPlan, Settled, Terminal
<1>6. ASSUME NEW w \in Workers, ApplyApproval(w) \/ ApplyRejection(w) \/ PersistRevision(w)
      PROVE  Settled
  <2>1. PICK k \in Pending :
          /\ dec' = [dec EXCEPT ![k].status = "applied"]
          /\ \/ \E o \in {"approved", "rejected"} : plans' = [plans EXCEPT ![dec[k].version] = o]
             \/ plans' = [plans EXCEPT ![dec[k].version] = "superseded",
                                       ![dec[k].version + 1] = "proposed"]
    BY <1>6 DEF ApplyApproval, ApplyRejection, ApplyTerminal, PersistRevision, PendingAction
  <2>2. /\ plans[dec[k].version] = "proposed" /\ task \in {"decision_pending", "revising"}
        /\ dec[k].version + 1 \in Versions /\ plans[dec[k].version + 1] = "none"
    BY PendingFacts, VersionFacts
  <2>3. \A v \in Versions : plans[v] \in {"approved", "rejected", "superseded"} => plans'[v] = plans[v]
    BY <2>1, <2>2 DEF TypeOK
  <2> QED
    BY <2>1, <2>2, <2>3, PendingSettled DEF Settled, Terminal
<1>7. ASSUME NEW w \in Workers,
             \/ PlanTask(w) \/ Draft(w) \/ AwaitApproval(w) \/ RevisePlan(w)
             \/ RevisionConflict(w) \/ Finish(w) \/ SaveCheckpoint(w)
             \/ DraftFails(w) \/ RevisionFails(w) \/ InfrastructureError(w)
      PROVE  Settled
  BY <1>1, <1>7
     DEF PlanTask, Draft, AwaitApproval, RevisePlan, RevisionConflict, Finish, SaveCheckpoint,
         DraftFails, RevisionFails, InfrastructureError
<1> QED
  BY <1>2, <1>3, <1>4, <1>5, <1>6, <1>7 DEF Next, TaskStep, GraphStep, FailureStep

\* A replayed item, a restart or a late worker changes nothing that is settled.
THEOREM SettledStays == Spec => SettledForever
<1>1. IInv /\ [Next]_vars => [Settled]_vars
  BY NextSettled
<1>2. Settled <=> /\ \A k \in Keys : dec[k].status \in {"applied", "failed"} => dec'[k] = dec[k]
                  /\ \A v \in Versions : plans[v] \in {"approved", "rejected", "superseded"} =>
                                             plans'[v] = plans[v]
                  /\ task \in Terminal => task' = task
  BY DEF Settled
<1> QED
  BY <1>1, <1>2, Invariance, PTL DEF Spec, SettledForever, Settled

\* What one step applies.
AppliesOwn == \A k \in Pending : dec'[k].status = "applied" =>
                 item["planning"] = k /\ mem["planning"].decision = k

LEMMA NextAppliesOwn == IInv /\ [Next]_vars => AppliesOwn
<1> SUFFICES ASSUME TypeOK, Rows, Control, [Next]_vars PROVE AppliesOwn
  BY DEF IInv
<1>1. ASSUME UNCHANGED dec PROVE AppliesOwn
  BY <1>1 DEF AppliesOwn, Pending
<1>2. ASSUME NEW r \in Requests, CreateDecision(r) PROVE AppliesOwn
  BY <1>2 DEF CreateDecision, AppliesOwn, Pending, TypeOK
<1>3. ASSUME FailDecision PROVE AppliesOwn
  <2>1. CASE item["planning"] \in Pending
    <3>1. item["planning"] \in Keys /\ Pending = {item["planning"]}
      BY <2>1, PendingFacts
    <3>2. dec'[item["planning"]].status = "failed"
      BY <1>3, <2>1, <3>1 DEF FailDecision, TypeOK, Decision
    <3> QED
      BY <3>1, <3>2 DEF AppliesOwn
  <2>2. CASE item["planning"] \notin Pending
    BY <1>1, <1>3, <2>2 DEF FailDecision
  <2> QED
    BY <2>1, <2>2
<1>4. ASSUME NEW w \in Workers, ApplyApproval(w) \/ ApplyRejection(w) \/ PersistRevision(w)
      PROVE  AppliesOwn
  <2>1. /\ mem[w].next \in {"apply_approval", "apply_rejection", "persist_revision"}
        /\ pc[w] \in {"resumed", "run"} /\ mem[w].decision \in Pending
        /\ dec' = [dec EXCEPT ![mem[w].decision].status = "applied"]
    BY <1>4 DEF ApplyApproval, ApplyRejection, ApplyTerminal, PersistRevision, PendingAction, Running
  <2>2. w = "planning" /\ Pending = {mem[w].decision}
    BY <2>1, DecisionRuns, PendingFacts
  <2>3. item["planning"] = mem["planning"].decision
    BY <2>1, <2>2 DEF Control, OwnDecision
  <2> QED
    BY <2>2, <2>3 DEF AppliesOwn
<1>5. ASSUME NEW r \in Requests,
             \/ CheckLimit(r) \/ ReturnDecision(r) \/ RefuseDecision(r) \/ Enqueue(r)
             \/ \E k \in Keys, a \in Actions, v \in 1 .. SchemaMaxVersion : Receive(r, k, a, v)
      PROVE  UNCHANGED dec
  BY <1>5 DEF Receive, CheckLimit, ReturnDecision, RefuseDecision, Enqueue
<1>6. ASSUME NEW w \in Workers,
             \/ PlanTask(w) \/ FailTask(w) \/ MarkFailed(w) \/ Draft(w) \/ PersistPlan(w)
             \/ AwaitApproval(w) \/ RevisePlan(w) \/ RevisionConflict(w) \/ Finish(w)
             \/ SaveCheckpoint(w) \/ DraftFails(w) \/ RevisionFails(w) \/ InfrastructureError(w)
      PROVE  UNCHANGED dec
  BY <1>6 DEF PlanTask, FailTask, MarkFailed, Draft, PersistPlan, AwaitApproval, RevisePlan,
              RevisionConflict, Finish, SaveCheckpoint, DraftFails, RevisionFails,
              InfrastructureError
<1>7. ASSUME TakeWork \/ Prepare \/ Resume \/ CrashRestart \/ UNCHANGED vars
      PROVE  UNCHANGED dec
  BY <1>7 DEF TakeWork, Prepare, Resume, CrashRestart, vars
<1> QED
  BY <1>1, <1>2, <1>3, <1>4, <1>5, <1>6, <1>7
     DEF Next, RequestStep, TaskStep, GraphStep, DecisionStep, FailureStep

\* A decision is applied by the resumed graph of its own queue item, whatever
\* older decision a stale checkpoint carries.
THEOREM AppliedByOwnItem == Spec => AppliedByItsWorker
<1>1. IInv /\ [Next]_vars => [AppliesOwn]_vars
  BY NextAppliesOwn
<1> QED
  BY <1>1, Invariance, PTL DEF Spec, AppliedByItsWorker, AppliesOwn

-----------------------------------------------------------------------------
(* The checkpoint and the rows.                                              *)

\* The rows justify the version and the end a graph state names.
Behind(s) == /\ s.version \in Versions => plans[s.version] # "none"
             /\ s.next = "end" => task \in {"approved", "rejected"}

GraphsBehind == /\ Behind(ckpt)
                /\ \A w \in Workers : Behind(mem[w])
                /\ pc["planning"] = "resume" => plans[seen["planning"]] # "none"

\* A stored plan is never removed.
LEMMA PlansStay ==
    ASSUME TypeOK, [Next]_vars, NEW v \in Versions, plans[v] # "none"
    PROVE  plans'[v] # "none"
<1>1. ASSUME NEW w \in Workers,
             PersistPlan(w) \/ ApplyApproval(w) \/ ApplyRejection(w) \/ PersistRevision(w)
      PROVE  plans'[v] # "none"
  BY <1>1 DEF PersistPlan, ApplyApproval, ApplyRejection, ApplyTerminal, PersistRevision, TypeOK
<1>2. ASSUME NEW r \in Requests,
             \/ RequestStep(r)
             \/ \E k \in Keys, a \in Actions, u \in 1 .. SchemaMaxVersion : Receive(r, k, a, u)
      PROVE  UNCHANGED plans
  BY <1>2 DEF RequestStep, Receive, CheckLimit, ReturnDecision, CreateDecision, RefuseDecision, Enqueue
<1>3. ASSUME NEW w \in Workers,
             \/ PlanTask(w) \/ FailTask(w) \/ MarkFailed(w) \/ Draft(w)
             \/ AwaitApproval(w) \/ RevisePlan(w) \/ RevisionConflict(w) \/ Finish(w)
             \/ SaveCheckpoint(w) \/ DraftFails(w) \/ RevisionFails(w) \/ InfrastructureError(w)
      PROVE  UNCHANGED plans
  BY <1>3 DEF PlanTask, FailTask, MarkFailed, Draft, AwaitApproval, RevisePlan,
              RevisionConflict, Finish, SaveCheckpoint, DraftFails, RevisionFails,
              InfrastructureError
<1>4. ASSUME DecisionStep \/ CrashRestart \/ UNCHANGED vars
      PROVE  UNCHANGED plans
  BY <1>4 DEF DecisionStep, TakeWork, Prepare, Resume, FailDecision, CrashRestart, vars
<1> QED
  BY <1>1, <1>2, <1>3, <1>4 DEF Next, TaskStep, GraphStep, FailureStep

LEMMA BehindKept ==
    ASSUME IInv, [Next]_vars, NEW s, Behind(s)
    PROVE  Behind(s)'
<1>1. s.version \in Versions => plans'[s.version] # "none"
  BY PlansStay DEF Behind, IInv
<1>2. task \in {"approved", "rejected"} => task' = task
  BY NextSettled DEF Settled, Terminal
<1> QED
  BY <1>1, <1>2 DEF Behind

\* One graph state is replaced by one the rows justify after the step.
LEMMA GraphsMove ==
    ASSUME IInv, GraphsBehind, [Next]_vars,
           ckpt' = ckpt \/ Behind(ckpt)',
           \A w \in Workers : mem'[w] = mem[w] \/ Behind(mem[w])',
           pc'["planning"] = "resume" => pc["planning"] = "resume" /\ seen' = seen
    PROVE  GraphsBehind'
<1>0. "planning" \in Workers
  BY DEF Workers
<1>1. Behind(ckpt)'
  BY BehindKept DEF GraphsBehind, Behind
<1>2. ASSUME NEW w \in Workers PROVE Behind(mem[w])'
  BY BehindKept DEF GraphsBehind, Behind
<1>3. pc'["planning"] = "resume" => plans'[seen'["planning"]] # "none"
  <2>1. pc["planning"] = "resume" => seen["planning"] \in Versions
    BY DEF IInv, Control, OwnDecision
  <2> QED
    BY <2>1, PlansStay DEF GraphsBehind, IInv
<1> QED
  BY <1>1, <1>2, <1>3 DEF GraphsBehind

LEMMA NextBehind == IInv /\ GraphsBehind /\ [Next]_vars => GraphsBehind'
<1> SUFFICES ASSUME IInv, GraphsBehind, [Next]_vars PROVE GraphsBehind'
  OBVIOUS
<1>0. TypeOK /\ Rows /\ Control /\ "planning" \in Workers
  BY DEF IInv, Workers
<1>1. ASSUME NEW r \in Requests,
             \/ RequestStep(r)
             \/ \E k \in Keys, a \in Actions, v \in 1 .. SchemaMaxVersion : Receive(r, k, a, v)
      PROVE  GraphsBehind'
  BY <1>1, GraphsMove
     DEF RequestStep, Receive, CheckLimit, ReturnDecision, CreateDecision, RefuseDecision, Enqueue
<1>2. CASE Prepare
  <2>1. UNCHANGED <<ckpt, mem, plans>> /\ seen' \in {seen, [seen EXCEPT !["planning"] = LatestVersion]}
        /\ (seen' = seen => pc'["planning"] # "resume" \/ seen'["planning"] = LatestVersion)
    BY <1>0, <1>2 DEF Prepare, TypeOK
  <2>2. seen' = seen /\ pc'["planning"] = "resume" => seen["planning"] = LatestVersion
    BY <2>1
  <2>3. LatestVersion \in Versions /\ plans[LatestVersion] # "none"
    <3>1. item["planning"] \in Pending
      BY <1>0, <1>2 DEF Prepare, Control, OwnDecision
    <3>2. dec[item["planning"]].version \in Versions /\ plans[dec[item["planning"]].version] # "none"
      BY <1>0, <3>1, PendingFacts, VersionFacts
    <3> QED
      BY <1>0, <3>2, LatestVersionStored DEF Rows
  <2>4. pc'["planning"] = "resume" => plans'[seen'["planning"]] # "none"
    BY <1>0, <2>1, <2>2, <2>3 DEF TypeOK
  <2>5. Behind(ckpt)' /\ \A w \in Workers : Behind(mem[w])'
    BY <2>1, BehindKept DEF GraphsBehind, Behind
  <2> QED
    BY <2>4, <2>5 DEF GraphsBehind
<1>3. CASE Resume
  <2> DEFINE s == [next |-> "await_approval", version |-> seen["planning"], decision |-> NoKey]
  <2>1. Behind(s)
    BY <1>3 DEF Resume, Behind, GraphsBehind
  <2>2. /\ ckpt' \in {s, ckpt} /\ pc'["planning"] # "resume"
        /\ \A w \in Workers : mem'[w] \in {s, ckpt, mem[w]}
    BY <1>0, <1>3 DEF Resume, Adopt, TypeOK
  <2> HIDE DEF s
  <2>3. \A x \in {s, ckpt} : Behind(x)
    BY <2>1 DEF GraphsBehind
  <2>4. \A w \in Workers : mem'[w] = mem[w] \/ Behind(mem[w])'
    BY <2>2, <2>3, BehindKept DEF Behind
  <2>5. ckpt' = ckpt \/ Behind(ckpt)'
    BY <2>2, <2>3, BehindKept DEF Behind
  <2> QED
    BY <2>2, <2>4, <2>5, GraphsMove
<1>4. ASSUME TakeWork \/ FailDecision \/ UNCHANGED vars PROVE GraphsBehind'
  BY <1>0, <1>4, GraphsMove DEF TakeWork, FailDecision, vars, TypeOK
<1>5. ASSUME NEW w \in Workers,
             \/ FailTask(w) \/ MarkFailed(w) \/ DraftFails(w) \/ RevisionFails(w)
             \/ InfrastructureError(w) \/ RevisionConflict(w) \/ Finish(w)
      PROVE  GraphsBehind'
  BY <1>0, <1>5, GraphsMove
     DEF FailTask, MarkFailed, DraftFails, RevisionFails, InfrastructureError, RevisionConflict,
         Finish, TypeOK
<1>6. CASE CrashRestart
  <2>1. Behind(NoCheckpoint)
    BY VersionFacts DEF Behind, NoCheckpoint
  <2>2. ckpt' = ckpt /\ pc'["planning"] = "idle" /\ \A w \in Workers : mem'[w] = NoCheckpoint
    BY <1>0, <1>6 DEF CrashRestart
  <2>3. \A w \in Workers : Behind(mem[w])'
    BY <2>1, <2>2, BehindKept DEF Behind
  <2> QED
    BY <2>2, <2>3, GraphsMove
<1>7. ASSUME NEW w \in Workers, SaveCheckpoint(w) PROVE GraphsBehind'
  <2>1. ckpt' = mem[w] /\ mem' = mem /\ pc' = pc /\ seen' = seen
    BY <1>7 DEF SaveCheckpoint
  <2>2. Behind(ckpt)'
    BY <2>1, BehindKept DEF GraphsBehind, Behind
  <2> QED
    BY <2>1, <2>2, GraphsMove
<1>8. ASSUME NEW w \in Workers, PlanTask(w) PROVE GraphsBehind'
  <2> DEFINE s == [next |-> "retrieve_code", version |-> 0, decision |-> NoKey]
  <2>1. Behind(s)
    BY VersionFacts DEF Behind
  <2>2. /\ ckpt' = ckpt /\ (pc'["planning"] = "resume" => pc["planning"] = "resume") /\ seen' = seen
        /\ \A x \in Workers : mem'[x] \in {s, ckpt, mem[x]}
    BY <1>0, <1>8 DEF PlanTask, Produce, Adopt, TypeOK
  <2> HIDE DEF s
  <2>3. \A x \in Workers : mem'[x] = mem[x] \/ Behind(mem[x])'
    BY <2>1, <2>2, BehindKept DEF GraphsBehind, Behind
  <2> QED
    BY <2>2, <2>3, GraphsMove
<1>9. ASSUME NEW w \in Workers, Draft(w) \/ AwaitApproval(w) \/ RevisePlan(w)
      PROVE  GraphsBehind'
  <2>1. /\ ckpt' = ckpt /\ (pc'["planning"] = "resume" => pc["planning"] = "resume") /\ seen' = seen
    BY <1>0, <1>9 DEF Draft, AwaitApproval, RevisePlan, Goto, Produce, TypeOK
  <2>2. \/ mem' = mem
        \/ \E node \in Nodes \ {"end"} : \E k :
              mem' = [mem EXCEPT ![w] = [next |-> node, version |-> mem[w].version, decision |-> k]]
    <3>1. CASE Draft(w)
      <4>1. PICK node \in DraftNodes : Goto(w, AfterDraft[node])
        BY <3>1 DEF Draft
      <4>2. AfterDraft[node] \in Nodes \ {"end"}
        BY <4>1 DEF AfterDraft, DraftNodes, Nodes
      <4>3. [mem[w] EXCEPT !.next = AfterDraft[node]] =
              [next |-> AfterDraft[node], version |-> mem[w].version, decision |-> mem[w].decision]
        BY <1>0 DEF TypeOK, Snapshot
      <4> QED
        BY <4>1, <4>2, <4>3 DEF Goto, Produce
    <3>2. CASE RevisePlan(w)
      <4>1. [mem[w] EXCEPT !.next = "persist_revision"] =
              [next |-> "persist_revision", version |-> mem[w].version, decision |-> mem[w].decision]
        BY <1>0 DEF TypeOK, Snapshot
      <4>2. "persist_revision" \in Nodes \ {"end"}
        BY DEF Nodes
      <4> QED
        BY <3>2, <4>1, <4>2 DEF RevisePlan, Goto, Produce
    <3>3. CASE AwaitApproval(w) /\ pc[w] = "resumed"
      <4>1. item[w] \in Keys
        BY <1>0, <3>3, PlanningWorker DEF Control, RepositoryOnlyPlans, OwnDecision, Pending
      <4>2. DecisionRoute[dec[item[w]].action] \in Nodes \ {"end"}
        BY <1>0, <4>1 DEF TypeOK, Decision, Actions, DecisionRoute, Nodes
      <4> QED
        BY <3>3, <4>2 DEF AwaitApproval, Produce
    <3>4. CASE AwaitApproval(w) /\ pc[w] # "resumed"
      BY <3>4 DEF AwaitApproval
    <3> QED
      BY <1>9, <3>1, <3>2, <3>3, <3>4
  <2>3. CASE mem' = mem
    BY <2>1, <2>3, GraphsMove
  <2>4. ASSUME NEW node \in Nodes \ {"end"}, NEW k,
               mem' = [mem EXCEPT ![w] = [next |-> node, version |-> mem[w].version, decision |-> k]]
        PROVE  GraphsBehind'
    <3> DEFINE s == [next |-> node, version |-> mem[w].version, decision |-> k]
    <3>1. Behind(s)
      BY DEF Behind, GraphsBehind
    <3>2. \A x \in Workers : mem'[x] \in {s, mem[x]}
      BY <1>0, <2>4 DEF TypeOK
    <3> HIDE DEF s
    <3>3. \A x \in Workers : mem'[x] = mem[x] \/ Behind(mem[x])'
      BY <3>1, <3>2, BehindKept DEF Behind
    <3> QED
      BY <2>1, <3>3, GraphsMove
  <2> QED
    BY <2>2, <2>3, <2>4
<1>10. ASSUME NEW w \in Workers,
              PersistPlan(w) \/ ApplyApproval(w) \/ ApplyRejection(w) \/ PersistRevision(w)
       PROVE  GraphsBehind'
  <2>1. /\ ckpt' = ckpt /\ (pc'["planning"] = "resume" => pc["planning"] = "resume") /\ seen' = seen
        /\ \A x \in Workers \ {w} : mem'[x] = mem[x]
    BY <1>0, <1>10
       DEF PersistPlan, ApplyApproval, ApplyRejection, ApplyTerminal, PersistRevision, Goto, Produce,
           TypeOK
  <2>2. CASE PersistPlan(w)
    <3>1. mem'[w].version = 1 /\ mem'[w].next # "end" /\ plans'[1] = "proposed"
      BY <1>0, <2>2, VersionFacts DEF PersistPlan, Produce, TypeOK
    <3> QED
      BY <2>1, <3>1, GraphsMove DEF Behind
  <2>3. CASE ApplyApproval(w) \/ ApplyRejection(w)
    <3>1. mem'[w].version = mem[w].version /\ task' \in {"approved", "rejected"}
      BY <1>0, <2>3 DEF ApplyApproval, ApplyRejection, ApplyTerminal, Goto, Produce, TypeOK, Snapshot
    <3>2. mem[w].version \in Versions => plans'[mem[w].version] # "none"
      BY <1>0, PlansStay DEF GraphsBehind, Behind
    <3> QED
      BY <2>1, <3>1, <3>2, GraphsMove DEF Behind
  <2>4. CASE PersistRevision(w)
    <3>1. PICK v : v = dec[mem[w].decision].version /\ v + 1 \in Versions
      BY <1>0, <2>4, PendingFacts, VersionFacts DEF PersistRevision, PendingAction
    <3>2. mem'[w].version = v + 1 /\ mem'[w].next # "end" /\ plans'[v + 1] = "proposed"
      BY <1>0, <2>4, <3>1 DEF PersistRevision, Produce, TypeOK
    <3> QED
      BY <2>1, <3>2, GraphsMove DEF Behind
  <2> QED
    BY <1>10, <2>2, <2>3, <2>4
<1> QED
  BY <1>1, <1>2, <1>3, <1>4, <1>5, <1>6, <1>7, <1>8, <1>9, <1>10
     DEF Next, TaskStep, GraphStep, DecisionStep, FailureStep

\* The checkpoint trails the rows: a restart never finds a graph that is ahead
\* of what its transactions committed.
THEOREM CheckpointTrails == Spec => []CheckpointBehindRows
<1>1. Init => GraphsBehind
  <2>1. Behind(NoCheckpoint)
    BY VersionFacts DEF Behind, NoCheckpoint
  <2>2. Init => /\ pc["planning"] = "idle" /\ ckpt = NoCheckpoint
                /\ \A w \in Workers : mem[w] = NoCheckpoint
    BY DEF Init, Workers
  <2> QED
    BY <2>1, <2>2 DEF GraphsBehind
<1>2. IInv /\ GraphsBehind /\ [Next]_vars => GraphsBehind'
  BY NextBehind
<1>3. IInv /\ GraphsBehind => CheckpointBehindRows
  <2> SUFFICES ASSUME IInv, GraphsBehind PROVE CheckpointBehindRows
    OBVIOUS
  <2>1. TypeOK /\ PlanChain /\ CurrentPlan /\ ckpt \in Snapshot
    BY DEF IInv, Rows, TypeOK
  <2>2. ckpt.version <= LatestVersion
    BY <2>1, LatestVersionStored, LatestVersionExists, VersionFacts DEF GraphsBehind, Behind, Snapshot
  <2>3. ckpt.decision # NoKey => dec[ckpt.decision].status # "none"
    BY <2>1 DEF IInv, Control, Threads, Known, Snapshot
  <2> QED
    BY <2>2, <2>3 DEF GraphsBehind, Behind, CheckpointBehindRows
<1> QED
  BY <1>1, <1>2, <1>3, Invariance, PTL DEF Spec

===============================================================================
