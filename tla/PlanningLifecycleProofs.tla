----------------------- MODULE PlanningLifecycleProofs -----------------------
(*****************************************************************************)
(* PlanningApproval implements ApprovalLifecycle, for every value of the     *)
(* constants: each transaction on the rows is one step of the life of the    *)
(* task, or none, and every other step is invisible.                         *)
(*****************************************************************************)
EXTENDS PlanningApprovalProofs

USE DEF business

Used == {k \in Keys : dec[k].status # "none"}
LifeVars == <<LifeStage, LatestVersion, OpenDecision, Used>>

\* The plan with no later one is the one load_planning returns, before and
\* after a step.
LEMMA LatestIs ==
    ASSUME NEW v \in Versions
    PROVE  /\ plans[v] # "none" /\ (\A u \in Versions : u > v => plans[u] = "none")
                => LatestVersion = v
           /\ plans'[v] # "none" /\ (\A u \in Versions : u > v => plans'[u] = "none")
                => LatestVersion' = v
<1>1. \A u \in Versions : u \in Nat
  BY VersionFacts
<1>2. ASSUME plans[v] # "none", \A u \in Versions : u > v => plans[u] = "none"
      PROVE  LatestVersion = v
  BY <1>1, <1>2 DEF LatestVersion
<1>3. ASSUME plans'[v] # "none", \A u \in Versions : u > v => plans'[u] = "none"
      PROVE  LatestVersion' = v
  BY <1>1, <1>3 DEF LatestVersion
<1> QED
  BY <1>2, <1>3

LEMMA OpenIs ==
    /\ Pending = {} => OpenDecision = NoKey
    /\ Pending' = {} => OpenDecision' = NoKey
    /\ \A k : Pending = {k} => OpenDecision = [key |-> k, action |-> dec[k].action]
    /\ \A k : Pending' = {k} => OpenDecision' = [key |-> k, action |-> dec'[k].action]
BY DEF OpenDecision

\* The rows show all of the life.
LEMMA LifeUnchanged == ASSUME UNCHANGED business PROVE UNCHANGED LifeVars
<1>1. LifeStage' = LifeStage
  BY DEF LifeStage
<1>2. LatestVersion' = LatestVersion
  BY DEF LatestVersion
<1>3. OpenDecision' = OpenDecision
  BY DEF OpenDecision, Pending
<1>4. Used' = Used
  BY DEF Used
<1> QED
  BY <1>1, <1>2, <1>3, <1>4 DEF LifeVars

LEMMA LifeInit == Init => Life!Init
<1> SUFFICES ASSUME Init PROVE Life!Init
  OBVIOUS
<1>1. \A k \in Keys : dec[k].status = "none"
  BY DEF Init, NoDecision
<1>2. OpenDecision = NoKey /\ Used = {}
  BY <1>1, OpenIs DEF Pending, Used
<1>3. CASE task = "analyzing"
  <2>1. LatestVersion = 0
    BY <1>3 DEF Init, LatestVersion
  <2> QED
    BY <1>2, <1>3, <2>1 DEF Life!Init, LifeStage, Used
<1>4. CASE task = "waiting_approval"
  <2>1. plans[1] # "none" /\ \A u \in Versions : u > 1 => plans[u] = "none"
    BY <1>4, VersionFacts DEF Init
  <2>2. LatestVersion = 1
    BY <2>1, LatestIs, VersionFacts
  <2> QED
    BY <1>2, <1>4, <2>2 DEF Life!Init, LifeStage, Used
<1> QED
  BY <1>3, <1>4 DEF Init

LEMMA LifeAsk ==
    ASSUME IInv, NEW r \in Requests, CreateDecision(r)
    PROVE  \E k \in Keys, choice \in Actions : Life!Ask(k, choice)
<1>. PICK k, a : k = payload[r].key /\ a = payload[r].action
  OBVIOUS
<1>0. TypeOK /\ Rows /\ Control
  BY DEF IInv
<1>1. k \in Keys /\ a \in Actions /\ dec[k].status = "none" /\ task = "waiting_approval"
  BY <1>0 DEF CreateDecision, Control, RequestsKeyed, Recorded, Submittable, TypeOK, Payload
<1>2. /\ dec'[k].status = "pending" /\ dec'[k].action = a
      /\ \A l \in Keys \ {k} : dec'[l] = dec[l]
      /\ task' = "decision_pending" /\ plans' = plans
  BY <1>0, <1>1 DEF CreateDecision, TypeOK
<1>3. Pending = {}
  BY <1>0, <1>1 DEF Rows, OneOpenDecision
<1>4. Pending' = {k} /\ Used' = Used \cup {k} /\ k \notin Used
  BY <1>1, <1>2, <1>3 DEF Pending, Used
<1>5. LatestVersion' = LatestVersion
  BY <1>2 DEF LatestVersion
<1>6. OpenDecision' = [key |-> k, action |-> a]
  BY <1>2, <1>4, OpenIs
<1>7. LifeStage = "awaiting" /\ LifeStage' = "deciding"
  BY <1>1, <1>2 DEF LifeStage
<1>8. Life!Ask(k, a)
  BY <1>4, <1>5, <1>6, <1>7 DEF Life!Ask, Used
<1> QED
  BY <1>1, <1>8

\* What closes the open decision, and what the closed decision leaves.
LEMMA LifeClose ==
    ASSUME TypeOK, Rows, NEW k \in Pending, NEW status \in {"applied", "failed"},
           dec' = [dec EXCEPT ![k].status = status]
    PROVE  /\ LifeStage = "deciding" /\ OpenDecision = [key |-> k, action |-> dec[k].action]
           /\ OpenDecision' = NoKey /\ Used' = Used
           /\ LatestVersion = dec[k].version
<1>1. /\ k \in Keys /\ Pending = {k} /\ task \in {"decision_pending", "revising"}
      /\ dec[k].version \in Versions /\ plans[dec[k].version] = "proposed"
      /\ \A v \in Versions : v > dec[k].version => plans[v] = "none"
  BY PendingFacts, VersionFacts
<1>2. dec'[k].status = status /\ \A l \in Keys \ {k} : dec'[l] = dec[l]
  BY <1>1 DEF TypeOK, Decision
<1>3. Pending' = {}
  BY <1>1, <1>2 DEF Pending
<1>4. Used' = Used
  BY <1>1, <1>2 DEF Used, Pending
<1>5. LatestVersion = dec[k].version
  BY <1>1, LatestIs
<1>6. LifeStage = "deciding"
  BY <1>1 DEF LifeStage
<1> QED
  BY <1>1, <1>3, <1>4, <1>5, <1>6, OpenIs

LEMMA LifeFail ==
    ASSUME IInv, FailDecision, item["planning"] \in Pending
    PROVE  LifeStage = "deciding" /\ (Life!Fail \/ Life!Block)
<1>1. TypeOK /\ Rows
  BY DEF IInv
<1>2. /\ dec' = [dec EXCEPT ![item["planning"]].status = "failed"] /\ plans' = plans
      /\ task' \in {"waiting_approval", "recovery_blocked"}
  BY DEF FailDecision
<1>3. LifeStage = "deciding" /\ OpenDecision' = NoKey /\ Used' = Used
  BY <1>1, <1>2, LifeClose
<1>4. LatestVersion' = LatestVersion
  BY <1>2 DEF LatestVersion
<1>5. LifeStage' \in {"awaiting", "blocked"}
  BY <1>2 DEF LifeStage
<1> QED
  BY <1>3, <1>4, <1>5 DEF Life!Fail, Life!Block, Life!Close, Used

LEMMA LifeVerdict ==
    ASSUME IInv, NEW w \in Workers, ApplyApproval(w) \/ ApplyRejection(w)
    PROVE  LifeStage = "deciding" /\ (Life!Approve \/ Life!Reject)
<1>0. TypeOK /\ Rows
  BY DEF IInv
<1>1. PICK o \in {"approved", "rejected"}, k \in Pending :
        /\ dec[k].action = (IF o = "approved" THEN "approve" ELSE "reject")
        /\ plans' = [plans EXCEPT ![dec[k].version] = o]
        /\ dec' = [dec EXCEPT ![k].status = "applied"]
        /\ task' = o
  BY DEF ApplyApproval, ApplyRejection, ApplyTerminal, PendingAction
<1>2. /\ LifeStage = "deciding" /\ OpenDecision = [key |-> k, action |-> dec[k].action]
      /\ OpenDecision' = NoKey /\ Used' = Used /\ LatestVersion = dec[k].version
  BY <1>0, <1>1, LifeClose
<1>3. LatestVersion' = dec[k].version
  <2>1. /\ dec[k].version \in Versions
        /\ \A v \in Versions : v > dec[k].version => plans[v] = "none"
    BY <1>0, PendingFacts, VersionFacts
  <2>2. plans'[dec[k].version] # "none" /\ \A v \in Versions : v > dec[k].version => plans'[v] = "none"
    BY <1>0, <1>1, <2>1, VersionFacts DEF TypeOK
  <2> QED
    BY <2>1, <2>2, LatestIs
<1>4. LifeStage' = o
  BY <1>1 DEF LifeStage
<1>5. OpenDecision.action = dec[k].action
  BY <1>2
<1> QED
  BY <1>1, <1>2, <1>3, <1>4, <1>5 DEF Life!Approve, Life!Reject, Life!Close, Used

LEMMA LifeRevise ==
    ASSUME IInv, NEW w \in Workers, PersistRevision(w)
    PROVE  LifeStage = "deciding" /\ Life!Revise
<1>0. TypeOK /\ Rows
  BY DEF IInv
<1>1. PICK k, v :
        /\ k \in Pending
        /\ v = dec[k].version /\ dec[k].action = "request_changes"
        /\ plans' = [plans EXCEPT ![v] = "superseded", ![v + 1] = "proposed"]
        /\ dec' = [dec EXCEPT ![k].status = "applied"]
        /\ task' = "waiting_approval"
  BY DEF PersistRevision, PendingAction
<1>2. /\ LifeStage = "deciding" /\ OpenDecision = [key |-> k, action |-> dec[k].action]
      /\ OpenDecision' = NoKey /\ Used' = Used /\ LatestVersion = v
  BY <1>0, <1>1, LifeClose
<1>3. LatestVersion' = v + 1
  <2>1. /\ v \in 1 .. SchemaMaxVersion /\ v + 1 \in Versions
        /\ \A u \in Versions : u > v => plans[u] = "none"
    BY <1>0, <1>1, PendingFacts, VersionFacts
  <2>2. plans'[v + 1] = "proposed" /\ \A u \in Versions \ {v, v + 1} : plans'[u] = plans[u]
    BY <1>0, <1>1, <2>1 DEF TypeOK
  <2>3. \A u \in Versions : u > v + 1 => u \notin {v, v + 1} /\ u > v
    BY <2>1, VersionFacts
  <2>4. plans'[v + 1] # "none" /\ \A u \in Versions : u > v + 1 => plans'[u] = "none"
    BY <2>1, <2>2, <2>3
  <2> QED
    BY <2>1, <2>4, LatestIs
<1>4. LifeStage' = "awaiting"
  BY <1>1 DEF LifeStage
<1>5. OpenDecision.action = "request_changes"
  BY <1>1, <1>2
<1> QED
  BY <1>2, <1>3, <1>4, <1>5 DEF Life!Revise, Life!Close, Used

LEMMA LifePublish ==
    ASSUME IInv, NEW w \in Workers, PersistPlan(w)
    PROVE  Life!Publish
<1>0. TypeOK /\ Rows
  BY DEF IInv
<1>1. \A v \in Versions : plans[v] = "none"
  BY <1>0 DEF PersistPlan, Rows, NothingPlanned
<1>2. plans'[1] # "none" /\ \A v \in Versions : v > 1 => plans'[v] = "none"
  BY <1>0, <1>1, VersionFacts DEF PersistPlan, TypeOK
<1>3. LatestVersion' = 1
  BY <1>2, LatestIs, VersionFacts
<1>4. OpenDecision' = OpenDecision /\ Used' = Used
  BY DEF PersistPlan, OpenDecision, Pending, Used
<1>5. LifeStage = "planning" /\ LifeStage' = "awaiting"
  BY DEF PersistPlan, LifeStage
<1> QED
  BY <1>3, <1>4, <1>5 DEF Life!Publish, Used

LEMMA LifeGiveUp ==
    ASSUME UNCHANGED <<plans, dec>>, task = "analyzing", task' \in {"failed", "recovery_blocked"}
    PROVE  Life!GiveUp
<1>1. LatestVersion' = LatestVersion /\ OpenDecision' = OpenDecision /\ Used' = Used
  BY DEF LatestVersion, OpenDecision, Pending, Used
<1>2. LifeStage = "planning" /\ LifeStage' \in {"failed", "blocked"}
  BY DEF LifeStage
<1> QED
  BY <1>1, <1>2 DEF Life!GiveUp, Used

LEMMA LifePrepare == ASSUME IInv, Prepare PROVE UNCHANGED LifeVars
<1>1. item["planning"] \in Pending /\ TypeOK /\ Rows
  BY DEF Prepare, IInv, Control, OwnDecision
<1>2. task \in {"decision_pending", "revising"} /\ task' \in {"decision_pending", "revising"}
      /\ plans' = plans /\ dec' = dec
  BY <1>1, PendingFacts DEF Prepare
<1>3. LifeStage' = LifeStage
  BY <1>2 DEF LifeStage
<1>4. LatestVersion' = LatestVersion /\ OpenDecision' = OpenDecision /\ Used' = Used
  BY <1>2 DEF LatestVersion, OpenDecision, Pending, Used
<1> QED
  BY <1>3, <1>4 DEF LifeVars

LEMMA LifeNext == IInv /\ [Next]_vars => [Life!Next]_LifeVars
<1> SUFFICES ASSUME IInv, [Next]_vars PROVE Life!Next \/ UNCHANGED LifeVars
  OBVIOUS
<1>1. ASSUME NEW r \in Requests,
             \/ RequestStep(r)
             \/ \E k \in Keys, a \in Actions, v \in 1 .. SchemaMaxVersion : Receive(r, k, a, v)
      PROVE  Life!Next \/ UNCHANGED LifeVars
  <2>1. CASE CreateDecision(r)
    BY <2>1, LifeAsk DEF Life!Next, Life!Choices, Actions
  <2>2. CASE UNCHANGED business
    BY <2>2, LifeUnchanged
  <2> QED
    BY <1>1, <2>1, <2>2 DEF RequestStep, Receive, CheckLimit, ReturnDecision, RefuseDecision, Enqueue
<1>2. ASSUME DecisionStep \/ CrashRestart \/ UNCHANGED vars
      PROVE  Life!Next \/ UNCHANGED LifeVars
  <2>1. CASE Prepare
    BY <2>1, LifePrepare
  <2>2. CASE FailDecision /\ item["planning"] \in Pending
    BY <2>2, LifeFail DEF Life!Next
  <2>3. CASE UNCHANGED business
    BY <2>3, LifeUnchanged
  <2> QED
    BY <1>2, <2>1, <2>2, <2>3
       DEF DecisionStep, TakeWork, Resume, FailDecision, CrashRestart, vars
<1>3. ASSUME NEW w \in Workers,
             \/ PersistPlan(w) \/ ApplyApproval(w) \/ ApplyRejection(w) \/ PersistRevision(w)
      PROVE  Life!Next
  BY <1>3, LifePublish, LifeVerdict, LifeRevise DEF Life!Next
<1>4. ASSUME NEW w \in Workers, FailTask(w) \/ MarkFailed(w)
      PROVE  Life!Next \/ UNCHANGED LifeVars
  <2>1. task = "analyzing" \/ UNCHANGED business
    BY <1>4 DEF FailTask, MarkFailed, IInv, Control, OnePlanner, FirstRun
  <2>2. UNCHANGED <<plans, dec>> /\ (task' \in {"failed", "recovery_blocked"} \/ task' = task)
    BY <1>4 DEF FailTask, MarkFailed
  <2> QED
    BY <2>1, <2>2, LifeGiveUp, LifeUnchanged DEF Life!Next
<1>5. ASSUME NEW w \in Workers,
             \/ PlanTask(w) \/ Draft(w) \/ AwaitApproval(w) \/ RevisePlan(w)
             \/ RevisionConflict(w) \/ Finish(w) \/ SaveCheckpoint(w)
             \/ DraftFails(w) \/ RevisionFails(w) \/ InfrastructureError(w)
      PROVE  UNCHANGED LifeVars
  BY <1>5, LifeUnchanged
     DEF PlanTask, Draft, AwaitApproval, RevisePlan, RevisionConflict, Finish, SaveCheckpoint,
         DraftFails, RevisionFails, InfrastructureError
<1> QED
  BY <1>1, <1>2, <1>3, <1>4, <1>5 DEF Next, TaskStep, GraphStep, FailureStep

\* The whole machinery behind the API shows its client the life of one task.
THEOREM PlanningImplementsLifecycle == Spec => ImplementsLifecycle
<1>1. Init => Life!Init
  BY LifeInit
<1>2. IInv /\ [Next]_vars => [Life!Next]_(Life!vars)
  BY LifeNext DEF LifeVars, Life!vars, Used
<1> QED
  BY <1>1, <1>2, Invariance, PTL DEF Spec, ImplementsLifecycle, Life!Spec

===============================================================================
