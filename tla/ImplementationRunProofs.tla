------------------------ MODULE ImplementationRunProofs ------------------------
(*****************************************************************************)
(* The safety properties of ImplementationRun, for every number of keys,     *)
(* drafts and requests, every capacity and every number and kind of failures.*)
(*                                                                           *)
(* Evidence is what is outside the consumer: rows, files and container.      *)
(* Control is what work that is scheduled, requests that are answered and a  *)
(* consumer between two steps may rely on.                                   *)
(*****************************************************************************)
EXTENDS ImplementationRun, TLAPS, SequenceTheorems

Evidence == /\ RowsAgree /\ PatchOnDisk /\ TestsRunOnce
            /\ TestsReviewedPatch /\ ContainerKnown

\* Whatever is under way is about a run that exists, or a test that does.
RunKnown ==
    (\/ queue # <<>> \/ pc # "idle"
     \/ \E r \in Requests : rpc[r] \in {"committed", "answered"})
        => run.status # "none"

TestKnown ==
    /\ \A i \in 1 .. Len(queue) : queue[i] = "test" => test.status # "none"
    /\ \A r \in Requests : rpc[r] \in {"committed", "answered"} /\ payload[r].kind = "test"
                              => test.status # "none"
    /\ pc = "start_test" => test.status # "none"

\* A thread beyond the model's call carries a draft.
Carries(s) == s.next \in {"apply_patch", "await_test_approval", "run_tests", "end"}
                  => s.draft \in Drafts

\* A thread claims no more than the rows do.
Backed(s) ==
    /\ s.next \in {"await_test_approval", "run_tests", "end"} =>
           patch # NoDraft /\ s.patch = patch
    /\ s.next \in {"run_tests", "end"} => test.status # "none"
    /\ s.next = "end" => run.status \in Verdicts

Threads == /\ Carries(ckpt) /\ Carries(mem)
           /\ Backed(ckpt) /\ Backed(mem)

\* While files are written nothing is published.
Writes ==
    /\ pc \in {"writing", "written"} => patch = NoDraft /\ mem.next = "apply_patch"
    /\ pc = "written" => worktree = mem.draft

\* From the start of a test to its container: nothing ran yet, and whoever changed
\* the files since they were compared has left a trace in late.
Approves ==
    /\ pc \in {"resume_test", "replay", "resumed", "checked"} => test.status = "pending"
    /\ pc \in Graph /\ mem.next = "run_tests" => test.status = "pending"
    /\ pc = "replay" => mem.next \in {"apply_patch", "await_test_approval"}
    /\ pc = "resumed" => mem.next = "await_test_approval"
    /\ pc \in {"checked", "testing"} => worktree = patch \/ late

\* From the row that says running to the verdict.
Tests ==
    /\ pc \in {"checked", "testing", "executing", "passed", "failed"} => mem.next = "run_tests"
    /\ pc \in {"testing", "executing", "passed", "failed"} =>
           test.status = "running" /\ run.status = "testing"
    /\ pc = "testing" => executed = <<>>
    /\ pc \in {"executing", "passed", "failed"} => executed # <<>>
    /\ pc \in {"passed", "failed"} => ~container

Control == RunKnown /\ TestKnown /\ Threads /\ Writes /\ Approves /\ Tests

IInv == TypeOK /\ Evidence /\ Control

-----------------------------------------------------------------------------
(* Facts about the data.                                                     *)

USE DEF rows, outside, worker, requests, Graph, Running, Adopt, Produce

LEMMA RunWith ==
    ASSUME TypeOK, NEW s
    PROVE  /\ [run EXCEPT !.status = s].status = s
           /\ s \in RunStatus => [run EXCEPT !.status = s] \in Run
           /\ s \in RunStatus => [run EXCEPT !.status = s, !.linked = TRUE] \in Run
           /\ [run EXCEPT !.status = s, !.linked = TRUE].status = s
BY DEF TypeOK, Run

LEMMA TestWith ==
    ASSUME TypeOK, NEW s
    PROVE  /\ s \in TestStatus => [test EXCEPT !.status = s] \in Test
           /\ [test EXCEPT !.status = s].status = s
           /\ [test EXCEPT !.status = s].patch = test.patch
BY DEF TypeOK, Test

LEMMA NamesDiffer ==
    /\ NoDraft \notin Drafts
    /\ \A d \in Drafts : d \notin {"absent", "clean", "partial", "other"}
    /\ NoRun.status = "none" /\ NoTest.status = "none" /\ NoTest.patch = NoDraft
BY NameAssumption DEF NoRun, NoTest

LEMMA FaultType ==
    ASSUME TypeOK, NEW kind, Fault(kind)
    PROVE  faults' \in 0 .. MaxFaults
BY BoundAssumption DEF TypeOK, Fault

LEMMA QueueTail ==
    ASSUME TypeOK, queue # <<>>
    PROVE  /\ Head(queue) \in Work /\ Tail(queue) \in Seq(Work)
           /\ Len(Tail(queue)) <= QueueCapacity
           /\ \A i \in 1 .. Len(Tail(queue)) :
                 i + 1 \in 1 .. Len(queue) /\ Tail(queue)[i] = queue[i + 1]
           /\ Head(queue) = queue[1] /\ 1 \in 1 .. Len(queue)
BY BoundAssumption DEF TypeOK

\* What is put on the queue of a process that starts.
LEMMA PendingWorkIs ==
    /\ PendingWork \in Seq(Work) /\ Len(PendingWork) <= QueueCapacity
    /\ \A i \in 1 .. Len(PendingWork) :
          PendingWork[i] = "test" => test.status \in {"pending", "running"}
    /\ PendingWork # <<>> => run.status \in Generating \/ test.status \in {"pending", "running"}
<1>1. \/ PendingWork = <<>>
      \/ PendingWork = <<"implementation">> /\ run.status \in Generating
      \/ PendingWork = <<"test">> /\ test.status \in {"pending", "running"}
  BY DEF PendingWork
<1>2. \A x \in Work : /\ <<x>> \in Seq(Work) /\ Len(<<x>>) = 1
                       /\ \A i \in 1 .. Len(<<x>>) : <<x>>[i] = x
  OBVIOUS
<1>3. <<>> \in Seq(Work) /\ Len(<<>>) = 0
  OBVIOUS
<1>4. CASE PendingWork = <<>>
  BY <1>3, <1>4, BoundAssumption
<1>5. CASE PendingWork = <<"implementation">> /\ run.status \in Generating
  <2>1. "implementation" \in Work /\ "implementation" # "test" /\ 1 <= QueueCapacity
    BY BoundAssumption DEF Work
  <2>2. /\ PendingWork \in Seq(Work) /\ Len(PendingWork) = 1
        /\ \A i \in 1 .. Len(PendingWork) : PendingWork[i] = "implementation"
    BY <1>2, <1>5, <2>1, Zenon
  <2> QED
    BY <1>5, <2>1, <2>2
<1>6. CASE PendingWork = <<"test">> /\ test.status \in {"pending", "running"}
  <2>1. "test" \in Work /\ 1 <= QueueCapacity
    BY BoundAssumption DEF Work
  <2>2. PendingWork \in Seq(Work) /\ Len(PendingWork) = 1
    BY <1>2, <1>6, <2>1, Zenon
  <2> QED
    BY <1>6, <2>1, <2>2
<1> QED
  BY <1>1, <1>4, <1>5, <1>6

-----------------------------------------------------------------------------
(* Type correctness.                                                         *)

LEMMA InitType == Init => TypeOK
<1> SUFFICES ASSUME Init PROVE TypeOK
  OBVIOUS
<1>1. task \in TaskStatus /\ run \in Run /\ test \in Test /\ patch \in Drafts \cup {NoDraft}
  BY DEF Init, TaskStatus, Run, NoRun, Test, NoTest, TestStatus
<1>2. ckpt \in Snapshot /\ mem \in Snapshot
  BY DEF Init, NoCheckpoint, Snapshot
<1>3. executed \in Seq(Contents) /\ queue \in Seq(Work) /\ Len(queue) <= QueueCapacity
  BY BoundAssumption DEF Init
<1>4. rpc \in [Requests -> {"idle", "received", "committed", "answered"}]
      /\ payload \in [Requests -> Payload]
  BY DEF Init, Payload, NoPayload, Work
<1>5. worktree \in Contents /\ pc \in Stages
  BY DEF Init, Contents, Stages
<1>6. faults \in 0 .. MaxFaults
  BY BoundAssumption DEF Init
<1>7. container \in BOOLEAN /\ saved \in BOOLEAN /\ late \in BOOLEAN
  BY DEF Init
<1> QED
  BY <1>1, <1>2, <1>3, <1>4, <1>5, <1>6, <1>7 DEF TypeOK

RequestStages == {"idle", "received", "committed", "answered"}

LEMMA ReplyType ==
    ASSUME TypeOK, NEW r \in Requests
    PROVE  /\ Reply(r) => rpc' \in [Requests -> RequestStages]
                          /\ payload' \in [Requests -> Payload]
           /\ \A stage \in {"committed", "answered"} :
                Advance(r, stage) => rpc' \in [Requests -> RequestStages]
                                     /\ payload' \in [Requests -> Payload]
<1>1. NoPayload \in Payload
  BY DEF Payload, NoPayload, Work
<1> QED
  BY <1>1 DEF Reply, Advance, TypeOK, RequestStages

LEMMA ThreadType ==
    ASSUME TypeOK, NEW n \in Nodes, NEW d \in Drafts \cup {NoDraft}
    PROVE  /\ [mem EXCEPT !.next = n] \in Snapshot
           /\ [mem EXCEPT !.next = n, !.draft = d] \in Snapshot
           /\ [mem EXCEPT !.next = n, !.patch = d] \in Snapshot
           /\ [NoCheckpoint EXCEPT !.next = n] \in Snapshot
BY DEF TypeOK, Snapshot, NoCheckpoint

LEMMA NodeNames ==
    /\ "load_context" \in Nodes /\ "generate_replacements" \in Nodes
    /\ "apply_patch" \in Nodes /\ "await_test_approval" \in Nodes
    /\ "run_tests" \in Nodes /\ "end" \in Nodes
BY DEF Nodes

LEMMA RequestType ==
    ASSUME TypeOK, NEW r \in Requests, RequestStep(r)
    PROVE  TypeOK'
<1> USE DEF RequestStages
<1>1. CASE ReturnRun(r) \/ ReturnTest(r) \/ RefuseTest(r) \/ Refresh(r)
  <2>1. Reply(r) \/ Advance(r, "answered")
    BY <1>1 DEF ReturnRun, ReturnTest, RefuseTest, Refresh
  <2>2. UNCHANGED <<rows, ckpt, outside, queue, worker, faults>>
    BY <1>1 DEF ReturnRun, ReturnTest, RefuseTest, Refresh
  <2> QED
    BY <2>1, <2>2, ReplyType DEF TypeOK
<1>2. CASE CreateRun(r)
  <2>1. run' \in Run /\ task' \in TaskStatus
    BY <1>2 DEF CreateRun, TypeOK, Payload, Run, RunStatus, Generating, TaskStatus
  <2> QED
    BY <1>2, <2>1, ReplyType DEF CreateRun, TypeOK
<1>3. CASE CreateTest(r)
  <2>1. test' \in Test
    BY <1>3 DEF CreateTest, TypeOK, Payload, Test, TestStatus
  <2>2. run' \in Run /\ task' \in TaskStatus
    BY <1>3, RunWith DEF CreateTest, RunStatus, Testing, TaskStatus
  <2> QED
    BY <1>3, <2>1, <2>2, ReplyType DEF CreateTest, TypeOK
<1>4. CASE Enqueue(r)
  <2>1. queue' \in Seq(Work) /\ Len(queue') <= QueueCapacity
    BY <1>4, BoundAssumption DEF Enqueue, TypeOK, Payload
  <2> QED
    BY <1>4, <2>1, ReplyType DEF Enqueue, TypeOK
<1> QED
  BY <1>1, <1>2, <1>3, <1>4 DEF RequestStep

LEMMA PatchType ==
    ASSUME TypeOK, Control, PatchStep
    PROVE  TypeOK'
<1>1. CASE Start
  <2>1. /\ mem \in Snapshot /\ ckpt \in Snapshot /\ saved \in BOOLEAN
        /\ [NoCheckpoint EXCEPT !.next = "load_context"] \in Snapshot
    BY ThreadType, NodeNames DEF TypeOK
  <2>2. mem' \in Snapshot /\ saved' \in BOOLEAN
    BY <1>1, <2>1 DEF Start
  <2> QED
    BY <1>1, <2>2 DEF Start, TypeOK, Stages
<1>2. CASE PrepareWorktree
  BY <1>2 DEF PrepareWorktree, TypeOK, Contents, Stages
<1>3. CASE SetGenerating
  <2>1. run' \in Run /\ task' \in TaskStatus
    BY <1>3, RunWith DEF SetGenerating, RunStatus, Generating, TaskStatus
  <2>2. mem' \in Snapshot
    BY <1>3, ThreadType, NodeNames DEF SetGenerating
  <2> QED
    BY <1>3, <2>1, <2>2 DEF SetGenerating, TypeOK, Stages
<1>4. CASE GenerateReplacements
  <2>1. PICK d \in Drafts : mem' = [mem EXCEPT !.next = "apply_patch", !.draft = d]
    BY <1>4 DEF GenerateReplacements
  <2>2. mem' \in Snapshot
    BY <2>1, ThreadType, NodeNames
  <2>3. saved' \in BOOLEAN
    BY <1>4 DEF GenerateReplacements
  <2> QED
    BY <1>4, <2>2, <2>3 DEF GenerateReplacements, TypeOK
<1>5. CASE WritePatch
  BY <1>5 DEF WritePatch, Mismatch, TypeOK, Contents, Stages
<1>6. CASE FinishWrite
  <2>1. mem.draft \in Drafts
    BY <1>6 DEF FinishWrite, Control, Writes, Threads, Carries
  <2> QED
    BY <1>6, <2>1 DEF FinishWrite, TypeOK, Contents, Stages
<1>7. CASE PersistPatch
  <2>1. patch' \in Drafts \cup {NoDraft}
    BY <1>7 DEF PersistPatch, TypeOK, Snapshot
  <2>2. run' \in Run /\ task' \in TaskStatus
    BY <1>7, RunWith DEF PersistPatch, RunStatus, TaskStatus
  <2>3. mem' \in Snapshot
    BY <1>7, <2>1, ThreadType, NodeNames DEF PersistPatch
  <2> QED
    BY <1>7, <2>1, <2>2, <2>3 DEF PersistPatch, TypeOK, Stages
<1>8. CASE ReusePatch
  <2>1. patch \in Drafts \cup {NoDraft} /\ mem \in Snapshot /\ saved \in BOOLEAN
    BY DEF TypeOK
  <2>2. [mem EXCEPT !.next = "await_test_approval", !.patch = patch] \in Snapshot
    BY <2>1, ThreadType, NodeNames
  <2>3. mem' \in Snapshot /\ saved' \in BOOLEAN
    BY <1>8, <2>1, <2>2 DEF ReusePatch
  <2> QED
    BY <1>8, <2>3 DEF ReusePatch, Mismatch, TypeOK, Stages
<1>9. CASE AwaitTestApproval
  <2>1. mem' \in Snapshot /\ saved' \in BOOLEAN
    BY <1>9, ThreadType, NodeNames DEF AwaitTestApproval, TypeOK
  <2> QED
    BY <1>9, <2>1 DEF AwaitTestApproval, TypeOK, Stages
<1> QED
  BY <1>1, <1>2, <1>3, <1>4, <1>5, <1>6, <1>7, <1>8, <1>9 DEF PatchStep

LEMMA TestType ==
    ASSUME TypeOK, Control, TestStep
    PROVE  TypeOK'
<1>1. CASE StartTest
  <2>1. faults' \in 0 .. MaxFaults /\ container' \in BOOLEAN
    BY <1>1, FaultType DEF StartTest, TypeOK
  <2> QED
    BY <1>1, <2>1 DEF StartTest, TypeOK, Stages
<1>2. CASE ResumeTest
  BY <1>2 DEF ResumeTest, TypeOK, Stages
<1>3. CASE CheckWorktree
  BY <1>3 DEF CheckWorktree, Mismatch, TypeOK, Stages
<1>4. CASE MarkTesting
  <2>1. test' \in Test
    BY <1>4, TestWith DEF MarkTesting, TypeOK, TestStatus
  <2>2. run' \in Run
    BY <1>4, RunWith DEF MarkTesting, TypeOK, RunStatus, Testing
  <2>3. task' \in TaskStatus
    BY <1>4 DEF MarkTesting, TypeOK, RunStatus, Testing, TaskStatus
  <2> QED
    BY <1>4, <2>1, <2>2, <2>3 DEF MarkTesting, TypeOK, Stages
<1>5. CASE Execute
  BY <1>5 DEF Execute, TypeOK, Stages
<1>6. CASE FinishTest
  BY <1>6 DEF FinishTest, TypeOK, Stages
<1>7. CASE PersistTestResult
  <2>1. test' \in Test
    BY <1>7, TestWith DEF PersistTestResult, TestStatus
  <2>2. run' \in Run /\ task' \in TaskStatus
    BY <1>7, RunWith DEF PersistTestResult, RunStatus, Verdicts, TaskStatus
  <2>3. mem' \in Snapshot
    BY <1>7, ThreadType, NodeNames DEF PersistTestResult
  <2> QED
    BY <1>7, <2>1, <2>2, <2>3 DEF PersistTestResult, TypeOK, Stages
<1>8. CASE Finish
  BY <1>8 DEF Finish, TypeOK, Stages
<1> QED
  BY <1>1, <1>2, <1>3, <1>4, <1>5, <1>6, <1>7, <1>8 DEF TestStep

\* An edit under a running container changes what its tests see, not how many ran.
LEMMA TamperedTests ==
    ASSUME TypeOK, Tamper
    PROVE  /\ executed' \in Seq(Contents) /\ Len(executed') = Len(executed)
           /\ executed' = <<>> <=> executed = <<>>
<1>1. executed \in Seq(Contents) /\ "other" \in Contents
  BY DEF TypeOK, Contents
<1>2. CASE executed' = executed
  BY <1>1, <1>2
<1>3. CASE executed' = [executed EXCEPT ![Len(executed)] = "other"]
  <2>1. CASE executed # <<>>
    BY <1>1, <1>3, <2>1, ExceptSeq
  <2>2. CASE executed = <<>>
    <3>1. executed' = <<>>
      BY <1>3, <2>2
    <3> QED
      BY <1>1, <2>2, <3>1
  <2> QED
    BY <2>1, <2>2
<1> QED
  BY <1>2, <1>3 DEF Tamper

LEMMA FailureType ==
    ASSUME TypeOK, FailureStep
    PROVE  TypeOK'
<1>1. CASE SourceChanged \/ NodeFails \/ RunnerFails \/ InfrastructureError
  <2>1. faults' \in 0 .. MaxFaults
    BY <1>1, FaultType DEF SourceChanged, NodeFails, RunnerFails, InfrastructureError
  <2>2. pc' \in Stages /\ worktree' \in Contents /\ container' \in BOOLEAN /\ saved' \in BOOLEAN
    BY <1>1 DEF SourceChanged, NodeFails, RunnerFails, InfrastructureError,
                TypeOK, Stages, Contents
  <2> QED
    BY <1>1, <2>1, <2>2
       DEF SourceChanged, NodeFails, RunnerFails, InfrastructureError, TypeOK
<1>4. CASE Tamper
  <2>1. faults' \in 0 .. MaxFaults
    BY <1>4, FaultType DEF Tamper
  <2>2. late' \in BOOLEAN /\ worktree' \in Contents
    BY <1>4 DEF Tamper, TypeOK, Contents
  <2> QED
    BY <1>4, <2>1, <2>2, TamperedTests DEF Tamper, TypeOK
<1>2. CASE ContainerExpires
  BY <1>2 DEF ContainerExpires, TypeOK
<1>3. CASE CrashRestart
  <2>1. NoPayload \in Payload /\ NoCheckpoint \in Snapshot
    BY DEF Payload, NoPayload, Work, NoCheckpoint, Snapshot
  <2>2. faults' \in 0 .. MaxFaults
    BY <1>3, FaultType DEF CrashRestart
  <2> QED
    BY <1>3, <2>1, <2>2, PendingWorkIs DEF CrashRestart, TypeOK, Stages
<1> QED
  BY <1>1, <1>2, <1>3, <1>4 DEF FailureStep

LEMMA NextType == TypeOK /\ Control /\ [Next]_vars => TypeOK'
<1> SUFFICES ASSUME TypeOK, Control, [Next]_vars PROVE TypeOK'
  OBVIOUS
<1>1. ASSUME NEW r \in Requests, NEW kind \in Work, NEW k \in Keys, NEW d \in Drafts,
             Receive(r, kind, k, d)
      PROVE  TypeOK'
  BY <1>1 DEF Receive, TypeOK, Payload
<1>2. CASE TakeWork
  BY <1>2, QueueTail DEF TakeWork, TypeOK, Stages
<1>3. CASE SaveCheckpoint
  BY <1>3 DEF SaveCheckpoint, TypeOK
<1>4. CASE FailRun
  <2>0. /\ run \in Run /\ task \in TaskStatus
        /\ \A v \in {"failed", "recovery_blocked"} : v \in RunStatus /\ v \in TaskStatus
    BY DEF TypeOK, RunStatus, TaskStatus
  <2>1. run' \in Run /\ task' \in TaskStatus
    BY <1>4, <2>0, RunWith DEF FailRun
  <2> QED
    BY <1>4, <2>1 DEF FailRun, TypeOK, Stages
<1>5. CASE UNCHANGED vars
  BY <1>5 DEF vars, TypeOK
<1> QED
  BY <1>1, <1>2, <1>3, <1>4, <1>5, RequestType, PatchType, TestType, FailureType
     DEF Next, WorkerStep

-----------------------------------------------------------------------------
(* The evidence.                                                             *)

\* Seven transactions write the rows.
LEMMA RowWriters ==
    ASSUME [Next]_vars
    PROVE  \/ \E r \in Requests : CreateRun(r) \/ CreateTest(r)
           \/ SetGenerating \/ PersistPatch
           \/ MarkTesting \/ PersistTestResult \/ FailRun
           \/ UNCHANGED rows
<1>1. ASSUME NEW r \in Requests, RequestStep(r)
      PROVE  CreateRun(r) \/ CreateTest(r) \/ UNCHANGED rows
  BY <1>1 DEF RequestStep, ReturnRun, ReturnTest, RefuseTest, Refresh, Enqueue
<1>2. CASE PatchStep
  BY <1>2 DEF PatchStep, Start, PrepareWorktree, GenerateReplacements, WritePatch, FinishWrite,
              ReusePatch, AwaitTestApproval
<1>3. CASE TestStep
  BY <1>3 DEF TestStep, StartTest, ResumeTest, CheckWorktree, Execute, FinishTest, Finish
<1>4. CASE FailureStep
  BY <1>4 DEF FailureStep, SourceChanged, NodeFails, RunnerFails, InfrastructureError, Tamper,
              ContainerExpires, CrashRestart
<1>5. CASE TakeWork \/ SaveCheckpoint \/ UNCHANGED vars
  BY <1>5 DEF TakeWork, SaveCheckpoint, vars
<1>6. ASSUME NEW r \in Requests, NEW kind \in Work, NEW k \in Keys, NEW d \in Drafts,
             Receive(r, kind, k, d)
      PROVE  UNCHANGED rows
  BY <1>6 DEF Receive
<1> QED
  BY <1>1, <1>2, <1>3, <1>4, <1>5, <1>6 DEF Next, WorkerStep

\* What the rows rely on from the consumer: the draft it publishes exists, and
\* a verdict is about tests that run.
LEMMA PublishedDraft ==
    ASSUME Control, PersistPatch
    PROVE  mem.draft \in Drafts /\ patch = NoDraft /\ worktree = mem.draft
BY DEF PersistPatch, Control, Writes, Threads, Carries

LEMMA TestingRows ==
    ASSUME Control, pc \in {"testing", "executing", "passed", "failed"}
    PROVE  test.status = "running" /\ run.status = "testing"
BY DEF Control, Tests

LEMMA FailedRun ==
    ASSUME TypeOK, Control, FailRun
    PROVE  /\ run.status # "none"
           /\ patch' = patch /\ test' = test
           /\ \/ run.status \in Verdicts \cup {"failed"} /\ UNCHANGED <<run, task>>
              \/ /\ run.status \notin Verdicts \cup {"failed"}
                 /\ run'.status \in {"recovery_blocked", "failed"} /\ task' = run'.status
BY RunWith DEF FailRun, Control, RunKnown

LEMMA NextRowsAgree == TypeOK /\ RowsAgree /\ Control /\ [Next]_vars => RowsAgree'
<1> SUFFICES ASSUME TypeOK, RowsAgree, Control, [Next]_vars PROVE RowsAgree'
  OBVIOUS
<1> USE NamesDiffer DEF Generating, Testing, Verdicts
<1>1. ASSUME NEW r \in Requests, CreateRun(r) PROVE RowsAgree'
  BY <1>1 DEF CreateRun, RowsAgree
<1>2. ASSUME NEW r \in Requests, CreateTest(r) PROVE RowsAgree'
  <2>1. run'.status = "test_pending" /\ run.status = "patch_ready"
    BY <1>2, RunWith DEF CreateTest, Testable
  <2>2. test'.status = "pending" /\ test'.patch = patch /\ patch' = patch /\ task' = "test_pending"
    BY <1>2 DEF CreateTest, Testable
  <2> QED
    BY <2>1, <2>2 DEF RowsAgree
<1>3. CASE SetGenerating
  <2>1. run'.status = "generating_patch" /\ task' = "generating_patch" /\ UNCHANGED <<patch, test>>
    BY <1>3, RunWith DEF SetGenerating
  <2> QED
    BY <1>3, <2>1 DEF SetGenerating, RowsAgree
<1>4. CASE PersistPatch
  <2>1. /\ run'.status = "patch_ready" /\ task' = "patch_ready" /\ test' = test
        /\ patch' # NoDraft /\ patch = NoDraft
    BY <1>4, RunWith, PublishedDraft DEF PersistPatch
  <2> QED
    BY <1>4, <2>1 DEF PersistPatch, RowsAgree
<1>5. CASE MarkTesting
  <2>1. CASE UNCHANGED rows
    BY <2>1 DEF RowsAgree
  <2>2. CASE test.status = "pending" /\ run.status = "test_pending"
    <3>1. run'.status = "testing" /\ task' = "testing" /\ patch' = patch
      BY <1>5, <2>2, RunWith DEF MarkTesting
    <3>2. test'.status = "running" /\ test'.patch = test.patch
      <4>1. test' = [test EXCEPT !.status = "running"]
        BY <1>5, <2>2 DEF MarkTesting
      <4> QED
        BY <4>1, TestWith
    <3> QED
      BY <2>2, <3>1, <3>2 DEF RowsAgree
  <2> QED
    BY <1>5, <2>1, <2>2 DEF MarkTesting
<1>6. CASE PersistTestResult
  <2>1. patch' = patch /\ test'.patch = test.patch /\ test'.status = pc
    BY <1>6, TestWith DEF PersistTestResult
  <2>2. \/ pc = "passed" /\ run'.status = "tested" /\ task' = "tested"
        \/ pc = "failed" /\ run'.status = "test_failed" /\ task' = "test_failed"
    BY <1>6, RunWith DEF PersistTestResult
  <2> QED
    BY <1>6, <2>1, <2>2 DEF PersistTestResult, RowsAgree
<1>7. CASE FailRun
  BY <1>7, FailedRun DEF RowsAgree
<1>8. CASE UNCHANGED rows
  BY <1>8 DEF RowsAgree
<1> QED
  BY <1>1, <1>2, <1>3, <1>4, <1>5, <1>6, <1>7, <1>8, RowWriters

\* The steps that write the files, and those that start or stop a container.
LEMMA FileWriters ==
    ASSUME [Next]_vars
    PROVE  \/ PrepareWorktree \/ WritePatch \/ FinishWrite \/ NodeFails \/ Tamper
           \/ worktree' = worktree
<1>1. ASSUME NEW r \in Requests, RequestStep(r) PROVE UNCHANGED outside
  BY <1>1 DEF RequestStep, ReturnRun, CreateRun, ReturnTest, CreateTest, RefuseTest, Refresh, Enqueue
<1>2. CASE PatchStep
  BY <1>2 DEF PatchStep, Start, SetGenerating, GenerateReplacements, PersistPatch, ReusePatch,
              AwaitTestApproval
<1>3. CASE TestStep
  BY <1>3 DEF TestStep, StartTest, ResumeTest, CheckWorktree, MarkTesting, Execute, FinishTest,
              PersistTestResult, Finish
<1>4. CASE FailureStep
  BY <1>4 DEF FailureStep, SourceChanged, RunnerFails, InfrastructureError, ContainerExpires,
              CrashRestart
<1>5. CASE TakeWork \/ SaveCheckpoint \/ FailRun \/ UNCHANGED vars
  BY <1>5 DEF TakeWork, SaveCheckpoint, FailRun, vars
<1>6. ASSUME NEW r \in Requests, NEW kind \in Work, NEW k \in Keys, NEW d \in Drafts,
             Receive(r, kind, k, d)
      PROVE  UNCHANGED outside
  BY <1>6 DEF Receive
<1> QED
  BY <1>1, <1>2, <1>3, <1>4, <1>5, <1>6 DEF Next, WorkerStep

LEMMA ContainerWriters ==
    ASSUME [Next]_vars
    PROVE  \/ Execute \/ Tamper
           \/ /\ executed' = executed
              /\ container' => container
              /\ late' = late \/ CheckWorktree
<1>1. ASSUME NEW r \in Requests, RequestStep(r) PROVE UNCHANGED outside
  BY <1>1 DEF RequestStep, ReturnRun, CreateRun, ReturnTest, CreateTest, RefuseTest, Refresh, Enqueue
<1>2. CASE PatchStep
  BY <1>2 DEF PatchStep, Start, PrepareWorktree, SetGenerating, GenerateReplacements, WritePatch,
              FinishWrite, PersistPatch, ReusePatch, AwaitTestApproval
<1>3. CASE TestStep
  BY <1>3 DEF TestStep, StartTest, ResumeTest, CheckWorktree, MarkTesting, FinishTest,
              PersistTestResult, Finish
<1>4. CASE FailureStep
  BY <1>4 DEF FailureStep, SourceChanged, NodeFails, RunnerFails, InfrastructureError, ContainerExpires,
              CrashRestart
<1>5. CASE TakeWork \/ SaveCheckpoint \/ FailRun \/ UNCHANGED vars
  BY <1>5 DEF TakeWork, SaveCheckpoint, FailRun, vars
<1>6. ASSUME NEW r \in Requests, NEW kind \in Work, NEW k \in Keys, NEW d \in Drafts,
             Receive(r, kind, k, d)
      PROVE  UNCHANGED outside
  BY <1>6 DEF Receive
<1> QED
  BY <1>1, <1>2, <1>3, <1>4, <1>5, <1>6 DEF Next, WorkerStep

\* What a step does to the patch and to the test, for the rest of the proof.
LEMMA PatchMoves ==
    ASSUME TypeOK, RowsAgree, Control, [Next]_vars
    PROVE  \/ patch' = patch
           \/ PersistPatch /\ patch = NoDraft /\ patch' = worktree /\ test.status = "none"
<1>1. ASSUME PersistPatch
      PROVE  patch = NoDraft /\ patch' = worktree /\ test.status = "none"
  BY <1>1, PublishedDraft DEF PersistPatch, RowsAgree
<1> QED
  BY <1>1, RowWriters
     DEF CreateRun, CreateTest, SetGenerating, MarkTesting, PersistTestResult, FailRun

LEMMA TestMoves ==
    ASSUME TypeOK, RowsAgree, Control, [Next]_vars
    PROVE  \/ test' = test
           \/ test.status = "none" /\ test'.status = "pending" /\ patch # NoDraft
           \/ /\ MarkTesting /\ test.status = "pending" /\ test'.status = "running"
              /\ test'.patch = test.patch
           \/ /\ PersistTestResult /\ test.status = "running" /\ test'.status \in {"passed", "failed"}
              /\ test'.status = pc /\ test'.patch = test.patch
<1>1. ASSUME NEW r \in Requests, CreateTest(r)
      PROVE  test.status = "none" /\ test'.status = "pending" /\ patch # NoDraft
  BY <1>1, NamesDiffer DEF CreateTest, Testable, RowsAgree
<1>2. ASSUME MarkTesting
      PROVE  \/ test' = test
             \/ /\ test.status = "pending" /\ test'.status = "running"
                /\ test'.patch = test.patch
  BY <1>2, TestWith DEF MarkTesting
<1>3. ASSUME PersistTestResult
      PROVE  /\ test.status = "running" /\ test'.status \in {"passed", "failed"}
             /\ test'.status = pc /\ test'.patch = test.patch
  BY <1>3, TestWith DEF PersistTestResult
<1> QED
  BY <1>1, <1>2, <1>3, RowWriters DEF CreateRun, SetGenerating, PersistPatch, FailRun

LEMMA NextPatchOnDisk ==
    TypeOK /\ RowsAgree /\ PatchOnDisk /\ Control /\ [Next]_vars => PatchOnDisk'
<1> SUFFICES ASSUME TypeOK, RowsAgree, PatchOnDisk, Control, [Next]_vars, patch' # NoDraft
             PROVE  worktree' \in {patch', "other"}
  BY DEF PatchOnDisk
<1>1. CASE PersistPatch
  BY <1>1, PatchMoves, PublishedDraft DEF PersistPatch
<1>2. CASE patch' = patch
  <2>1. worktree \in {patch, "other"} /\ patch \in Drafts
    BY <1>2 DEF PatchOnDisk, TypeOK
  <2>2. worktree # "absent"
    BY <2>1, NamesDiffer
  <2>3. ~ WritePatch /\ ~ FinishWrite
    BY <1>2 DEF WritePatch, FinishWrite, Control, Writes
  <2>4. ASSUME NodeFails PROVE worktree' = worktree
    BY <1>2, <2>4, <2>1 DEF NodeFails, PersistPatch, RowsAgree, Control, Writes
  <2> QED
    BY <1>2, <2>1, <2>2, <2>3, <2>4, FileWriters DEF PrepareWorktree, Tamper
<1> QED
  BY <1>1, <1>2, PatchMoves

LEMMA NextTestsRunOnce ==
    TypeOK /\ RowsAgree /\ TestsRunOnce /\ Control /\ [Next]_vars => TestsRunOnce'
<1> SUFFICES ASSUME TypeOK, RowsAgree, TestsRunOnce, Control, [Next]_vars PROVE TestsRunOnce'
  OBVIOUS
<1>0. executed \in Seq(Contents)
  BY DEF TypeOK
<1>1. CASE Execute
  <2>1. executed = <<>> /\ test' = test /\ test.status = "running"
    BY <1>1 DEF Execute, Control, Tests
  <2>2. executed' = <<worktree>> /\ Len(executed') = 1 /\ executed' # <<>>
    BY <1>1, <2>1 DEF Execute
  <2> QED
    BY <2>1, <2>2 DEF TestsRunOnce
<1>2. CASE executed' = executed /\ test' = test
  BY <1>2 DEF TestsRunOnce
<1>3. CASE executed' = executed /\ test.status = "none" /\ test'.status = "pending"
  BY <1>3 DEF TestsRunOnce
<1>4. CASE executed' = executed /\ test.status = "pending" /\ test'.status = "running"
  BY <1>4 DEF TestsRunOnce
<1>5. CASE executed' = executed /\ PersistTestResult
  <2>1. executed # <<>> /\ test'.status \in {"passed", "failed"}
    BY <1>5, TestWith DEF PersistTestResult, Control, Tests
  <2> QED
    BY <1>5, <2>1 DEF TestsRunOnce
<1>6. CASE Tamper
  <2>1. test' = test
    BY <1>6 DEF Tamper
  <2> QED
    BY <1>6, <2>1, TamperedTests DEF TestsRunOnce
<1> QED
  BY <1>1, <1>2, <1>3, <1>4, <1>5, <1>6, TestMoves, ContainerWriters

LEMMA NextTestsReviewedPatch ==
    TypeOK /\ Evidence /\ Control /\ [Next]_vars => TestsReviewedPatch'
<1> SUFFICES ASSUME TypeOK, Evidence, Control, [Next]_vars PROVE TestsReviewedPatch'
  OBVIOUS
<1>0. executed \in Seq(Contents)
  BY DEF TypeOK
<1>1. CASE Execute
  <2>1. /\ executed = <<>> /\ test' = test /\ test.patch = patch /\ late' = late
        /\ worktree = patch \/ late
    BY <1>1 DEF Execute, Control, Tests, Approves, Evidence, RowsAgree
  <2>2. executed' = <<worktree>>
    BY <1>1, <2>1 DEF Execute
  <2> QED
    BY <2>1, <2>2 DEF TestsReviewedPatch
<1>2. CASE Tamper
  <2>1. CASE container
    BY <1>2, <2>1 DEF Tamper, BehindComparison, TestsReviewedPatch
  <2>2. CASE ~ container
    <3>1. executed' = executed /\ test' = test /\ (late => late')
      BY <1>2, <2>2 DEF Tamper
    <3> QED
      BY <3>1 DEF TestsReviewedPatch, Evidence
  <2> QED
    BY <2>1, <2>2
<1>3. CASE CheckWorktree
  <2>1. executed = <<>>
    BY <1>3 DEF CheckWorktree, Control, Approves, Evidence, TestsRunOnce
  <2>2. executed' = <<>>
    BY <1>3, <2>1 DEF CheckWorktree
  <2> QED
    BY <2>2 DEF TestsReviewedPatch
<1>4. CASE executed' = executed /\ late' = late /\ test'.patch = test.patch
  BY <1>4 DEF TestsReviewedPatch, Evidence
<1>5. CASE executed' = executed /\ test.status = "none"
  <2>1. executed' = <<>>
    BY <1>5 DEF Evidence, TestsRunOnce
  <2> QED
    BY <2>1 DEF TestsReviewedPatch
<1> QED
  BY <1>1, <1>2, <1>3, <1>4, <1>5, TestMoves, ContainerWriters DEF Evidence

LEMMA NextContainerKnown ==
    TypeOK /\ RowsAgree /\ ContainerKnown /\ Control /\ [Next]_vars => ContainerKnown'
<1> SUFFICES ASSUME TypeOK, RowsAgree, ContainerKnown, Control, [Next]_vars, container'
             PROVE  test'.status = "running"
  BY DEF ContainerKnown
<1>1. CASE Execute
  BY <1>1, TestingRows DEF Execute
<1>2. CASE container
  <2>1. test.status = "running" /\ ~ PersistTestResult
    BY <1>2 DEF ContainerKnown, PersistTestResult, Control, Tests
  <2> QED
    BY <2>1, TestMoves
<1> QED
  BY <1>1, <1>2, ContainerWriters DEF Tamper

LEMMA NextEvidence == TypeOK /\ Evidence /\ Control /\ [Next]_vars => Evidence'
BY NextRowsAgree, NextPatchOnDisk, NextTestsRunOnce, NextTestsReviewedPatch, NextContainerKnown
   DEF Evidence

-----------------------------------------------------------------------------
(* What is under way.                                                        *)

\* A run and a test, once created, exist; a published patch and a verdict stay.
LEMMA Lasting ==
    ASSUME TypeOK, RowsAgree, Control, [Next]_vars
    PROVE  /\ run.status # "none" => run'.status # "none"
           /\ test.status # "none" => test'.status # "none"
           /\ patch # NoDraft => patch' = patch
           /\ run.status \in Verdicts \cup {"failed"} => run' = run
           /\ test.status \in {"passed", "failed"} => test' = test
<1>1. /\ test.status # "none" => test'.status # "none"
      /\ test.status \in {"passed", "failed"} => test' = test
      /\ patch # NoDraft => patch' = patch
  BY TestMoves, PatchMoves
<1>2. ASSUME NEW r \in Requests, CreateRun(r) \/ CreateTest(r)
      PROVE  /\ run'.status # "none"
             /\ run.status \notin Verdicts \cup {"failed"}
  <2>1. CASE CreateRun(r)
    BY <2>1, NamesDiffer DEF CreateRun, Verdicts
  <2>2. CASE CreateTest(r)
    <3>1. run' = [run EXCEPT !.status = "test_pending"] /\ run.status = "patch_ready"
      BY <2>2 DEF CreateTest, Testable
    <3>2. run'.status = "test_pending"
      BY <3>1, RunWith
    <3> QED
      BY <3>1, <3>2 DEF Verdicts
  <2> QED
    BY <1>2, <2>1, <2>2
<1>3. ASSUME SetGenerating \/ PersistPatch \/ PersistTestResult
      PROVE  /\ run'.status # "none"
             /\ run.status \notin Verdicts \cup {"failed"}
  <2>1. run.status \notin Verdicts \cup {"failed"}
    BY <1>3, TestingRows DEF SetGenerating, PersistPatch, PersistTestResult, Generating, Verdicts
  <2>2. run'.status # "none"
    BY <1>3, RunWith DEF SetGenerating, PersistPatch, PersistTestResult
  <2> QED
    BY <2>1, <2>2
<1>4. ASSUME MarkTesting
      PROVE  \/ run' = run
             \/ run'.status # "none" /\ run.status \notin Verdicts \cup {"failed"}
  BY <1>4, RunWith DEF MarkTesting, Verdicts
<1>5. ASSUME FailRun
      PROVE  \/ run' = run
             \/ run'.status # "none" /\ run.status \notin Verdicts \cup {"failed"}
  BY <1>5, FailedRun
<1> QED
  BY <1>1, <1>2, <1>3, <1>4, <1>5, RowWriters

\* Of the steps that are no request, the consumer's need an item.
LEMMA IdleSteps ==
    ASSUME [Next]_vars, pc = "idle"
    PROVE  \/ \E r \in Requests, kind \in Work, k \in Keys, d \in Drafts : Receive(r, kind, k, d)
           \/ \E r \in Requests : RequestStep(r)
           \/ TakeWork \/ CrashRestart
           \/ UNCHANGED <<rows, ckpt, queue, worker, requests>>
<1>1. ~ PatchStep
  BY DEF PatchStep, Start, PrepareWorktree, SetGenerating, GenerateReplacements, WritePatch,
         FinishWrite, PersistPatch, ReusePatch, AwaitTestApproval
<1>2. ~ TestStep
  BY DEF TestStep, StartTest, ResumeTest, CheckWorktree, MarkTesting, Execute, FinishTest,
         PersistTestResult, Finish
<1>3. ~ SaveCheckpoint /\ ~ FailRun
  BY DEF SaveCheckpoint, FailRun
<1>4. CASE FailureStep
  BY <1>4 DEF FailureStep, SourceChanged, NodeFails, RunnerFails, InfrastructureError, Tamper,
              ContainerExpires, CrashRestart
<1>5. CASE UNCHANGED vars
  BY <1>5 DEF vars
<1> QED
  BY <1>1, <1>2, <1>3, <1>4, <1>5 DEF Next, WorkerStep

LEMMA NextRunKnown == TypeOK /\ RowsAgree /\ Control /\ [Next]_vars => RunKnown'
<1> SUFFICES ASSUME TypeOK, RowsAgree, Control, [Next]_vars PROVE RunKnown'
  OBVIOUS
<1>1. CASE run.status # "none"
  BY <1>1, Lasting DEF RunKnown
<1>2. CASE run.status = "none"
  <2>1. queue = <<>> /\ pc = "idle" /\ \A r \in Requests : rpc[r] \notin {"committed", "answered"}
    BY <1>2 DEF Control, RunKnown
  <2>2. test.status = "none" /\ patch = NoDraft
    BY <1>2 DEF RowsAgree
  <2>3. ASSUME NEW r \in Requests, RequestStep(r), ~ CreateRun(r)
        PROVE  Reply(r) /\ UNCHANGED <<rows, queue, worker>>
    BY <1>2, <2>1, <2>2, <2>3
       DEF RequestStep, ReturnRun, ReturnTest, CreateTest, Testable, RefuseTest, Refresh, Enqueue,
           Asks, Generating
  <2>4. ASSUME NEW r \in Requests, CreateRun(r) PROVE RunKnown'
    BY <2>4 DEF CreateRun, RunKnown
  <2>5. ASSUME NEW r \in Requests, Reply(r), UNCHANGED <<rows, queue, worker>> PROVE RunKnown'
    BY <2>1, <2>5 DEF Reply, RunKnown, TypeOK
  <2>6. ASSUME NEW r \in Requests, NEW kind \in Work, NEW k \in Keys, NEW d \in Drafts,
               Receive(r, kind, k, d)
        PROVE  RunKnown'
    BY <2>1, <2>6 DEF Receive, RunKnown, TypeOK
  <2>7. CASE CrashRestart
    BY <1>2, <2>2, <2>7, PendingWorkIs DEF CrashRestart, RunKnown, Generating
  <2>8. ~ TakeWork
    BY <2>1 DEF TakeWork
  <2>9. CASE UNCHANGED <<rows, ckpt, queue, worker, requests>>
    BY <2>1, <2>9 DEF RunKnown
  <2> QED
    BY <2>1, <2>3, <2>4, <2>5, <2>6, <2>7, <2>8, <2>9, IdleSteps
<1> QED
  BY <1>1, <1>2

\* What writes the queue and the requests, and what takes a test from the queue.
LEMMA QueueWriters ==
    ASSUME [Next]_vars
    PROVE  \/ \E r \in Requests : RequestStep(r)
           \/ \E r \in Requests, kind \in Work, k \in Keys, d \in Drafts : Receive(r, kind, k, d)
           \/ TakeWork \/ CrashRestart
           \/ UNCHANGED <<queue, requests>> /\ (pc' = pc \/ pc' # "start_test")
<1>1. CASE PatchStep
  BY <1>1 DEF PatchStep, Start, PrepareWorktree, SetGenerating, GenerateReplacements, WritePatch,
              FinishWrite, PersistPatch, ReusePatch, AwaitTestApproval, Mismatch
<1>2. CASE TestStep
  BY <1>2 DEF TestStep, StartTest, ResumeTest, CheckWorktree, MarkTesting, Execute, FinishTest,
              PersistTestResult, Finish, Mismatch
<1>3. CASE FailureStep
  BY <1>3 DEF FailureStep, SourceChanged, NodeFails, RunnerFails, InfrastructureError, Tamper,
              ContainerExpires
<1>4. CASE SaveCheckpoint \/ FailRun \/ UNCHANGED vars
  BY <1>4 DEF SaveCheckpoint, FailRun, vars
<1> QED
  BY <1>1, <1>2, <1>3, <1>4 DEF Next, WorkerStep

LEMMA NextTestKnown == TypeOK /\ RowsAgree /\ Control /\ [Next]_vars => TestKnown'
<1> SUFFICES ASSUME TypeOK, RowsAgree, Control, [Next]_vars PROVE TestKnown'
  OBVIOUS
<1>1. test.status # "none" => test'.status # "none"
  BY Lasting
<1>2. TestKnown
  BY DEF Control
<1>3. ASSUME NEW r \in Requests, RequestStep(r) PROVE TestKnown'
  <2>1. CASE Enqueue(r)
    <3>1. payload[r].kind \in Work /\ (payload[r].kind = "test" => test.status # "none")
      BY <1>2, <2>1 DEF Enqueue, TestKnown, TypeOK, Payload
    <3>2. \A i \in 1 .. Len(queue') : queue'[i] = "test" => test.status # "none"
      BY <1>2, <2>1, <3>1 DEF Enqueue, TestKnown, TypeOK
    <3>3. UNCHANGED <<test, pc>> /\ Reply(r)
      BY <2>1 DEF Enqueue
    <3> QED
      BY <1>2, <3>2, <3>3 DEF TestKnown, Reply, TypeOK
  <2>2. ~ Enqueue(r) => UNCHANGED <<queue, pc>>
    BY <1>3 DEF RequestStep, ReturnRun, CreateRun, ReturnTest, CreateTest, RefuseTest, Refresh
  <2>3. CASE Reply(r) /\ ~ Enqueue(r)
    BY <1>1, <1>2, <2>2, <2>3 DEF TestKnown, Reply, TypeOK
  <2>4. CASE ReturnRun(r) \/ CreateRun(r)
    <3>1. payload[r].kind = "implementation"
      BY <2>4 DEF ReturnRun, CreateRun, Asks
    <3>2. \/ /\ payload' = payload
             /\ \A q \in Requests : q # r => rpc'[q] = rpc[q]
          \/ Reply(r)
      BY <2>4 DEF ReturnRun, CreateRun, Advance, TypeOK
    <3>3. ~ Enqueue(r)
      BY <2>4 DEF ReturnRun, CreateRun, Enqueue, Asks
    <3> QED
      BY <1>1, <1>2, <2>2, <2>3, <3>1, <3>2, <3>3 DEF TestKnown
  <2>5. CASE ReturnTest(r) \/ CreateTest(r)
    <3>1. Reply(r) \/ test'.status # "none"
      BY <2>5 DEF ReturnTest, CreateTest
    <3>2. ~ Enqueue(r)
      BY <2>5 DEF ReturnTest, CreateTest, Enqueue, Asks
    <3> QED
      BY <2>3, <3>1, <3>2 DEF TestKnown
  <2>6. CASE Refresh(r)
    <3>1. Reply(r) \/ (Advance(r, "answered") /\ rpc[r] = "committed")
      BY <2>6 DEF Refresh
    <3>2. ~ Enqueue(r)
      BY <2>6 DEF Refresh, Enqueue
    <3>3. CASE Advance(r, "answered") /\ rpc[r] = "committed"
      BY <1>1, <1>2, <2>2, <3>2, <3>3 DEF TestKnown, Advance, TypeOK
    <3> QED
      BY <2>3, <3>1, <3>2, <3>3
  <2>7. CASE RefuseTest(r)
    BY <2>3, <2>7 DEF RefuseTest, Enqueue, Asks
  <2> QED
    BY <1>3, <2>1, <2>4, <2>5, <2>6, <2>7 DEF RequestStep
<1>4. ASSUME NEW r \in Requests, NEW kind \in Work, NEW k \in Keys, NEW d \in Drafts,
             Receive(r, kind, k, d)
      PROVE  TestKnown'
  BY <1>1, <1>2, <1>4 DEF Receive, TestKnown, TypeOK
<1>5. CASE TakeWork
  <2>1. Head(queue) # "implementation" => test.status # "none"
    BY <1>2, <1>5, QueueTail DEF TakeWork, TestKnown, Work
  <2>2. queue' = Tail(queue) /\ UNCHANGED <<test, requests>>
    BY <1>5 DEF TakeWork
  <2>3. \A i \in 1 .. Len(queue') : queue'[i] = "test" => test.status # "none"
    BY <1>2, <1>5, <2>2, QueueTail DEF TakeWork, TestKnown
  <2> QED
    BY <1>2, <1>5, <2>1, <2>2, <2>3 DEF TakeWork, TestKnown
<1>6. CASE CrashRestart
  BY <1>1, <1>6, PendingWorkIs DEF CrashRestart, TestKnown
<1>7. CASE UNCHANGED <<queue, requests>> /\ (pc' = pc \/ pc' # "start_test")
  BY <1>1, <1>2, <1>7 DEF TestKnown
<1> QED
  BY <1>3, <1>4, <1>5, <1>6, <1>7, QueueWriters

LEMMA ThreadWith ==
    ASSUME TypeOK, NEW n, NEW d
    PROVE  /\ [mem EXCEPT !.next = n].next = n
           /\ [mem EXCEPT !.next = n].draft = mem.draft
           /\ [mem EXCEPT !.next = n].patch = mem.patch
           /\ [mem EXCEPT !.next = n, !.draft = d].next = n
           /\ [mem EXCEPT !.next = n, !.draft = d].draft = d
           /\ [mem EXCEPT !.next = n, !.patch = d].next = n
           /\ [mem EXCEPT !.next = n, !.patch = d].draft = mem.draft
           /\ [mem EXCEPT !.next = n, !.patch = d].patch = d
BY DEF TypeOK, Snapshot

\* The running thread moves to a node that needs no evidence, to what the
\* checkpoint says, or with one of four steps.
LEMMA ThreadMoves ==
    ASSUME TypeOK, [Next]_vars
    PROVE  \/ mem' = mem
           \/ mem' = ckpt
           \/ mem'.next \in {"missing", "load_context", "generate_replacements"}
           \/ mem'.next = "apply_patch" /\ mem'.draft \in Drafts
           \/ PersistPatch
           \/ ReusePatch /\ patch # NoDraft /\ mem' = [mem EXCEPT !.next = "await_test_approval",
                                                                  !.patch = patch]
           \/ AwaitTestApproval /\ pc = "resumed" /\ mem' = [mem EXCEPT !.next = "run_tests"]
           \/ PersistTestResult
<1>1. ASSUME NEW r \in Requests, RequestStep(r) PROVE mem' = mem
  BY <1>1 DEF RequestStep, ReturnRun, CreateRun, ReturnTest, CreateTest, RefuseTest, Refresh, Enqueue
<1>2. ASSUME NEW r \in Requests, NEW kind \in Work, NEW k \in Keys, NEW d \in Drafts,
             Receive(r, kind, k, d)
      PROVE  mem' = mem
  BY <1>2 DEF Receive
<1>3. CASE Start
  BY <1>3 DEF Start, NoCheckpoint
<1>4. CASE SetGenerating
  <2>1. mem' = [mem EXCEPT !.next = "generate_replacements"]
    BY <1>4 DEF SetGenerating
  <2> QED
    BY <2>1, ThreadWith
<1>5. CASE GenerateReplacements
  <2>1. PICK d \in Drafts : mem' = [mem EXCEPT !.next = "apply_patch", !.draft = d]
    BY <1>5 DEF GenerateReplacements
  <2> QED
    BY <2>1, ThreadWith
<1>6. CASE ReusePatch
  BY <1>6 DEF ReusePatch
<1>7. CASE AwaitTestApproval
  BY <1>7 DEF AwaitTestApproval
<1>8. CASE PrepareWorktree \/ WritePatch \/ FinishWrite
  BY <1>8 DEF PrepareWorktree, WritePatch, FinishWrite
<1>9. CASE TestStep
  BY <1>9 DEF TestStep, StartTest, ResumeTest, CheckWorktree, MarkTesting, Execute, FinishTest, Finish
<1>10. CASE FailureStep
  <2>1. mem' = mem \/ mem' = NoCheckpoint
    BY <1>10 DEF FailureStep, SourceChanged, NodeFails, RunnerFails, InfrastructureError, Tamper,
                 ContainerExpires, CrashRestart
  <2>2. NoCheckpoint.next = "missing"
    BY DEF NoCheckpoint
  <2> QED
    BY <2>1, <2>2
<1>11. CASE TakeWork \/ SaveCheckpoint \/ FailRun \/ UNCHANGED vars
  BY <1>11 DEF TakeWork, SaveCheckpoint, FailRun, vars
<1> QED
  BY <1>1, <1>2, <1>3, <1>4, <1>5, <1>6, <1>7, <1>8, <1>9, <1>10, <1>11
     DEF Next, WorkerStep, PatchStep

LEMMA CheckpointWriters ==
    ASSUME [Next]_vars
    PROVE  ckpt' = ckpt \/ (ckpt' = mem /\ UNCHANGED rows)
<1>1. ASSUME NEW r \in Requests, RequestStep(r) PROVE ckpt' = ckpt
  BY <1>1 DEF RequestStep, ReturnRun, CreateRun, ReturnTest, CreateTest, RefuseTest, Refresh, Enqueue
<1>2. CASE PatchStep
  BY <1>2 DEF PatchStep, Start, PrepareWorktree, SetGenerating, GenerateReplacements, WritePatch,
              FinishWrite, PersistPatch, ReusePatch, AwaitTestApproval
<1>3. CASE TestStep
  BY <1>3 DEF TestStep, StartTest, ResumeTest, CheckWorktree, MarkTesting, Execute, FinishTest,
              PersistTestResult, Finish
<1>4. CASE FailureStep
  BY <1>4 DEF FailureStep, SourceChanged, NodeFails, RunnerFails, InfrastructureError, Tamper,
              ContainerExpires, CrashRestart
<1>5. CASE TakeWork \/ SaveCheckpoint \/ FailRun \/ UNCHANGED vars
  BY <1>5 DEF TakeWork, SaveCheckpoint, FailRun, vars
<1>6. ASSUME NEW r \in Requests, NEW kind \in Work, NEW k \in Keys, NEW d \in Drafts,
             Receive(r, kind, k, d)
      PROVE  ckpt' = ckpt
  BY <1>6 DEF Receive
<1> QED
  BY <1>1, <1>2, <1>3, <1>4, <1>5, <1>6 DEF Next, WorkerStep

LEMMA NextThreads == TypeOK /\ RowsAgree /\ Control /\ [Next]_vars => Threads'
<1> SUFFICES ASSUME TypeOK, RowsAgree, Control, [Next]_vars PROVE Threads'
  OBVIOUS
<1>1. Threads
  BY DEF Control
<1>2. Carries(ckpt)' /\ Backed(ckpt)'
  BY <1>1, Lasting, CheckpointWriters DEF Threads, Carries, Backed
<1>3. CASE mem' \in {mem, ckpt}
  <2>1. Carries(mem)' /\ Backed(mem)'
    BY <1>1, <1>3, Lasting DEF Threads, Carries, Backed
  <2> QED
    BY <1>2, <2>1 DEF Threads
<1>4. CASE \/ mem'.next \in {"missing", "load_context", "generate_replacements"}
           \/ mem'.next = "apply_patch" /\ mem'.draft \in Drafts
  BY <1>2, <1>4 DEF Threads, Carries, Backed
<1>5. CASE PersistPatch
  <2>1. mem' = [mem EXCEPT !.next = "await_test_approval", !.patch = mem.draft]
        /\ patch' = mem.draft
    BY <1>5 DEF PersistPatch
  <2>2. /\ mem'.next = "await_test_approval" /\ mem'.draft = mem.draft /\ mem'.patch = mem.draft
        /\ mem.draft \in Drafts /\ mem.draft # NoDraft
    BY <1>5, <2>1, ThreadWith, PublishedDraft, NamesDiffer
  <2> QED
    BY <1>2, <2>1, <2>2 DEF Threads, Carries, Backed
<1>6. CASE ReusePatch /\ patch # NoDraft /\ mem' = [mem EXCEPT !.next = "await_test_approval",
                                                               !.patch = patch]
  <2>1. mem'.next = "await_test_approval" /\ mem'.draft = mem.draft /\ mem'.patch = patch
    BY <1>6, ThreadWith
  <2>2. mem.draft \in Drafts /\ patch' = patch
    BY <1>1, <1>6 DEF ReusePatch, Threads, Carries
  <2> QED
    BY <1>2, <1>6, <2>1, <2>2 DEF Threads, Carries, Backed
<1>7. CASE AwaitTestApproval /\ pc = "resumed" /\ mem' = [mem EXCEPT !.next = "run_tests"]
  <2>1. mem'.next = "run_tests" /\ mem'.draft = mem.draft /\ mem'.patch = mem.patch
    BY <1>7, ThreadWith
  <2>2. /\ mem.next = "await_test_approval" /\ test.status = "pending"
        /\ UNCHANGED <<patch, test>>
    BY <1>7 DEF AwaitTestApproval, Control, Approves
  <2> QED
    BY <1>1, <1>2, <2>1, <2>2 DEF Threads, Carries, Backed
<1>8. CASE PersistTestResult
  <2>1. mem' = [mem EXCEPT !.next = "end"] /\ patch' = patch
    BY <1>8 DEF PersistTestResult
  <2>2. mem'.next = "end" /\ mem'.draft = mem.draft /\ mem'.patch = mem.patch
    BY <2>1, ThreadWith
  <2>3. mem.next = "run_tests" /\ test'.status # "none"
    BY <1>8, TestWith DEF PersistTestResult, Control, Tests
  <2>4. run'.status \in Verdicts
    BY <1>8, RunWith DEF PersistTestResult, Verdicts
  <2> QED
    BY <1>1, <1>2, <2>1, <2>2, <2>3, <2>4 DEF Threads, Carries, Backed
<1> QED
  BY <1>3, <1>4, <1>5, <1>6, <1>7, <1>8, ThreadMoves

\* What requests, the checkpointer and the world outside do beside the consumer.
Beside ==
    /\ UNCHANGED <<pc, mem, patch>>
    /\ executed' = <<>> <=> executed = <<>>
    /\ pc \in {"writing", "written"} => worktree' = worktree
    /\ pc \in {"checked", "testing"} => UNCHANGED <<worktree, late>> \/ late'
    /\ container' => container
    /\ test' = test \/ test.status = "none"
    /\ run' = run \/ run.status # "testing"

LEMMA ConsumerSteps ==
    ASSUME TypeOK, [Next]_vars
    PROVE  \/ Beside
           \/ TakeWork \/ PatchStep \/ TestStep \/ FailRun
           \/ SourceChanged \/ NodeFails \/ RunnerFails \/ InfrastructureError \/ CrashRestart
<1> USE DEF Beside
<1>1. ASSUME NEW r \in Requests, RequestStep(r) PROVE Beside
  <2>1. CASE CreateRun(r)
    BY <2>1, NamesDiffer DEF CreateRun
  <2>2. CASE CreateTest(r)
    BY <2>2, NamesDiffer DEF CreateTest, Testable
  <2>3. CASE ~ CreateRun(r) /\ ~ CreateTest(r)
    BY <1>1, <2>3 DEF RequestStep, ReturnRun, ReturnTest, RefuseTest, Refresh, Enqueue
  <2> QED
    BY <2>1, <2>2, <2>3
<1>2. CASE SaveCheckpoint \/ ContainerExpires \/ UNCHANGED vars
  BY <1>2 DEF SaveCheckpoint, ContainerExpires, vars
<1>4. CASE Tamper
  BY <1>4, TamperedTests DEF Tamper, BehindComparison
<1>3. ASSUME NEW r \in Requests, NEW kind \in Work, NEW k \in Keys, NEW d \in Drafts,
             Receive(r, kind, k, d)
      PROVE  Beside
  BY <1>3 DEF Receive
<1> QED
  BY <1>1, <1>2, <1>3, <1>4 DEF Next, WorkerStep, FailureStep

\* Stages that promise nothing.
LEMMA QuietStages ==
    ASSUME \/ pc' \in {"idle", "start", "start_test", "prepared", "fail", "block"}
           \/ pc' = "run" /\ mem'.next # "run_tests"
    PROVE  Writes' /\ Approves' /\ Tests'
BY DEF Writes, Approves, Tests

LEMMA PatchControl ==
    ASSUME TypeOK, Evidence, Control, PatchStep
    PROVE  Writes' /\ Approves' /\ Tests'
<1>1. CASE Start
  <2>1. [NoCheckpoint EXCEPT !.next = "load_context"].next # "run_tests"
    BY DEF NoCheckpoint
  <2>2. pc' = "block" \/ (pc' = "run" /\ mem'.next # "run_tests")
    BY <1>1, <2>1 DEF Start, EarlyNode
  <2> QED
    BY <2>2, QuietStages
<1>2. CASE PrepareWorktree
  BY <1>2, QuietStages DEF PrepareWorktree
<1>3. CASE SetGenerating
  <2>1. mem' = [mem EXCEPT !.next = "generate_replacements"] /\ pc' = "run"
    BY <1>3 DEF SetGenerating
  <2> QED
    BY <2>1, ThreadWith, QuietStages
<1>4. CASE GenerateReplacements
  <2>1. PICK d \in Drafts : mem' = [mem EXCEPT !.next = "apply_patch", !.draft = d]
    BY <1>4 DEF GenerateReplacements
  <2>2. mem'.next = "apply_patch" /\ pc' = "run"
    BY <1>4, <2>1, ThreadWith DEF GenerateReplacements, Control, Approves
  <2> QED
    BY <2>2, QuietStages
<1>5. CASE WritePatch
  <2>1. CASE pc' = "writing" /\ UNCHANGED <<patch, mem>>
    BY <1>5, <2>1 DEF WritePatch, Writes, Approves, Tests
  <2>2. CASE pc' \in Mismatch
    BY <2>2, QuietStages DEF Mismatch
  <2> QED
    BY <1>5, <2>1, <2>2 DEF WritePatch
<1>6. CASE FinishWrite
  BY <1>6 DEF FinishWrite, Control, Writes, Approves, Tests
<1>7. CASE PersistPatch
  <2>1. mem' = [mem EXCEPT !.next = "await_test_approval", !.patch = mem.draft] /\ pc' = "run"
    BY <1>7 DEF PersistPatch
  <2> QED
    BY <2>1, ThreadWith, QuietStages
<1>8. CASE ReusePatch
  <2>1. CASE pc' \in Mismatch
    BY <2>1, QuietStages DEF Mismatch
  <2>2. CASE mem' = [mem EXCEPT !.next = "await_test_approval", !.patch = patch] /\ pc' = pc
    <3>1. mem'.next = "await_test_approval" /\ pc \in {"run", "replay"}
      BY <1>8, <2>2, ThreadWith DEF ReusePatch, Control, Approves
    <3>2. pc = "replay" => test.status = "pending"
      BY DEF Control, Approves
    <3> QED
      BY <1>8, <2>2, <3>1, <3>2 DEF ReusePatch, Writes, Approves, Tests
  <2> QED
    BY <1>8, <2>1, <2>2 DEF ReusePatch
<1>9. CASE AwaitTestApproval
  <2>1. CASE pc = "resumed"
    <3>1. mem' = [mem EXCEPT !.next = "run_tests"] /\ pc' = "run" /\ test' = test
      BY <1>9, <2>1 DEF AwaitTestApproval
    <3>2. test.status = "pending"
      BY <2>1 DEF Control, Approves
    <3> QED
      BY <3>1, <3>2, ThreadWith DEF Writes, Approves, Tests
  <2>2. CASE pc = "replay"
    <3>1. pc' = "resume_test" /\ test' = test /\ test.status = "pending"
      BY <1>9, <2>2 DEF AwaitTestApproval, Control, Approves
    <3> QED
      BY <3>1 DEF Writes, Approves, Tests
  <2>3. CASE pc \notin {"resumed", "replay"}
    BY <1>9, <2>3, QuietStages DEF AwaitTestApproval
  <2> QED
    BY <2>1, <2>2, <2>3
<1> QED
  BY <1>1, <1>2, <1>3, <1>4, <1>5, <1>6, <1>7, <1>8, <1>9 DEF PatchStep

LEMMA TestControl ==
    ASSUME TypeOK, Evidence, Control, TestStep
    PROVE  Writes' /\ Approves' /\ Tests'
<1>1. CASE StartTest
  <2>1. CASE pc' = "resume_test"
    <3>1. test.status \notin {"passed", "failed", "running"}
      BY <1>1, <2>1 DEF StartTest
    <3>2. test.status = "pending" /\ test' = test
      BY <1>1, <3>1 DEF StartTest, Control, TestKnown, TypeOK, Test, TestStatus
    <3> QED
      BY <2>1, <3>2 DEF Writes, Approves, Tests
  <2>2. CASE pc' \in {"idle", "block"}
    BY <2>2, QuietStages
  <2> QED
    BY <1>1, <2>1, <2>2 DEF StartTest
<1>2. CASE ResumeTest
  <2>1. test.status = "pending" /\ test' = test
    BY <1>2 DEF ResumeTest, Control, Approves
  <2>2. \/ pc' = "block"
        \/ pc' = "replay" /\ mem'.next = "apply_patch"
        \/ pc' = "resumed" /\ mem'.next = "await_test_approval"
    BY <1>2 DEF ResumeTest
  <2> QED
    BY <2>1, <2>2 DEF Writes, Approves, Tests
<1>3. CASE CheckWorktree
  <2>1. CASE pc' \in Mismatch
    BY <2>1, QuietStages DEF Mismatch
  <2>2. CASE pc' = "checked" /\ worktree = patch
    <3>1. mem.next = "run_tests" /\ test.status = "pending"
      BY <1>3 DEF CheckWorktree, Control, Approves
    <3> QED
      BY <1>3, <2>2, <3>1 DEF CheckWorktree, Writes, Approves, Tests
  <2> QED
    BY <1>3, <2>1, <2>2 DEF CheckWorktree
<1>4. CASE MarkTesting
  <2>1. /\ test.status = "pending" /\ mem.next = "run_tests" /\ (worktree = patch \/ late)
        /\ executed = <<>>
    BY <1>4 DEF MarkTesting, Control, Approves, Tests, Evidence, TestsRunOnce
  <2>2. CASE run.status = "test_pending"
    <3>1. /\ test' = [test EXCEPT !.status = "running"] /\ run' = [run EXCEPT !.status = "testing"]
          /\ pc' = "testing" /\ UNCHANGED <<patch, mem, worktree, executed, late>>
      BY <1>4, <2>1, <2>2 DEF MarkTesting
    <3>2. test'.status = "running" /\ run'.status = "testing"
      BY <3>1, RunWith, TestWith
    <3> QED
      BY <2>1, <3>1, <3>2 DEF Writes, Approves, Tests
  <2>3. CASE run.status # "test_pending"
    BY <1>4, <2>1, <2>3, QuietStages DEF MarkTesting
  <2> QED
    BY <2>2, <2>3
<1>5. CASE Execute
  <2>1. executed' # <<>>
    BY <1>5 DEF Execute, TypeOK
  <2> QED
    BY <1>5, <2>1 DEF Execute, Control, Writes, Approves, Tests
<1>6. CASE FinishTest
  BY <1>6 DEF FinishTest, Control, Writes, Approves, Tests
<1>7. CASE PersistTestResult
  <2>1. mem' = [mem EXCEPT !.next = "end"] /\ pc' = "run"
    BY <1>7 DEF PersistTestResult
  <2> QED
    BY <2>1, ThreadWith, QuietStages
<1>8. CASE Finish
  BY <1>8, QuietStages DEF Finish
<1> QED
  BY <1>1, <1>2, <1>3, <1>4, <1>5, <1>6, <1>7, <1>8 DEF TestStep

LEMMA NextControl == TypeOK /\ Evidence /\ Control /\ [Next]_vars => Control'
<1> SUFFICES ASSUME TypeOK, Evidence, Control, [Next]_vars PROVE Control'
  OBVIOUS
<1>1. RunKnown' /\ TestKnown' /\ Threads'
  BY NextRunKnown, NextTestKnown, NextThreads DEF Evidence
<1>2. CASE Beside
  <2>1. Writes'
    BY <1>2 DEF Beside, Control, Writes
  <2>2. Approves'
    BY <1>2 DEF Beside, Control, Approves
  <2>3. Tests'
    BY <1>2 DEF Beside, Control, Tests
  <2> QED
    BY <1>1, <2>1, <2>2, <2>3 DEF Control
<1>3. CASE \/ TakeWork \/ FailRun \/ SourceChanged \/ NodeFails \/ RunnerFails
           \/ InfrastructureError \/ CrashRestart
  <2>1. pc' \in {"idle", "start", "start_test", "fail", "block"}
    BY <1>3 DEF TakeWork, FailRun, SourceChanged, NodeFails, RunnerFails, InfrastructureError,
                CrashRestart
  <2> QED
    BY <1>1, <2>1, QuietStages DEF Control
<1>4. CASE PatchStep \/ TestStep
  BY <1>1, <1>4, PatchControl, TestControl DEF Control
<1> QED
  BY <1>2, <1>3, <1>4, ConsumerSteps

-----------------------------------------------------------------------------
(* The invariant and the safety properties.                                  *)

LEMMA InitInvariant == Init => IInv
<1> SUFFICES ASSUME Init PROVE IInv
  OBVIOUS
<1>1. TypeOK
  BY InitType
<1>2. /\ run.status = "none" /\ patch = NoDraft /\ test.status = "none" /\ task = "approved"
      /\ executed = <<>> /\ container = FALSE
  BY NamesDiffer DEF Init
<1>3. Evidence
  <2>1. RowsAgree
    BY <1>2 DEF RowsAgree, Generating, Testing, Verdicts
  <2>2. PatchOnDisk /\ ContainerKnown
    BY <1>2 DEF PatchOnDisk, ContainerKnown
  <2>3. TestsRunOnce /\ TestsReviewedPatch
    BY <1>2 DEF TestsRunOnce, TestsReviewedPatch
  <2> QED
    BY <2>1, <2>2, <2>3 DEF Evidence
<1>4. /\ queue = <<>> /\ pc = "idle" /\ mem = NoCheckpoint /\ ckpt = NoCheckpoint
      /\ \A r \in Requests : rpc[r] = "idle"
  BY DEF Init
<1>5. RunKnown /\ TestKnown
  BY <1>4 DEF RunKnown, TestKnown
<1>6. Threads
  BY <1>4 DEF Threads, Carries, Backed, NoCheckpoint
<1>7. Writes /\ Approves /\ Tests
  BY <1>4 DEF Writes, Approves, Tests
<1> QED
  BY <1>1, <1>3, <1>5, <1>6, <1>7 DEF IInv, Control

LEMMA NextInvariant == IInv /\ [Next]_vars => IInv'
BY NextType, NextEvidence, NextControl DEF IInv

\* Rows, files and container tell one story, and nothing under way relies on
\* more than they tell.
THEOREM Invariance == Spec => []IInv
BY InitInvariant, NextInvariant, PTL DEF Spec

\* The variables keep their types, and the queue stays in its capacity.
THEOREM ImplementationTypes == Spec => []TypeOK
<1>1. IInv => TypeOK
  BY DEF IInv
<1> QED
  BY <1>1, Invariance, PTL

\* ImplementationService writes task, run, patch and test so that they agree
\* after each of its transactions, whoever wrote last.
THEOREM OneStory == Spec => []RowsAgree
<1>1. IInv => RowsAgree
  BY DEF IInv, Evidence
<1> QED
  BY <1>1, Invariance, PTL

\* The apply_patch node never leaves a stored patch that is not on disk.
THEOREM StoredPatchOnDisk == Spec => []PatchOnDisk
<1>1. IInv => PatchOnDisk
  BY DEF IInv, Evidence
<1> QED
  BY <1>1, Invariance, PTL

\* process_test and mark_testing let one execution happen.
THEOREM OneExecution == Spec => []TestsRunOnce
<1>1. IInv => TestsRunOnce
  BY DEF IInv, Evidence
<1> QED
  BY <1>1, Invariance, PTL

\* run_test compares the worktree with the stored patch before it starts the tests:
\* with edits at any moment, what they run on is what the user authorised, or was
\* changed behind this comparison.
THEOREM ReviewedExecution == Spec => []TestsReviewedPatch
<1>1. IInv => TestsReviewedPatch
  BY DEF IInv, Evidence
<1> QED
  BY <1>1, Invariance, PTL

\* Start-up finds the test of every container that may still exist.
THEOREM NoForgottenContainer == Spec => []ContainerKnown
<1>1. IInv => ContainerKnown
  BY DEF IInv, Evidence
<1> QED
  BY <1>1, Invariance, PTL

\* _resume_test may trust the node and the hash a checkpoint names.
THEOREM CheckpointsBacked == Spec => []CheckpointJustified
<1>1. IInv => CheckpointJustified
  BY DEF IInv, Control, Threads, Backed, CheckpointJustified
<1> QED
  BY <1>1, Invariance, PTL

\* What one step does to evidence.
Kept == /\ patch # NoDraft => patch' = patch
        /\ test.status \in {"passed", "failed"} => test' = test
        /\ run.status \in Verdicts \cup {"failed"} => run' = run

\* No retry, restart or failure rewrites a patch, a result or a verdict.
THEOREM EvidenceKept == Spec => EvidenceForever
<1>1. IInv /\ [Next]_vars => [Kept]_vars
  BY Lasting DEF IInv, Evidence, Kept
<1>2. Kept <=> /\ patch # NoDraft => patch' = patch
               /\ test.status \in {"passed", "failed"} => test' = test
               /\ run.status \in Verdicts \cup {"failed"} => run' = run
  BY DEF Kept
<1> QED
  BY <1>1, <1>2, Invariance, PTL DEF Spec, EvidenceForever

-----------------------------------------------------------------------------
(* The refinement: each transaction on the rows, and the start of the        *)
(* container, is one step of the life of the run or none.                    *)

LEMMA StageIs ==
    /\ run.status = "none" => LifeStage = "approved"
    /\ run.status \in Generating => LifeStage = "generating"
    /\ run.status = "patch_ready" => LifeStage = "ready"
    /\ run.status \in Testing => LifeStage = "testing"
    /\ run.status = "recovery_blocked" => LifeStage = "blocked"
    /\ run.status \in Verdicts \cup {"failed"} => LifeStage = run.status
    /\ run'.status = "none" => LifeStage' = "approved"
    /\ run'.status \in Generating => LifeStage' = "generating"
    /\ run'.status = "patch_ready" => LifeStage' = "ready"
    /\ run'.status \in Testing => LifeStage' = "testing"
    /\ run'.status = "recovery_blocked" => LifeStage' = "blocked"
    /\ run'.status \in Verdicts \cup {"failed"} => LifeStage' = run'.status
<1> USE DEF LifeStage, Generating, Testing, Verdicts
<1>1. /\ run.status = "none" => LifeStage = "approved"
      /\ run.status \in Generating => LifeStage = "generating"
      /\ run.status = "patch_ready" => LifeStage = "ready"
      /\ run.status \in Testing => LifeStage = "testing"
      /\ run.status = "recovery_blocked" => LifeStage = "blocked"
      /\ run.status \in Verdicts \cup {"failed"} => LifeStage = run.status
  OBVIOUS
<1>2. /\ run'.status = "none" => LifeStage' = "approved"
      /\ run'.status \in Generating => LifeStage' = "generating"
      /\ run'.status = "patch_ready" => LifeStage' = "ready"
      /\ run'.status \in Testing => LifeStage' = "testing"
      /\ run'.status = "recovery_blocked" => LifeStage' = "blocked"
      /\ run'.status \in Verdicts \cup {"failed"} => LifeStage' = run'.status
  OBVIOUS
<1> QED
  BY <1>1, <1>2

LEMMA LifeInit == Init => Life!Init
<1> SUFFICES ASSUME Init PROVE Life!Init
  OBVIOUS
<1>1. run.status = "none" /\ patch = NoDraft /\ executed = <<>>
  BY NamesDiffer DEF Init
<1> QED
  BY <1>1, StageIs DEF Life!Init

Ran == executed # <<>>
LifeVars == <<LifeStage, patch, Ran>>

LEMMA LifeSame ==
    ASSUME UNCHANGED <<LifeStage, patch, executed>> PROVE UNCHANGED LifeVars
BY DEF LifeVars, Ran

LEMMA LifeNext == IInv /\ [Next]_vars => [Life!Next]_LifeVars
<1> SUFFICES ASSUME IInv, [Next]_vars PROVE Life!Next \/ UNCHANGED LifeVars
  OBVIOUS
<1> USE DEF Life!Next
<1>1. TypeOK /\ RowsAgree /\ TestsRunOnce /\ Control
  BY DEF IInv, Evidence
<1>2. ASSUME NEW r \in Requests, CreateRun(r) PROVE Life!AuthorisePatch
  <2>1. run.status = "none" /\ run'.status = "pending" /\ UNCHANGED <<patch, executed>>
    BY <1>2, NamesDiffer DEF CreateRun
  <2> QED
    BY <2>1, StageIs DEF Life!AuthorisePatch, Generating
<1>3. ASSUME NEW r \in Requests, CreateTest(r) PROVE Life!AuthoriseTest
  <2>1. /\ run' = [run EXCEPT !.status = "test_pending"] /\ run.status = "patch_ready"
        /\ UNCHANGED <<patch, executed>>
    BY <1>3 DEF CreateTest, Testable
  <2>2. run'.status = "test_pending"
    BY <1>1, <2>1, RunWith
  <2> QED
    BY <2>1, <2>2, StageIs DEF Life!AuthoriseTest, Testing
<1>4. CASE SetGenerating
  <2>1. /\ run.status \in Generating /\ run'.status = "generating_patch"
        /\ UNCHANGED <<patch, executed>>
    BY <1>1, <1>4, RunWith DEF SetGenerating
  <2> QED
    BY <2>1, StageIs, LifeSame DEF Generating
<1>5. CASE PersistPatch
  <2>1. /\ run.status = "generating_patch" /\ run'.status = "patch_ready"
        /\ patch' \in Drafts /\ UNCHANGED executed
    BY <1>1, <1>5, RunWith, PublishedDraft DEF PersistPatch
  <2> QED
    BY <2>1, StageIs DEF Life!Publish, Generating
<1>6. CASE MarkTesting
  <2>1. CASE run' = run
    <3>1. UNCHANGED <<LifeStage, patch, executed>>
      BY <1>6, <2>1 DEF MarkTesting, LifeStage
    <3> QED
      BY <3>1, LifeSame
  <2>2. CASE run' # run
    <3>1. /\ run.status = "test_pending" /\ run' = [run EXCEPT !.status = "testing"]
          /\ UNCHANGED <<patch, executed>>
      BY <1>6, <2>2 DEF MarkTesting
    <3>2. run'.status = "testing"
      BY <1>1, <3>1, RunWith
    <3> QED
      BY <3>1, <3>2, StageIs, LifeSame DEF Testing
  <2> QED
    BY <2>1, <2>2
<1>7. CASE PersistTestResult
  <2>1. run.status = "testing" /\ executed # <<>> /\ UNCHANGED <<patch, executed>>
    BY <1>1, <1>7, TestingRows DEF PersistTestResult, Control, Tests
  <2>2. run'.status \in Verdicts
    BY <1>1, <1>7, RunWith DEF PersistTestResult, Verdicts
  <2> QED
    BY <2>1, <2>2, StageIs DEF Life!Judge, Testing, Verdicts
<1>8. CASE FailRun
  <2>1. UNCHANGED <<patch, executed>>
    BY <1>8 DEF FailRun
  <2>2. CASE run' = run
    BY <2>1, <2>2, LifeSame DEF LifeStage
  <2>3. CASE run' # run
    <3>1. /\ run.status \notin Verdicts \cup {"failed", "none"}
          /\ run'.status \in {"recovery_blocked", "failed"}
      BY <1>1, <1>8, <2>3, FailedRun
    <3>2. LifeStage \in {"generating", "ready", "testing", "blocked"}
      BY <1>1, <3>1, StageIs DEF TypeOK, Run, RunStatus
    <3>3. LifeStage' \in {"blocked", "failed"}
      BY <3>1, StageIs
    <3> QED
      BY <2>1, <3>2, <3>3 DEF Life!GiveUp
  <2> QED
    BY <2>2, <2>3
<1>9. CASE UNCHANGED rows
  <2>1. LifeStage' = LifeStage
    BY <1>9 DEF LifeStage
  <2>2. CASE Execute
    <3>1. run.status = "testing" /\ executed = <<>> /\ executed' # <<>>
      BY <1>1, <2>2, TestingRows DEF Execute, Control, Tests
    <3> QED
      BY <1>9, <2>1, <3>1, StageIs DEF Life!RunTests, Testing
  <2>3. CASE executed' = executed
    BY <1>9, <2>1, <2>3, LifeSame
  <2>4. CASE Tamper
    BY <1>1, <1>9, <2>1, <2>4, TamperedTests DEF LifeVars, Ran
  <2> QED
    BY <2>2, <2>3, <2>4, ContainerWriters
<1> QED
  BY <1>2, <1>3, <1>4, <1>5, <1>6, <1>7, <1>8, <1>9, RowWriters

\* Replays, restarts, repeated requests and failures are invisible to a client:
\* two authorisations, one patch, one execution and one verdict, in this order.
THEOREM ImplementationFollowsLifecycle == Spec => ImplementsLifecycle
<1>1. Init => Life!Init
  BY LifeInit
<1>2. IInv /\ [Next]_vars => [Life!Next]_(Life!vars)
  BY LifeNext DEF LifeVars, Life!vars, Ran
<1> QED
  BY <1>1, <1>2, Invariance, PTL DEF Spec, ImplementsLifecycle, Life!Spec

===============================================================================
