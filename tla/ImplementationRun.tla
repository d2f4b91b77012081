--------------------------- MODULE ImplementationRun ---------------------------
(*****************************************************************************)
(* The implementation of an approved plan (milestone M7): a patch is written *)
(* to an isolated worktree, and tests run on it after a second authorisation.*)
(*                                                                           *)
(* HTTP requests store their intent in the rows and put work on a queue in   *)
(* memory; one consumer runs the implementation graph.  Four things can say  *)
(* different things about the same run: the rows (task, run, patch, test),   *)
(* the checkpoint of the graph, the files of the worktree, and the test      *)
(* container.  All four outlive the process; queue and worker do not.        *)
(*                                                                           *)
(* A patch is named by its draft, which stands for the hash of its diff.     *)
(* Verifying the source repository, its commit and the versions of the graph *)
(* is the fault "source"; a task has one run and a run has one test.         *)
(*****************************************************************************)
EXTENDS Naturals, Sequences, FiniteSets

CONSTANTS
    Keys,           \* idempotency keys of requests
    NoKey,          \* the key of a row that does not exist
    Drafts,         \* the replacements the model may produce
    NoDraft,        \* no draft, no patch
    Requests,       \* POST requests that may be in flight at once
    QueueCapacity,  \* settings.implementation_queue_capacity
    FaultKinds,     \* the failures the environment may inject
    MaxFaults       \* how many of them in one behaviour

ASSUME NameAssumption ==
    /\ NoKey \notin Keys
    /\ NoDraft \notin Drafts
    /\ {"absent", "clean", "partial", "other"} \cap Drafts = {}
    /\ NoDraft \notin {"absent", "clean", "partial", "other"}
ASSUME BoundAssumption == QueueCapacity \in Nat \ {0} /\ MaxFaults \in Nat
ASSUME FaultAssumption ==
    FaultKinds \subseteq {"crash", "infrastructure", "error", "source", "tamper", "runner"}

-----------------------------------------------------------------------------
Work == {"implementation", "test"}

Generating == {"pending", "generating_patch"}
Testing    == {"test_pending", "testing"}
Verdicts   == {"tested", "test_failed"}
RunStatus  == Generating \cup {"patch_ready"} \cup Testing \cup Verdicts
                \cup {"recovery_blocked", "failed"}
TaskStatus == (RunStatus \ {"pending"}) \cup {"approved", "implementation_pending"}
TestStatus == {"none", "pending", "running", "passed", "failed"}

\* worktree_relpath is recorded or not.
Run  == [status : RunStatus \cup {"none"}, key : Keys \cup {NoKey}, linked : BOOLEAN]
Test == [status : TestStatus, key : Keys \cup {NoKey}, patch : Drafts \cup {NoDraft}]
Payload == [kind : Work, key : Keys \cup {NoKey}, patch : Drafts \cup {NoDraft}]

NoRun     == [status |-> "none", key |-> NoKey, linked |-> FALSE]
NoTest    == [status |-> "none", key |-> NoKey, patch |-> NoDraft]
NoPayload == [kind |-> "test", key |-> NoKey, patch |-> NoDraft]

\* The files of the worktree: none, those of the base commit, a patch half
\* written, a whole patch, or something nobody in the system wrote.
Contents == {"absent", "clean", "partial", "other"} \cup Drafts

Nodes == {"load_context", "generate_replacements", "apply_patch",
          "await_test_approval", "run_tests", "end"}
Snapshot == [next  : Nodes \cup {"missing"},
             draft : Drafts \cup {NoDraft},
             patch : Drafts \cup {NoDraft}]
NoCheckpoint == [next |-> "missing", draft |-> NoDraft, patch |-> NoDraft]

\* "run" is a graph that runs, "replay" one that makes up for a lost checkpoint
\* before a test, "resumed" the first node after Command(resume).  "passed" and
\* "failed" hold the result of the container.
Graph  == {"run", "replay", "resumed"}
Stages == Graph \cup {"idle", "start", "start_test", "resume_test", "prepared",
                      "writing", "written", "checked", "testing", "executing",
                      "passed", "failed", "fail", "block"}

VARIABLES
    task,      \* tasks.status
    run,       \* implementation_runs
    patch,     \* patch_artifacts.diff_sha256
    test,      \* test_runs
    ckpt,      \* the latest durable checkpoint of the thread
    worktree,  \* files of the isolated worktree
    container, \* the test container exists
    executed,  \* contents the tests ran on, in order
    late,      \* files changed after run_test compared them (history only)
    queue,     \* ImplementationQueue
    pc,        \* stage of its consumer
    mem,       \* state of the running graph
    saved,     \* mem is in the checkpoint
    rpc,       \* stage of each request
    payload,   \* what each request carries
    faults     \* failures left to the environment

rows     == <<task, run, patch, test>>
outside  == <<worktree, container, executed, late>>
worker   == <<pc, mem, saved>>
requests == <<rpc, payload>>
vars == <<rows, ckpt, outside, queue, worker, requests, faults>>

Fault(kind) == kind \in FaultKinds /\ faults > 0 /\ faults' = faults - 1

\* LangGraph writes a checkpoint behind the node that produced it, and waits
\* for its writes before a run of the graph returns or raises.
Adopt(state)   == mem' = state /\ saved' = TRUE
Produce(state) == mem' = state /\ saved' = FALSE

Running(node) == pc \in Graph /\ mem.next = node

-----------------------------------------------------------------------------
Init ==
    /\ task = "approved" /\ run = NoRun /\ patch = NoDraft /\ test = NoTest
    /\ ckpt = NoCheckpoint
    /\ worktree = "absent" /\ container = FALSE /\ executed = <<>> /\ late = FALSE
    /\ queue = <<>>
    /\ pc = "idle" /\ mem = NoCheckpoint /\ saved = TRUE
    /\ rpc = [r \in Requests |-> "idle"]
    /\ payload = [r \in Requests |-> NoPayload]
    /\ faults = MaxFaults

-----------------------------------------------------------------------------
(* HTTP: POST /implementation and POST /implementation/tests.  The row is    *)
(* created under the task lock; what goes on the queue is decided by a       *)
(* status read again after the commit.                                       *)

Reply(r) == /\ rpc' = [rpc EXCEPT ![r] = "idle"]
            /\ payload' = [payload EXCEPT ![r] = NoPayload]

Advance(r, stage) == rpc' = [rpc EXCEPT ![r] = stage] /\ UNCHANGED payload

\* A request for another plan version than the approved one is refused whatever
\* the state, and left out.
Receive(r, kind, k, d) ==
    /\ rpc[r] = "idle"
    /\ rpc' = [rpc EXCEPT ![r] = "received"]
    /\ payload' = [payload EXCEPT ![r] = [kind |-> kind, key |-> k, patch |-> d]]
    /\ UNCHANGED <<rows, ckpt, outside, queue, worker, faults>>

Asks(r, kind) == rpc[r] = "received" /\ payload[r].kind = kind

\* create_run with a run of the task: the stored one for its key, 409 for others.
ReturnRun(r) ==
    /\ Asks(r, "implementation") /\ run # NoRun
    /\ IF run.key = payload[r].key /\ run.status \in Generating
       THEN Advance(r, "answered")
       ELSE Reply(r)
    /\ UNCHANGED <<rows, ckpt, outside, queue, worker, faults>>

CreateRun(r) ==
    /\ Asks(r, "implementation") /\ run = NoRun /\ task = "approved"
    /\ run' = [status |-> "pending", key |-> payload[r].key, linked |-> FALSE]
    /\ task' = "implementation_pending"
    /\ Advance(r, "committed")
    /\ UNCHANGED <<patch, test, ckpt, outside, queue, worker, faults>>

\* create_test with a test of the run: the stored one for its key and patch.
ReturnTest(r) ==
    /\ Asks(r, "test") /\ test # NoTest
    /\ IF /\ test.key = payload[r].key /\ test.patch = payload[r].patch
          /\ test.status = "pending"
       THEN Advance(r, "answered")
       ELSE Reply(r)
    /\ UNCHANGED <<rows, ckpt, outside, queue, worker, faults>>

\* Mutant: the expected hash is stored, not compared.
TestableAny(d) == task = "patch_ready" /\ run.status = "patch_ready"
Testable(d) == task = "patch_ready" /\ run.status = "patch_ready" /\ patch = d

CreateTest(r) ==
    LET p == payload[r] IN
    /\ Asks(r, "test") /\ test = NoTest /\ Testable(p.patch)
    /\ test' = [status |-> "pending", key |-> p.key, patch |-> p.patch]
    /\ run' = [run EXCEPT !.status = "test_pending"]
    /\ task' = "test_pending"
    /\ Advance(r, "committed")
    /\ UNCHANGED <<patch, ckpt, outside, queue, worker, faults>>

RefuseTest(r) ==
    /\ Asks(r, "test") /\ test = NoTest /\ ~Testable(payload[r].patch)
    /\ Reply(r)
    /\ UNCHANGED <<rows, ckpt, outside, queue, worker, faults>>

\* The refreshed row still asks for work.
Wanted(kind) == IF kind = "implementation" THEN run.status \in Generating
                                           ELSE test.status = "pending"

Refresh(r) ==
    /\ rpc[r] = "committed"
    /\ IF Wanted(payload[r].kind) THEN Advance(r, "answered") ELSE Reply(r)
    /\ UNCHANGED <<rows, ckpt, outside, queue, worker, faults>>

\* Mutant: the queue has no capacity.
EnqueueUnbounded(r) ==
    /\ rpc[r] = "answered"
    /\ queue' = Append(queue, payload[r].kind)
    /\ Reply(r)
    /\ UNCHANGED <<rows, ckpt, outside, worker, faults>>

\* A full queue answers 503 and leaves the row pending.
Enqueue(r) ==
    /\ rpc[r] = "answered"
    /\ queue' = IF Len(queue) < QueueCapacity
                THEN Append(queue, payload[r].kind) ELSE queue
    /\ Reply(r)
    /\ UNCHANGED <<rows, ckpt, outside, worker, faults>>

-----------------------------------------------------------------------------
(* The consumer: process_implementation.                                     *)

TakeWork ==
    /\ pc = "idle" /\ queue # <<>>
    /\ queue' = Tail(queue)
    /\ pc' = IF Head(queue) = "implementation" THEN "start" ELSE "start_test"
    /\ UNCHANGED <<rows, ckpt, outside, mem, saved, requests, faults>>

\* _verify_initial_checkpoint: the node is one the status of the run allows.
EarlyNode ==
    \/ ckpt.next = "load_context" /\ run.status \in Generating
    \/ /\ ckpt.next \in {"generate_replacements", "apply_patch"}
       /\ run.status = "generating_patch"

\* _verify_initial_worktree: recorded as the status says, and unchanged.
WorktreeUntouched ==
    IF run.status = "pending"
    THEN ~run.linked /\ worktree \in {"absent", "clean"}
    ELSE run.linked /\ worktree = "clean"

\* _invoke_initial: a new thread, or one that continues where it stood.
Start ==
    /\ pc = "start"
    /\ \/ /\ ckpt = NoCheckpoint
          /\ Produce([NoCheckpoint EXCEPT !.next = "load_context"])
          /\ pc' = "run"
       \/ /\ ckpt # NoCheckpoint /\ EarlyNode /\ WorktreeUntouched
          /\ Adopt(ckpt)
          /\ pc' = "run"
       \/ /\ ckpt # NoCheckpoint /\ ~(EarlyNode /\ WorktreeUntouched)
          /\ pc' = "block"
          /\ UNCHANGED <<mem, saved>>
    /\ UNCHANGED <<rows, ckpt, outside, queue, requests, faults>>

\* load_bundle up to prepare: git adds the worktree, or finds it at the commit.
\* Its check of the run's status holds whenever the node runs.
PrepareWorktree ==
    /\ Running("load_context")
    /\ worktree' = IF worktree = "absent" THEN "clean" ELSE worktree
    /\ pc' = "prepared"
    /\ UNCHANGED <<rows, ckpt, container, executed, late, queue, mem, saved, requests, faults>>

SetGenerating ==
    /\ pc = "prepared" /\ run.status \in Generating
    /\ run' = [run EXCEPT !.status = "generating_patch", !.linked = TRUE]
    /\ task' = "generating_patch"
    /\ Produce([mem EXCEPT !.next = "generate_replacements"])
    /\ pc' = "run"
    /\ UNCHANGED <<patch, test, ckpt, outside, queue, requests, faults>>

\* The call of the model outlasts the write of the thread's first checkpoint.
GenerateReplacements ==
    /\ Running("generate_replacements") /\ ckpt # NoCheckpoint
    /\ \E d \in Drafts : Produce([mem EXCEPT !.next = "apply_patch", !.draft = d])
    /\ UNCHANGED <<rows, ckpt, outside, queue, pc, requests, faults>>

\* A foreign change is a mismatch, or, if a file is gone or the diff too large,
\* an invalid patch.
Mismatch == {"block", "fail"}

\* apply_patch without a stored patch: the files must have the hashes the
\* replacements name.  They are written one after the other.
WritePatch ==
    /\ Running("apply_patch") /\ patch = NoDraft
    /\ IF worktree = "clean"
       THEN worktree' = "partial" /\ pc' = "writing"
       ELSE saved /\ pc' \in Mismatch /\ UNCHANGED worktree
    /\ UNCHANGED <<rows, ckpt, container, executed, late, queue, mem, saved, requests, faults>>

\* Mutant: the node returns its hash before the patch is stored.
FinishWriteReturns ==
    /\ pc = "writing"
    /\ worktree' = mem.draft
    /\ Produce([mem EXCEPT !.next = "await_test_approval", !.patch = mem.draft])
    /\ pc' = "written"
    /\ UNCHANGED <<rows, ckpt, container, executed, late, queue, requests, faults>>

FinishWrite ==
    /\ pc = "writing"
    /\ worktree' = mem.draft
    /\ pc' = "written"
    /\ UNCHANGED <<rows, ckpt, container, executed, late, queue, mem, saved, requests, faults>>

\* Mutant: the patch is stored while its files are still being written.
PersistPatchEarly ==
    /\ pc = "writing" /\ run.status = "generating_patch"
    /\ patch' = mem.draft
    /\ run' = [run EXCEPT !.status = "patch_ready"]
    /\ task' = "patch_ready"
    /\ Produce([mem EXCEPT !.next = "await_test_approval", !.patch = mem.draft])
    /\ pc' = "run"
    /\ UNCHANGED <<test, ckpt, outside, queue, requests, faults>>

\* persist_patch: artifact, run and task in one transaction.
PersistPatch ==
    /\ pc = "written" /\ run.status = "generating_patch"
    /\ patch' = mem.draft
    /\ run' = [run EXCEPT !.status = "patch_ready"]
    /\ task' = "patch_ready"
    /\ Produce([mem EXCEPT !.next = "await_test_approval", !.patch = mem.draft])
    /\ pc' = "run"
    /\ UNCHANGED <<test, ckpt, outside, queue, requests, faults>>

\* apply_patch with a stored patch: the worktree must still hold it.
ReusePatch ==
    /\ Running("apply_patch") /\ patch # NoDraft
    /\ IF worktree = patch
       THEN /\ Produce([mem EXCEPT !.next = "await_test_approval", !.patch = patch])
            /\ UNCHANGED pc
       ELSE saved /\ pc' \in Mismatch /\ UNCHANGED <<mem, saved>>
    /\ UNCHANGED <<rows, ckpt, outside, queue, requests, faults>>

\* await_test_approval interrupts, or goes on with the request that resumed it.
AwaitTestApproval ==
    /\ Running("await_test_approval")
    /\ \/ /\ pc = "resumed"
          /\ Produce([mem EXCEPT !.next = "run_tests"])
          /\ pc' = "run"
       \/ /\ pc # "resumed" /\ saved
          /\ pc' = IF pc = "replay" THEN "resume_test" ELSE "idle"
          /\ UNCHANGED <<mem, saved>>
    /\ UNCHANGED <<rows, ckpt, outside, queue, requests, faults>>

-----------------------------------------------------------------------------
(* The consumer: process_test.                                               *)

\* Mutant: a test that was started is started again.
StartTestAgain ==
    /\ pc = "start_test"
    /\ pc' = IF test.status \in {"passed", "failed"} THEN "idle" ELSE "resume_test"
    /\ UNCHANGED <<rows, ckpt, outside, queue, mem, saved, requests, faults>>

\* A test that was started and has no result is never run again: its container
\* is removed and the run blocked.
StartTest ==
    /\ pc = "start_test"
    /\ pc' = CASE test.status \in {"passed", "failed"} -> "idle"
               [] test.status = "running" -> "block"
               [] OTHER -> "resume_test"
    /\ \/ /\ container' = (container /\ test.status # "running")
          /\ UNCHANGED faults
       \/ test.status = "running" /\ Fault("runner") /\ UNCHANGED container
    /\ UNCHANGED <<rows, ckpt, worktree, executed, late, queue, mem, saved, requests>>

\* _resume_test: a thread that did not record the stored patch catches up; one
\* that waits for approval of this patch is resumed; any other is inconsistent.
ResumeTest ==
    LET waits == ckpt.next = "await_test_approval" /\ ckpt.patch = patch IN
    /\ pc = "resume_test"
    /\ \/ /\ ckpt.next = "apply_patch"
          /\ Adopt(ckpt)
          /\ pc' = "replay"
       \/ /\ waits
          /\ Adopt(ckpt)
          /\ pc' = "resumed"
       \/ /\ ckpt.next # "apply_patch" /\ ~waits
          /\ pc' = "block"
          /\ UNCHANGED <<mem, saved>>
    /\ UNCHANGED <<rows, ckpt, outside, queue, requests, faults>>

\* Mutant: the diff is not compared again before the tests.
CheckNothing ==
    /\ Running("run_tests")
    /\ pc' = "checked" /\ late' = FALSE
    /\ UNCHANGED <<rows, ckpt, worktree, container, executed, queue, mem, saved, requests, faults>>

\* run_test up to mark_testing: the worktree still holds the stored patch.
CheckWorktree ==
    /\ Running("run_tests")
    /\ \/ worktree = patch /\ pc' = "checked" /\ late' = FALSE
       \/ worktree # patch /\ saved /\ pc' \in Mismatch /\ UNCHANGED late
    /\ UNCHANGED <<rows, ckpt, worktree, container, executed, queue, mem, saved, requests, faults>>

\* Mutant: tests start whatever became of the run.
MarkTestingAlways ==
    /\ pc = "checked"
    /\ test' = [test EXCEPT !.status = "running"]
    /\ run' = [run EXCEPT !.status = "testing"]
    /\ task' = "testing"
    /\ pc' = "testing"
    /\ UNCHANGED <<patch, ckpt, outside, queue, mem, saved, requests, faults>>

\* mark_testing: test, run and task in one transaction; a conflict fails the run.
MarkTesting ==
    /\ pc = "checked"
    /\ IF test.status = "pending" /\ run.status = "test_pending"
       THEN /\ test' = [test EXCEPT !.status = "running"]
            /\ run' = [run EXCEPT !.status = "testing"]
            /\ task' = "testing"
            /\ pc' = "testing"
       ELSE /\ test.status = "running" \/ saved
            /\ pc' = IF test.status = "running" THEN "testing" ELSE "fail"
            /\ UNCHANGED <<test, run, task>>
    /\ UNCHANGED <<patch, ckpt, outside, queue, mem, saved, requests, faults>>

\* docker run.
Execute ==
    /\ pc = "testing"
    /\ container' = TRUE
    /\ executed' = Append(executed, worktree)
    /\ pc' = "executing"
    /\ UNCHANGED <<rows, ckpt, worktree, late, queue, mem, saved, requests, faults>>

\* Mutant: a container that reached a limit is left behind.
FinishTestLeaves ==
    /\ pc = "executing"
    /\ container' \in BOOLEAN
    /\ pc' \in {"passed", "failed"}
    /\ UNCHANGED <<rows, ckpt, worktree, executed, late, queue, mem, saved, requests, faults>>

\* pytest ends, or is stopped at a limit and its container removed.
FinishTest ==
    /\ pc = "executing"
    /\ container' = FALSE
    /\ pc' \in {"passed", "failed"}
    /\ UNCHANGED <<rows, ckpt, worktree, executed, late, queue, mem, saved, requests, faults>>

\* persist_test_result: test, run and task in one transaction.
PersistTestResult ==
    /\ pc \in {"passed", "failed"} /\ test.status = "running"
    /\ test' = [test EXCEPT !.status = pc]
    /\ run' = [run EXCEPT !.status = IF pc = "passed" THEN "tested" ELSE "test_failed"]
    /\ task' = IF pc = "passed" THEN "tested" ELSE "test_failed"
    /\ Produce([mem EXCEPT !.next = "end"])
    /\ pc' = "run"
    /\ UNCHANGED <<patch, ckpt, outside, queue, requests, faults>>

Finish ==
    /\ Running("end") /\ saved
    /\ pc' = "idle"
    /\ UNCHANGED <<rows, ckpt, outside, queue, mem, saved, requests, faults>>

SaveCheckpoint ==
    /\ pc # "idle" /\ ~saved
    /\ ckpt' = mem
    /\ saved' = TRUE
    /\ UNCHANGED <<rows, outside, queue, pc, mem, requests, faults>>

-----------------------------------------------------------------------------
(* Failures.                                                                 *)

\* Mutant: a verdict that is already stored is overwritten.
FailRunAlways ==
    /\ pc \in {"fail", "block"}
    /\ LET status == IF pc = "block" THEN "recovery_blocked" ELSE "failed" IN
       run' = [run EXCEPT !.status = status] /\ task' = status
    /\ pc' = "idle"
    /\ UNCHANGED <<patch, test, ckpt, outside, queue, mem, saved, requests, faults>>

\* fail: a run with a verdict, or failed already, stays as it is.  The test row
\* is not touched.
FailRun ==
    /\ pc \in {"fail", "block"}
    /\ IF run.status \in Verdicts \cup {"failed"}
       THEN UNCHANGED <<run, task>>
       ELSE LET status == IF pc = "block" THEN "recovery_blocked" ELSE "failed" IN
            run' = [run EXCEPT !.status = status] /\ task' = status
    /\ pc' = "idle"
    /\ UNCHANGED <<patch, test, ckpt, outside, queue, mem, saved, requests, faults>>

\* The source repository or the versions no longer match: the run is blocked.
SourceChanged ==
    /\ Fault("source") /\ saved
    /\ \/ pc = "start" /\ ckpt # NoCheckpoint
       \/ pc = "start_test" /\ test.status = "pending"
       \/ Running("load_context")
       \/ Running("apply_patch") /\ patch = NoDraft
       \/ Running("run_tests")
    /\ pc' = "block"
    /\ UNCHANGED <<rows, ckpt, outside, queue, mem, saved, requests>>

\* Git, model, scope or patch limits: the run fails.  Git is called before a thread
\* is continued and by every node with effects.  Files that were written get their
\* original content back.
NodeFails ==
    /\ Fault("error") /\ saved
    /\ \/ pc = "start" /\ ckpt # NoCheckpoint
       \/ pc = "start_test" /\ test.status = "pending"
       \/ pc \in {"prepared", "writing", "written"}
       \/ \E node \in {"load_context", "generate_replacements", "apply_patch", "run_tests"} :
             Running(node)
    /\ worktree' = IF pc \in {"writing", "written"} THEN "clean" ELSE worktree
    /\ pc' = "fail"
    /\ UNCHANGED <<rows, ckpt, container, executed, late, queue, mem, saved, requests>>

\* The image is missing, docker cannot run the container, or the container
\* cannot be removed.
RunnerFails ==
    /\ Fault("runner") /\ saved
    /\ pc \in {"testing", "executing"}
    /\ pc' = "fail"
    /\ container' \in {container, FALSE}
    /\ UNCHANGED <<rows, ckpt, worktree, executed, late, queue, mem, saved, requests>>

\* Database or checkpointer: the error leaves the processor and the consumer
\* drops the item.
InfrastructureError ==
    /\ Fault("infrastructure") /\ pc \notin {"idle", "writing", "testing", "executing"}
    /\ pc' = "idle" /\ saved' = TRUE
    /\ UNCHANGED <<rows, ckpt, outside, queue, mem, requests>>

\* The tests may still read what is edited: run_test has compared the worktree and
\* not started the container yet, or the container, which mounts it, exists.
BehindComparison == pc \in {"checked", "testing"} \/ container

\* Somebody edits a file of the patch, at any moment.  Edits between the looks of
\* apply are left to PatchFiles.
Tamper ==
    /\ Fault("tamper") /\ worktree # "absent"
    /\ pc \notin {"writing", "written"}
    /\ worktree' = "other"
    /\ executed' = IF container THEN [executed EXCEPT ![Len(executed)] = "other"] ELSE executed
    /\ late' = (late \/ BehindComparison)
    /\ UNCHANGED <<rows, ckpt, container, queue, worker, requests>>

\* A container without its process ends at its hard timeout.
ContainerExpires ==
    /\ container /\ pc # "executing"
    /\ container' = FALSE
    /\ UNCHANGED <<rows, ckpt, worktree, executed, late, queue, worker, requests, faults>>

\* Mutant: start-up restores tests but no implementations.
PendingTests ==
    IF test.status \in {"pending", "running"} THEN <<"test">> ELSE <<>>

\* Mutant: start-up restores implementations but no tests.
PendingRuns == IF run.status \in Generating THEN <<"implementation">> ELSE <<>>

\* pending_work at start-up.
PendingWork ==
    IF run.status \in Generating THEN <<"implementation">>
    ELSE IF test.status \in {"pending", "running"} THEN <<"test">> ELSE <<>>

CrashRestart ==
    /\ Fault("crash")
    /\ queue' = PendingWork
    /\ pc' = "idle" /\ mem' = NoCheckpoint /\ saved' = TRUE
    /\ rpc' = [r \in Requests |-> "idle"]
    /\ payload' = [r \in Requests |-> NoPayload]
    /\ UNCHANGED <<rows, ckpt, outside>>

-----------------------------------------------------------------------------
RequestStep(r) == \/ ReturnRun(r) \/ CreateRun(r)
                  \/ ReturnTest(r) \/ CreateTest(r) \/ RefuseTest(r)
                  \/ Refresh(r) \/ Enqueue(r)

PatchStep == \/ Start \/ PrepareWorktree \/ SetGenerating \/ GenerateReplacements
             \/ WritePatch \/ FinishWrite \/ PersistPatch \/ ReusePatch
             \/ AwaitTestApproval

TestStep == \/ StartTest \/ ResumeTest \/ CheckWorktree \/ MarkTesting
            \/ Execute \/ FinishTest \/ PersistTestResult \/ Finish

WorkerStep == TakeWork \/ PatchStep \/ TestStep \/ SaveCheckpoint \/ FailRun

FailureStep == \/ SourceChanged \/ NodeFails \/ RunnerFails \/ InfrastructureError
               \/ Tamper \/ ContainerExpires \/ CrashRestart

Next == \/ \E r \in Requests, kind \in Work, k \in Keys, d \in Drafts :
              Receive(r, kind, k, d)
        \/ \E r \in Requests : RequestStep(r)
        \/ WorkerStep
        \/ FailureStep

Spec == Init /\ [][Next]_vars

\* The event loop runs the consumer and every request it has accepted.
Fairness == WF_vars(WorkerStep) /\ \A r \in Requests : WF_vars(RequestStep(r))

FairSpec == Spec /\ Fairness

-----------------------------------------------------------------------------
(* Properties.                                                               *)

TypeOK ==
    /\ task \in TaskStatus
    /\ run \in Run
    /\ patch \in Drafts \cup {NoDraft}
    /\ test \in Test
    /\ ckpt \in Snapshot
    /\ worktree \in Contents
    /\ container \in BOOLEAN
    /\ executed \in Seq(Contents) /\ late \in BOOLEAN
    /\ queue \in Seq(Work) /\ Len(queue) <= QueueCapacity
    /\ pc \in Stages
    /\ mem \in Snapshot
    /\ saved \in BOOLEAN
    /\ rpc \in [Requests -> {"idle", "received", "committed", "answered"}]
    /\ payload \in [Requests -> Payload]
    /\ faults \in 0 .. MaxFaults

\* What the task, its run, the patch and the test say is one story, whichever
\* of requests, worker and failure handling wrote last: the task shows the
\* status of its run, a run beyond generation has its patch, and test and run
\* are at the same point unless the run was given up.
RowsAgree ==
    /\ task = CASE run.status = "none" -> "approved"
                [] run.status = "pending" -> "implementation_pending"
                [] OTHER -> run.status
    /\ run.status \in {"none"} \cup Generating => patch = NoDraft
    /\ run.status \in {"patch_ready"} \cup Testing \cup Verdicts => patch # NoDraft
    /\ test.status # "none" => patch # NoDraft /\ test.patch = patch
    /\ run.status = "patch_ready" => test.status = "none"
    /\ run.status = "test_pending" => test.status = "pending"
    /\ run.status = "testing" => test.status = "running"
    /\ run.status = "tested" <=> test.status = "passed"
    /\ run.status = "test_failed" <=> test.status = "failed"

\* Once a patch is stored, the worktree holds exactly it unless somebody else
\* changed the files: no crash, replay or failure of the system leaves a stored
\* patch that is not on disk.
PatchOnDisk == patch # NoDraft => worktree \in {patch, "other"}

\* design.md of M7: the tests of a patch run at most once, across crashes,
\* repeated requests and repeated items; before the row says running, never.
TestsRunOnce ==
    /\ Len(executed) <= 1
    /\ test.status \in {"none", "pending"} => executed = <<>>
    /\ test.status \in {"passed", "failed"} => executed # <<>>

\* The tests run on the patch the user has seen and authorised, or the files were
\* changed behind run_test's comparison of their hash with the stored one: an edit
\* that was there before never reaches a container, however often the run crashed,
\* was replayed or was resumed in between.  Nothing notices an edit behind it, while
\* the test is marked, the image looked up and the worktree mounted.
TestsReviewedPatch == \A i \in DOMAIN executed : executed[i] = test.patch \/ late

\* A test container belongs to a test that is marked as running: nothing that
\* runs is forgotten by start-up, and no verdict is stored beside it.
ContainerKnown == container => test.status = "running"

\* The checkpoint never claims more than the rows: a thread that waits for
\* approval has a stored patch, one that runs tests has an authorised test, and
\* one that ended has a verdict.
CheckpointJustified ==
    /\ ckpt.next \in {"await_test_approval", "run_tests", "end"} =>
           patch # NoDraft /\ ckpt.patch = patch
    /\ ckpt.next \in {"run_tests", "end"} => test.status # "none"
    /\ ckpt.next = "end" => run.status \in Verdicts

\* Evidence is never rewritten: a stored patch, a result, and a run that has a
\* verdict or failed stay as they are.
EvidenceForever ==
    [][/\ patch # NoDraft => patch' = patch
       /\ test.status \in {"passed", "failed"} => test' = test
       /\ run.status \in Verdicts \cup {"failed"} => run' = run]_vars

-----------------------------------------------------------------------------
(* What the client of the API sees.                                          *)

LifeStage == CASE run.status = "none" -> "approved"
               [] run.status \in Generating -> "generating"
               [] run.status = "patch_ready" -> "ready"
               [] run.status \in Testing -> "testing"
               [] run.status = "recovery_blocked" -> "blocked"
               [] OTHER -> run.status

Life == INSTANCE ImplementationLifecycle
            WITH Patches <- Drafts, NoPatch <- NoDraft,
                 stage <- LifeStage, patch <- patch, ran <- executed # <<>>

\* Checkpoints, replays and restarts are invisible: two authorisations, one
\* patch, one execution, one verdict, in this order, or the run is given up.
ImplementsLifecycle == Life!Spec

-----------------------------------------------------------------------------
(* Liveness, and a promise of the design document.                           *)

Scheduled(kind) == \/ \E i \in DOMAIN queue : queue[i] = kind
                   \/ pc # "idle"

\* A run whose work is scheduled gets a patch or is given up, across restarts.
GenerationSettles ==
    (run.status \in Generating /\ Scheduled("implementation"))
        ~> run.status \notin Generating \cup {"none"}

\* A test whose work is scheduled gets a verdict or is given up, across restarts.
TestSettles ==
    (run.status \in Testing /\ Scheduled("test")) ~> run.status \notin Testing

\* design.md of M7: what exists and is consistent is reused, only what is not
\* is blocked.
ConsistentPatchIsKept ==
    [][/\ run.status = "patch_ready" /\ worktree = patch
       /\ ckpt.next = "await_test_approval" /\ ckpt.patch = patch
       => run'.status # "recovery_blocked"]_vars

=============================================================================
