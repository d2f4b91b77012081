# A verification of IssuePilot

IssuePilot takes a GitHub repository and an issue through a pipeline: clone,
parse, retrieve, plan with a local model, wait for a human decision, write a patch
to an isolated worktree, wait for a second authorisation, run the tests in a
container. Every stage survives a restart of the process, or is meant to. This
directory holds TLA+ models of the parts where that is hard, what TLC checks of
them, and what TLAPS proves of them for every value of the constants.

1. [The system](#1-the-system) - 2. [The modules](#2-the-modules) -
3. [Runs, bounds and fairness](#3-runs-bounds-and-fairness) -
4. [Properties and findings](#4-properties-and-findings) -
5. [Proofs](#5-proofs) - 6. [What is assumed and what is left out](#6-what-is-assumed-and-what-is-left-out) -
7. [Not modelled](#7-not-modelled) - 8. [Plan](#8-plan)

Paths below are relative to `src/backend/app/` unless they begin with `src/`.

## 1. The system

The backend is one process with one event loop. Requests and three queue consumers
interleave at every `await`; PostgreSQL serialises transactions with row locks;
everything on a queue is in memory only.

| Part | State it keeps | Operations | What makes it correct |
| --- | --- | --- | --- |
| HTTP API (`api/routes`) | none between requests | create a task, post a decision, an implementation, a test; read | a retried request has one effect; the answer and the queue agree with the rows |
| Repository pipeline (`workers/repository_*`, `services/repository_service.py`, `services/task_service.py`, `services/workspace.py`) | `tasks.status`, workspace directory, in-memory queue | clone, index, retrieve, plan; failure handler | a failure never overwrites a later status; a snapshot is published after its directory |
| Code index (`services/code_index_service.py`, `parsers/`) | index rows of one commit | parse in a subprocess, replace the index | an index is whole and belongs to the commit in the workspace |
| Retrieval (`services/retrieval_*`, `retrieval/`) | chunks, vectors, evidence rows | chunk, embed, three searches, fuse and rank, persist | ranking is deterministic, evidence refers to the index |
| Planning and approval (`services/planning_*`, `agents/planning_graph.py`, `workers/planning_queue.py`) | plans, decisions, checkpoint thread, queue | first plan; approve, reject, request changes; resume, recover | one open decision; plans form a chain; a decision takes effect once |
| Implementation (`services/implementation_*`, `agents/implementation_graph.py`, `workers/implementation_queue.py`) | run, patch and test rows, checkpoint thread, queue | generate, apply, authorise, test, recover | rows, checkpoint, worktree and container agree; tests run once, and never on files that were found to differ from the reviewed patch |
| Patch application (`services/patch_service.py`, `services/implementation_workspace.py`) | files of the worktree | validate, write, inspect, roll back | all files or none; the stored hash is the hash on disk |
| Test runner (`services/test_runner.py`, `src/backend/runner`) | a container | run, bound its time and output, remove it | no container outlives its test unnoticed |
| Checkpoints (`checkpoints/postgres.py`, LangGraph) | latest state of each graph thread | write behind a node, read, resume | never ahead of the rows |
| Start-up (`main.py`) | none | verify, find pending work, start consumers | whatever was accepted is found again |
| Clients of Ollama and git (`llms`, `embeddings`, `services/git_client.py`) | none | calls that may fail | an error is classified |
| Web front end (`src/lib`, `src/components`) | a poll timer, an idempotency key | poll, post | any client is a request process here |

How they interact: a route writes rows through a service and its store, commits,
and puts an id on a queue. A consumer takes the id, reads the rows again, compares
them with the checkpoint and the files, and runs the LangGraph graph of the task.
A node of the graph commits its rows by itself; LangGraph writes the checkpoint
*behind* it. Failures become statuses in handlers that run after the fact.

What is hard to test, and what the models are built around:

- a request between the read and the write of a worker, or of another request;
- a crash between the transaction of a node and its checkpoint, between the files
  of a patch and the row that names it, between `docker run` and its verdict;
- an item that is on a queue twice, or on none;
- a failure handler that reports on something that has succeeded meanwhile;
- a thread that still carries an older decision;
- a start that finds more work than its queues hold;
- files that change between two looks at them;
- a process, its two output streams, a limit and a timeout that end in any order;
- the boundaries of windows, limits and budgets that cut a file, a ranking, a text.

`PROJECT.json` lists each of them at its line, with the property that would notice.

## 2. The modules

| Module | Models |
| --- | --- |
| `PlanningApproval` | planning and the human decision of one task: requests, planning worker, repository worker in its planning stage, graph, checkpoint, failures, crash and restart |
| `ApprovalLifecycle` | what its client is promised: a sequential object that plans, asks, and closes one decision after the other |
| `PlanningApprovalProofs`, `PlanningLifecycleProofs` | the theorems about `PlanningApproval`, and that it implements `ApprovalLifecycle` |
| `ImplementationRun` | the implementation of an approved plan: requests, worker, graph, checkpoint, worktree, test container, failures, crash and restart |
| `ImplementationLifecycle` | what its client is promised: two authorisations, one patch, one execution of its tests, one verdict |
| `ImplementationRunProofs` | the theorems about `ImplementationRun`, and that it implements `ImplementationLifecycle` |
| `RepositoryPipeline` | several tasks from `POST /tasks` to a plan: requests, bounded queue, worker with all stages, directory on disk, GET requests for the evidence, failures, crash and restart |
| `TaskStages` | what whoever polls a task is promised: one ordered list of stages, one commit, evidence that is only added |
| `RepositoryPipelineProofs` | the theorems about `RepositoryPipeline`, and that it implements `TaskStages` |
| `StartupRecovery` | start, failed start, graceful stop and crash of the process with the work of several tasks on the planning and the implementation queue |
| `StartupRecoveryProofs` | the theorems about `StartupRecovery`: queues, places of open work, given-up runs |
| `PatchFiles` | `PatchService`: a patch of several files is validated, written, inspected command by command, rolled back |
| `TestRunner` | `DockerTestRunner`: client process, two output streams, limit, timeout, removal of the container |
| `ImplementationEffects` | the two, one behind the other, as `run_test` puts them |
| `ImplementationEffectsProofs` | the safety theorems about both |
| `SourceIndex` | one file through `StructureVisitor`, the rounds of `_add_file` and the bounded preview |
| `SourceChunks` | `build_python_chunks` on that file: windows, character limit, de-duplication |
| `HybridRanking` | three lanes, reciprocal rank fusion, re-ranking, and the evidence budget of planning |
| `SourceChunksProofs` | the theorems about symbols, storage and preview, the invariant of the chunks, and lemmas about counting, numbering and recursion |
| `EvidenceAlgorithms` | the two algorithms as one specification, for one run |
| `EvidenceAlgorithmsProofs` | the theorems about chunks, results and evidence |
| `MCPlanningApproval`, `MCImplementationRun`, `MCEvidenceAlgorithms` | symmetry sets and function-valued constants for TLC; the other constants are in the `.cfg` files |

### PlanningApproval

| TLA+ | Code |
| --- | --- |
| `task`, `plans`, `dec` | `tasks.status`, `implementation_plans.status`, `planning_decisions` (a decision is named by its idempotency key) |
| `ckpt`, `mem`, `unsaved` | the latest durable checkpoint; the state of a running graph; whose state has not been written yet |
| `queue`, `pc`, `item`, `seen` | `PlanningQueue`; the two workers, what they hold, and the plan version they loaded |
| `rpc`, `payload` | POST requests between their awaits |
| `CheckLimit`, `CreateDecision`, `ReturnDecision`, `RefuseDecision`, `Enqueue` | `submit_decision`, `create_decision` under the task lock, and the route that puts the id on the queue |
| `TakeWork`, `Prepare`, `Resume`, `FailDecision` | `_consume`, `process_decision`, `_resume_decision`, `fail_decision` |
| `PlanTask`, `FailTask`, `MarkFailed` | `plan_task`, its `set_status`, the repository queue's failure handler |
| `Draft` ... `PersistRevision` | the nodes of the graph; each commits one transaction |
| `SaveCheckpoint` | LangGraph's write behind a node; a crash may come before it |
| `CrashRestart` | the process dies and `_enqueue_pending_decisions` finds work |

### ImplementationRun

| TLA+ | Code |
| --- | --- |
| `task`, `run`, `patch`, `test` | the four rows; a patch is named by its draft, which stands for the hash of its diff |
| `worktree`, `container` | contents of the files, existence of the container |
| `executed`, `late` | history variables: on what the tests ran; whether files changed after `run_test` had compared them for the last time, while its tests could still read them |
| `ckpt`, `mem`, `saved`, `queue`, `pc` | as above, for one consumer |
| `CreateRun`, `CreateTest`, `ReturnRun`, `ReturnTest`, `RefuseTest` | `_create_run_transaction`, `_create_test_transaction` |
| `Refresh`, `Enqueue` | the status read after the commit, which decides what goes on the queue |
| `Start`, `EarlyNode`, `WorktreeUntouched` | `_invoke_initial` and its two checks |
| `PrepareWorktree` ... `ReusePatch` | `load_bundle`, `apply_patch`, `PatchService.apply`, `persist_patch` |
| `StartTest`, `ResumeTest` | `process_test`, `_resume_test` |
| `CheckWorktree`, `MarkTesting`, `Execute`, `FinishTest`, `PersistTestResult` | `run_test` and `DockerTestRunner.run` |
| `FailRun` | `fail`, which leaves verdicts alone |
| `SourceChanged`, `NodeFails`, `RunnerFails`, `InfrastructureError`, `Tamper` | the classes of errors the processors tell apart, and an edit of the worktree from outside |

### RepositoryPipeline

| TLA+ | Code |
| --- | --- |
| `status`, `code`, `snapshot`, `index`, `parsed`, `evidence`, `cited` | `tasks.status` and `failure_code`, the commits of snapshot, index and retrieval run, and the contents that index and chunks were made from (`source_sha256`) |
| `staging`, `repo` | staging directory and published directory of the task |
| `post`, `reading` | POST and GET requests between their awaits |
| `queue`, `pc`, `item`, `held`, `why`, `recovered` | `RepositoryQueue`, its consumer, and analysing tasks that the planning queue found at the start |
| `CreateTask`, `MarkQueued`, `Enqueue`, `FailFull`, `PostFails` | `create_task` with its two commits and the queue that may be full |
| `Claim` ... `PublishSnapshot` | `clone_task`: the directory is moved into place before its row is stored |
| `CheckHead`, `CheckClean` | `verify_workspace`, in both stages that read files and in every GET request |
| `Parse`, `PersistIndex`, `BuildChunks`, `PersistRetrieval` | `index_task`, `_persist_result`, `build_python_chunks`, `persist_retrieval` |
| `PersistPlan`, `FinishPlan`, `Decide` | planning as far as the pipeline sees it; `PlanningApproval` has the rest |
| `RecordFailure`, `MarkFailed`, `HandlerFails` | the stage stores its own code; the queue's handler stores one under a condition, or fails too |
| `DatabaseFails`, `GitFails`, `InternalError`, `Tamper`, `CrashRestart` | what may go wrong, and where |

`Committed` makes every transaction two-sided: it may have been stored although the
worker is told that it was not.

### StartupRecovery

| TLA+ | Code |
| --- | --- |
| `decision`, `analysis`, `run`, `test`, `tests` | statuses of the rows of several tasks; the order in which test rows were created |
| `mode` | where `lifespan` stands |
| `planQueue`, `planItem`, `implQueue`, `implItem`, `repoItem` | the three queues and what their consumers work on |
| `left`, `overlooked` | history: work refused by a full queue or dropped by a consumer; work that the last start had no room for |
| `RecoveredPlanning`, `PendingWork` | `load_pending_decision_ids`, `load_recoverable_task_ids`, `pending_work`: oldest first, up to the capacity |
| `StartPlanning`, `StartImplementation`, `StartFails`, `BeginStop`, `FinishStop` | the order of `lifespan`, before and behind its `yield` |
| `OfferPlanning`, `OfferImplementation` | the row is stored, then the queue is tried, and 503 is answered when it is full |
| `ProcessPlanning`, `DropPlanning`, `GeneratePatch` ... `DropImplementation` | the consumers; what processing does to one row in detail is in `PlanningApproval` and `ImplementationRun` |

### PatchFiles, TestRunner, ImplementationEffects

| TLA+ | Code |
| --- | --- |
| `file`, `untracked`, `artifact` | contents of each tracked file; a temporary file of `_atomic_write` left behind; the stored patch with its manifest |
| `Apply`, `Write`, `Restore` | `PatchService.apply`, one atomic replacement at a time, and its roll-back |
| `UntrackedPaths`, `ChangedPaths`, `DiffNumstat`, `Diff`, `Manifest` | `inspect`: five looks at the worktree, between which a file may change |
| `WriteFails`, `GitFails`, `LimitExceeded`, `RestoreFails`, `CrashPatch`, `Edit` | what ends or disturbs it |
| `call`, `after`, `result` | where `run` or `cleanup` stands, and its answer |
| `client`, `ending`, `container`, `verdict` | the docker client and its exit code, the container and how its tests ended |
| `ReadBounded`, `WaitForProcess`, `Timeout`, `Gather` | the readers, `_wait_for_process`, `run_command` |
| `RemoveContainer`, `ConfirmRemoval` | `_remove_container` |
| `RunTest` | `run_test`: a patch that still agrees with its hash is handed to the runner |

### SourceIndex, SourceChunks, HybridRanking

| TLA+ | Code |
| --- | --- |
| `lines`, `stack`, `symbols`, `imports` | the file, chosen line by line while `StructureVisitor` walks it |
| `StoreRound`, `Ready` | the rounds of `_add_file`: a symbol's row needs its parent's |
| `PreviewSymbols`, `ShownImports`, `Truncated` | `get_structure` under its limit of entries |
| `UncoveredRanges`, `SymbolSpan`, `WindowRange`, `Fitted` | `_uncovered_ranges`, `_symbol_chunks`, `_window_ranges`, `_fit_character_limit` |
| `Kept`, `Deduplicate` | `_deduplicate_chunks` with its order and specificity |
| `SymbolLane`, `KeywordLanes`, `VectorLanes` | the three recalls; what full text search and cosine distance find is any list |
| `RRF`, `RerankBonus`, `FuseAndRerank` | `reciprocal_rank_fusion`, `_rerank_bonus`, `fuse_and_rerank`; scores are rational numbers times their common denominator `Scale` |
| `BoundedEvidence` | `_bounded_evidence` |

`StartupRecovery.Oldest`, `ModuleSpans` and `InOrder` define the result of a sort by
counting: the n-th of a set is the member with n - 1 others before it. That is what `ORDER BY` and
`sort` with a total key return, it is unique, and it can be reasoned about without an algorithm.
Operators of `HybridRanking` take the query and the lanes as parameters, so that
they mean the same in a step and in the state behind it.

Definitions marked *Mutant* in the modules are no part of the models: each is a
plausible bug that breaks one property when it takes the place of the definition
below it.

## 3. Runs, bounds and fairness

| Run | Shows | Instance |
| --- | --- | --- |
| `planning_safety` | all safety and action properties, and the refinement | 3 keys, 1 request at a time, 2 versions and a third beyond the limit, queue of 1, all 5 kinds of failure, 2 of them |
| `planning_liveness` | scheduled decisions settle, analyses end | 2 keys, a crash or a lost worktree |
| `planning_model_failure` | *violation*, see finding 1 | 2 keys, one failed model call |
| `planning_retry` | *violation*, see finding 2 | 2 keys, no failure |
| `implementation_safety` | all safety and action properties, and the refinement | 2 keys, 2 drafts, 2 requests at once, queue of 2, all 6 kinds of failure, 2 of them |
| `implementation_liveness` | scheduled runs and tests end | 1 key, 2 drafts, any 2 failures but infrastructure errors |
| `implementation_retry` | *violation*, see finding 3 | 1 key, no failure |
| `pipeline` | all safety and action properties, the refinement, and that queued tasks settle | 2 tasks, 1 commit, 1 reader, queue of 1, all 4 kinds of failure, 2 of them |
| `startup_recovery` | work has a place or a reason why not, and settles; given-up runs stay so | 1 decision, 1 analysed task, 1 run with its test, queues of 1, a crash, a dropped item or failed start |
| `startup_starvation` | *violation*, see finding 4 | 2 runs, queue of 1, a crash |
| `implementation_effects` | patches are all or nothing, results leave no container, calls end | 3 files, 2 of them allowed, 2 failures or edits; output limit and pipes of one chunk, 2 docker failures or crashes |
| `algorithms` | what index, chunks, ranking and evidence promise, as reference definitions | at most 4 lines of width 0, 1 or 4, 3 symbols, 1 import; windows of 2 and 3 lines that overlap by 1, 3 characters, 5 chunks; 3 candidates on 2 paths, lanes of 2, 2 results |

Why the bounds are enough to meet the hard cases:

- *Keys.* A third decision key is needed for a decision that fails, one that comes
  after it in the same thread, and one that is late. A task has one run and a run
  one test, so two keys give the owner and a stranger.
- *Requests.* A request that waits between two awaits while workers move needs one
  process; two give the race of two creations. The decision requests of the proofs
  are any number.
- *Queue.* A queue of one fills with the first item; a queue of two holds the same
  run twice.
- *Versions.* With a limit and a schema bound of 2, one revision is possible, the
  next is refused, and version 3 is where `persist_revision` would go beyond it.
- *Tasks.* In the pipeline a second task is needed to fill the queue behind the one
  the worker has, and to see that a restart or a handler of one leaves the other
  alone. One commit is enough to tell the contents apart that a task may meet: those
  of the commit, edited ones, none. At start-up one row of each kind competes for
  each queue of one; the starvation needs a second run.
- *Files.* Two allowed files can be half written; a third is the one the plan does
  not name.
- *Output.* With a limit and a pipe of one chunk a stream is empty, exactly full, or
  over its limit while the other is exactly full.
- *Sources.* Four lines hold a symbol in a symbol in a symbol, a symbol between two
  uncovered ranges, and a symbol longer than its windows; width 4 is over the limit
  of characters, two lines of width 1 just fit, three do not.
- *Ranks.* Three candidates and lanes of two leave one out of every lane; two
  results cut one off; the budget of two characters ends within a snippet or behind
  it.
- *Failures.* Two in a behaviour give a crash during the recovery from a crash, a
  failure after a failure, an edit of the worktree before a restart, and one behind
  the comparison of a test that was resumed after a crash. In the
  proofs about planning their number is not bounded.

Symmetry is used only in the two safety runs; keys, drafts and requests appear in
no `CHOOSE` of the models that could tell them apart (`RecoveredWork` chooses from
a set with at most one element).

Fairness is weak fairness of each consumer and of each request that was accepted:
asyncio runs every ready coroutine, and an awaited call ends with a result or an
error: the calls to git, the model and docker have timeouts, and a database that
does not answer breaks its connection. There is no fairness for clients, for the environment's failures, or for a
container to expire. Infrastructure errors are left out of the liveness runs: the
consumers log and drop the item, and it is not looked at again before the next
start, so that *settles* is not promised then.

In the pipeline the consumer, accepted requests and the recovered analyses are
fair; in `StartupRecovery` starts are (a process that is down is started again), the
end of a stop whose queues are empty, and the consumers; in `TestRunner` the
coroutines of the event loop and its timer. Nothing is assumed of docker, of
the tests, of git, or of whoever edits files.

Deadlock is checked in the runs about planning and implementation, where a client may
always send another request. In the other five the system may really stop: every
task of the pipeline has settled and nobody reads, the process has been stopped, a
test has its result, a file is cut.

## 4. Properties and findings

Each property has its statement in words beside its definition. The invariants
relate state that different actors write: plans to the decisions that settled
them (`VerdictIsDecided`), the task to the pending decision (`OneOpenDecision`),
the rows to the checkpoint behind them (`CheckpointBehindRows`,
`CheckpointJustified`), the stored hash to the files (`PatchOnDisk`), the
container to its row (`ContainerKnown`), the reviewed patch to what the tests ran
on, unless it was changed behind the comparison (`TestsReviewedPatch`), the commits of three stages and the contents they read
(`EvidenceAgrees`), a failure code to what is stored and what is not
(`FailureExplained`), an active status to whoever still works on the task
(`NoFalseActive`), an answer to the rows long after it (`ToldStaysTrue`), an open row to
its place in memory (`WorkHasPlace`), the files of a refused or stored patch to its
draft (`AllOrNothing`), a result to the container (`VerdictWithoutContainer`). The
action properties say what no late worker may do (`SettledForever`,
`EvidenceForever`, `AppliedByItsWorker`, `SettledStays`, `GivenUpStays`).
`ImplementsLifecycle` and `ImplementsStages` are the refinements.

`ChunksDescribeFile` and `RankingIsFair` are reference definitions of the
algorithms: no line of code is lost between windows, every symbol is found at its
first line, chunks have unique ranges within the limits, the hierarchy is a tree and
always storable, a cut preview says so; the results are the best of what was
recalled, a candidate that is as good in every lane is not overtaken, and the model
is told when evidence is missing.

Where code and documents disagree:

1. **A failed revision stalls the task** (`planning_model_failure`,
   `DecisionSettles`). After a model failure in a revision the decision is marked
   failed and the task waits for the next one, as M6's design asks; but the
   thread still stands at `revise_plan` with the failed decision. The next decision,
   even an approval, resumes that node, calls the model, and ends in a
   `PlanningConflictError` nobody handles: it stays pending.
2. **A retry at the revision limit is refused** (`planning_retry`,
   `RetryReturnsDecision`). `submit_decision` checks the limit before it looks for
   the key, so the request that produced the last version gets 409 when repeated.
3. **A repeated request destroys a finished patch** (`implementation_retry`,
   `ConsistentPatchIsKept`). POST `/implementation` sent twice while the patch is
   being written puts the run on the queue twice. The second item finds the run at
   `patch_ready` and the thread waiting for approval, all consistent, and blocks it.

4. **A given-up run starves an authorised test** (`startup_starvation`,
   `AuthorisedTestResumes`). `fail()` leaves the test row of a failed or blocked run
   pending or running; `pending_work` loads such rows by age up to the capacity of the
   queue, at every start. With as many of them as the queue has places, an authorised
   test that is younger is never found again.

The lines and the quoted documents are in `PROJECT.json`.

Observations without a run of their own:

- `run_test` compares the hash of the worktree with the stored patch
  (`implementation_service.py:249`), then awaits `mark_testing`, the look-up of the image
  and `docker run`, which mounts the worktree. An edit in this window, or under the
  running container, changes what the tests run on, and nothing notices it: the verdict
  is stored for the authorised patch. `src/docs/architecture.md:193` ("Patch hash
  不符时拒绝运行测试") and `src/docs/call-chains.md:278` (a changed patch is not tested) hold
  of edits before the comparison only. `TestsReviewedPatch` says just that; without its
  `late` TLC refutes it, with one `Tamper` between `CheckWorktree` and `Execute`.

- When a window of a function has exactly the range of a nested function or class of
  equal or lower specificity, the enclosing one is kept and the nested one is not found
  under its own name. `src/.dev-flow/M6/spec/design.md:100`, `src/docs/glossary.md:46`
  and `src/docs/adr/008-hybrid-retrieval.md:16` speak of the more specific child; `EverySymbolFound` states what
  the code does.
- A directory whose `.git` is broken is reported as `REPOSITORY_PIPELINE_FAILED` by the
  indexing stage, as 500 by a GET request, and not as `WORKSPACE_INCONSISTENT`, because
  `rev-parse` raises before the comparison (`GitError`).
- The docker client has a session of its own and outlives the process: it may start
  its container after `cleanup` has confirmed that there is none. `TestRunner` allows
  it, and `VerdictWithoutContainer` therefore speaks of results of tests only.
- Whether tests that print more than the limit count as passed, failed or killed is
  a matter of timing; in each case the container is gone.
- `splitlines` breaks lines where the syntax tree does not (form feeds, for example),
  so the chunks of such a file are shifted against its symbols.

## 5. Proofs

All theorems are about `Spec` with any sets of keys and requests and any limits on
queue, versions and failures, under the assumptions of the modules only: the names
of rows, patches and file contents that do not exist are no keys and no drafts, and
the limits are numbers, positive for queues.

Planning: the invariant is `IInv == TypeOK /\ Rows /\ Control`.

- `Rows` adds to the three invariants about rows what they need to be kept by a
  transaction: a decision is about a stored plan, an `ANALYZING` task has none, a
  task with plans has a current one.
- `Control` is needed because a worker writes long after it read. It says what a
  worker between two steps may rely on: that the repository worker only plans and
  is the only one to do so until a restart (`OnePlanner`), that a running graph
  carries no pending decision but the one of its own item (`OwnDecision`), that
  nodes carry what they use (`Threads`). It is why the unconditional `set_status`
  of `plan_task` is harmless, and why a thread with an old decision cannot apply
  a new one.
- `GraphsBehind`, on top of it, bounds every graph and the checkpoint by the rows;
  its only difficulty is that versions grow and settled decisions stay.

| Theorem | Property |
| --- | --- |
| `TypeCorrect` | `TypeOK` |
| `PlansChained` | `PlanChain` |
| `OneDecisionOpen` | `OneOpenDecision` |
| `VerdictsDecided` | `VerdictIsDecided` |
| `FailedUnplanned` | `FailedTaskHasNoPlan` |
| `CheckpointTrails` | `CheckpointBehindRows` |
| `SettledStays` | `SettledForever` |
| `AppliedByOwnItem` | `AppliedByItsWorker` |
| `PlanningImplementsLifecycle` | `ImplementsLifecycle` |

The last one maps each transaction to a step of `ApprovalLifecycle` and everything else
to a stutter, with the same invariant.

Implementation: the invariant is `IInv == TypeOK /\ Evidence /\ Control`.

- `Evidence` is the conjunction of the five state invariants about rows, files and
  container. None is inductive alone: that tests run once rests on the row that says
  running, that they run on the reviewed patch, or on files changed behind the
  comparison, on the row and the files.
- `Control` says what is true between two steps of the consumer, where it holds no
  transaction: whatever is scheduled is about a run or test that exists (`RunKnown`,
  `TestKnown`); the checkpoint and the running thread claim no more than the rows
  do and carry a draft once the model has answered (`Threads`); nothing is published
  while files are written (`Writes`); from the start of a test to its container
  the test is pending, the node is the right one, and so are the files unless `late`
  says that they were changed behind the comparison (`Approves`); and
  from the row that says running to the verdict nobody else moved (`Tests`).
- The proof is split by what a step writes (`RowWriters`, `FileWriters`,
  `ContainerWriters`, `CheckpointWriters`, `ThreadMoves`, `QueueWriters`); `Lasting` says
  what no step takes back.

| Theorem | Property |
| --- | --- |
| `ImplementationTypes` | `TypeOK` |
| `OneStory` | `RowsAgree` |
| `StoredPatchOnDisk` | `PatchOnDisk` |
| `OneExecution` | `TestsRunOnce` |
| `ReviewedExecution` | `TestsReviewedPatch` |
| `NoForgottenContainer` | `ContainerKnown` |
| `CheckpointsBacked` | `CheckpointJustified` |
| `EvidenceKept` | `EvidenceForever` |
| `ImplementationFollowsLifecycle` | `ImplementsLifecycle` |

Pipeline: the invariant is `IInv == TypeOK /\ Rows /\ Ownership /\ NoFalseActive /\ Knowledge /\ Promises`.

- `Rows` is the story of a task by itself: `EvidenceAgrees`, `RowsFollowStatus` and
  `FailureExplained` together, and that rows are written in the order of the stages,
  which none of the three says alone.
- `Ownership` says that a task is in one place: with its request, on the queue, with the
  worker, or recovered. It is why the worker's late writes hit no other stage.
- `Knowledge` is what the worker may rely on between two stages: the status of its task,
  what it holds, and that a failure code it is about to store will explain something.
- `Promises` is the same for GET requests. Rows are only added, so what a request has
  found stays there.

| Theorem | Property |
| --- | --- |
| `TypeCorrect` | `TypeOK` |
| `EvidenceStaysTogether` | `EvidenceAgrees` |
| `StatusMeansRows` | `RowsFollowStatus` |
| `CodeMeansStage` | `FailureExplained` |
| `ActiveMeansWork` | `NoFalseActive` |
| `AnswersStayTrue` | `ToldStaysTrue` |
| `SettledTasksStay` | `SettledStays` |
| `PipelineImplementsStages` | `ImplementsStages` |

They hold for any tasks, commits, readers, capacity, kinds and number of failures.

Patch and test runner: `PatchInv` says who wrote what (`Authors`), which phases go with
an artifact (`Phases`), what a refused draft has left (`NoTrace`), and what each of the five
looks at the worktree has established in spite of edits (`Progress`). `RunnerInv` says in
which order client and container end (`ClientEnds`), that a stream over its limit is full
(`OverflowIsFull`), so that a killed client is never taken for a finished one, and what
`run` knows of the client where it stands (`RunKnows`). `PatchWholeOrNot` and
`VerdictIsFinal` state `AllOrNothing` and `VerdictWithoutContainer` for any files,
limits and number of failures.

Start-up: the invariant is `IInv == TypeOK /\ TestsListed /\ TestsFit /\ PlanningPlaced /\
ImplementationPlaced`; the last two are `WorkHasPlace`, one for each queue.

- `TestsListed`: whatever test row exists was created, so it is among the rows that
  `pending_work` orders by age. A test that is open and was not found is then one of
  those the start had no room for.
- `TestsFit`: the row of a test agrees with the row of its run until the run is given
  up. It is why a consumer that skips the test of a run that is done leaves no open row
  behind, except the stale ones of finding 4, which `WorkHasPlace` leaves out.

That a start respects the capacity of its queue is the lemma that the oldest open rows
up to a limit are at most that many; it counts rows, hence the assumption that rows are
finitely many.

| Theorem | Property |
| --- | --- |
| `TypeCorrect` | `TypeOK` |
| `WorkIsPlaced` | `WorkHasPlace` |
| `GivenUpForGood` | `GivenUpStays` |

Code index: the invariant `Inv` is that the stack is a path down the tree (`StackIsPath`) and that
a closed symbol ends before every later one that is open (`ClosedBeforeOpen`); from it the
ranges nest, parents come before their children, and the least symbol that remains is ready
(`SomeIsReady`, by well-foundedness of the natural numbers). `SourceOrder` adds that symbols
are numbered by their first line, which the bounded preview needs: a prefix of them is closed
under parents. `SymbolsAreStored`, `SymbolsFormATree` and `PreviewsAreTrees` prove
`NeverStuck`, `TreeByRange` and `PreviewIsATree` for files of any length.

Chunks: `ChunkInv` is `Inv`, `SourceOrder`, and what is true between two windows:

- spans and drafts lie in the file and, if they have an owner, in it; drafts are no longer
  than the longest window and fit the limit of characters;
- every line of code lies in a draft or in a span that is still to be cut (`LineKept`), and
  every symbol has a draft or a whole span that begins at its first line (`SymbolKept`).

A window keeps both because the next one begins at the latest behind its last line (the
overlap is less than a window) and strictly after its first, and because a window without
code loses no code. De-duplication keeps, of each range, a draft no less specific than any; of
two symbols with one range the enclosing one has the smaller number, which is where the exception
in `EverySymbolFound` comes from. That windows of uncovered lines cover every uncovered
line is `ModuleSpans`: maximal runs are disjoint, so they are ordered by their first line.

Ranking: `RankingInv` says only that results and evidence were computed from the query and
the lanes of the state. The work is in the lemmas: `_rank_sort_key` is a strict order
(`RankOrderIsStrict`), so the counted list has every candidate once, in order (`Numbered`,
`Listed`); a reciprocal falls strictly with the rank (`Fractions`), so that a candidate that is
nowhere worse has more points before the rules are applied, which give it no fewer
(`AsGoodRanksBefore`); and what the snippets took is what the budget lost, up to any record
(`HonestEvidence`).

| Theorem | Property |
| --- | --- |
| `FilesAreDescribed` | `ChunksDescribeFile` |
| `RankingFair` | `RankingIsFair` |

They hold for any limits that `_validate_limits` and the settings admit, any number of
candidates and files, any lengths of contents, and any lanes; `Scale` is any multiple of
1000 and of 60 + r for each rank r of a lane, and there is always one.

Sums and budgets are recursive functions. The provers see such a function as a `CHOOSE`; `Recursion` shows
that the chosen function exists, and `UpTo`, that a set of numbers that has 0 and with each number the
next has them all. Both come from the least counterexample (`LeastMember`), and stand
where an induction theorem with an operator parameter would.

Every invariant, action property and refinement that a passing run checks is thus stated by
a theorem. Model-checked only:

- liveness (`DecisionSettles`, `AnalysisSettles`, `GenerationSettles`, `TestSettles`,
  `QueuedSettles`, `WorkSettles`, `CallEnds`), whose rules, fairness and `ENABLED`, are out of
  the prover's reach;
- the four disagreements of section 4: a theorem cannot state that something fails.

## 6. What is assumed and what is left out

- One process and one event loop, as `main.py` starts them; two deployments on one
  database are not modelled. A graceful stop empties the queues first and is
  weaker than the crash, which may come at any step.
- A transaction is one step. The row locks of the stores justify it.
- A write of a checkpoint is one step, some time after its node and before the graph
  returns or raises; a failure of that write ends the graph (`InfrastructureError`
  is possible in every stage but those inside file writes and docker calls, which
  do not touch the database). The first checkpoint of a thread is on disk before a
  model call returns: a call takes seconds, the write was started before it.
- Contents are abstract: a worktree has the base commit, half a patch, a patch, or
  something foreign. `Tamper` writes it to a file of the patch at any moment, between
  the comparison and the container and under the running container included, but not
  while `apply_patch` writes and stores the patch (stages `writing` and `written`):
  edits between its looks are steps of `PatchFiles`.
- `PlanningApproval` and `ImplementationRun` follow one task. Tasks meet at the queues
  and at start-up, which are `RepositoryPipeline` and `StartupRecovery`; there in turn
  the processing of one row is one or two steps. `recovered` of the pipeline ignores the
  capacity of the planning queue, which `StartupRecovery` has.
- In the pipeline a GET request reads rows, then HEAD, then the state of the worktree,
  with awaits in between; contents are those of the commit, edited or unreadable.
- `PatchFiles`: sizes are a property of the draft and of the diff, within or beyond a limit;
  path syntax and symbolic links are part of `Allowed`. Edits from outside hit tracked
  files.
- `TestRunner`: docker is external. A container that ends is removed by the daemon
  (`--rm`), `rm` and `inspect` tell the truth or fail. Output is counted in chunks; texts
  and hashes are left out (the hash of a truncated stream covers what was read).
- `SourceIndex` and `SourceChunks` take one file at a time; symbols start lines of their
  own, as the grammar demands; byte limits, decorators and signatures are left out.
  Lines of the syntax tree and of `splitlines` agree by assumption.
- `HybridRanking` computes with the rational numbers of the source, scaled to integers
  (in the run by 61 * 62 * 63 * 1000, for lanes of up to three); ties and near ties that rounding of floats decides are not modelled.
- A comment that differs in a retried decision acts like an action that differs. A request for
  another plan version than the approved one is refused whatever the state, and
  left out of `ImplementationRun`.

## 7. Not modelled

- *Database session and migrations*: transactions are the atomicity of the actions; the
  partial unique indexes of the migrations are implied by `PlanChain` and
  `OneOpenDecision`.
- *Web front end*: it polls and posts; any client is a request process of the models.
- What models and embeddings answer: any plan, patch and ranking of the vector lane is
  possible, and every failure of the clients is a step. Prompts, schemas, batches and
  validation of vectors are left out.
- Arguments, environment and output formats of git and docker commands.
- The protocol of the parser process, qualified names, signatures and hashes of the index.
- `retrieval/evaluation.py`, an offline measurement.
- Validation of request bodies and settings, and the formatting of answers.

## 8. Plan

Done, in this order: `PlanningApproval` with `ApprovalLifecycle`; `ImplementationRun` with
`ImplementationLifecycle`; `RepositoryPipeline` with `TaskStages`; `StartupRecovery`;
`PatchFiles` and `TestRunner`; `SourceIndex`, `SourceChunks` and `HybridRanking`; and the
proofs of section 5.

What could follow: a second run per task in `ImplementationRun`, the parser process with its
limits as a protocol, floating-point ranks, and two deployments on one database, once
the code locks for that.
