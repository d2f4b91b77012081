-------------------------- MODULE RepositoryPipeline --------------------------
(*****************************************************************************)
(* From POST /tasks to a plan: tasks are put on a bounded queue in memory,   *)
(* one consumer clones the repository of each, indexes it, retrieves         *)
(* evidence from it and plans.  Rows of the database, the directory on disk  *)
(* and the worker tell different parts of the story; requests read the rows  *)
(* and the directory at any moment.                                          *)
(*                                                                           *)
(* What a file contains is named by the commit it was cloned from; an edit   *)
(* from outside makes it Edited.  Failure codes are kept apart by the stage  *)
(* that writes them.  Planning is one step here (PlanningApproval has the    *)
(* rest), and the planning queue appears as the recovery of an analyzing     *)
(* task after a restart.  No task is cloned twice, so the directory that     *)
(* finalize would find in its way does not exist.                            *)
(*****************************************************************************)
EXTENDS Naturals, Sequences

CONSTANTS
    Tasks,            \* tasks that may be created
    NoTask,           \* the worker holds none
    Commits,          \* HEADs the remote repository may have
    NoCommit,         \* a row that does not exist
    Readers,          \* GET requests that may be in flight at once
    QueueCapacity,    \* settings.clone_queue_capacity
    PlanningEnabled,  \* settings.planning_enabled
    FaultKinds,       \* failures the environment may inject
    MaxFaults         \* how many of them in one behaviour

ASSUME NameAssumption ==
    /\ NoTask \notin Tasks /\ NoCommit \notin Commits
    /\ {"absent", "edited", "broken", "lost"} \cap (Commits \cup {NoCommit}) = {}
ASSUME BoundAssumption == QueueCapacity \in Nat \ {0} /\ MaxFaults \in Nat
ASSUME SettingAssumption == PlanningEnabled \in BOOLEAN
ASSUME FaultAssumption == FaultKinds \subseteq {"crash", "database", "internal", "workspace"}

-----------------------------------------------------------------------------
\* REPOSITORY_ACTIVE_STATES.
Active  == {"queued", "cloning", "indexing", "retrieving", "analyzing"}
Settled == {"retrieved", "waiting_approval", "decision_pending", "recovery_blocked", "failed"}
Status  == {"absent", "created"} \cup Active \cup Settled

\* One code per stage for the errors a stage knows, and the two of the failure handler.
Escaped == {"DATABASE_UNAVAILABLE", "REPOSITORY_PIPELINE_FAILED"}
Codes == {"none", "CLONE_QUEUE_FULL", "CLONE_FAILED", "CODE_INDEX_FAILED",
          "WORKSPACE_INCONSISTENT", "RETRIEVAL_FAILED", "PLANNING_FAILED"} \cup Escaped

\* The published directory: not there yet, clean at a commit, with edited files, with
\* a .git that git cannot read, or gone.
Contents  == Commits \cup {"edited"}
Directory == Contents \cup {"absent", "broken", "lost"}

Stages == {"idle", "claim", "clone", "finalize", "publish", "head", "clean", "parse",
           "persist", "chunk", "rank", "plan", "planned", "fail", "handler"}
Views  == {"tree", "structure", "retrieval"}

VARIABLES
    status,    \* tasks.status
    code,      \* tasks.failure_code
    snapshot,  \* repository_snapshots.commit_sha
    index,     \* code_indexes.commit_sha
    parsed,    \* contents that the rows of the index describe (source_sha256)
    evidence,  \* retrieval_runs.commit_sha
    cited,     \* contents that the stored chunks were cut from
    staging,   \* staging directory of the task: none, empty or a clone
    repo,      \* its published directory
    post,      \* POST /tasks between its awaits
    queue,     \* RepositoryQueue
    pc,        \* stage of its consumer
    item,      \* the task it works on
    held,      \* commit or contents it has read
    why,       \* failure code it is about to store
    recovered, \* analyzing tasks the planning queue found at the start
    reading,   \* GET requests between their awaits, or with the answer they gave
    abandoned, \* tasks a crash or an unreachable database took from the worker
    faults     \* failures left to the environment

rows    == <<status, code, snapshot, index, parsed, evidence, cited>>
files   == <<staging, repo>>
worker  == <<pc, item, held, why>>
vars == <<rows, files, post, queue, worker, recovered, reading, abandoned, faults>>

Fault(kind) == kind \in FaultKinds /\ faults > 0 /\ faults' = faults - 1

NoRead == [step |-> "idle", view |-> "tree", task |-> NoTask, commit |-> NoCommit]

Init ==
    /\ status = [t \in Tasks |-> "absent"]
    /\ code = [t \in Tasks |-> "none"]
    /\ snapshot = [t \in Tasks |-> NoCommit]
    /\ index = [t \in Tasks |-> NoCommit] /\ parsed = [t \in Tasks |-> NoCommit]
    /\ evidence = [t \in Tasks |-> NoCommit] /\ cited = [t \in Tasks |-> NoCommit]
    /\ staging = [t \in Tasks |-> "none"]
    /\ repo = [t \in Tasks |-> "absent"]
    /\ post = [t \in Tasks |-> "none"]
    /\ queue = <<>>
    /\ pc = "idle" /\ item = NoTask /\ held = NoCommit /\ why = "none"
    /\ recovered = {}
    /\ reading = [r \in Readers |-> NoRead]
    /\ abandoned = {}
    /\ faults = MaxFaults

-----------------------------------------------------------------------------
(* Steps that several actions are made of.                                   *)

SetStatus(t, s, c) == status' = [status EXCEPT ![t] = s] /\ code' = [code EXCEPT ![t] = c]

\* The worker goes on at stage s; after the last one it lets go of the task.
Proceed(s) == pc' = s /\ why' = "none" /\ item' = IF s = "idle" THEN NoTask ELSE item

\* An error the stage knows: it will store the task as failed with code c.
Refuse(c) == pc' = "fail" /\ why' = c /\ held' = NoCommit /\ UNCHANGED item

\* An exception leaves RepositoryPipeline.process.
Escape(c) == pc' = "handler" /\ why' = c /\ held' = NoCommit /\ UNCHANGED item

Inconsistent == Refuse("WORKSPACE_INCONSISTENT")

\* A git command fails while a stage looks at the directory.  Index errors do not
\* include those of git; retrieval takes any error for its own.
GitError == \/ status[item] = "indexing" /\ Escape("REPOSITORY_PIPELINE_FAILED")
            \/ status[item] = "retrieving" /\ Refuse("RETRIEVAL_FAILED")

\* The rows are stored and the worker goes on at stage s, unless the answer of
\* the database is lost.
Committed(s) == \/ Proceed(s) /\ held' = NoCommit /\ UNCHANGED faults
                \/ Fault("database") /\ Escape("DATABASE_UNAVAILABLE")

\* git rev-parse HEAD in the directory of t.
HeadSha(t) == CASE repo[t] \in Commits   -> repo[t]
             [] repo[t] = "edited"    -> snapshot[t]
             [] OTHER                 -> NoCommit

-----------------------------------------------------------------------------
(* HTTP: POST /tasks creates the row, marks it queued and enqueues it, with  *)
(* a database call before each step.                                         *)

Post(t, from, to) == post[t] = from /\ post' = [post EXCEPT ![t] = to]

CreateTask(t) ==
    /\ Post(t, "none", "created")
    /\ SetStatus(t, "created", "none")
    /\ UNCHANGED <<snapshot, index, parsed, evidence, cited, files, queue, worker,
                   recovered, reading, abandoned, faults>>

MarkQueued(t) ==
    /\ Post(t, "created", "queued")
    /\ SetStatus(t, "queued", "none")
    /\ UNCHANGED <<snapshot, index, parsed, evidence, cited, files, queue, worker,
                   recovered, reading, abandoned, faults>>

\* Mutant: a full queue drops the task without a word.
EnqueueOrDrop(t) ==
    /\ Post(t, "queued", "answered")
    /\ queue' = IF Len(queue) < QueueCapacity THEN Append(queue, t) ELSE queue
    /\ UNCHANGED <<rows, files, worker, recovered, reading, abandoned, faults>>

\* Mutant: the queue has no limit.
EnqueueUnbounded(t) ==
    /\ Post(t, "queued", "answered")
    /\ queue' = Append(queue, t)
    /\ UNCHANGED <<rows, files, worker, recovered, reading, abandoned, faults>>

Enqueue(t) ==
    /\ \/ /\ Len(queue) < QueueCapacity
          /\ Post(t, "queued", "answered") /\ queue' = Append(queue, t)
       \/ /\ Len(queue) = QueueCapacity
          /\ Post(t, "queued", "full") /\ UNCHANGED queue
    /\ UNCHANGED <<rows, files, worker, recovered, reading, abandoned, faults>>

FailFull(t) ==
    /\ Post(t, "full", "answered")
    /\ SetStatus(t, "failed", "CLONE_QUEUE_FULL")
    /\ UNCHANGED <<snapshot, index, parsed, evidence, cited, files, queue, worker,
                   recovered, reading, abandoned, faults>>

\* 503 between two steps: the task keeps the status it has, and is on no queue.
PostFails(t) ==
    /\ Fault("database")
    /\ \E from \in {"created", "queued", "full"} : Post(t, from, "lost")
    /\ abandoned' = abandoned \cup {t}
    /\ UNCHANGED <<rows, files, queue, worker, recovered, reading>>

-----------------------------------------------------------------------------
(* Cloning: RepositoryService.clone_task.                                    *)

Take ==
    /\ pc = "idle" /\ queue # <<>>
    /\ item' = queue[1] /\ queue' = Tail(queue)
    /\ pc' = "claim"
    /\ UNCHANGED <<rows, files, post, held, why, recovered, reading, abandoned, faults>>

\* The task is marked before the staging directory is made.
Claim ==
    /\ pc = "claim" /\ status[item] = "queued"
    /\ SetStatus(item, "cloning", "none")
    /\ Committed("clone")
    /\ staging' = IF pc' = "clone" THEN [staging EXCEPT ![item] = "empty"] ELSE staging
    /\ UNCHANGED <<snapshot, index, parsed, evidence, cited, repo, post, queue, recovered,
                   reading, abandoned>>

\* Mutant: the snapshot is stored before the clone is moved into place.
ClonePublishedFirst ==
    /\ pc = "clone"
    /\ \E c \in Commits : held' = c
    /\ staging' = [staging EXCEPT ![item] = "clone"]
    /\ pc' = "publish"
    /\ UNCHANGED <<rows, repo, post, queue, item, why, recovered, reading, abandoned, faults>>

\* ls-remote, clone, rev-parse and ls-tree.
Clone ==
    /\ pc = "clone"
    /\ \E c \in Commits : held' = c
    /\ staging' = [staging EXCEPT ![item] = "clone"]
    /\ pc' = "finalize"
    /\ UNCHANGED <<rows, repo, post, queue, item, why, recovered, reading, abandoned, faults>>

\* Mutant: the staging directory is left behind.
CloneFailsUnclean ==
    /\ pc \in {"clone", "finalize"}
    /\ Refuse("CLONE_FAILED")
    /\ UNCHANGED <<rows, files, post, queue, recovered, reading, abandoned, faults>>

\* Git fails or times out, or the clone is beyond a limit of build_manifest.
CloneFails ==
    /\ pc \in {"clone", "finalize"}
    /\ staging' = [staging EXCEPT ![item] = "none"]
    /\ Refuse("CLONE_FAILED")
    /\ UNCHANGED <<rows, repo, post, queue, recovered, reading, abandoned, faults>>

\* os.replace: from here on the directory is the repository of the task.
Finalize ==
    /\ pc = "finalize"
    /\ staging' = [staging EXCEPT ![item] = "none"]
    /\ repo' = [repo EXCEPT ![item] = held]
    /\ pc' = "publish"
    /\ UNCHANGED <<rows, post, queue, item, held, why, recovered, reading, abandoned, faults>>

\* Snapshot and status in one transaction.
PublishSnapshot ==
    /\ pc = "publish"
    /\ snapshot' = [snapshot EXCEPT ![item] = held]
    /\ SetStatus(item, "indexing", "none")
    /\ Committed("head")
    /\ UNCHANGED <<index, parsed, evidence, cited, files, post, queue, recovered, reading,
                   abandoned>>

-----------------------------------------------------------------------------
(* Indexing and retrieval begin with verify_workspace: the directory exists, *)
(* its HEAD is the commit of the snapshot, and nothing in it is changed.     *)

AtCommit(t) == /\ HeadSha(t) = snapshot[t]
               /\ status[t] = "retrieving" => index[t] = snapshot[t]

CheckHead ==
    /\ pc = "head"
    /\ \/ AtCommit(item) /\ Proceed("clean") /\ UNCHANGED held
       \/ repo[item] # "broken" /\ ~AtCommit(item) /\ Inconsistent
       \/ repo[item] = "broken" /\ GitError
    /\ UNCHANGED <<rows, files, post, queue, recovered, reading, abandoned, faults>>

\* git status fails where there is no usable .git, and that counts as not clean;
\* without the directory the command cannot even be started.
CheckClean ==
    /\ pc = "clean"
    /\ \/ /\ repo[item] \in Commits
          /\ Proceed(IF status[item] = "indexing" THEN "parse" ELSE "chunk")
          /\ UNCHANGED held
       \/ repo[item] \in {"edited", "broken"} /\ Inconsistent
       \/ repo[item] = "lost" /\ GitError
    /\ UNCHANGED <<rows, files, post, queue, recovered, reading, abandoned, faults>>

\* Tracked paths, then the parser process reads the files.
Parse ==
    /\ pc = "parse"
    /\ \/ /\ repo[item] \in Contents
          /\ held' = repo[item] /\ pc' = "persist" /\ UNCHANGED <<item, why>>
       \/ repo[item] \notin Contents /\ GitError
    /\ UNCHANGED <<rows, files, post, queue, recovered, reading, abandoned, faults>>

\* A limit, no Python files, a timeout, a broken answer or an invalid hierarchy.
ParseFails ==
    /\ pc \in {"parse", "persist"}
    /\ Refuse("CODE_INDEX_FAILED")
    /\ UNCHANGED <<rows, files, post, queue, recovered, reading, abandoned, faults>>

\* Mutant: the task goes to analysis without retrieval.
PersistIndexAndSkip ==
    /\ pc = "persist"
    /\ index' = [index EXCEPT ![item] = snapshot[item]]
    /\ parsed' = [parsed EXCEPT ![item] = held]
    /\ SetStatus(item, "analyzing", "none")
    /\ Committed("plan")
    /\ UNCHANGED <<snapshot, evidence, cited, files, post, queue, recovered, reading, abandoned>>

\* The old index is deleted, the new one and the status stored: one transaction.
PersistIndex ==
    /\ pc = "persist"
    /\ index' = [index EXCEPT ![item] = snapshot[item]]
    /\ parsed' = [parsed EXCEPT ![item] = held]
    /\ SetStatus(item, "retrieving", "none")
    /\ Committed("head")
    /\ UNCHANGED <<snapshot, evidence, cited, files, post, queue, recovered, reading, abandoned>>

\* Mutant: a chunk is cut from whatever the file holds now.
BuildChunksUnchecked ==
    /\ pc = "chunk"
    /\ \/ /\ repo[item] \in Contents
          /\ held' = repo[item] /\ pc' = "rank" /\ UNCHANGED <<item, why>>
       \/ repo[item] \notin Contents /\ GitError
    /\ UNCHANGED <<rows, files, post, queue, recovered, reading, abandoned, faults>>

\* Each source is read again and must have the hash that the index stored.
BuildChunks ==
    /\ pc = "chunk"
    /\ \/ /\ repo[item] = parsed[item]
          /\ held' = repo[item] /\ pc' = "rank" /\ UNCHANGED <<item, why>>
       \/ repo[item] \in Contents /\ repo[item] # parsed[item] /\ Inconsistent
       \/ repo[item] \notin Contents /\ GitError
    /\ UNCHANGED <<rows, files, post, queue, recovered, reading, abandoned, faults>>

\* No chunks or too many, no answer or a bad one from the model, a constraint violated.
RetrievalFails ==
    /\ pc \in {"chunk", "rank"}
    /\ Refuse("RETRIEVAL_FAILED")
    /\ UNCHANGED <<rows, files, post, queue, recovered, reading, abandoned, faults>>

\* The chunks are embedded and ranked; then old run and chunks are deleted, the new
\* ones and the status stored.
PersistRetrieval ==
    /\ pc = "rank"
    /\ evidence' = [evidence EXCEPT ![item] = snapshot[item]]
    /\ cited' = [cited EXCEPT ![item] = held]
    /\ SetStatus(item, IF PlanningEnabled THEN "analyzing" ELSE "retrieved", "none")
    /\ Committed(IF PlanningEnabled THEN "plan" ELSE "idle")
    /\ UNCHANGED <<snapshot, index, parsed, files, post, queue, recovered, reading, abandoned>>

-----------------------------------------------------------------------------
(* Planning, as far as the pipeline sees it.                                 *)

\* The plan and the status are stored by a node of the graph.
PersistPlan ==
    /\ pc = "plan"
    /\ SetStatus(item, "waiting_approval", "none")
    /\ Committed("planned")
    /\ UNCHANGED <<snapshot, index, parsed, evidence, cited, files, post, queue, recovered,
                   reading, abandoned>>

PlanFails ==
    /\ pc = "plan"
    /\ Refuse("PLANNING_FAILED")
    /\ UNCHANGED <<rows, files, post, queue, recovered, reading, abandoned, faults>>

\* The checkpoint behind the node is written and the graph returns.
FinishPlan ==
    /\ pc = "planned" /\ Proceed("idle")
    /\ UNCHANGED <<rows, files, post, queue, held, recovered, reading, abandoned, faults>>

\* Meanwhile a client may decide about the plan it sees.
Decide(t) ==
    /\ status[t] = "waiting_approval"
    /\ SetStatus(t, "decision_pending", "none")
    /\ UNCHANGED <<snapshot, index, parsed, evidence, cited, files, post, queue, worker,
                   recovered, reading, abandoned, faults>>

-----------------------------------------------------------------------------
(* Failures.                                                                 *)

\* Mutant: a failed task is cleaned of its evidence.
RecordFailureAndClean ==
    /\ pc = "fail"
    /\ SetStatus(item, "failed", why)
    /\ index' = [index EXCEPT ![item] = NoCommit]
    /\ Committed("idle")
    /\ UNCHANGED <<snapshot, parsed, evidence, cited, files, post, queue, recovered,
                   reading, abandoned>>

\* The stage stores the code of the error it caught; the later stages return at once.
RecordFailure ==
    /\ pc = "fail"
    /\ SetStatus(item, "failed", why)
    /\ Committed("idle")
    /\ UNCHANGED <<snapshot, index, parsed, evidence, cited, files, post, queue, recovered,
                   reading, abandoned>>

\* A database call ends in an error before anything is stored.
DatabaseFails ==
    /\ pc \in {"claim", "publish", "head", "persist", "rank", "plan", "fail"}
    /\ Fault("database") /\ Escape("DATABASE_UNAVAILABLE")
    /\ UNCHANGED <<rows, files, post, queue, recovered, reading, abandoned>>

\* A git command times out or git is not there, while a stage looks at the directory.
GitFails ==
    /\ pc \in {"head", "clean", "parse", "chunk"}
    /\ Fault("internal") /\ GitError
    /\ UNCHANGED <<rows, files, post, queue, recovered, reading, abandoned>>

\* An error nobody expects: of the file system, or of the graph behind its last node.
InternalError ==
    /\ pc \in {"clone", "finalize", "parse", "planned"}
    /\ Fault("internal") /\ Escape("REPOSITORY_PIPELINE_FAILED")
    /\ UNCHANGED <<rows, files, post, queue, recovered, reading, abandoned>>

\* Mutant: the handler overwrites whatever it finds.
MarkFailedAlways ==
    /\ pc = "handler"
    /\ SetStatus(item, "failed", why)
    /\ Proceed("idle")
    /\ UNCHANGED <<snapshot, index, parsed, evidence, cited, files, post, queue, held,
                   recovered, reading, abandoned, faults>>

\* Mutant: the handler was not told of the stage retrieval added.
MarkFailedBeforeRetrieval ==
    /\ pc = "handler"
    /\ \/ status[item] \in {"queued", "cloning", "indexing"} /\ SetStatus(item, "failed", why)
       \/ status[item] \notin {"queued", "cloning", "indexing"} /\ UNCHANGED <<status, code>>
    /\ Proceed("idle")
    /\ UNCHANGED <<snapshot, index, parsed, evidence, cited, files, post, queue, held,
                   recovered, reading, abandoned, faults>>

\* mark_repository_task_failed: one conditional update in a session of its own.
MarkFailed ==
    /\ pc = "handler"
    /\ \/ status[item] \in Active /\ SetStatus(item, "failed", why)
       \/ status[item] \notin Active /\ UNCHANGED <<status, code>>
    /\ Proceed("idle")
    /\ UNCHANGED <<snapshot, index, parsed, evidence, cited, files, post, queue, held,
                   recovered, reading, abandoned, faults>>

\* The handler fails too, and this is only logged.
HandlerFails ==
    /\ pc = "handler" /\ Fault("database")
    /\ abandoned' = abandoned \cup {item}
    /\ Proceed("idle")
    /\ UNCHANGED <<rows, files, post, queue, held, recovered, reading>>

\* Somebody edits, moves or removes the published directory, or restores it.
Tamper(t) ==
    /\ Fault("workspace")
    /\ repo[t] # "absent"
    /\ \E d \in Directory \ {"absent", repo[t]} : repo' = [repo EXCEPT ![t] = d]
    /\ UNCHANGED <<rows, staging, post, queue, worker, recovered, reading, abandoned>>

\* The process dies and starts again.  Nothing looks for tasks before analyzing.
CrashRestart ==
    /\ Fault("crash")
    /\ recovered' = {t \in Tasks : status[t] = "analyzing"}
    /\ abandoned' = (abandoned \cup {t \in Tasks : status[t] \in Active}) \ recovered'
    /\ post' = [t \in Tasks |-> IF post[t] \in {"none", "answered"} THEN post[t] ELSE "lost"]
    /\ queue' = <<>>
    /\ pc' = "idle" /\ item' = NoTask /\ held' = NoCommit /\ why' = "none"
    /\ reading' = [r \in Readers |-> IF reading[r].step = "answered" THEN reading[r] ELSE NoRead]
    /\ UNCHANGED <<rows, files>>

\* The planning queue runs plan_task for a task it found at the start.
RecoverPlanning(t) ==
    /\ t \in recovered
    /\ \/ SetStatus(t, "waiting_approval", "none")
       \/ SetStatus(t, "failed", "PLANNING_FAILED")
       \/ SetStatus(t, "recovery_blocked", "none")
    /\ recovered' = recovered \ {t}
    /\ UNCHANGED <<snapshot, index, parsed, evidence, cited, files, post, queue, worker,
                   reading, abandoned, faults>>

\* It meets an infrastructure error, which it logs and drops.
RecoveryDropped(t) ==
    /\ t \in recovered /\ Fault("database")
    /\ recovered' = recovered \ {t} /\ abandoned' = abandoned \cup {t}
    /\ UNCHANGED <<rows, files, post, queue, worker, reading>>

-----------------------------------------------------------------------------
(* HTTP: the three GET requests for evidence.  Each reads rows, then looks   *)
(* at the directory, and answers 200 or an error.                            *)

FirstRow(t, v) == IF v = "retrieval" THEN evidence[t] ELSE snapshot[t]

GoOn(r, step) == reading' = [reading EXCEPT ![r].step = step]
ReadFails(r)  == reading' = [reading EXCEPT ![r] = NoRead]

StartRead(r, t, v) ==
    /\ reading[r].step \in {"idle", "answered"} /\ FirstRow(t, v) # NoCommit
    /\ reading' = [reading EXCEPT ![r] =
           [step |-> IF v = "tree" THEN "head" ELSE "rows", view |-> v, task |-> t,
            commit |-> FirstRow(t, v)]]
    /\ UNCHANGED <<rows, files, post, queue, worker, recovered, abandoned, faults>>

\* The rows that have to agree with the first one.
RowsAgree(t, v, c) == index[t] = c /\ (v = "retrieval" => snapshot[t] = c)

ReadRows(r) ==
    LET read == reading[r]
        agree == RowsAgree(read.task, read.view, read.commit)
    IN  /\ read.step = "rows"
        /\ \/ agree /\ GoOn(r, "head")
           \/ ~agree /\ ReadFails(r)
        /\ UNCHANGED <<rows, files, post, queue, worker, recovered, abandoned, faults>>

ReadHead(r) ==
    LET read == reading[r]
        agree == HeadSha(read.task) = read.commit
    IN  /\ read.step = "head"
        /\ \/ agree /\ GoOn(r, "clean")
           \/ ~agree /\ ReadFails(r)
        /\ UNCHANGED <<rows, files, post, queue, worker, recovered, abandoned, faults>>

ReadClean(r) ==
    LET clean == repo[reading[r].task] \in Commits
    IN  /\ reading[r].step = "clean"
        /\ \/ clean /\ GoOn(r, "answered")
           \/ ~clean /\ ReadFails(r)
        /\ UNCHANGED <<rows, files, post, queue, worker, recovered, abandoned, faults>>

-----------------------------------------------------------------------------
Request(t) == MarkQueued(t) \/ Enqueue(t) \/ FailFull(t)

Consume == \/ Take \/ Claim \/ Clone \/ CloneFails \/ Finalize \/ PublishSnapshot
           \/ CheckHead \/ CheckClean \/ Parse \/ ParseFails \/ PersistIndex
           \/ BuildChunks \/ RetrievalFails \/ PersistRetrieval
           \/ PersistPlan \/ PlanFails \/ FinishPlan \/ RecordFailure \/ MarkFailed

Trouble == DatabaseFails \/ GitFails \/ InternalError \/ HandlerFails \/ CrashRestart

Reading(r) == \/ \E t \in Tasks, v \in Views : StartRead(r, t, v)
              \/ ReadRows(r) \/ ReadHead(r) \/ ReadClean(r)

Next ==
    \/ \E t \in Tasks : \/ CreateTask(t) \/ Request(t) \/ PostFails(t) \/ Decide(t)
                        \/ Tamper(t) \/ RecoverPlanning(t) \/ RecoveryDropped(t)
    \/ Consume
    \/ Trouble
    \/ \E r \in Readers : Reading(r)

Spec == Init /\ [][Next]_vars

\* The consumer and the accepted requests run as coroutines that are always resumed.
FairSpec == /\ Spec
            /\ WF_vars(Consume)
            /\ \A t \in Tasks : WF_vars(Request(t)) /\ WF_vars(RecoverPlanning(t))

-----------------------------------------------------------------------------
(* Properties.                                                               *)

\* Every variable has its type.
TypeOK ==
    /\ status \in [Tasks -> Status] /\ code \in [Tasks -> Codes]
    /\ snapshot \in [Tasks -> Commits \cup {NoCommit}]
    /\ index \in [Tasks -> Commits \cup {NoCommit}]
    /\ parsed \in [Tasks -> Contents \cup {NoCommit}]
    /\ evidence \in [Tasks -> Commits \cup {NoCommit}]
    /\ cited \in [Tasks -> Contents \cup {NoCommit}]
    /\ staging \in [Tasks -> {"none", "empty", "clone"}]
    /\ repo \in [Tasks -> Directory]
    /\ post \in [Tasks -> {"none", "created", "queued", "full", "answered", "lost"}]
    /\ queue \in Seq(Tasks) /\ Len(queue) <= QueueCapacity
    /\ pc \in Stages /\ item \in Tasks \cup {NoTask}
    /\ held \in Contents \cup {NoCommit} /\ why \in Codes
    /\ recovered \in SUBSET Tasks /\ abandoned \in SUBSET Tasks
    /\ reading \in [Readers -> [step : {"idle", "rows", "head", "clean", "answered"},
                                view : Views, task : Tasks \cup {NoTask},
                                commit : Commits \cup {NoCommit}]]
    /\ faults \in 0..MaxFaults

\* Evidence is about the commit of its index, and both about the snapshot; what the
\* chunks were cut from is what the index describes, however the files changed
\* between two looks at them (persist_retrieval, build_python_chunks).
EvidenceAgrees ==
    \A t \in Tasks :
        /\ index[t] # NoCommit => index[t] = snapshot[t]
        /\ evidence[t] # NoCommit => evidence[t] = index[t] /\ cited[t] = parsed[t]

\* A status promises the rows and the directory of the stages behind it, and nothing
\* of the stages before it is stored early; also while transactions fail and the
\* process restarts (clone_task, _persist_result, persist_retrieval).
RowsFollowStatus ==
    \A t \in Tasks :
        /\ snapshot[t] # NoCommit => repo[t] # "absent" /\ staging[t] = "none"
        /\ status[t] \in {"absent", "created", "queued", "cloning"} => snapshot[t] = NoCommit
        /\ status[t] = "indexing" => snapshot[t] # NoCommit /\ index[t] = NoCommit
        /\ status[t] = "retrieving" => index[t] # NoCommit /\ evidence[t] = NoCommit
        /\ status[t] \in {"analyzing"} \cup (Settled \ {"failed"}) => evidence[t] # NoCommit

\* The stored failure code names the stage that failed: what was published before it
\* is still there, what it would have published is not, and a known clone error
\* leaves no staging directory (_failure_code of the three services).
FailureExplained ==
    \A t \in Tasks :
        /\ code[t] # "none" <=> status[t] = "failed"
        /\ code[t] \in {"CLONE_QUEUE_FULL", "CLONE_FAILED"} =>
               snapshot[t] = NoCommit /\ repo[t] = "absent" /\ staging[t] = "none"
        /\ code[t] = "CODE_INDEX_FAILED" => snapshot[t] # NoCommit /\ index[t] = NoCommit
        /\ code[t] = "RETRIEVAL_FAILED" => index[t] # NoCommit /\ evidence[t] = NoCommit
        /\ code[t] = "WORKSPACE_INCONSISTENT" => snapshot[t] # NoCommit /\ evidence[t] = NoCommit
        /\ code[t] = "PLANNING_FAILED" => evidence[t] # NoCommit

Queued(t) == \E i \in 1..Len(queue) : queue[i] = t

\* An active status stands for work that somebody still does: a request, the queue, the
\* worker or the recovery after a start.  Only a crash, and an unreachable database
\* when the failure is to be stored, leave an active status behind (_consume,
\* _handle_failure, mark_repository_task_failed).
NoFalseActive ==
    \A t \in Tasks :
        status[t] \in Active => \/ post[t] \in {"queued", "full"}
                                \/ Queued(t) \/ item = t
                                \/ t \in recovered \cup abandoned

\* Whatever a successful read told a client about a task can be read for ever: failures
\* and restarts take back no evidence (get_tree, get_structure, get_retrieval).
Stored(t, v) == CASE v = "tree"      -> snapshot[t]
                  [] v = "structure" -> index[t]
                  [] v = "retrieval" -> evidence[t]
ToldStaysTrue ==
    \A r \in Readers :
        reading[r].step = "answered" =>
            LET read == reading[r]
            IN  Stored(read.task, read.view) = read.commit /\ snapshot[read.task] = read.commit

\* No late failure and no late worker touches a settled task: a failed one stays failed
\* with its first code, and one with a plan only moves on by a decision
\* (set_failure_if_status_in against set_status of the stages).
SettledStays ==
    [][\A t \in Tasks : status[t] \in Settled =>
           \/ status'[t] = status[t] /\ code'[t] = code[t]
           \/ status[t] = "waiting_approval" /\ status'[t] = "decision_pending"]_vars

\* A task that is queued reaches a plan or a stored failure, or a crash or an unreachable
\* database has taken it from the worker (process, _consume).
QueuedSettles ==
    \A t \in Tasks : status[t] = "queued" ~> status[t] \in Settled \/ t \in abandoned

\* The pipeline does to every task what TaskStages promises to its client.
Shown(t) == {v \in Views : Stored(t, v) # NoCommit /\ Stored(t, v) = snapshot[t]}
Lifecycle == INSTANCE TaskStages WITH
    stage <- status, commit <- snapshot, evidence <- [t \in Tasks |-> Shown(t)]
ImplementsStages == Lifecycle!Spec

===============================================================================
