----------------------- MODULE RepositoryPipelineProofs -----------------------
(*****************************************************************************)
(* The safety properties of RepositoryPipeline, for every number of tasks,   *)
(* commits and readers, every capacity and every number and kind of failures.*)
(*                                                                           *)
(* Rows is what holds of a task by itself, Ownership says who may work on    *)
(* it, Knowledge what the worker may rely on between two stages, Promised    *)
(* what a GET request has found so far.                                      *)
(*****************************************************************************)
EXTENDS RepositoryPipeline, TLAPS

\* The story a task's rows and directories tell together: EvidenceAgrees, RowsFollowStatus
\* and FailureExplained, and that rows are written in the order of the stages.
Story(t) ==
    /\ status[t] \in {"absent", "created", "queued"} => repo[t] = "absent" /\ staging[t] = "none"
    /\ snapshot[t] = NoCommit => index[t] = NoCommit
    /\ index[t] = NoCommit => evidence[t] = NoCommit
    /\ index[t] # NoCommit => index[t] = snapshot[t]
    /\ evidence[t] # NoCommit => evidence[t] = index[t] /\ cited[t] = parsed[t]
    /\ snapshot[t] # NoCommit => repo[t] # "absent" /\ staging[t] = "none"
    /\ status[t] \in {"absent", "created", "queued", "cloning"} => snapshot[t] = NoCommit
    /\ status[t] = "indexing" => snapshot[t] # NoCommit /\ index[t] = NoCommit
    /\ status[t] = "retrieving" => index[t] # NoCommit /\ evidence[t] = NoCommit
    /\ status[t] \in {"analyzing"} \cup (Settled \ {"failed"}) => evidence[t] # NoCommit
    /\ code[t] # "none" <=> status[t] = "failed"
    /\ code[t] \in {"CLONE_QUEUE_FULL", "CLONE_FAILED"} =>
           snapshot[t] = NoCommit /\ repo[t] = "absent" /\ staging[t] = "none"
    /\ code[t] = "CODE_INDEX_FAILED" => snapshot[t] # NoCommit /\ index[t] = NoCommit
    /\ code[t] = "RETRIEVAL_FAILED" => index[t] # NoCommit /\ evidence[t] = NoCommit
    /\ code[t] = "WORKSPACE_INCONSISTENT" => snapshot[t] # NoCommit /\ evidence[t] = NoCommit
    /\ code[t] = "PLANNING_FAILED" => evidence[t] # NoCommit

Rows == \A t \in Tasks : Story(t)

\* A task is in one place: with its request, in the queue, with the worker or recovered.
Place(t) ==
    /\ post[t] = "none" => status[t] = "absent"
    /\ post[t] = "created" => status[t] = "created"
    /\ post[t] \in {"queued", "full"} => status[t] = "queued"
    /\ post[t] # "answered" => ~Queued(t) /\ item # t
    /\ Queued(t) => status[t] = "queued" /\ item # t
    /\ t \in recovered => status[t] = "analyzing" /\ item # t

Ownership == /\ \A t \in Tasks : Place(t)
             /\ \A i, j \in 1 .. Len(queue) : queue[i] = queue[j] => i = j

\* A failure code is stored only where it explains something.
Explains(c) ==
    \/ c = "CLONE_FAILED" /\ status[item] = "cloning"
         /\ repo[item] = "absent" /\ staging[item] = "none"
    \/ c = "CODE_INDEX_FAILED" /\ status[item] = "indexing"
    \/ c = "WORKSPACE_INCONSISTENT" /\ status[item] \in {"indexing", "retrieving"}
    \/ c = "RETRIEVAL_FAILED" /\ status[item] = "retrieving"
    \/ c = "PLANNING_FAILED" /\ status[item] = "analyzing"

Knowledge ==
    /\ pc = "idle" <=> item = NoTask
    /\ pc = "claim" => status[item] = "queued"
    /\ pc \in {"clone", "finalize"} => status[item] = "cloning" /\ repo[item] = "absent"
    /\ pc = "publish" => status[item] = "cloning" /\ repo[item] # "absent" /\ staging[item] = "none"
    /\ pc \in {"head", "clean"} => status[item] \in {"indexing", "retrieving"}
    /\ pc \in {"parse", "persist"} => status[item] = "indexing"
    /\ pc \in {"chunk", "rank"} => status[item] = "retrieving"
    /\ pc = "plan" => status[item] = "analyzing"
    /\ pc = "planned" => status[item] \in {"waiting_approval", "decision_pending"}
    /\ pc \in {"finalize", "publish"} => held \in Commits
    /\ pc \in {"persist", "rank"} => held \in Contents
    /\ pc = "rank" => held = parsed[item]
    /\ pc = "fail" => Explains(why)
    /\ pc = "handler" => why \in Escaped

Promised(read) ==
    /\ read.step # "idle" => read.task \in Tasks /\ read.commit # NoCommit
    /\ read.step = "rows" => FirstRow(read.task, read.view) = read.commit
    /\ read.step \in {"head", "clean", "answered"} =>
           Stored(read.task, read.view) = read.commit /\ snapshot[read.task] = read.commit

Promises == \A r \in Readers : Promised(reading[r])

IInv == TypeOK /\ Rows /\ Ownership /\ NoFalseActive /\ Knowledge /\ Promises

-----------------------------------------------------------------------------
(* What a step leaves alone.                                                 *)

USE DEF rows, files, worker, SetStatus, Post, Fault, Proceed, Refuse, Escape, Inconsistent

Same(t) == /\ status'[t] = status[t] /\ code'[t] = code[t] /\ snapshot'[t] = snapshot[t]
           /\ index'[t] = index[t] /\ parsed'[t] = parsed[t] /\ evidence'[t] = evidence[t]
           /\ cited'[t] = cited[t] /\ staging'[t] = staging[t] /\ repo'[t] = repo[t]

Kept(t) == /\ snapshot[t] # NoCommit => snapshot'[t] = snapshot[t]
           /\ index[t] # NoCommit => index'[t] = index[t]
           /\ evidence[t] # NoCommit => evidence'[t] = evidence[t]

LEMMA RowsOfOne ==
    ASSUME Rows, NEW x \in Tasks, \A t \in Tasks \ {x} : Same(t), Story(x)'
    PROVE  Rows'
<1> SUFFICES ASSUME NEW t \in Tasks, t # x PROVE Story(t)'
  BY DEF Rows
<1> QED
  BY DEF Rows, Story, Same

LEMMA RowsQuiet == ASSUME Rows, UNCHANGED <<rows, files>> PROVE Rows'
BY DEF Rows, Story

LEMMA QueueQuiet == ASSUME UNCHANGED queue PROVE \A t : Queued(t)' = Queued(t)
BY DEF Queued

\* The worker moves its own task on, or lets go of it.
LEMMA OwnedByWorker ==
    ASSUME Ownership, item \in Tasks, NoTask \notin Tasks, item' \in {item, NoTask},
           \A t \in Tasks \ {item} : status'[t] = status[t],
           UNCHANGED <<post, queue, recovered>>
    PROVE  Ownership'
<1>1. \A t : Queued(t)' = Queued(t)
  BY QueueQuiet
<1>2. ASSUME NEW t \in Tasks PROVE Place(t)'
  BY <1>1 DEF Ownership, Place
<1> QED
  BY <1>2 DEF Ownership

LEMMA ActiveByWorker ==
    ASSUME NoFalseActive, item \in Tasks, abandoned \subseteq abandoned',
           \A t \in Tasks \ {item} : status'[t] = status[t],
           item' = item \/ status'[item] \notin Active \/ item \in abandoned',
           UNCHANGED <<post, queue, recovered>>
    PROVE  NoFalseActive'
<1>1. \A t : Queued(t)' = Queued(t)
  BY QueueQuiet
<1> QED
  BY <1>1 DEF NoFalseActive

\* A request moves its task on.
LEMMA OwnedByRequest ==
    ASSUME Ownership, NEW x \in Tasks, post[x] \in {"none", "created", "queued", "full"},
           \A t \in Tasks \ {x} : status'[t] = status[t] /\ post'[t] = post[t],
           post'[x] = "none" => status'[x] = "absent",
           post'[x] = "created" => status'[x] = "created",
           post'[x] \in {"queued", "full"} => status'[x] = "queued",
           UNCHANGED <<queue, item, recovered>>
    PROVE  Ownership'
<1>1. \A t : Queued(t)' = Queued(t)
  BY QueueQuiet
<1>2. ASSUME NEW t \in Tasks PROVE Place(t)'
  BY <1>1 DEF Ownership, Place
<1> QED
  BY <1>2 DEF Ownership

LEMMA NotWithWorker ==
    ASSUME Ownership, NEW x \in Tasks, post[x] # "answered" \/ x \in recovered
    PROVE  item # x
BY DEF Ownership, Place

\* What the worker knows stays true while nobody touches its task.
LEMMA KnowledgeKept ==
    ASSUME Knowledge, UNCHANGED worker, item = NoTask \/ Same(item)
    PROVE  Knowledge'
<1>1. CASE pc = "idle"
  BY <1>1 DEF Knowledge
<1>2. CASE pc # "idle"
  <2>1. Same(item)
    BY <1>2 DEF Knowledge
  <2> QED
    BY <1>2, <2>1 DEF Knowledge, Explains, Same
<1> QED
  BY <1>1, <1>2

\* A GET request may rely on what it has found.
LEMMA PromisesKept ==
    ASSUME TypeOK, Promises, UNCHANGED reading, \A t \in Tasks : Kept(t)
    PROVE  Promises'
<1> SUFFICES ASSUME NEW r \in Readers PROVE Promised(reading[r])'
  BY DEF Promises
<1> DEFINE read == reading[r]
<1>1. Promised(read) /\ reading'[r] = read
  BY DEF Promises
<1>2. CASE read.step = "idle"
  BY <1>1, <1>2 DEF Promised
<1>3. CASE read.step # "idle"
  <2>0. read.view \in Views
    BY DEF TypeOK
  <2>1. Kept(read.task) /\ read.commit # NoCommit
    BY <1>1, <1>3 DEF Promised
  <2>2. CASE read.step = "rows"
    <3>1. FirstRow(read.task, read.view)' = read.commit
      BY <1>1, <2>1, <2>2 DEF Promised, Kept, FirstRow
    <3> QED
      BY <1>1, <2>2, <3>1 DEF Promised
  <2>3. CASE read.step \in {"head", "clean", "answered"}
    <3>1. Stored(read.task, read.view)' = read.commit
      BY <1>1, <2>0, <2>1, <2>3 DEF Promised, Kept, Stored, Views
    <3>2. snapshot'[read.task] = read.commit
      BY <1>1, <2>1, <2>3 DEF Promised, Kept
    <3> QED
      BY <1>1, <2>3, <3>1, <3>2 DEF Promised
  <2>4. CASE read.step \notin {"idle", "rows", "head", "clean", "answered"}
    BY <1>1, <1>3, <2>4 DEF Promised
  <2> QED
    BY <1>3, <2>2, <2>3, <2>4
<1> QED
  BY <1>2, <1>3

LEMMA SameKept == ASSUME NEW t, Same(t) PROVE Kept(t)
BY DEF Same, Kept

-----------------------------------------------------------------------------
(* Requests.                                                                 *)

\* Before POST is answered nobody else has the task.
LEMMA RequestStep ==
    ASSUME IInv, NEW x \in Tasks, post[x] \in {"none", "created", "queued", "full"},
           TypeOK', Story(x)', Kept(x),
           \A t \in Tasks \ {x} : Same(t) /\ post'[t] = post[t],
           post'[x] = "none" => status'[x] = "absent",
           post'[x] = "created" => status'[x] = "created",
           post'[x] \in {"queued", "full"} => status'[x] = "queued",
           status'[x] \in Active => post'[x] \in {"queued", "full"} \/ x \in abandoned',
           abandoned \subseteq abandoned',
           UNCHANGED <<queue, worker, recovered, reading>>
    PROVE  IInv'
<1>0. TypeOK /\ Rows /\ Ownership /\ NoFalseActive /\ Knowledge /\ Promises
  BY DEF IInv
<1>1. Rows'
  BY <1>0, RowsOfOne
<1>2. Ownership'
  BY <1>0, OwnedByRequest DEF Same
<1>3. Knowledge'
  <2>1. item # x
    BY <1>0, NotWithWorker
  <2>2. item = NoTask \/ Same(item)
    BY <1>0, <2>1 DEF TypeOK
  <2> QED
    BY <1>0, <2>2, KnowledgeKept
<1>4. Promises'
  BY <1>0, PromisesKept, SameKept
<1>5. NoFalseActive'
  <2>1. \A t : Queued(t)' = Queued(t)
    BY QueueQuiet
  <2> QED
    BY <1>0, <2>1 DEF NoFalseActive, Same
<1> QED
  BY <1>1, <1>2, <1>3, <1>4, <1>5 DEF IInv

\* What holds of a task whose request is under way.
LEMMA PendingFacts ==
    ASSUME TypeOK, Rows, Ownership, NEW x \in Tasks, post[x] \in {"none", "created", "queued", "full"}
    PROVE  /\ status[x] \in {"absent", "created", "queued"} /\ code[x] = "none"
           /\ post[x] = "none" => status[x] = "absent"
           /\ post[x] = "created" => status[x] = "created"
           /\ post[x] \in {"queued", "full"} => status[x] = "queued"
           /\ snapshot[x] = NoCommit /\ repo[x] = "absent" /\ staging[x] = "none"
           /\ index[x] = NoCommit /\ evidence[x] = NoCommit
BY DEF Ownership, Place, Rows, Story

LEMMA RequestWrites ==
    ASSUME IInv, NEW x \in Tasks,
           NEW s \in {"created", "queued", "failed"},
           NEW c \in {"none", "CLONE_QUEUE_FULL"}, s = "failed" <=> c = "CLONE_QUEUE_FULL",
           NEW from \in {"none", "created", "full"}, NEW to \in {"created", "queued", "answered"},
           Post(x, from, to), SetStatus(x, s, c), s # "failed" => to = s, s = "failed" => to = "answered",
           UNCHANGED <<snapshot, index, parsed, evidence, cited, files, queue, worker,
                   recovered, reading, abandoned, faults>>
    PROVE  IInv'
<1>0. TypeOK /\ Rows /\ Ownership
  BY DEF IInv
<1>1. TypeOK'
  BY <1>0 DEF TypeOK, Status, Codes, Active, Settled, Escaped
<1>2. /\ status'[x] = s /\ code'[x] = c /\ post[x] = from /\ post'[x] = to
      /\ \A t \in Tasks \ {x} : Same(t) /\ post'[t] = post[t]
  BY <1>0 DEF TypeOK, Same
<1>3. /\ snapshot'[x] = NoCommit /\ repo'[x] = "absent" /\ staging'[x] = "none"
      /\ index'[x] = NoCommit /\ evidence'[x] = NoCommit
  BY <1>0, <1>2, PendingFacts
<1>4. Story(x)'
  BY <1>2, <1>3 DEF Story, Settled
<1>5. Kept(x)
  BY DEF Kept
<1> QED
  BY <1>1, <1>2, <1>4, <1>5, RequestStep DEF Active

LEMMA InvPostFails == ASSUME IInv, NEW x \in Tasks, PostFails(x) PROVE IInv'
<1>0. TypeOK /\ Rows
  BY DEF IInv
<1>1. TypeOK'
  BY <1>0, BoundAssumption DEF TypeOK, PostFails
<1>2. PICK from \in {"created", "queued", "full"} : Post(x, from, "lost")
  BY DEF PostFails
<1>3. /\ post[x] = from /\ post'[x] = "lost" /\ \A t \in Tasks \ {x} : post'[t] = post[t]
      /\ \A t \in Tasks : Same(t)
  BY <1>0, <1>2 DEF TypeOK, Same, PostFails
<1>4. Story(x)' /\ Kept(x)
  BY <1>0, <1>3, SameKept, RowsQuiet DEF Rows, PostFails
<1> QED
  BY <1>1, <1>3, <1>4, RequestStep DEF PostFails

\* The queue holds what it held, and the task behind it.
LEMMA QueueGrows ==
    ASSUME NEW q \in Seq(Tasks), NEW x \in Tasks
    PROVE  /\ Append(q, x) \in Seq(Tasks) /\ Len(Append(q, x)) = Len(q) + 1
           /\ \A i \in 1 .. Len(q) : Append(q, x)[i] = q[i]
           /\ Append(q, x)[Len(q) + 1] = x /\ Len(q) \in Nat
OBVIOUS

LEMMA InvEnqueue == ASSUME IInv, NEW x \in Tasks, Enqueue(x) PROVE IInv'
<1>0. TypeOK /\ Rows /\ Ownership /\ NoFalseActive /\ Knowledge /\ Promises
  BY DEF IInv
<1>1. CASE Len(queue) = QueueCapacity /\ Post(x, "queued", "full") /\ UNCHANGED queue
  <2>1. TypeOK'
    BY <1>0, <1>1 DEF TypeOK, Enqueue
  <2>2. /\ post[x] = "queued" /\ post'[x] = "full" /\ \A t \in Tasks \ {x} : post'[t] = post[t]
        /\ \A t \in Tasks : Same(t)
    BY <1>0, <1>1 DEF TypeOK, Same, Enqueue
  <2>3. Story(x)' /\ Kept(x)
    BY <1>0, <2>2, SameKept, RowsQuiet DEF Rows, Enqueue
  <2>4. status'[x] = "queued"
    BY <1>0, <2>2, PendingFacts DEF Same
  <2> QED
    BY <1>1, <2>1, <2>2, <2>3, <2>4, RequestStep DEF Enqueue
<1>2. CASE /\ Len(queue) < QueueCapacity
           /\ Post(x, "queued", "answered") /\ queue' = Append(queue, x)
  <2>1. queue \in Seq(Tasks) /\ Len(queue) \in Nat
    BY <1>0 DEF TypeOK
  <2>2. /\ Len(queue') = Len(queue) + 1 /\ queue' \in Seq(Tasks)
        /\ \A i \in 1 .. Len(queue) : queue'[i] = queue[i]
        /\ queue'[Len(queue) + 1] = x
    BY <1>2, <2>1, QueueGrows
  <2>3. TypeOK'
    BY <1>0, <1>2, <2>1, <2>2, BoundAssumption DEF TypeOK, Enqueue
  <2>4. /\ post[x] = "queued" /\ post'[x] = "answered" /\ \A t \in Tasks \ {x} : post'[t] = post[t]
        /\ UNCHANGED <<rows, files, worker, recovered, reading, abandoned>>
    BY <1>0, <1>2 DEF TypeOK, Enqueue
  <2>5. status[x] = "queued" /\ ~Queued(x) /\ item # x /\ x \notin recovered
    BY <1>0, <2>4 DEF Ownership, Place
  <2>6. \A t \in Tasks : Queued(t)' <=> Queued(t) \/ t = x
    BY <2>1, <2>2 DEF Queued
  <2>7. Ownership'
    <3>1. ASSUME NEW t \in Tasks PROVE Place(t)'
      BY <1>0, <2>4, <2>5, <2>6 DEF Ownership, Place
    <3>2. ASSUME NEW i \in 1 .. Len(queue'), NEW j \in 1 .. Len(queue'), queue'[i] = queue'[j]
          PROVE  i = j
      <4>1. \A k \in 1 .. Len(queue) : queue[k] # x
        BY <2>5 DEF Queued
      <4>2. \A k \in 1 .. Len(queue') : k \in 1 .. Len(queue) \/ k = Len(queue) + 1
        BY <2>1, <2>2
      <4> QED
        BY <1>0, <2>2, <3>2, <4>1, <4>2 DEF Ownership
    <3> QED
      BY <3>1, <3>2 DEF Ownership
  <2>8. NoFalseActive'
    BY <1>0, <2>4, <2>6 DEF NoFalseActive
  <2>9. Rows' /\ Knowledge' /\ Promises'
    <3>1. \A t : Same(t)
      BY <2>4 DEF Same
    <3>2. Rows'
      BY <1>0, <2>4, RowsQuiet
    <3>3. Knowledge'
      BY <1>0, <2>4, <3>1, KnowledgeKept
    <3>4. Promises'
      BY <1>0, <2>4, <3>1, SameKept, PromisesKept
    <3> QED
      BY <3>2, <3>3, <3>4
  <2> QED
    BY <2>3, <2>7, <2>8, <2>9 DEF IInv
<1> QED
  BY <1>1, <1>2 DEF Enqueue

LEMMA InvRequests ==
    ASSUME IInv, NEW x \in Tasks,
           CreateTask(x) \/ MarkQueued(x) \/ Enqueue(x) \/ FailFull(x) \/ PostFails(x)
    PROVE  IInv'
<1>1. CASE CreateTask(x)
  BY <1>1, RequestWrites DEF CreateTask
<1>2. CASE MarkQueued(x)
  BY <1>2, RequestWrites DEF MarkQueued
<1>3. CASE FailFull(x)
  BY <1>3, RequestWrites DEF FailFull
<1> QED
  BY <1>1, <1>2, <1>3, InvEnqueue, InvPostFails

-----------------------------------------------------------------------------
(* The worker.                                                               *)

\* A step of the worker writes the rows and directories of its own task only.
LEMMA WorkerStep ==
    ASSUME IInv, NEW x \in Tasks, item = x, TypeOK', Knowledge', Story(x)', Kept(x),
           \A t \in Tasks \ {x} : Same(t),
           abandoned \subseteq abandoned', item' \in {x, NoTask},
           item' = x \/ status'[x] \notin Active \/ x \in abandoned',
           UNCHANGED <<post, queue, recovered, reading>>
    PROVE  IInv'
<1>0. TypeOK /\ Rows /\ Ownership /\ NoFalseActive /\ Knowledge /\ Promises
  BY DEF IInv
<1>1. Rows'
  BY <1>0, RowsOfOne
<1>2. Ownership'
  BY <1>0, OwnedByWorker, NameAssumption DEF Same
<1>3. NoFalseActive'
  BY <1>0, ActiveByWorker DEF Same
<1>4. Promises'
  <2>1. \A t \in Tasks : Kept(t)
    BY SameKept
  <2> QED
    BY <1>0, <2>1, PromisesKept
<1> QED
  BY <1>1, <1>2, <1>3, <1>4 DEF IInv

\* A step that writes nothing.
LEMMA WorkerLooks ==
    ASSUME IInv, NEW x \in Tasks, item = x, TypeOK', Knowledge',
           abandoned \subseteq abandoned', item' \in {x, NoTask},
           item' = x \/ status[x] \notin Active \/ x \in abandoned',
           UNCHANGED <<rows, files, post, queue, recovered, reading>>
    PROVE  IInv'
<1>1. \A t : Same(t)
  BY DEF Same
<1>2. Rows'
  BY RowsQuiet DEF IInv
<1>3. Story(x)' /\ Kept(x)
  BY <1>1, <1>2, SameKept DEF Rows
<1>4. status'[x] = status[x]
  BY <1>1 DEF Same
<1> QED
  BY <1>1, <1>3, <1>4, WorkerStep

LEMMA ItemIsTask == ASSUME TypeOK, Knowledge, pc # "idle" PROVE item \in Tasks
BY DEF TypeOK, Knowledge

LEMMA InvTake == ASSUME IInv, Take PROVE IInv'
<1>0. TypeOK /\ Rows /\ Ownership /\ NoFalseActive /\ Knowledge /\ Promises
  BY DEF IInv
<1> DEFINE x == queue[1]
<1>1. /\ queue \in Seq(Tasks) /\ Len(queue) \in Nat \ {0}
      /\ Tail(queue) \in Seq(Tasks) /\ Len(Tail(queue)) = Len(queue) - 1
      /\ \A i \in 1 .. Len(queue) - 1 : Tail(queue)[i] = queue[i + 1]
  <2>1. queue \in Seq(Tasks) /\ queue # <<>>
    BY <1>0 DEF TypeOK, Take
  <2> QED
    BY <2>1
<1>2. x \in Tasks /\ Queued(x)
  BY <1>1 DEF Queued
<1>3. /\ queue' = Tail(queue) /\ item' = x /\ pc' = "claim" /\ item = NoTask
      /\ UNCHANGED <<rows, files, post, held, why, recovered, reading, abandoned, faults>>
  BY <1>0 DEF Take, Knowledge
<1>4. status[x] = "queued" /\ post[x] = "answered" /\ x \notin recovered
  BY <1>0, <1>2 DEF Ownership, Place
<1>5. TypeOK'
  BY <1>0, <1>1, <1>2, <1>3, BoundAssumption DEF TypeOK, Stages
<1>6. \A t \in Tasks : Queued(t)' <=> Queued(t) /\ t # x
  <2>1. ASSUME NEW t \in Tasks, Queued(t), t # x PROVE Queued(t)'
    <3>1. PICK i \in 1 .. Len(queue) : queue[i] = t
      BY <2>1 DEF Queued
    <3>2. i - 1 \in 1 .. Len(queue') /\ queue'[i - 1] = t
      BY <1>1, <1>3, <2>1, <3>1
    <3> QED
      BY <3>2 DEF Queued
  <2>2. ASSUME NEW t \in Tasks, Queued(t)' PROVE Queued(t) /\ t # x
    <3>1. PICK i \in 1 .. Len(queue') : queue'[i] = t
      BY <2>2 DEF Queued
    <3>2. i + 1 \in 1 .. Len(queue) /\ queue[i + 1] = t /\ i + 1 # 1
      BY <1>1, <1>3, <3>1
    <3> QED
      BY <1>0, <1>1, <3>2 DEF Queued, Ownership
  <2> QED
    BY <2>1, <2>2
<1>7. Ownership'
  <2>1. ASSUME NEW t \in Tasks PROVE Place(t)'
    BY <1>0, <1>3, <1>4, <1>6 DEF Ownership, Place
  <2>2. \A i, j \in 1 .. Len(queue') : queue'[i] = queue'[j] => i = j
    <3> SUFFICES ASSUME NEW i \in 1 .. Len(queue'), NEW j \in 1 .. Len(queue'),
                        queue'[i] = queue'[j]
                 PROVE  i = j
      OBVIOUS
    <3>1. /\ i + 1 \in 1 .. Len(queue) /\ j + 1 \in 1 .. Len(queue)
          /\ queue[i + 1] = queue[j + 1]
      BY <1>1, <1>3
    <3>2. i + 1 = j + 1
      BY <1>0, <3>1 DEF Ownership
    <3> QED
      BY <3>2
  <2> QED
    BY <2>1, <2>2 DEF Ownership
<1>8. NoFalseActive'
  <2> SUFFICES ASSUME NEW t \in Tasks, status'[t] \in Active
               PROVE  \/ post'[t] \in {"queued", "full"} \/ Queued(t)' \/ item' = t
                      \/ t \in recovered' \cup abandoned'
    BY DEF NoFalseActive
  <2> QED
    BY <1>0, <1>3, <1>6, NameAssumption DEF NoFalseActive
<1>9. Rows' /\ Knowledge' /\ Promises'
  <2>1. Rows'
    BY <1>0, <1>3, RowsQuiet
  <2>2. Knowledge'
    BY <1>2, <1>3, <1>4, NameAssumption DEF Knowledge
  <2>3. Promises'
    BY <1>0, <1>3, PromisesKept DEF Kept
  <2> QED
    BY <2>1, <2>2, <2>3
<1> QED
  BY <1>5, <1>7, <1>8, <1>9 DEF IInv

\* Stages that look at the directory, and failures that are noticed.
Look == \/ CheckHead \/ CheckClean \/ Parse \/ ParseFails \/ BuildChunks
        \/ RetrievalFails \/ PlanFails \/ DatabaseFails \/ GitFails \/ InternalError

LEMMA GitErrorIs ==
    ASSUME GitError
    PROVE  /\ item' = item /\ held' = NoCommit
           /\ \/ pc' = "handler" /\ why' \in Escaped /\ status[item] = "indexing"
              \/ pc' = "fail" /\ why' = "RETRIEVAL_FAILED" /\ status[item] = "retrieving"
BY DEF GitError, Escaped

LEMMA SameContents ==
    ASSUME TypeOK, item \in Tasks, repo[item] = parsed[item]
    PROVE  repo[item] \in Contents
BY NameAssumption DEF TypeOK, Directory, Contents

LEMMA LookWrites ==
    ASSUME TypeOK, Knowledge, Look
    PROVE  /\ UNCHANGED <<rows, files, post, queue, recovered, reading, abandoned>>
           /\ pc # "idle" /\ item' = item
           /\ faults' = faults \/ (faults > 0 /\ faults' = faults - 1)
           /\ pc' \in Stages /\ why' \in Codes \cup {why}
           /\ held' \in {held, NoCommit} \cup Contents
<1> USE DEF Stages, Codes, Escaped
<1>1. CASE CheckHead
  <2>1. CASE GitError
    BY <1>1, <2>1, GitErrorIs DEF CheckHead
  <2>2. CASE Proceed("clean") /\ UNCHANGED held
    BY <1>1, <2>2 DEF CheckHead
  <2>3. CASE Inconsistent
    BY <1>1, <2>3 DEF CheckHead
  <2> QED
    BY <1>1, <2>1, <2>2, <2>3 DEF CheckHead
<1>2. CASE CheckClean
  <2>1. CASE GitError
    BY <1>2, <2>1, GitErrorIs DEF CheckClean
  <2>2. CASE Proceed(IF status[item] = "indexing" THEN "parse" ELSE "chunk") /\ UNCHANGED held
    BY <1>2, <2>2 DEF CheckClean
  <2>3. CASE Inconsistent
    BY <1>2, <2>3 DEF CheckClean
  <2> QED
    BY <1>2, <2>1, <2>2, <2>3 DEF CheckClean
<1>3. CASE Parse
  <2>1. CASE GitError
    BY <1>3, <2>1, GitErrorIs DEF Parse
  <2> QED
    BY <1>3, <2>1 DEF Parse
<1>4. CASE BuildChunks
  <2>1. CASE GitError
    BY <1>4, <2>1, GitErrorIs DEF BuildChunks
  <2>2. CASE Inconsistent
    BY <1>4, <2>2 DEF BuildChunks
  <2>3. CASE repo[item] = parsed[item] /\ held' = repo[item] /\ pc' = "rank" /\ UNCHANGED <<item, why>>
    <3>1. held' \in Contents
      BY <1>4, <2>3, SameContents, ItemIsTask DEF BuildChunks
    <3> QED
      BY <1>4, <2>3, <3>1 DEF BuildChunks
  <2> QED
    BY <1>4, <2>1, <2>2, <2>3 DEF BuildChunks
<1>5. CASE GitFails
  BY <1>5, GitErrorIs DEF GitFails
<1>6. CASE ParseFails \/ RetrievalFails \/ PlanFails
  BY <1>6 DEF ParseFails, RetrievalFails, PlanFails
<1>7. CASE DatabaseFails \/ InternalError
  BY <1>7 DEF DatabaseFails, InternalError
<1> QED
  BY <1>1, <1>2, <1>3, <1>4, <1>5, <1>6, <1>7 DEF Look

LEMMA LookKnowledge ==
    ASSUME TypeOK, Knowledge, Look, item' = item, UNCHANGED <<rows, files>>
    PROVE  Knowledge'
<1>1. CASE CheckHead
  BY <1>1 DEF CheckHead, GitError, Knowledge, Explains, Escaped
<1>2. CASE CheckClean
  BY <1>2 DEF CheckClean, GitError, Knowledge, Explains, Escaped
<1>3. CASE Parse
  <2>1. CASE repo[item] \notin Contents /\ GitError
    BY <1>3, <2>1, GitErrorIs DEF Parse, Knowledge, Explains
  <2>2. CASE repo[item] \in Contents /\ held' = repo[item] /\ pc' = "persist"
    BY <1>3, <2>2 DEF Parse, Knowledge
  <2> QED
    BY <1>3, <2>1, <2>2 DEF Parse
<1>4. CASE ParseFails
  BY <1>4 DEF ParseFails, Knowledge, Explains
<1>5. CASE BuildChunks
  <2>1. CASE GitError
    BY <1>5, <2>1, GitErrorIs DEF BuildChunks, Knowledge, Explains
  <2>2. CASE Inconsistent
    BY <1>5, <2>2 DEF BuildChunks, Knowledge, Explains
  <2>3. CASE repo[item] = parsed[item] /\ held' = repo[item] /\ pc' = "rank"
    <3>1. held' \in Contents
      BY <1>5, <2>3, SameContents, ItemIsTask DEF BuildChunks
    <3> QED
      BY <1>5, <2>3, <3>1 DEF BuildChunks, Knowledge
  <2> QED
    BY <1>5, <2>1, <2>2, <2>3 DEF BuildChunks
<1>6. CASE RetrievalFails
  BY <1>6 DEF RetrievalFails, Knowledge, Explains
<1>7. CASE PlanFails
  BY <1>7 DEF PlanFails, Knowledge, Explains
<1>8. CASE DatabaseFails
  BY <1>8 DEF DatabaseFails, Knowledge, Escaped
<1>9. CASE GitFails
  BY <1>9 DEF GitFails, GitError, Knowledge, Explains, Escaped
<1>10. CASE InternalError
  BY <1>10 DEF InternalError, Knowledge, Escaped
<1> QED
  BY <1>1, <1>2, <1>3, <1>4, <1>5, <1>6, <1>7, <1>8, <1>9, <1>10 DEF Look

LEMMA InvLook == ASSUME IInv, Look PROVE IInv'
<1>0. TypeOK /\ Knowledge
  BY DEF IInv
<1>1. /\ UNCHANGED <<rows, files, post, queue, recovered, reading, abandoned>>
      /\ pc # "idle" /\ item' = item
      /\ faults' = faults \/ (faults > 0 /\ faults' = faults - 1)
      /\ pc' \in Stages /\ why' \in Codes \cup {why}
      /\ held' \in {held, NoCommit} \cup Contents
  BY <1>0, LookWrites
<1>2. PICK x \in Tasks : item = x
  BY <1>0, <1>1, ItemIsTask
<1>3. TypeOK'
  BY <1>0, <1>1, BoundAssumption DEF TypeOK
<1>4. Knowledge'
  BY <1>0, <1>1, LookKnowledge
<1> QED
  BY <1>1, <1>2, <1>3, <1>4, WorkerLooks

-----------------------------------------------------------------------------
(* Stages that write.                                                        *)

LEMMA CommittedIs ==
    ASSUME NEW s, Committed(s)
    PROVE  /\ held' = NoCommit
           /\ faults' = faults \/ (faults > 0 /\ faults' = faults - 1)
           /\ \/ pc' = s /\ why' = "none" /\ item' = (IF s = "idle" THEN NoTask ELSE item)
              \/ pc' = "handler" /\ why' = "DATABASE_UNAVAILABLE" /\ item' = item
BY DEF Committed

\* What the worker knows of a task it has just moved to status s, at stage p.
LEMMA KnowledgeAt ==
    ASSUME NameAssumption, NEW x \in Tasks, item' = x,
           NEW s, status'[x] = s,
           \/ pc' = "clone" /\ s = "cloning" /\ repo'[x] = "absent"
           \/ pc' = "finalize" /\ s = "cloning" /\ repo'[x] = "absent" /\ held' \in Commits
           \/ pc' = "publish" /\ s = "cloning" /\ repo'[x] # "absent" /\ staging'[x] = "none"
                /\ held' \in Commits
           \/ pc' = "head" /\ s \in {"indexing", "retrieving"}
           \/ pc' = "plan" /\ s = "analyzing"
           \/ pc' = "planned" /\ s = "waiting_approval"
           \/ pc' = "fail" /\ why' = "CLONE_FAILED" /\ s = "cloning"
                /\ repo'[x] = "absent" /\ staging'[x] = "none"
           \/ pc' = "handler" /\ why' \in Escaped
    PROVE  Knowledge'
BY DEF Knowledge, Explains

LEMMA KnowledgeIdle ==
    ASSUME pc' = "idle", item' = NoTask PROVE Knowledge'
BY DEF Knowledge

LEMMA InvClaim == ASSUME IInv, Claim PROVE IInv'
<1>0. TypeOK /\ Rows /\ Knowledge
  BY DEF IInv
<1>1. PICK x \in Tasks : item = x
  BY <1>0, ItemIsTask DEF Claim
<1>2. /\ status[x] = "queued" /\ SetStatus(x, "cloning", "none")
      /\ item' = x /\ held' = NoCommit
      /\ faults' = faults \/ (faults > 0 /\ faults' = faults - 1)
      /\ \/ pc' = "clone" /\ why' = "none"
         \/ pc' = "handler" /\ why' = "DATABASE_UNAVAILABLE"
      /\ staging' = IF pc' = "clone" THEN [staging EXCEPT ![x] = "empty"] ELSE staging
      /\ UNCHANGED <<snapshot, index, parsed, evidence, cited, repo, post, queue, recovered,
                     reading, abandoned>>
  BY <1>1, CommittedIs DEF Claim
<1>3. TypeOK'
  BY <1>0, <1>2, BoundAssumption DEF TypeOK, Status, Active, Codes, Escaped, Stages
<1>4. /\ status'[x] = "cloning" /\ code'[x] = "none"
      /\ \A t \in Tasks \ {x} : Same(t)
  BY <1>0, <1>2 DEF TypeOK, Same
<1>5. snapshot[x] = NoCommit /\ repo[x] = "absent" /\ index[x] = NoCommit /\ evidence[x] = NoCommit
  BY <1>0, <1>2 DEF Rows, Story
<1>6. Story(x)' /\ Kept(x)
  BY <1>2, <1>4, <1>5 DEF Story, Kept, Settled
<1>7. Knowledge'
  BY <1>2, <1>4, <1>5, KnowledgeAt, NameAssumption DEF Escaped
<1> QED
  BY <1>1, <1>2, <1>3, <1>4, <1>6, <1>7, WorkerStep

\* While it clones, only the directories of the task change.
LEMMA InvCloning ==
    ASSUME IInv, Clone \/ CloneFails \/ Finalize
    PROVE  IInv'
<1>0. TypeOK /\ Rows /\ Knowledge
  BY DEF IInv
<1>1. PICK x \in Tasks : item = x
  BY <1>0, ItemIsTask DEF Clone, CloneFails, Finalize
<1>2. status[x] = "cloning" /\ repo[x] = "absent"
  BY <1>0, <1>1 DEF Knowledge, Clone, CloneFails, Finalize
<1>3. snapshot[x] = NoCommit /\ index[x] = NoCommit /\ evidence[x] = NoCommit
      /\ code[x] = "none"
  BY <1>0, <1>2 DEF Rows, Story
<1>4. /\ UNCHANGED <<rows, post, queue, item, recovered, reading, abandoned, faults>>
      /\ \E d \in {"none", "clone"} : staging' = [staging EXCEPT ![x] = d]
      /\ repo' = repo \/ (repo' = [repo EXCEPT ![x] = held] /\ held \in Commits)
      /\ pc' \in Stages /\ why' \in Codes \cup {why} /\ held' \in {held, NoCommit} \cup Commits
  BY <1>0, <1>1 DEF Clone, CloneFails, Finalize, Knowledge, Stages, Codes
<1>5. TypeOK'
  BY <1>0, <1>4 DEF TypeOK, Directory, Contents
<1>6. \A t \in Tasks \ {x} : Same(t)
  BY <1>0, <1>4 DEF TypeOK, Same
<1>7. Story(x)' /\ Kept(x)
  BY <1>2, <1>3, <1>4 DEF Story, Kept, Settled
<1>8. Knowledge'
  <2>1. CASE Clone
    <3>1. pc' = "finalize" /\ held' \in Commits /\ repo' = repo
      BY <2>1 DEF Clone
    <3> QED
      BY <1>1, <1>2, <1>4, <3>1, KnowledgeAt, NameAssumption
  <2>2. CASE CloneFails
    <3>1. pc' = "fail" /\ why' = "CLONE_FAILED" /\ repo' = repo /\ staging'[x] = "none"
      BY <1>0, <1>1, <2>2 DEF CloneFails, TypeOK
    <3> QED
      BY <1>1, <1>2, <1>4, <3>1, KnowledgeAt, NameAssumption
  <2>3. CASE Finalize
    <3>1. held \in Commits /\ held # "absent"
      BY <1>0, <2>3, NameAssumption DEF Finalize, Knowledge
    <3>2. pc' = "publish" /\ held' = held /\ repo'[x] = held /\ staging'[x] = "none"
      BY <1>0, <1>1, <2>3 DEF Finalize, TypeOK
    <3> QED
      BY <1>1, <1>2, <1>4, <3>1, <3>2, KnowledgeAt, NameAssumption
  <2> QED
    BY <2>1, <2>2, <2>3
<1> QED
  BY <1>1, <1>4, <1>5, <1>6, <1>7, <1>8, WorkerStep

\* The commit of a snapshot is a name of its own, and so is what is missing.
LEMMA CommitNames == ASSUME NEW c \in Commits PROVE c # NoCommit /\ c # "absent"
BY NameAssumption

LEMMA InvPublish == ASSUME IInv, PublishSnapshot PROVE IInv'
<1>0. TypeOK /\ Rows /\ Knowledge
  BY DEF IInv
<1>1. PICK x \in Tasks : item = x
  BY <1>0, ItemIsTask DEF PublishSnapshot
<1>2. /\ status[x] = "cloning" /\ repo[x] # "absent" /\ staging[x] = "none" /\ held \in Commits
      /\ held # NoCommit
  BY <1>0, <1>1, CommitNames DEF Knowledge, PublishSnapshot
<1>3. /\ snapshot' = [snapshot EXCEPT ![x] = held] /\ SetStatus(x, "indexing", "none")
      /\ item' = x /\ held' = NoCommit
      /\ faults' = faults \/ (faults > 0 /\ faults' = faults - 1)
      /\ \/ pc' = "head" /\ why' = "none"
         \/ pc' = "handler" /\ why' = "DATABASE_UNAVAILABLE"
      /\ UNCHANGED <<index, parsed, evidence, cited, files, post, queue, recovered, reading,
                     abandoned>>
  BY <1>1, CommittedIs DEF PublishSnapshot
<1>4. TypeOK'
  BY <1>0, <1>2, <1>3, BoundAssumption DEF TypeOK, Status, Active, Codes, Escaped, Stages
<1>5. /\ status'[x] = "indexing" /\ code'[x] = "none" /\ snapshot'[x] = held
      /\ \A t \in Tasks \ {x} : Same(t)
  BY <1>0, <1>3 DEF TypeOK, Same
<1>6. snapshot[x] = NoCommit /\ index[x] = NoCommit /\ evidence[x] = NoCommit
  BY <1>0, <1>2 DEF Rows, Story
<1>7. Story(x)' /\ Kept(x)
  BY <1>2, <1>3, <1>5, <1>6 DEF Story, Kept, Settled
<1>8. Knowledge'
  BY <1>3, <1>5, KnowledgeAt, NameAssumption DEF Escaped
<1> QED
  BY <1>1, <1>3, <1>4, <1>5, <1>7, <1>8, WorkerStep

LEMMA InvIndex == ASSUME IInv, PersistIndex PROVE IInv'
<1>0. TypeOK /\ Rows /\ Knowledge
  BY DEF IInv
<1>1. PICK x \in Tasks : item = x
  BY <1>0, ItemIsTask DEF PersistIndex
<1>2. status[x] = "indexing" /\ held \in Contents
  BY <1>0, <1>1 DEF Knowledge, PersistIndex
<1>3. /\ index' = [index EXCEPT ![x] = snapshot[x]] /\ parsed' = [parsed EXCEPT ![x] = held]
      /\ SetStatus(x, "retrieving", "none")
      /\ item' = x /\ held' = NoCommit
      /\ faults' = faults \/ (faults > 0 /\ faults' = faults - 1)
      /\ \/ pc' = "head" /\ why' = "none"
         \/ pc' = "handler" /\ why' = "DATABASE_UNAVAILABLE"
      /\ UNCHANGED <<snapshot, evidence, cited, files, post, queue, recovered, reading, abandoned>>
  BY <1>1, CommittedIs DEF PersistIndex
<1>4. TypeOK'
  BY <1>0, <1>2, <1>3, BoundAssumption DEF TypeOK, Status, Active, Codes, Escaped, Stages
<1>5. /\ status'[x] = "retrieving" /\ code'[x] = "none" /\ index'[x] = snapshot[x]
      /\ \A t \in Tasks \ {x} : Same(t)
  BY <1>0, <1>3 DEF TypeOK, Same
<1>6. /\ snapshot[x] # NoCommit /\ index[x] = NoCommit /\ evidence[x] = NoCommit
      /\ repo[x] # "absent" /\ staging[x] = "none"
  BY <1>0, <1>2 DEF Rows, Story
<1>7. Story(x)' /\ Kept(x)
  BY <1>3, <1>5, <1>6 DEF Story, Kept, Settled
<1>8. Knowledge'
  BY <1>3, <1>5, KnowledgeAt, NameAssumption DEF Escaped
<1> QED
  BY <1>1, <1>3, <1>4, <1>5, <1>7, <1>8, WorkerStep

LEMMA InvRetrieval == ASSUME IInv, PersistRetrieval PROVE IInv'
<1>0. TypeOK /\ Rows /\ Knowledge
  BY DEF IInv
<1> DEFINE s == IF PlanningEnabled THEN "analyzing" ELSE "retrieved"
           p == IF PlanningEnabled THEN "plan" ELSE "idle"
<1>1. PICK x \in Tasks : item = x
  BY <1>0, ItemIsTask DEF PersistRetrieval
<1>2. status[x] = "retrieving" /\ held \in Contents /\ held = parsed[x]
  BY <1>0, <1>1 DEF Knowledge, PersistRetrieval
<1>3. /\ evidence' = [evidence EXCEPT ![x] = snapshot[x]] /\ cited' = [cited EXCEPT ![x] = held]
      /\ SetStatus(x, s, "none")
      /\ held' = NoCommit
      /\ faults' = faults \/ (faults > 0 /\ faults' = faults - 1)
      /\ \/ pc' = p /\ why' = "none" /\ item' = (IF p = "idle" THEN NoTask ELSE x)
         \/ pc' = "handler" /\ why' = "DATABASE_UNAVAILABLE" /\ item' = x
      /\ UNCHANGED <<snapshot, index, parsed, files, post, queue, recovered, reading, abandoned>>
  BY <1>1, CommittedIs DEF PersistRetrieval
<1>4. TypeOK'
  BY <1>0, <1>2, <1>3, BoundAssumption DEF TypeOK, Status, Active, Settled, Codes, Escaped, Stages
<1>5. /\ status'[x] = s /\ code'[x] = "none" /\ evidence'[x] = snapshot[x] /\ cited'[x] = held
      /\ \A t \in Tasks \ {x} : Same(t)
  BY <1>0, <1>3 DEF TypeOK, Same
<1>6. /\ snapshot[x] # NoCommit /\ index[x] = snapshot[x] /\ evidence[x] = NoCommit
      /\ repo[x] # "absent" /\ staging[x] = "none"
  BY <1>0, <1>2 DEF Rows, Story
<1>7. Story(x)' /\ Kept(x)
  BY <1>2, <1>3, <1>5, <1>6 DEF Story, Kept, Settled
<1>8. CASE item' = x
  <2>1. pc' = "plan" \/ pc' = "handler"
    BY <1>3, <1>8, NameAssumption
  <2>2. Knowledge'
    BY <1>3, <1>5, <1>8, <2>1, KnowledgeAt, NameAssumption DEF Escaped
  <2> QED
    BY <1>1, <1>3, <1>4, <1>5, <1>7, <1>8, <2>2, WorkerStep
<1>9. CASE item' = NoTask /\ pc' = "idle" /\ ~PlanningEnabled
  <2>1. status'[x] \notin Active
    BY <1>5, <1>9 DEF Active
  <2> QED
    BY <1>1, <1>3, <1>4, <1>5, <1>7, <1>9, <2>1, KnowledgeIdle, WorkerStep
<1> QED
  BY <1>3, <1>8, <1>9

LEMMA InvPlan == ASSUME IInv, PersistPlan PROVE IInv'
<1>0. TypeOK /\ Rows /\ Knowledge
  BY DEF IInv
<1>1. PICK x \in Tasks : item = x
  BY <1>0, ItemIsTask DEF PersistPlan
<1>2. status[x] = "analyzing"
  BY <1>0, <1>1 DEF Knowledge, PersistPlan
<1>3. /\ SetStatus(x, "waiting_approval", "none") /\ item' = x /\ held' = NoCommit
      /\ faults' = faults \/ (faults > 0 /\ faults' = faults - 1)
      /\ \/ pc' = "planned" /\ why' = "none"
         \/ pc' = "handler" /\ why' = "DATABASE_UNAVAILABLE"
      /\ UNCHANGED <<snapshot, index, parsed, evidence, cited, files, post, queue, recovered,
                     reading, abandoned>>
  BY <1>1, CommittedIs DEF PersistPlan
<1>4. TypeOK'
  BY <1>0, <1>3, BoundAssumption DEF TypeOK, Status, Settled, Codes, Escaped, Stages
<1>5. /\ status'[x] = "waiting_approval" /\ code'[x] = "none" /\ \A t \in Tasks \ {x} : Same(t)
  BY <1>0, <1>3 DEF TypeOK, Same
<1>6. Story(x)' /\ Kept(x)
  BY <1>0, <1>2, <1>3, <1>5 DEF Rows, Story, Kept
<1>7. Knowledge'
  BY <1>3, <1>5, KnowledgeAt, NameAssumption DEF Escaped
<1> QED
  BY <1>1, <1>3, <1>4, <1>5, <1>6, <1>7, WorkerStep

LEMMA InvFinish == ASSUME IInv, FinishPlan \/ HandlerFails PROVE IInv'
<1>0. TypeOK /\ Knowledge
  BY DEF IInv
<1>1. PICK x \in Tasks : item = x
  BY <1>0, ItemIsTask DEF FinishPlan, HandlerFails
<1>2. /\ pc' = "idle" /\ item' = NoTask /\ why' = "none"
      /\ faults' = faults \/ (faults > 0 /\ faults' = faults - 1)
      /\ abandoned' = abandoned \/ abandoned' = abandoned \cup {x}
      /\ UNCHANGED <<rows, files, post, queue, held, recovered, reading>>
  BY <1>1 DEF FinishPlan, HandlerFails
<1>3. TypeOK'
  BY <1>0, <1>2, BoundAssumption DEF TypeOK, Stages, Codes
<1>4. status[x] \notin Active \/ x \in abandoned'
  BY <1>0, <1>1 DEF FinishPlan, HandlerFails, Knowledge, Active
<1> QED
  BY <1>1, <1>2, <1>3, <1>4, KnowledgeIdle, WorkerLooks

\* A failure is stored where its code explains it.
LEMMA FailedStory ==
    ASSUME Rows, NEW x \in Tasks, item = x, status[x] \in Active, NEW c, Explains(c) \/ c \in Escaped,
           status'[x] = "failed", code'[x] = c,
           UNCHANGED <<snapshot, index, parsed, evidence, cited, files>>
    PROVE  Story(x)'
<1>1. Story(x)
  BY DEF Rows
<1>2. CASE c \in Escaped
  BY <1>1, <1>2 DEF Story, Active, Escaped, Settled
<1>3. CASE Explains(c)
  BY <1>1, <1>3 DEF Story, Explains, Active, Settled
<1> QED
  BY <1>2, <1>3

LEMMA InvRecordFailure == ASSUME IInv, RecordFailure PROVE IInv'
<1>0. TypeOK /\ Rows /\ Knowledge
  BY DEF IInv
<1>1. PICK x \in Tasks : item = x
  BY <1>0, ItemIsTask DEF RecordFailure
<1>2. Explains(why) /\ status[x] \in Active
  BY <1>0, <1>1 DEF Knowledge, Explains, Active, RecordFailure
<1>3. /\ SetStatus(x, "failed", why) /\ held' = NoCommit
      /\ faults' = faults \/ (faults > 0 /\ faults' = faults - 1)
      /\ \/ pc' = "idle" /\ why' = "none" /\ item' = NoTask
         \/ pc' = "handler" /\ why' = "DATABASE_UNAVAILABLE" /\ item' = x
      /\ UNCHANGED <<snapshot, index, parsed, evidence, cited, files, post, queue, recovered,
                     reading, abandoned>>
  BY <1>1, CommittedIs DEF RecordFailure
<1>4. TypeOK'
  BY <1>0, <1>3, BoundAssumption DEF TypeOK, Status, Settled, Codes, Escaped, Stages
<1>5. status'[x] = "failed" /\ code'[x] = why /\ \A t \in Tasks \ {x} : Same(t)
  BY <1>0, <1>3 DEF TypeOK, Same
<1>6. Story(x)' /\ Kept(x)
  BY <1>0, <1>1, <1>2, <1>3, <1>5, FailedStory DEF Kept
<1>7. Knowledge'
  BY <1>3, <1>5, KnowledgeAt, KnowledgeIdle, NameAssumption DEF Escaped
<1>8. status'[x] \notin Active
  BY <1>5 DEF Active
<1> QED
  BY <1>1, <1>3, <1>4, <1>5, <1>6, <1>7, <1>8, WorkerStep

LEMMA InvMarkFailed == ASSUME IInv, MarkFailed PROVE IInv'
<1>0. TypeOK /\ Rows /\ Knowledge
  BY DEF IInv
<1>1. PICK x \in Tasks : item = x
  BY <1>0, ItemIsTask DEF MarkFailed
<1>2. /\ pc' = "idle" /\ why' = "none" /\ item' = NoTask /\ why \in Escaped
      /\ UNCHANGED <<snapshot, index, parsed, evidence, cited, files, post, queue, held,
                     recovered, reading, abandoned, faults>>
  BY <1>0 DEF MarkFailed, Knowledge
<1>3. CASE status[x] \in Active /\ SetStatus(x, "failed", why)
  <2>1. TypeOK'
    BY <1>0, <1>2, <1>3 DEF TypeOK, Status, Settled, Codes, Stages
  <2>2. status'[x] = "failed" /\ code'[x] = why /\ \A t \in Tasks \ {x} : Same(t)
    BY <1>0, <1>2, <1>3 DEF TypeOK, Same
  <2>3. Story(x)' /\ Kept(x)
    BY <1>0, <1>1, <1>2, <1>3, <2>2, FailedStory DEF Kept
  <2>4. status'[x] \notin Active
    BY <2>2 DEF Active
  <2> QED
    BY <1>1, <1>2, <2>1, <2>2, <2>3, <2>4, KnowledgeIdle, WorkerStep
<1>4. CASE status[x] \notin Active /\ UNCHANGED <<status, code>>
  <2>1. TypeOK'
    BY <1>0, <1>2, <1>4 DEF TypeOK, Codes, Stages
  <2> QED
    BY <1>1, <1>2, <1>4, <2>1, KnowledgeIdle, WorkerLooks
<1> QED
  BY <1>1, <1>3, <1>4 DEF MarkFailed

LEMMA InvConsume == ASSUME IInv, Consume \/ DatabaseFails \/ GitFails \/ InternalError \/ HandlerFails
                    PROVE  IInv'
BY InvTake, InvClaim, InvCloning, InvPublish, InvLook, InvIndex, InvRetrieval, InvPlan, InvFinish,
   InvRecordFailure, InvMarkFailed DEF Consume, Look

-----------------------------------------------------------------------------
(* Everybody else.                                                           *)

\* The row of a task the pipeline is done with, or that planning has, moves on.
LEMMA StatusStep ==
    ASSUME IInv, NEW x \in Tasks, TypeOK', Story(x)',
           status[x] \in {"analyzing", "waiting_approval"},
           \A t \in Tasks \ {x} : Same(t),
           recovered' = recovered \ {x}, item # x \/ status[x] = "waiting_approval",
           status'[x] \notin Active,
           item = x => status'[x] = "decision_pending",
           UNCHANGED <<snapshot, index, parsed, evidence, cited, files, post, queue, worker,
                   reading, abandoned>>
    PROVE  IInv'
<1>0. TypeOK /\ Rows /\ Ownership /\ NoFalseActive /\ Knowledge /\ Promises
  BY DEF IInv
<1>1. Rows'
  BY <1>0, RowsOfOne
<1>2. \A t : Queued(t)' = Queued(t)
  BY QueueQuiet
<1>3. Ownership'
  <2>1. ASSUME NEW t \in Tasks PROVE Place(t)'
    BY <1>0, <1>2 DEF Ownership, Place, Same
  <2> QED
    BY <1>0, <2>1 DEF Ownership
<1>4. NoFalseActive'
  BY <1>0, <1>2 DEF NoFalseActive, Same
<1>5. Knowledge'
  <2>1. CASE item = x
    BY <1>0, <2>1 DEF Knowledge, Explains
  <2>2. CASE item # x
    <3>1. item = NoTask \/ Same(item)
      BY <1>0, <2>2 DEF TypeOK
    <3> QED
      BY <1>0, <3>1, KnowledgeKept
  <2> QED
    BY <2>1, <2>2
<1>6. Promises'
  BY <1>0, PromisesKept DEF Kept
<1> QED
  BY <1>1, <1>3, <1>4, <1>5, <1>6 DEF IInv

LEMMA InvDecide == ASSUME IInv, NEW x \in Tasks, Decide(x) PROVE IInv'
<1>0. TypeOK /\ Rows /\ Ownership
  BY DEF IInv
<1>1. TypeOK'
  BY <1>0 DEF TypeOK, Decide, Status, Settled, Codes
<1>2. status'[x] = "decision_pending" /\ code'[x] = "none" /\ \A t \in Tasks \ {x} : Same(t)
  BY <1>0 DEF TypeOK, Same, Decide
<1>3. Story(x)'
  BY <1>0, <1>2 DEF Rows, Story, Decide, Settled
<1>4. recovered' = recovered \ {x}
  BY <1>0 DEF Decide, Ownership, Place
<1> QED
  BY <1>1, <1>2, <1>3, <1>4, StatusStep DEF Decide, Active

LEMMA InvRecover == ASSUME IInv, NEW x \in Tasks, RecoverPlanning(x) PROVE IInv'
<1>0. TypeOK /\ Rows /\ Ownership
  BY DEF IInv
<1>1. status[x] = "analyzing" /\ item # x
  BY <1>0 DEF RecoverPlanning, Ownership, Place
<1>2. PICK s \in {"waiting_approval", "failed", "recovery_blocked"}, c \in {"none", "PLANNING_FAILED"} :
         SetStatus(x, s, c) /\ (s = "failed" <=> c = "PLANNING_FAILED")
  BY DEF RecoverPlanning
<1>3. TypeOK'
  BY <1>0, <1>2 DEF TypeOK, RecoverPlanning, Status, Settled, Codes
<1>4. status'[x] = s /\ code'[x] = c /\ \A t \in Tasks \ {x} : Same(t)
  BY <1>0, <1>2 DEF TypeOK, Same, RecoverPlanning
<1>5. Story(x)'
  BY <1>0, <1>1, <1>2, <1>4 DEF Rows, Story, RecoverPlanning, Settled
<1>6. status'[x] \notin Active
  BY <1>4 DEF Active
<1> QED
  BY <1>1, <1>3, <1>4, <1>5, <1>6, StatusStep DEF RecoverPlanning

LEMMA InvDropped == ASSUME IInv, NEW x \in Tasks, RecoveryDropped(x) PROVE IInv'
<1>0. TypeOK /\ Rows /\ Ownership /\ NoFalseActive /\ Knowledge /\ Promises
  BY DEF IInv
<1>1. TypeOK'
  BY <1>0, BoundAssumption DEF TypeOK, RecoveryDropped
<1>2. \A t : Queued(t)' = Queued(t)
  BY QueueQuiet DEF RecoveryDropped
<1>3. Ownership'
  <2>1. ASSUME NEW t \in Tasks PROVE Place(t)'
    BY <1>0, <1>2 DEF Ownership, Place, RecoveryDropped
  <2> QED
    BY <1>0, <2>1 DEF Ownership, RecoveryDropped
<1>4. NoFalseActive'
  BY <1>0, <1>2 DEF NoFalseActive, RecoveryDropped
<1>5. \A t : Same(t)
  BY DEF Same, RecoveryDropped
<1>6. Rows' /\ Knowledge' /\ Promises'
  BY <1>0, <1>5, RowsQuiet, KnowledgeKept, SameKept, PromisesKept DEF RecoveryDropped
<1> QED
  BY <1>1, <1>3, <1>4, <1>6 DEF IInv

LEMMA InvTamper == ASSUME IInv, NEW x \in Tasks, Tamper(x) PROVE IInv'
<1>0. TypeOK /\ Rows /\ Ownership /\ NoFalseActive /\ Knowledge /\ Promises
  BY DEF IInv
<1>1. PICK d \in Directory \ {"absent"} : repo' = [repo EXCEPT ![x] = d]
  BY DEF Tamper
<1>2. TypeOK'
  BY <1>0, <1>1, BoundAssumption DEF TypeOK, Tamper
<1>3. \A t \in Tasks : repo'[t] = "absent" <=> repo[t] = "absent"
  BY <1>0, <1>1 DEF TypeOK, Tamper
<1>4. UNCHANGED <<rows, staging, post, queue, worker, recovered, reading, abandoned>>
  BY DEF Tamper
<1>5. Rows'
  <2> SUFFICES ASSUME NEW t \in Tasks PROVE Story(t)'
    BY DEF Rows
  <2> QED
    BY <1>0, <1>3, <1>4 DEF Rows, Story
<1>6. \A t : Queued(t)' = Queued(t)
  BY <1>4, QueueQuiet
<1>7. Ownership' /\ NoFalseActive'
  BY <1>0, <1>4, <1>6 DEF Ownership, Place, NoFalseActive
<1>8. Knowledge'
  <2>1. CASE item = NoTask
    BY <1>0, <1>4, <2>1 DEF Knowledge
  <2>2. CASE item \in Tasks
    <3>1. (repo'[item] = "absent" <=> repo[item] = "absent") /\ item' = item
      BY <1>3, <1>4, <2>2
    <3> QED
      BY <1>0, <1>4, <3>1 DEF Knowledge, Explains
  <2> QED
    BY <1>0, <2>1, <2>2 DEF TypeOK
<1>9. Promises'
  BY <1>0, <1>4, PromisesKept DEF Kept
<1> QED
  BY <1>2, <1>5, <1>7, <1>8, <1>9 DEF IInv

LEMMA InvCrash == ASSUME IInv, CrashRestart PROVE IInv'
<1>0. TypeOK /\ Rows /\ Ownership /\ NoFalseActive /\ Knowledge /\ Promises
  BY DEF IInv
<1>1. /\ recovered' = {t \in Tasks : status[t] = "analyzing"}
      /\ abandoned' = (abandoned \cup {t \in Tasks : status[t] \in Active}) \ recovered'
      /\ post' = [t \in Tasks |-> IF post[t] \in {"none", "answered"} THEN post[t] ELSE "lost"]
      /\ queue' = <<>>
      /\ pc' = "idle" /\ item' = NoTask /\ held' = NoCommit /\ why' = "none"
      /\ reading' = [r \in Readers |-> IF reading[r].step = "answered" THEN reading[r] ELSE NoRead]
      /\ UNCHANGED <<rows, files>>
  BY DEF CrashRestart
<1>2. TypeOK'
  <2>1. Len(<<>>) = 0 /\ <<>> \in Seq(Tasks)
    OBVIOUS
  <2>2. faults' \in 0 .. MaxFaults
    BY <1>0, BoundAssumption DEF TypeOK, CrashRestart
  <2>3. recovered' \in SUBSET Tasks /\ abandoned' \in SUBSET Tasks
    BY <1>0, <1>1 DEF TypeOK
  <2>4. post' \in [Tasks -> {"none", "created", "queued", "full", "answered", "lost"}]
    BY <1>1
  <2>5. reading' \in [Readers -> [step : {"idle", "rows", "head", "clean", "answered"},
                                  view : Views, task : Tasks \cup {NoTask},
                                  commit : Commits \cup {NoCommit}]]
    BY <1>0, <1>1 DEF TypeOK, NoRead, Views
  <2> QED
    BY <1>0, <1>1, <2>1, <2>2, <2>3, <2>4, <2>5, BoundAssumption DEF TypeOK, Stages, Codes
<1>3. \A t : ~Queued(t)'
  BY <1>1 DEF Queued
<1>4. Ownership'
  <2>1. ASSUME NEW t \in Tasks PROVE Place(t)'
    BY <1>0, <1>1, <1>3, NameAssumption DEF Ownership, Place
  <2> QED
    BY <1>1, <2>1 DEF Ownership
<1>5. NoFalseActive'
  BY <1>1 DEF NoFalseActive
<1>6. Rows' /\ Knowledge'
  BY <1>0, <1>1, RowsQuiet, KnowledgeIdle
<1>7. Promises'
  <2> SUFFICES ASSUME NEW r \in Readers PROVE Promised(reading[r])'
    BY DEF Promises
  <2>1. CASE reading[r].step = "answered"
    BY <1>0, <1>1, <2>1 DEF Promises, Promised, FirstRow, Stored
  <2>2. CASE reading[r].step # "answered"
    BY <1>1, <2>2 DEF Promised, NoRead
  <2> QED
    BY <2>1, <2>2
<1> QED
  BY <1>2, <1>4, <1>5, <1>6, <1>7 DEF IInv

\* A GET request writes nothing and promises what it has found.
LEMMA ReaderStep ==
    ASSUME IInv, NEW r \in Readers, NEW read,
           read \in [step : {"idle", "rows", "head", "clean", "answered"}, view : Views,
                     task : Tasks \cup {NoTask}, commit : Commits \cup {NoCommit}],
           reading' = [reading EXCEPT ![r] = read], Promised(read),
           UNCHANGED <<rows, files, post, queue, worker, recovered, abandoned, faults>>
    PROVE  IInv'
<1>0. TypeOK /\ Rows /\ Ownership /\ NoFalseActive /\ Knowledge /\ Promises
  BY DEF IInv
<1>1. TypeOK'
  BY <1>0 DEF TypeOK
<1>2. \A t : Queued(t)' = Queued(t)
  BY QueueQuiet
<1>3. Ownership' /\ NoFalseActive'
  BY <1>0, <1>2 DEF Ownership, Place, NoFalseActive
<1>4. Rows' /\ Knowledge'
  BY <1>0, RowsQuiet, KnowledgeKept DEF Same
<1>5. Promises'
  <2> SUFFICES ASSUME NEW q \in Readers PROVE Promised(reading[q])'
    BY DEF Promises
  <2>1. /\ Promised(reading'[q]) /\ reading' \in [Readers -> [step : {"idle", "rows", "head", "clean", "answered"},
                                  view : Views, task : Tasks \cup {NoTask},
                                  commit : Commits \cup {NoCommit}]]
    BY <1>0, <1>1 DEF Promises, TypeOK
  <2> QED
    BY <2>1 DEF Promised, FirstRow, Stored
<1> QED
  BY <1>1, <1>3, <1>4, <1>5 DEF IInv

LEMMA InvReading == ASSUME IInv, NEW r \in Readers, Reading(r) PROVE IInv'
<1> DEFINE now == reading[r]
<1>0. TypeOK /\ Rows /\ Promised(now)
  BY DEF IInv, Promises
<1>1. now \in [step : {"idle", "rows", "head", "clean", "answered"}, view : Views,
               task : Tasks \cup {NoTask}, commit : Commits \cup {NoCommit}]
  BY <1>0 DEF TypeOK
<1>2. CASE \E t \in Tasks, v \in Views : StartRead(r, t, v)
  <2>1. PICK t \in Tasks, v \in Views : StartRead(r, t, v)
    BY <1>2
  <2> DEFINE read == [step |-> IF v = "tree" THEN "head" ELSE "rows", view |-> v, task |-> t,
                      commit |-> FirstRow(t, v)]
  <2>2. FirstRow(t, v) \in Commits
    BY <1>0, <2>1 DEF TypeOK, StartRead, FirstRow
  <2>3. read \in [step : {"idle", "rows", "head", "clean", "answered"}, view : Views,
                  task : Tasks \cup {NoTask}, commit : Commits \cup {NoCommit}]
    BY <2>2
  <2>4. Promised(read)
    BY <2>2, NameAssumption DEF Promised, FirstRow, Stored
  <2> QED
    BY <2>1, <2>3, <2>4, ReaderStep DEF StartRead
<1>3. ASSUME NEW s \in {"head", "clean", "answered"}, GoOn(r, s), now.step # "idle",
             Stored(now.task, now.view) = now.commit, snapshot[now.task] = now.commit,
             UNCHANGED <<rows, files, post, queue, worker, recovered, abandoned, faults>>
      PROVE  IInv'
  <2> DEFINE read == [now EXCEPT !.step = s]
  <2>1. /\ read.step = s /\ read.view = now.view /\ read.task = now.task
        /\ read.commit = now.commit
    BY <1>1
  <2>2. reading' = [reading EXCEPT ![r] = read]
    BY <1>0, <1>3 DEF GoOn, TypeOK
  <2>3. Promised(read)
    BY <1>0, <1>3, <2>1 DEF Promised, FirstRow, Stored
  <2>4. read \in [step : {"idle", "rows", "head", "clean", "answered"}, view : Views,
                  task : Tasks \cup {NoTask}, commit : Commits \cup {NoCommit}]
    BY <1>1
  <2> QED
    BY <1>3, <2>2, <2>3, <2>4, ReaderStep
<1>4. ASSUME ReadFails(r), UNCHANGED <<rows, files, post, queue, worker, recovered, abandoned, faults>>
      PROVE  IInv'
  <2>1. Promised(NoRead)
    BY DEF Promised, NoRead
  <2>2. NoRead \in [step : {"idle", "rows", "head", "clean", "answered"}, view : Views,
                    task : Tasks \cup {NoTask}, commit : Commits \cup {NoCommit}]
    BY DEF NoRead, Views
  <2> QED
    BY <1>4, <2>1, <2>2, ReaderStep DEF ReadFails
<1>5. CASE ReadRows(r)
  <2>1. CASE RowsAgree(now.task, now.view, now.commit) /\ GoOn(r, "head")
    <3>1. now.step = "rows" /\ now.task \in Tasks /\ now.commit # NoCommit
      BY <1>0, <1>5 DEF ReadRows, Promised
    <3>2. Stored(now.task, now.view) = now.commit /\ snapshot[now.task] = now.commit
      BY <1>0, <1>1, <2>1, <3>1 DEF Promised, FirstRow, Stored, RowsAgree, Views
    <3> QED
      BY <1>3, <1>5, <2>1, <3>1, <3>2 DEF ReadRows
  <2> QED
    BY <1>4, <1>5, <2>1 DEF ReadRows
<1>6. CASE ReadHead(r)
  BY <1>0, <1>3, <1>4, <1>6 DEF ReadHead, Promised
<1>7. CASE ReadClean(r)
  BY <1>0, <1>3, <1>4, <1>7 DEF ReadClean, Promised
<1> QED
  BY <1>2, <1>5, <1>6, <1>7 DEF Reading

LEMMA InvInit == Init => IInv
<1> SUFFICES ASSUME Init PROVE IInv
  OBVIOUS
<1>1. TypeOK
  BY BoundAssumption DEF Init, TypeOK, Status, Codes, Stages, Directory, NoRead, Views
<1>2. Rows
  BY DEF Init, Rows, Story, Settled
<1>3. \A t : ~Queued(t)
  <2>1. queue = <<>>
    BY DEF Init
  <2> QED
    BY <2>1 DEF Queued
<1>4. Ownership
  <2>1. ASSUME NEW t \in Tasks PROVE Place(t)
    BY <1>3, NameAssumption DEF Init, Place
  <2> QED
    BY <2>1 DEF Init, Ownership
<1>5. NoFalseActive /\ Knowledge
  BY DEF Init, NoFalseActive, Knowledge, Active
<1>6. Promises
  BY DEF Init, Promises, Promised, NoRead
<1> QED
  BY <1>1, <1>2, <1>4, <1>5, <1>6 DEF IInv

LEMMA InvNext == IInv /\ [Next]_vars => IInv'
<1> SUFFICES ASSUME IInv, [Next]_vars PROVE IInv'
  OBVIOUS
<1>1. CASE UNCHANGED vars
  <2>1. IInv => IInv'
    <3>1. \A t : Queued(t)' = Queued(t)
      BY <1>1, QueueQuiet DEF vars
    <3>2. Promises => Promises'
      BY <1>1 DEF vars, Promises, Promised, FirstRow, Stored
    <3>3. Rows => Rows'
      BY <1>1, RowsQuiet DEF vars
    <3>4. Knowledge => Knowledge'
      BY <1>1, KnowledgeKept DEF vars, Same
    <3>5. (TypeOK => TypeOK') /\ (Ownership => Ownership') /\ (NoFalseActive => NoFalseActive')
      BY <1>1, <3>1 DEF vars, TypeOK, Ownership, Place, NoFalseActive
    <3> QED
      BY <3>2, <3>3, <3>4, <3>5 DEF IInv
  <2> QED
    BY <2>1
<1>2. ASSUME NEW t \in Tasks,
             \/ CreateTask(t) \/ Request(t) \/ PostFails(t) \/ Decide(t)
             \/ Tamper(t) \/ RecoverPlanning(t) \/ RecoveryDropped(t)
      PROVE  IInv'
  BY <1>2, InvRequests, InvDecide, InvTamper, InvRecover, InvDropped DEF Request
<1>3. ASSUME Consume \/ Trouble PROVE IInv'
  BY <1>3, InvConsume, InvCrash DEF Trouble
<1>4. ASSUME NEW r \in Readers, Reading(r) PROVE IInv'
  BY <1>4, InvReading
<1> QED
  BY <1>1, <1>2, <1>3, <1>4 DEF Next

LEMMA InvHolds == Spec => []IInv
BY InvInit, InvNext, PTL DEF Spec

-----------------------------------------------------------------------------
(* The theorems.                                                             *)

\* Every variable has its type, whatever fails: no queue beyond its capacity.
THEOREM TypeCorrect == Spec => []TypeOK
BY InvHolds, PTL DEF IInv

\* Evidence is about one commit and one content, however the files change meanwhile.
THEOREM EvidenceStaysTogether == Spec => []EvidenceAgrees
<1>1. IInv => EvidenceAgrees
  BY DEF IInv, Rows, Story, EvidenceAgrees
<1> QED
  BY <1>1, InvHolds, PTL

\* A status promises the rows and directories of the stages behind it, and no others.
THEOREM StatusMeansRows == Spec => []RowsFollowStatus
<1>1. IInv => RowsFollowStatus
  BY DEF IInv, Rows, Story, RowsFollowStatus
<1> QED
  BY <1>1, InvHolds, PTL

\* A stored failure code names the stage that failed.
THEOREM CodeMeansStage == Spec => []FailureExplained
<1>1. IInv => FailureExplained
  BY DEF IInv, Rows, Story, FailureExplained
<1> QED
  BY <1>1, InvHolds, PTL

\* A task that is active without anybody working on it was taken by a crash or by an
\* unreachable database, and by nothing else.
THEOREM ActiveMeansWork == Spec => []NoFalseActive
BY InvHolds, PTL DEF IInv

\* What a GET request answered stays readable, whatever fails later.
THEOREM AnswersStayTrue == Spec => []ToldStaysTrue
<1>1. IInv => ToldStaysTrue
  BY DEF IInv, Promises, Promised, ToldStaysTrue
<1> QED
  BY <1>1, InvHolds, PTL

-----------------------------------------------------------------------------
(* Who writes a status.                                                      *)

\* The stages that write a status have found their own before them.
LEMMA WorkerTask ==
    ASSUME IInv, pc # "idle"
    PROVE  /\ item \in Tasks
           /\ pc \in {"claim", "publish", "persist", "rank", "plan", "fail"} => status[item] \in Active
<1>1. TypeOK /\ Knowledge
  BY DEF IInv
<1> QED
  BY <1>1, ItemIsTask DEF Knowledge, Explains, Active

\* A settled task changes by a decision only.
LEMMA SettledStep ==
    ASSUME IInv, Next, NEW t \in Tasks, status[t] \in Settled
    PROVE  \/ status'[t] = status[t] /\ code'[t] = code[t]
           \/ status[t] = "waiting_approval" /\ status'[t] = "decision_pending"
<1>0. TypeOK /\ Rows /\ Ownership /\ Knowledge
  BY DEF IInv
<1>1. ASSUME NEW x \in Tasks, NEW s, NEW c, SetStatus(x, s, c), status[x] \notin Settled
      PROVE  status'[t] = status[t] /\ code'[t] = code[t]
  BY <1>0, <1>1 DEF TypeOK
<1>2. ASSUME NEW x \in Tasks, CreateTask(x) \/ MarkQueued(x) \/ FailFull(x)
      PROVE  status'[t] = status[t] /\ code'[t] = code[t]
  <2>1. status[x] \notin Settled
    BY <1>0, <1>2 DEF Ownership, Place, CreateTask, MarkQueued, FailFull, Settled
  <2> QED
    BY <1>1, <1>2, <2>1 DEF CreateTask, MarkQueued, FailFull
<1>3. ASSUME NEW x \in Tasks, Enqueue(x) \/ PostFails(x) \/ Tamper(x) \/ RecoveryDropped(x)
      PROVE  UNCHANGED <<status, code>>
  BY <1>3 DEF Enqueue, PostFails, Tamper, RecoveryDropped
<1>4. ASSUME NEW x \in Tasks, RecoverPlanning(x)
      PROVE  status'[t] = status[t] /\ code'[t] = code[t]
  <2>1. status[x] \notin Settled
    BY <1>0, <1>4 DEF Ownership, Place, RecoverPlanning, Settled
  <2> QED
    BY <1>1, <1>4, <2>1 DEF RecoverPlanning
<1>5. ASSUME NEW x \in Tasks, Decide(x)
      PROVE  \/ status'[t] = status[t] /\ code'[t] = code[t]
             \/ status[t] = "waiting_approval" /\ status'[t] = "decision_pending"
  BY <1>0, <1>5 DEF Decide, TypeOK
<1>6. CASE \/ Claim \/ PublishSnapshot \/ PersistIndex \/ PersistRetrieval \/ PersistPlan
           \/ RecordFailure
  <2>1. item \in Tasks /\ status[item] \notin Settled
    BY <1>6, WorkerTask DEF Claim, PublishSnapshot, PersistIndex, PersistRetrieval, PersistPlan,
                            RecordFailure, Active, Settled
  <2>2. \E s, c : SetStatus(item, s, c)
    BY <1>6 DEF Claim, PublishSnapshot, PersistIndex, PersistRetrieval, PersistPlan, RecordFailure
  <2> QED
    BY <1>1, <2>1, <2>2
<1>7. CASE MarkFailed
  <2>1. CASE status[item] \in Active /\ SetStatus(item, "failed", why)
    <3>1. item \in Tasks /\ status[item] \notin Settled
      BY <1>7, <2>1, WorkerTask DEF MarkFailed, Active, Settled
    <3> QED
      BY <1>1, <2>1, <3>1
  <2> QED
    BY <1>7, <2>1 DEF MarkFailed
<1>8. CASE \/ Take \/ Clone \/ CloneFails \/ Finalize \/ Look \/ FinishPlan \/ HandlerFails
           \/ CrashRestart \/ \E r \in Readers : Reading(r)
  <2>1. UNCHANGED <<status, code>>
    BY <1>0, <1>8, LookWrites DEF Take, Clone, CloneFails, Finalize, FinishPlan, HandlerFails,
       CrashRestart, Reading, StartRead, ReadRows, ReadHead, ReadClean
  <2> QED
    BY <2>1
<1> QED
  BY <1>2, <1>3, <1>4, <1>5, <1>6, <1>7, <1>8 DEF Next, Request, Consume, Trouble, Look

\* No late failure, no late worker and no restart touches a settled task.
THEOREM SettledTasksStay == Spec => SettledStays
<1>1. IInv /\ [Next]_vars =>
          [\A t \in Tasks : status[t] \in Settled =>
              \/ status'[t] = status[t] /\ code'[t] = code[t]
              \/ status[t] = "waiting_approval" /\ status'[t] = "decision_pending"]_vars
  BY SettledStep
<1> QED
  BY <1>1, InvHolds, PTL DEF Spec, SettledStays

-----------------------------------------------------------------------------
(* RepositoryPipeline implements TaskStages.                                 *)

AllShown == [t \in Tasks |-> Shown(t)]

LEMMA ShownKept == ASSUME UNCHANGED <<snapshot, index, evidence>> PROVE AllShown' = AllShown
<1>1. \A t : Shown(t)' = Shown(t)
  BY DEF Shown, Stored
<1> QED
  BY <1>1 DEF AllShown

\* Steps on a status alone.
LEMMA StageMoves ==
    ASSUME NEW x \in Tasks, NEW s, NEW c, SetStatus(x, s, c), UNCHANGED <<snapshot, index, evidence>>,
           \/ status[x] = "absent" /\ s = "created"
           \/ status[x] = "created" /\ s = "queued"
           \/ status[x] = "queued" /\ s = "cloning"
           \/ status[x] = "waiting_approval" /\ s = "decision_pending"
           \/ status[x] = "analyzing" /\ s \in {"waiting_approval", "recovery_blocked"}
           \/ status[x] \in Active /\ s = "failed"
    PROVE  Lifecycle!Next
<1>1. AllShown' = AllShown
  BY ShownKept
<1>2. Lifecycle!Advance(x) \/ Lifecycle!Plan(x) \/ Lifecycle!Fail(x)
  BY <1>1 DEF Lifecycle!Advance, Lifecycle!Plan, Lifecycle!Fail, Lifecycle!Move, Lifecycle!Active,
              Active, AllShown
<1> QED
  BY <1>2 DEF Lifecycle!Next

\* Steps that add evidence.
LEMMA ShownGrows ==
    ASSUME TypeOK, NEW x \in Tasks, NEW v \in Views,
           \A t \in Tasks \ {x} : Shown(t)' = Shown(t), Shown(x)' = Shown(x) \cup {v}
    PROVE  AllShown' = [AllShown EXCEPT ![x] = @ \cup {v}]
BY DEF AllShown

LEMMA StageClone == ASSUME IInv, PublishSnapshot PROVE Lifecycle!Next
<1>0. TypeOK /\ Rows /\ Knowledge
  BY DEF IInv
<1>1. PICK x \in Tasks : item = x
  BY <1>0, ItemIsTask DEF PublishSnapshot
<1>2. /\ status[x] = "cloning" /\ held \in Commits /\ held # NoCommit
      /\ snapshot[x] = NoCommit /\ index[x] = NoCommit /\ evidence[x] = NoCommit
  BY <1>0, <1>1, CommitNames DEF Knowledge, PublishSnapshot, Rows, Story
<1>3. /\ snapshot' = [snapshot EXCEPT ![x] = held] /\ SetStatus(x, "indexing", "none")
      /\ UNCHANGED <<index, evidence>>
  BY <1>1 DEF PublishSnapshot
<1>4. snapshot'[x] = held /\ \A t \in Tasks \ {x} : snapshot'[t] = snapshot[t]
  BY <1>0, <1>3 DEF TypeOK
<1>5. \A t \in Tasks \ {x} : Shown(t)' = Shown(t)
  BY <1>3, <1>4 DEF Shown, Stored
<1>6. Shown(x) = {} /\ Shown(x)' = {"tree"}
  BY <1>2, <1>3, <1>4 DEF Shown, Stored, Views
<1>7. AllShown' = [AllShown EXCEPT ![x] = @ \cup {"tree"}]
  BY <1>0, <1>5, <1>6, ShownGrows DEF Views
<1>8. Lifecycle!Clone(x, held)
  BY <1>2, <1>3, <1>7 DEF Lifecycle!Clone, Lifecycle!Move, Lifecycle!Add, AllShown
<1> QED
  BY <1>2, <1>8 DEF Lifecycle!Next

LEMMA StageIndex == ASSUME IInv, PersistIndex PROVE Lifecycle!Next
<1>0. TypeOK /\ Rows /\ Knowledge
  BY DEF IInv
<1>1. PICK x \in Tasks : item = x
  BY <1>0, ItemIsTask DEF PersistIndex
<1>2. /\ status[x] = "indexing"
      /\ snapshot[x] # NoCommit /\ index[x] = NoCommit /\ evidence[x] = NoCommit
  BY <1>0, <1>1 DEF Knowledge, PersistIndex, Rows, Story
<1>3. /\ index' = [index EXCEPT ![x] = snapshot[x]] /\ SetStatus(x, "retrieving", "none")
      /\ UNCHANGED <<snapshot, evidence>>
  BY <1>1 DEF PersistIndex
<1>4. index'[x] = snapshot[x] /\ \A t \in Tasks \ {x} : index'[t] = index[t]
  BY <1>0, <1>3 DEF TypeOK
<1>5. \A t \in Tasks \ {x} : Shown(t)' = Shown(t)
  BY <1>3, <1>4 DEF Shown, Stored
<1>6. Shown(x) = {"tree"} /\ Shown(x)' = {"tree", "structure"}
  BY <1>2, <1>3, <1>4 DEF Shown, Stored, Views
<1>7. AllShown' = [AllShown EXCEPT ![x] = @ \cup {"structure"}]
  BY <1>0, <1>5, <1>6, ShownGrows DEF Views
<1>8. Lifecycle!Index(x)
  BY <1>2, <1>3, <1>7 DEF Lifecycle!Index, Lifecycle!Move, Lifecycle!Add, AllShown
<1> QED
  BY <1>8 DEF Lifecycle!Next

LEMMA StageRetrieve == ASSUME IInv, PersistRetrieval PROVE Lifecycle!Next
<1>0. TypeOK /\ Rows /\ Knowledge
  BY DEF IInv
<1>1. PICK x \in Tasks : item = x
  BY <1>0, ItemIsTask DEF PersistRetrieval
<1>2. /\ status[x] = "retrieving"
      /\ snapshot[x] # NoCommit /\ index[x] = snapshot[x] /\ evidence[x] = NoCommit
  BY <1>0, <1>1 DEF Knowledge, PersistRetrieval, Rows, Story
<1>3. /\ evidence' = [evidence EXCEPT ![x] = snapshot[x]]
      /\ SetStatus(x, "analyzing", "none") \/ SetStatus(x, "retrieved", "none")
      /\ UNCHANGED <<snapshot, index>>
  BY <1>1 DEF PersistRetrieval
<1>4. evidence'[x] = snapshot[x] /\ \A t \in Tasks \ {x} : evidence'[t] = evidence[t]
  BY <1>0, <1>3 DEF TypeOK
<1>5. \A t \in Tasks \ {x} : Shown(t)' = Shown(t)
  BY <1>3, <1>4 DEF Shown, Stored
<1>6. Shown(x) = {"tree", "structure"} /\ Shown(x)' = {"tree", "structure", "retrieval"}
  BY <1>2, <1>3, <1>4 DEF Shown, Stored, Views
<1>7. AllShown' = [AllShown EXCEPT ![x] = @ \cup {"retrieval"}]
  BY <1>0, <1>5, <1>6, ShownGrows DEF Views
<1>8. Lifecycle!Retrieve(x)
  BY <1>2, <1>3, <1>7 DEF Lifecycle!Retrieve, Lifecycle!Move, Lifecycle!Add, AllShown
<1> QED
  BY <1>8 DEF Lifecycle!Next

LEMMA StageInit == Init => Lifecycle!Init
<1> SUFFICES ASSUME Init PROVE Lifecycle!Init
  OBVIOUS
<1>1. ASSUME NEW t \in Tasks PROVE Shown(t) = {}
  BY DEF Init, Shown, Stored, Views
<1> QED
  BY <1>1 DEF Init, Lifecycle!Init

\* Every step of the pipeline is one stage of one task, or nothing a client sees.
LEMMA StageStep ==
    ASSUME IInv, Next
    PROVE  Lifecycle!Next \/ UNCHANGED <<status, snapshot, AllShown>>
<1>0. TypeOK /\ Rows /\ Ownership /\ Knowledge
  BY DEF IInv
<1>1. ASSUME NEW x \in Tasks, CreateTask(x) \/ MarkQueued(x) \/ FailFull(x)
      PROVE  Lifecycle!Next
  <2>1. CASE CreateTask(x)
    BY <1>0, <2>1, StageMoves DEF CreateTask, Ownership, Place
  <2>2. CASE MarkQueued(x)
    BY <1>0, <2>2, StageMoves DEF MarkQueued, Ownership, Place
  <2>3. CASE FailFull(x)
    BY <1>0, <2>3, StageMoves DEF FailFull, Ownership, Place, Active
  <2> QED
    BY <1>1, <2>1, <2>2, <2>3
<1>2. ASSUME NEW x \in Tasks, Decide(x) \/ RecoverPlanning(x)
      PROVE  Lifecycle!Next
  <2>1. CASE Decide(x)
    BY <2>1, StageMoves DEF Decide
  <2>2. CASE RecoverPlanning(x)
    <3>1. status[x] = "analyzing"
      BY <1>0, <2>2 DEF RecoverPlanning, Ownership, Place
    <3> QED
      BY <2>2, <3>1, StageMoves DEF RecoverPlanning, Active
  <2> QED
    BY <1>2, <2>1, <2>2
<1>3. CASE Claim \/ PersistPlan \/ RecordFailure
  <2>1. PICK x \in Tasks : item = x
    BY <1>3, WorkerTask DEF Claim, PersistPlan, RecordFailure
  <2>2. CASE Claim
    BY <2>1, <2>2, StageMoves DEF Claim
  <2>3. CASE PersistPlan
    BY <1>0, <2>1, <2>3, StageMoves DEF PersistPlan, Knowledge
  <2>4. CASE RecordFailure
    <3>1. status[x] \in Active
      BY <2>1, <2>4, WorkerTask DEF RecordFailure
    <3> QED
      BY <2>1, <2>4, <3>1, StageMoves DEF RecordFailure
  <2> QED
    BY <1>3, <2>2, <2>3, <2>4
<1>4. CASE MarkFailed
  <2>1. PICK x \in Tasks : item = x
    BY <1>4, WorkerTask DEF MarkFailed
  <2>2. CASE status[item] \in Active /\ SetStatus(item, "failed", why)
    BY <1>4, <2>1, <2>2, StageMoves DEF MarkFailed
  <2>3. CASE UNCHANGED <<status, code>>
    BY <1>4, <2>3, ShownKept DEF MarkFailed
  <2> QED
    BY <1>4, <2>2, <2>3 DEF MarkFailed
<1>5. CASE PublishSnapshot \/ PersistIndex \/ PersistRetrieval
  BY <1>5, StageClone, StageIndex, StageRetrieve
<1>6. ASSUME NEW x \in Tasks, Enqueue(x) \/ PostFails(x) \/ Tamper(x) \/ RecoveryDropped(x)
      PROVE  UNCHANGED <<status, snapshot, AllShown>>
  BY <1>6, ShownKept DEF Enqueue, PostFails, Tamper, RecoveryDropped
<1>7. CASE \/ Take \/ Clone \/ CloneFails \/ Finalize \/ Look \/ FinishPlan \/ HandlerFails
           \/ CrashRestart \/ \E r \in Readers : Reading(r)
  <2>1. UNCHANGED rows
    BY <1>0, <1>7, LookWrites DEF Take, Clone, CloneFails, Finalize, FinishPlan, HandlerFails,
       CrashRestart, Reading, StartRead, ReadRows, ReadHead, ReadClean
  <2> QED
    BY <2>1, ShownKept
<1> QED
  BY <1>1, <1>2, <1>3, <1>4, <1>5, <1>6, <1>7 DEF Next, Request, Consume, Trouble, Look

\* The pipeline does to every task what TaskStages promises to its client: each
\* transaction is one stage of one task, and queue, worker and restarts are invisible.
THEOREM PipelineImplementsStages == Spec => ImplementsStages
<1>1. IInv /\ [Next]_vars => [Lifecycle!Next]_(Lifecycle!vars)
  <2> SUFFICES ASSUME IInv, [Next]_vars PROVE Lifecycle!Next \/ UNCHANGED Lifecycle!vars
    OBVIOUS
  <2>1. CASE Next
    BY <2>1, StageStep DEF Lifecycle!vars, AllShown
  <2>2. CASE UNCHANGED vars
    BY <2>2, ShownKept DEF vars, Lifecycle!vars, AllShown
  <2> QED
    BY <2>1, <2>2
<1> QED
  BY <1>1, StageInit, InvHolds, PTL DEF Spec, ImplementsStages, Lifecycle!Spec

===============================================================================
