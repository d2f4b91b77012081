--------------------------- MODULE StartupRecovery ---------------------------
(*****************************************************************************)
(* Start, stop and crash of the process with the work of several tasks.      *)
(* Intents are rows of the database; queues and workers are memory.  A start *)
(* fills the planning queue with pending decisions and, where room is left,  *)
(* with tasks that were being analysed; then the implementation queue with   *)
(* open runs and, where room is left, open tests.  It is the only moment at  *)
(* which a row looks for a place on a queue by itself.                       *)
(*                                                                           *)
(* Decisions, analyses and runs are numbered in the order of their creation. *)
(* What processing does to one row is in PlanningApproval and                *)
(* ImplementationRun; here it settles the row, gives its run up, or ends in  *)
(* an error that the consumer logs and drops.                                *)
(*****************************************************************************)
EXTENDS Naturals, Sequences, FiniteSets, Functions

CONSTANTS
    Decisions,               \* planning_decisions, 1..n by created_at
    Analyses,                \* tasks that reach analysis, 1..n by updated_at
    Runs,                    \* implementation_runs, 1..n by created_at
    PlanningCapacity,        \* settings.planning_decision_queue_capacity
    ImplementationCapacity,  \* settings.implementation_queue_capacity
    MaxCrashes,              \* how often the process dies
    MaxDrops                 \* how often a consumer or a start meets an error

ASSUME CapacityAssumption == PlanningCapacity \in Nat \ {0} /\ ImplementationCapacity \in Nat \ {0}
ASSUME BoundAssumption == MaxCrashes \in Nat /\ MaxDrops \in Nat
ASSUME RowAssumption ==
    \A ids \in {Decisions, Analyses, Runs} : ids \subseteq Nat /\ IsFiniteSet(ids)

-----------------------------------------------------------------------------
Work(kind, ids) == {[kind |-> kind, id |-> i] : i \in ids}
PlanningWork == Work("decision", Decisions) \cup Work("task", Analyses)
ImplementationWork == Work("implementation", Runs) \cup Work("test", Runs)
AnyWork == PlanningWork \cup ImplementationWork
NoWork == [kind |-> "none", id |-> 0]

GivenUp == {"failed", "recovery_blocked"}
RunStatus == {"absent", "pending", "generating_patch", "patch_ready", "test_pending",
              "testing", "tested"} \cup GivenUp

VARIABLES
    decision,    \* status of each decision
    analysis,    \* whether each task is being analysed
    run,         \* status of each implementation run; tested stands for test_failed too
    test,        \* status of its test run
    tests,       \* runs in the order in which their tests were created
    mode,        \* state of the process: lifespan before and behind its yield
    planQueue,   \* PlanningQueue
    planItem,    \* what its consumer works on
    implQueue,   \* ImplementationQueue
    implItem,    \* what its consumer works on
    repoItem,    \* task that the repository queue's consumer is analysing
    left,        \* work whose place was refused by a full queue, or dropped by a consumer
    overlooked,  \* work that the last start found no room for
    crashes, drops

rows    == <<decision, analysis, run, test, tests>>
queues  == <<planQueue, planItem, implQueue, implItem, repoItem>>
bounds  == <<crashes, drops>>
vars    == <<rows, mode, queues, left, overlooked, bounds>>

Init ==
    /\ decision = [d \in Decisions |-> "absent"]
    /\ analysis = [a \in Analyses |-> "absent"]
    /\ run = [r \in Runs |-> "absent"]
    /\ test = [r \in Runs |-> "absent"]
    /\ tests = <<>>
    /\ mode = "down"
    /\ planQueue = <<>> /\ planItem = NoWork
    /\ implQueue = <<>> /\ implItem = NoWork
    /\ repoItem = NoWork
    /\ left = {} /\ overlooked = {}
    /\ crashes = 0 /\ drops = 0

\* The row of w still waits for a worker, or for the end of one.
Open(w) ==
    CASE w.kind = "decision"       -> decision[w.id] = "pending"
      [] w.kind = "task"           -> analysis[w.id] = "analyzing"
      [] w.kind = "implementation" -> run[w.id] \in {"pending", "generating_patch"}
      [] w.kind = "test"           -> test[w.id] \in {"pending", "running"}

\* The test of a run that was given up: its row is never closed.
Stale(w) == w.kind = "test" /\ run[w.id] \in GivenUp

Held(queue, item) == Range(queue) \cup {item}

-----------------------------------------------------------------------------
(* Start and stop: lifespan.                                                 *)

Crash == crashes < MaxCrashes /\ crashes' = crashes + 1 /\ UNCHANGED drops
Drop  == drops < MaxDrops /\ drops' = drops + 1 /\ UNCHANGED crashes

\* The member of S that has n - 1 smaller ones.
Nth(S, n) == CHOOSE i \in S : Cardinality({j \in S : j <= i}) = n

\* ORDER BY and LIMIT over the open rows of one kind; row maps the order of their
\* creation to their ids.
Oldest(row, kind, limit) ==
    LET open == {n \in DOMAIN row : Open([kind |-> kind, id |-> row[n]])}
        found == IF Cardinality(open) < limit THEN Cardinality(open) ELSE limit
    IN  [p \in 1..found |-> [kind |-> kind, id |-> row[Nth(open, p)]]]

ByAge(ids) == [i \in ids |-> i]

LoadPendingDecisionIds(limit) == Oldest(ByAge(Decisions), "decision", limit)
LoadRecoverableTaskIds(limit) == Oldest(ByAge(Analyses), "task", limit)

\* Mutant: the tasks get the whole capacity again.
RecoveredPlanningTwice ==
    LoadPendingDecisionIds(PlanningCapacity) \o LoadRecoverableTaskIds(PlanningCapacity)

RecoveredPlanning ==
    LET first == LoadPendingDecisionIds(PlanningCapacity)
    IN  first \o LoadRecoverableTaskIds(PlanningCapacity - Len(first))

\* Mutant: only runs are found again.
PendingRuns(limit) == Oldest(ByAge(Runs), "implementation", limit)

\* Open tests of runs that were given up are among those found.
PendingWork(limit) ==
    LET first == Oldest(ByAge(Runs), "implementation", limit)
    IN  first \o Oldest(tests, "test", limit - Len(first))

\* Open work that a full queue left no room for.
NoRoomFor(work, queue, capacity) ==
    {w \in work : Open(w) /\ w \notin Range(queue) /\ Len(queue) = capacity}

\* The checkpoint store answers, the queue's consumer starts, pending work is loaded.
StartPlanning ==
    /\ mode = "down"
    /\ planQueue' = RecoveredPlanning
    /\ overlooked' = NoRoomFor(PlanningWork, planQueue', PlanningCapacity)
    /\ left' = {} /\ mode' = "starting"
    /\ UNCHANGED <<rows, planItem, implQueue, implItem, repoItem, bounds>>

\* The same for runs and tests; then the repository queue starts, empty.
StartImplementation ==
    /\ mode = "starting"
    /\ implQueue' = PendingWork(ImplementationCapacity)
    /\ overlooked' = overlooked \cup
                      NoRoomFor(ImplementationWork, implQueue', ImplementationCapacity)
    /\ mode' = "up"
    /\ UNCHANGED <<rows, planQueue, planItem, implItem, repoItem, left, bounds>>

LoseMemory ==
    /\ planQueue' = <<>> /\ implQueue' = <<>>
    /\ planItem' = NoWork /\ implItem' = NoWork /\ repoItem' = NoWork
    /\ left' = {} /\ overlooked' = {}
    /\ UNCHANGED rows

\* The database cannot be read: lifespan raises and the process ends.
StartFails == mode = "starting" /\ Drop /\ mode' = "down" /\ LoseMemory

CrashProcess == mode # "down" /\ Crash /\ mode' = "down" /\ LoseMemory

\* No new requests; the queues are joined, the repository queue first.
BeginStop ==
    /\ mode = "up" /\ mode' = "stopping"
    /\ UNCHANGED <<rows, queues, left, overlooked, bounds>>

\* Mutant: the implementation queue is not joined.
FinishStopEarly ==
    /\ mode = "stopping" /\ mode' = "stopped"
    /\ repoItem = NoWork /\ Held(planQueue, planItem) = {NoWork} /\ implItem = NoWork
    /\ implQueue' = <<>>
    /\ UNCHANGED <<rows, planQueue, planItem, implItem, repoItem, left, overlooked, bounds>>

FinishStop ==
    /\ mode = "stopping" /\ mode' = "stopped"
    /\ repoItem = NoWork
    /\ Held(implQueue, implItem) = {NoWork} /\ Held(planQueue, planItem) = {NoWork}
    /\ UNCHANGED <<rows, queues, left, overlooked, bounds>>

-----------------------------------------------------------------------------
(* Requests: the intent is stored, then it is enqueued or answered 503.  A   *)
(* repeated request finds its row and enqueues it again while it is pending. *)

Offer(w, queue, capacity) ==
    \/ Len(queue) < capacity /\ left' = left \ {w} /\ overlooked' = overlooked \ {w}
    \/ Len(queue) = capacity /\ left' = left \cup {w} /\ UNCHANGED overlooked

Appended(w, queue, capacity) == IF Len(queue) < capacity THEN Append(queue, w) ELSE queue

OfferPlanning(w) ==
    /\ Offer(w, planQueue, PlanningCapacity)
    /\ planQueue' = Appended(w, planQueue, PlanningCapacity)
    /\ UNCHANGED <<mode, planItem, implQueue, implItem, repoItem, bounds>>

OfferImplementation(w) ==
    /\ Offer(w, implQueue, ImplementationCapacity)
    /\ implQueue' = Appended(w, implQueue, ImplementationCapacity)
    /\ UNCHANGED <<mode, planQueue, planItem, implItem, repoItem, bounds>>

\* Rows are created in the order of their numbers.
NextOf(d, status) == status[d] = "absent" /\ \A e \in DOMAIN status : e < d => status[e] # "absent"

SubmitDecision(d) ==
    /\ mode = "up"
    /\ \/ NextOf(d, decision) /\ decision' = [decision EXCEPT ![d] = "pending"]
       \/ decision[d] = "pending" /\ UNCHANGED decision
    /\ OfferPlanning([kind |-> "decision", id |-> d])
    /\ UNCHANGED <<analysis, run, test, tests>>

SubmitImplementation(r) ==
    /\ mode = "up"
    /\ \/ NextOf(r, run) /\ run' = [run EXCEPT ![r] = "pending"]
       \/ run[r] \in {"pending", "generating_patch"} /\ UNCHANGED run
    /\ OfferImplementation([kind |-> "implementation", id |-> r])
    /\ UNCHANGED <<decision, analysis, test, tests>>

SubmitTest(r) ==
    /\ mode = "up"
    /\ \/ /\ run[r] = "patch_ready" /\ test[r] = "absent"
          /\ run' = [run EXCEPT ![r] = "test_pending"]
          /\ test' = [test EXCEPT ![r] = "pending"]
          /\ tests' = Append(tests, r)
       \/ test[r] = "pending" /\ UNCHANGED <<run, test, tests>>
    /\ OfferImplementation([kind |-> "test", id |-> r])
    /\ UNCHANGED <<decision, analysis>>

-----------------------------------------------------------------------------
(* The consumer of the repository queue, as far as it analyses tasks.        *)

Analyse(a) ==
    /\ mode \in {"up", "stopping"} /\ repoItem = NoWork
    /\ NextOf(a, analysis)
    /\ analysis' = [analysis EXCEPT ![a] = "analyzing"]
    /\ repoItem' = [kind |-> "task", id |-> a]
    /\ UNCHANGED <<decision, run, test, tests, mode, planQueue, planItem, implQueue, implItem,
                   left, overlooked, bounds>>

EndAnalysis ==
    /\ repoItem # NoWork
    /\ analysis' = [analysis EXCEPT ![repoItem.id] = "ended"]
    /\ repoItem' = NoWork
    /\ UNCHANGED <<decision, run, test, tests, mode, planQueue, planItem, implQueue, implItem,
                   left, overlooked, bounds>>

-----------------------------------------------------------------------------
(* The consumer of the planning queue.                                       *)

TakePlanning ==
    /\ mode # "down" /\ planItem = NoWork /\ planQueue # <<>>
    /\ planItem' = planQueue[1] /\ planQueue' = Tail(planQueue)
    /\ UNCHANGED <<rows, mode, implQueue, implItem, repoItem, left, overlooked, bounds>>

FreePlanning ==
    /\ planItem' = NoWork
    /\ UNCHANGED <<run, test, tests, mode, planQueue, implQueue, implItem, repoItem, overlooked>>

ProcessPlanning ==
    /\ planItem # NoWork
    /\ \/ /\ planItem.kind = "decision"
          /\ decision' = [decision EXCEPT ![planItem.id] = "settled"] /\ UNCHANGED analysis
       \/ /\ planItem.kind = "task"
          /\ analysis' = [analysis EXCEPT ![planItem.id] = "ended"] /\ UNCHANGED decision
    /\ FreePlanning /\ UNCHANGED <<left, bounds>>

\* A conflict or an infrastructure error leaves the processor, and is only logged.
DropPlanning ==
    /\ planItem # NoWork /\ Drop
    /\ left' = left \cup {planItem}
    /\ FreePlanning /\ UNCHANGED <<decision, analysis>>

-----------------------------------------------------------------------------
(* The consumer of the implementation queue.                                 *)

TakeImplementation ==
    /\ mode # "down" /\ implItem = NoWork /\ implQueue # <<>>
    /\ implItem' = implQueue[1] /\ implQueue' = Tail(implQueue)
    /\ UNCHANGED <<rows, mode, planQueue, planItem, repoItem, left, overlooked, bounds>>

Working(kind, r) == implItem = [kind |-> kind, id |-> r]

FreeImplementation == implItem' = NoWork

Elsewhere == UNCHANGED <<decision, analysis, tests, mode, planQueue, planItem, implQueue,
                         repoItem, overlooked>>

\* store.fail: a verdict and an earlier failure are protected, a blocked run is not.
Fail(r, verdict) == run' = [run EXCEPT ![r] = IF @ \in {"tested", "failed"} THEN @ ELSE verdict]

GeneratePatch(r) ==
    /\ Working("implementation", r)
    /\ \/ /\ run[r] = "pending" /\ run' = [run EXCEPT ![r] = "generating_patch"]
          /\ UNCHANGED implItem
       \/ /\ run[r] = "generating_patch" /\ run' = [run EXCEPT ![r] = "patch_ready"]
          /\ FreeImplementation
    /\ Elsewhere /\ UNCHANGED <<test, left, bounds>>

\* The patch fails, or the run was carried further by an item before this one: then
\* it is inconsistent, unless git fails before that is noticed.
GiveUpRun(r) ==
    /\ Working("implementation", r)
    /\ \E v \in GivenUp : Fail(r, v)
    /\ FreeImplementation /\ Elsewhere /\ UNCHANGED <<test, left, bounds>>

\* Mutant: the test alone decides.
StartTestOfAny(r) ==
    /\ Working("test", r) /\ test[r] = "pending"
    /\ run' = [run EXCEPT ![r] = "testing"]
    /\ test' = [test EXCEPT ![r] = "running"]
    /\ UNCHANGED implItem /\ Elsewhere /\ UNCHANGED <<left, bounds>>

\* mark_testing; the container runs until EndTest.
StartTest(r) ==
    /\ Working("test", r) /\ test[r] = "pending" /\ run[r] = "test_pending"
    /\ run' = [run EXCEPT ![r] = "testing"]
    /\ test' = [test EXCEPT ![r] = "running"]
    /\ UNCHANGED implItem /\ Elsewhere /\ UNCHANGED <<left, bounds>>

EndTest(r) ==
    /\ Working("test", r) /\ test[r] = "running" /\ run[r] = "testing"
    /\ run' = [run EXCEPT ![r] = "tested"]
    /\ test' = [test EXCEPT ![r] = "finished"]
    /\ FreeImplementation /\ Elsewhere /\ UNCHANGED <<left, bounds>>

\* The facts do not agree, the runner fails, the run is not test_pending, or the test
\* was running when the process died: the run is given up, the row of the test stays.
GiveUpTest(r) ==
    /\ Working("test", r) /\ test[r] \in {"pending", "running"}
    /\ \E v \in GivenUp : Fail(r, v)
    /\ FreeImplementation /\ Elsewhere /\ UNCHANGED <<test, left, bounds>>

SkipTest(r) ==
    /\ Working("test", r) /\ test[r] = "finished"
    /\ FreeImplementation /\ Elsewhere /\ UNCHANGED <<run, test, left, bounds>>

DropImplementation ==
    /\ implItem # NoWork /\ Drop
    /\ left' = left \cup {implItem}
    /\ FreeImplementation /\ Elsewhere /\ UNCHANGED <<run, test>>

-----------------------------------------------------------------------------
Start == StartPlanning \/ StartImplementation

ConsumePlanning == TakePlanning \/ ProcessPlanning

ConsumeImplementation ==
    \/ TakeImplementation
    \/ \E r \in Runs : \/ GeneratePatch(r) \/ GiveUpRun(r)
                       \/ StartTest(r) \/ EndTest(r) \/ GiveUpTest(r) \/ SkipTest(r)

Next ==
    \/ Start \/ StartFails \/ CrashProcess \/ BeginStop \/ FinishStop
    \/ \E d \in Decisions : SubmitDecision(d)
    \/ \E r \in Runs : SubmitImplementation(r) \/ SubmitTest(r)
    \/ \E a \in Analyses : Analyse(a)
    \/ EndAnalysis
    \/ ConsumePlanning \/ DropPlanning
    \/ ConsumeImplementation \/ DropImplementation

Spec == Init /\ [][Next]_vars

\* A process that is down is started, a start goes on, the consumers are resumed.
FairSpec == /\ Spec
            /\ WF_vars(Start) /\ WF_vars(FinishStop) /\ WF_vars(EndAnalysis)
            /\ WF_vars(ConsumePlanning) /\ WF_vars(ConsumeImplementation)

-----------------------------------------------------------------------------
(* Properties.                                                               *)

\* Every variable has its type; above all no start and no request overfills a queue.
TypeOK ==
    /\ decision \in [Decisions -> {"absent", "pending", "settled"}]
    /\ analysis \in [Analyses -> {"absent", "analyzing", "ended"}]
    /\ run \in [Runs -> RunStatus]
    /\ test \in [Runs -> {"absent", "pending", "running", "finished"}]
    /\ tests \in Seq(Runs)
    /\ mode \in {"down", "starting", "up", "stopping", "stopped"}
    /\ planQueue \in Seq(PlanningWork) /\ Len(planQueue) <= PlanningCapacity
    /\ implQueue \in Seq(ImplementationWork) /\ Len(implQueue) <= ImplementationCapacity
    /\ planItem \in PlanningWork \cup {NoWork}
    /\ implItem \in ImplementationWork \cup {NoWork}
    /\ repoItem \in Work("task", Analyses) \cup {NoWork}
    /\ left \subseteq AnyWork /\ overlooked \subseteq AnyWork
    /\ crashes \in 0..MaxCrashes /\ drops \in 0..MaxDrops

\* From the start of its queue to the end of the process, and also after a graceful
\* stop, open work has a place on a queue or with a consumer, or there is a reason why
\* not: a full queue refused it, a consumer dropped it, or the start had no room left.
WorkHasPlace ==
    /\ mode # "down" =>
           \A w \in PlanningWork :
               Open(w) => \/ w \in Held(planQueue, planItem) \cup {repoItem}
                          \/ w \in left \cup overlooked
    /\ mode \in {"up", "stopping", "stopped"} =>
           \A w \in ImplementationWork :
               Open(w) /\ ~Stale(w) =>
                   w \in Held(implQueue, implItem) \cup left \cup overlooked

\* A run that was given up is never taken up again, though the row of its test stays
\* pending and is processed at every start (mark_testing, fail).
GivenUpStays == [][\A r \in Runs : run[r] \in GivenUp => run'[r] \in GivenUp]_vars

\* What waits for a worker is settled, across crashes, failed starts and stops, unless a
\* full queue refused it, a consumer dropped it or the last start had no room for it.
WorkSettles ==
    \A w \in AnyWork : Open(w) ~> \/ ~Open(w) \/ Stale(w)
                                  \/ w \in left \cup overlooked
                                  \/ mode = "stopped"

\* At the start, live tests that fit on the queue together with the live runs are
\* processed: the authorisation of a test is safe in its row (docs/architecture.md).
LiveWork == {w \in ImplementationWork : Open(w) /\ ~Stale(w)}
AuthorisedTestResumes ==
    \A r \in Runs :
        LET w == [kind |-> "test", id |-> r]
        IN  mode = "starting" /\ w \in LiveWork /\ Cardinality(LiveWork) <= ImplementationCapacity
                ~> ~Open(w) \/ Stale(w) \/ mode = "stopped"

===============================================================================
