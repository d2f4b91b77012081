------------------------- MODULE StartupRecoveryProofs -------------------------
(*****************************************************************************)
(* Nothing that waits is forgotten: open work has a place with a worker, or  *)
(* there is a reason why not; and a run that was given up stays given up.    *)
(* For any number of tasks and runs, any capacities, and any number of       *)
(* crashes and dropped items.                                                *)
(*                                                                           *)
(* IInv is the inductive invariant.  The rows of a run and its test agree    *)
(* until the run is given up, so a test whose run is done is done as well;   *)
(* and every test was created, so the start that lists tests meets it.       *)
(*****************************************************************************)
EXTENDS StartupRecovery, TLAPS, FiniteSetTheorems, FunctionTheorems, SequenceTheorems

-----------------------------------------------------------------------------
(* The inductive invariant. *)

\* The row of a test and the row of its run agree until the run is given up.
TestsFit ==
    \A r \in Runs :
        /\ run[r] \in {"absent", "pending", "generating_patch", "patch_ready"} => test[r] = "absent"
        /\ run[r] = "tested" => test[r] = "finished"

\* Every test was created.
TestsListed == \A r \in Runs : test[r] # "absent" => \E n \in DOMAIN tests : tests[n] = r

\* WorkHasPlace, for either queue.
PlanningPlaced ==
    mode # "down" =>
        \A w \in PlanningWork :
            Open(w) => w \in Held(planQueue, planItem) \cup {repoItem} \cup left \cup overlooked

ImplementationPlaced ==
    mode \in {"up", "stopping", "stopped"} =>
        \A w \in ImplementationWork :
            Open(w) /\ ~Stale(w) => w \in Held(implQueue, implItem) \cup left \cup overlooked

IInv == TypeOK /\ TestsListed /\ TestsFit /\ PlanningPlaced /\ ImplementationPlaced

-----------------------------------------------------------------------------
(* What happens to runs. *)

RunType == run \in [Runs -> RunStatus]

\* All that ever happens to runs.
RunWriters ==
    \E r \in Runs : \/ SubmitImplementation(r) \/ SubmitTest(r) \/ GeneratePatch(r)
                    \/ GiveUpRun(r) \/ StartTest(r) \/ EndTest(r) \/ GiveUpTest(r)

\* The other steps leave every run and every test alone.
LEMMA RowsLeftAlone == ASSUME [Next]_vars PROVE RunWriters \/ UNCHANGED <<run, test, tests>>
<1> USE DEF rows, queues, bounds
<1>1. CASE Start \/ StartFails \/ CrashProcess \/ BeginStop \/ FinishStop
  BY <1>1 DEF Start, StartPlanning, StartImplementation, StartFails, CrashProcess, LoseMemory,
              BeginStop, FinishStop
<1>2. ASSUME NEW d \in Decisions, SubmitDecision(d) PROVE UNCHANGED <<run, test, tests>>
  BY <1>2 DEF SubmitDecision
<1>3. ASSUME NEW a \in Analyses, Analyse(a) PROVE UNCHANGED <<run, test, tests>>
  BY <1>3 DEF Analyse
<1>4. CASE EndAnalysis
  BY <1>4 DEF EndAnalysis
<1>5. CASE ConsumePlanning \/ DropPlanning
  BY <1>5 DEF ConsumePlanning, TakePlanning, ProcessPlanning, DropPlanning, FreePlanning
<1>6. CASE TakeImplementation \/ DropImplementation
  BY <1>6 DEF TakeImplementation, DropImplementation, Elsewhere
<1>7. ASSUME NEW r \in Runs, SkipTest(r) PROVE UNCHANGED <<run, test, tests>>
  BY <1>7 DEF SkipTest, Elsewhere
<1>8. CASE UNCHANGED vars
  BY <1>8 DEF vars
<1> QED
  BY <1>1, <1>2, <1>3, <1>4, <1>5, <1>6, <1>7, <1>8 DEF Next, ConsumeImplementation, RunWriters

\* One run is written, in the order of its life, or given up unless it has a verdict.
LEMMA RunWrite ==
    ASSUME RunType, RunWriters
    PROVE  \/ UNCHANGED run
           \/ \E r \in Runs, s \in RunStatus : /\ run' = [run EXCEPT ![r] = s]
                                               /\ run[r] \in GivenUp => s \in GivenUp
<1> USE DEF RunType, RunStatus, GivenUp
<1>1. PICK r \in Runs : \/ SubmitImplementation(r) \/ SubmitTest(r) \/ GeneratePatch(r)
                        \/ GiveUpRun(r) \/ StartTest(r) \/ EndTest(r) \/ GiveUpTest(r)
  BY DEF RunWriters
<1>2. run[r] \in RunStatus
  OBVIOUS
<1>3. CASE SubmitImplementation(r)
  <2>1. UNCHANGED run \/ (run[r] = "absent" /\ run' = [run EXCEPT ![r] = "pending"])
    BY <1>3 DEF SubmitImplementation, NextOf
  <2> QED
    BY <2>1
<1>4. CASE SubmitTest(r)
  <2>1. UNCHANGED run \/ (run[r] = "patch_ready" /\ run' = [run EXCEPT ![r] = "test_pending"])
    BY <1>4 DEF SubmitTest
  <2> QED
    BY <2>1
<1>5. CASE GeneratePatch(r)
  <2>1. \/ run[r] = "pending" /\ run' = [run EXCEPT ![r] = "generating_patch"]
        \/ run[r] = "generating_patch" /\ run' = [run EXCEPT ![r] = "patch_ready"]
    BY <1>5 DEF GeneratePatch
  <2> QED
    BY <2>1
<1>6. CASE StartTest(r)
  <2>1. run[r] = "test_pending" /\ run' = [run EXCEPT ![r] = "testing"]
    BY <1>6 DEF StartTest
  <2> QED
    BY <2>1
<1>7. CASE EndTest(r)
  <2>1. run[r] = "testing" /\ run' = [run EXCEPT ![r] = "tested"]
    BY <1>7 DEF EndTest
  <2> QED
    BY <2>1
<1>8. ASSUME NEW v \in GivenUp, Fail(r, v)
      PROVE  \E s \in RunStatus : /\ run' = [run EXCEPT ![r] = s]
                                  /\ run[r] \in GivenUp => s \in GivenUp
  <2> DEFINE s == IF run[r] \in {"tested", "failed"} THEN run[r] ELSE v
  <2>1. run' = [run EXCEPT ![r] = s] /\ s \in RunStatus
    BY <1>2, <1>8 DEF Fail
  <2> QED
    BY <2>1
<1>9. CASE GiveUpRun(r) \/ GiveUpTest(r)
  <2>1. \E v \in GivenUp : Fail(r, v)
    BY <1>9 DEF GiveUpRun, GiveUpTest
  <2> QED
    BY <1>8, <2>1
<1> QED
  BY <1>1, <1>3, <1>4, <1>5, <1>6, <1>7, <1>9

LEMMA RunStep ==
    ASSUME RunType, [Next]_vars
    PROVE  RunType' /\ \A r \in Runs : run[r] \in GivenUp => run'[r] \in GivenUp
<1>1. CASE UNCHANGED run
  BY <1>1 DEF RunType
<1>2. CASE \E r \in Runs, s \in RunStatus : /\ run' = [run EXCEPT ![r] = s]
                                            /\ run[r] \in GivenUp => s \in GivenUp
  BY <1>2 DEF RunType
<1> QED
  BY <1>1, <1>2, RowsLeftAlone, RunWrite


\* No start, no late item and no retry takes up a run that failed or was blocked, however
\* often the row of its test is processed (mark_testing, fail).
THEOREM GivenUpForGood == Spec => GivenUpStays
<1>1. Init => RunType
  BY DEF Init, RunType, RunStatus
<1>2. RunType /\ [Next]_vars => RunType'
  BY RunStep
<1>3. RunType /\ [Next]_vars => [\A r \in Runs : run[r] \in GivenUp => run'[r] \in GivenUp]_vars
  BY RunStep
<1> QED
  BY <1>1, <1>2, <1>3, PTL DEF Spec, GivenUpStays

-----------------------------------------------------------------------------
(* What a start reads of the rows. *)

\* Counting a finite set of numbers from below meets every member once.
LEMMA NthIs ==
    ASSUME NEW S \in SUBSET Nat, IsFiniteSet(S)
    PROVE  /\ Cardinality(S) \in Nat
           /\ \A n \in 1 .. Cardinality(S) : Nth(S, n) \in S
           /\ \A i \in S : \E n \in 1 .. Cardinality(S) : Nth(S, n) = i
<1> DEFINE upTo(i) == {j \in S : j <= i}
           N == Cardinality(S)
           rank == [i \in S |-> Cardinality(upTo(i))]
<1>1. N \in Nat
  BY FS_CardinalityType
<1>2. ASSUME NEW i \in S
      PROVE  IsFiniteSet(upTo(i)) /\ Cardinality(upTo(i)) \in 1 .. N
  <2>1. IsFiniteSet(upTo(i)) /\ Cardinality(upTo(i)) <= N
    BY FS_Subset
  <2>2. Cardinality(upTo(i)) \in Nat /\ upTo(i) # {}
    BY <2>1, FS_CardinalityType
  <2> QED
    BY <1>1, <2>1, <2>2, FS_EmptySet
<1>3. ASSUME NEW i \in S, NEW k \in S, i < k
      PROVE  Cardinality(upTo(i)) # Cardinality(upTo(k))
  <2>1. i \in Nat /\ k \in Nat /\ \A j \in S : j \in Nat
    OBVIOUS
  <2>2. \A j \in S : j <= i => j <= k
    BY <1>3, <2>1
  <2>3. k <= k /\ ~(k <= i)
    BY <1>3, <2>1
  <2>4. upTo(i) \in SUBSET upTo(k) /\ k \in upTo(k) /\ k \notin upTo(i)
    BY <2>2, <2>3
  <2> QED
    BY <1>2, <2>4, FS_Subset
<1>4. rank \in [S -> 1 .. N] /\ \A i, k \in S : rank[i] = rank[k] => i = k
  <2>1. \A i, k \in S : i < k \/ k < i \/ i = k
    OBVIOUS
  <2> QED
    BY <1>2, <1>3, <2>1
<1>5. rank \in Injection(S, 1 .. N)
  BY <1>4, Fun_IsInj
<1>6. IsFiniteSet(1 .. N) /\ Cardinality(1 .. N) = N
  BY <1>1, FS_Interval
<1>7. rank \in Surjection(S, 1 .. N)
  BY <1>5, <1>6, FS_Injection
<1>8. ASSUME NEW i \in S PROVE Nth(S, rank[i]) = i
  BY <1>4 DEF Nth
<1>9. \A n \in 1 .. N : \E i \in S : rank[i] = n
  BY <1>7 DEF Surjection
<1> HIDE DEF rank
<1>10. ASSUME NEW n \in 1 .. N PROVE Nth(S, n) \in S
  BY <1>8, <1>9
<1>11. ASSUME NEW i \in S PROVE \E n \in 1 .. N : Nth(S, n) = i
  BY <1>4, <1>8
<1> QED
  BY <1>1, <1>10, <1>11

\* What a start reads of one kind of work: at most `limit`, and all of it when less.
LEMMA OldestIs ==
    ASSUME NEW row, NEW ids, NEW kind, NEW limit \in Nat, DOMAIN row \in SUBSET Nat,
           IsFiniteSet(DOMAIN row), \A n \in DOMAIN row : row[n] \in ids
    PROVE  /\ Oldest(row, kind, limit) \in Seq(Work(kind, ids))
           /\ Len(Oldest(row, kind, limit)) <= limit
           /\ \A n \in DOMAIN row :
                  /\ Open([kind |-> kind, id |-> row[n]])
                  /\ Len(Oldest(row, kind, limit)) < limit
                  => [kind |-> kind, id |-> row[n]] \in Range(Oldest(row, kind, limit))
<1> DEFINE W(n) == [kind |-> kind, id |-> row[n]]
           open == {n \in DOMAIN row : Open(W(n))}
           N == Cardinality(open)
           found == IF N < limit THEN N ELSE limit
           o == Oldest(row, kind, limit)
<1>1. open \in SUBSET Nat /\ IsFiniteSet(open)
  BY FS_Subset
<1>2. /\ N \in Nat
      /\ \A p \in 1 .. N : Nth(open, p) \in open
      /\ \A n \in open : \E p \in 1 .. N : Nth(open, p) = n
  <2> HIDE DEF open
  <2> QED
    BY <1>1, NthIs
<1>3. o = [p \in 1 .. found |-> W(Nth(open, p))]
  BY DEF Oldest
<1>4. found \in Nat /\ found <= limit /\ found <= N
  BY <1>2
<1>5. \A n \in DOMAIN row : W(n) \in Work(kind, ids)
  BY DEF Work
<1>6. \A p \in 1 .. found : W(Nth(open, p)) \in Work(kind, ids)
  BY <1>2, <1>4, <1>5
<1>7. o \in [1 .. found -> Work(kind, ids)]
  <2> HIDE DEF W, open, found, o
  <2> QED
    BY <1>3, <1>6
<1>8. o \in Seq(Work(kind, ids)) /\ Len(o) = found
  <2> HIDE DEF W, open, found, o
  <2>1. o \in Seq(Work(kind, ids))
    BY <1>4, <1>7, SeqDef
  <2> QED
    BY <1>4, <1>7, <2>1, LenProperties
<1>9. ASSUME NEW n \in open, found < limit PROVE W(n) \in Range(o)
  <2>1. PICK p \in 1 .. N : Nth(open, p) = n
    BY <1>2
  <2>2. found = N
    BY <1>9
  <2>3. p \in DOMAIN o /\ o[p] = W(n)
    <3> HIDE DEF W, open, N, o
    <3> QED
      BY <1>3, <1>7, <2>1, <2>2
  <2> HIDE DEF W, o
  <2> QED
    BY <2>3 DEF Range
<1> QED
  BY <1>4, <1>8, <1>9

\* Kinds of work.
LEMMA WorkIs ==
    /\ \A k, ids : \A i \in ids : [kind |-> k, id |-> i] \in Work(k, ids)
    /\ \A k, ids : \A w \in Work(k, ids) :
           w.kind = k /\ w.id \in ids /\ w = [kind |-> k, id |-> w.id]
    /\ NoWork \notin AnyWork
    /\ PlanningWork \subseteq AnyWork /\ ImplementationWork \subseteq AnyWork
<1>1. \A k, ids : \A i \in ids : [kind |-> k, id |-> i] \in Work(k, ids)
  BY DEF Work
<1>2. \A k, ids : \A w \in Work(k, ids) :
          w.kind = k /\ w.id \in ids /\ w = [kind |-> k, id |-> w.id]
  BY DEF Work
<1>3. \A w \in AnyWork : w.kind \in {"decision", "task", "implementation", "test"}
  BY <1>2 DEF AnyWork, PlanningWork, ImplementationWork
<1>4. NoWork.kind = "none"
  BY DEF NoWork
<1> QED
  BY <1>1, <1>2, <1>3, <1>4 DEF AnyWork

LEMMA TypeInit == ASSUME Init PROVE TypeOK
<1>1. Len(<<>>) = 0 /\ \A S : <<>> \in Seq(S)
  OBVIOUS
<1> QED
  BY <1>1, CapacityAssumption, BoundAssumption DEF Init, TypeOK, RunStatus

LEMMA ReadTwice ==
    ASSUME NEW K, NEW capacity \in Nat, NEW a \in Seq(K), NEW b \in Seq(K),
           Len(b) <= capacity - Len(a)
    PROVE  /\ a \o b \in Seq(K) /\ Len(a \o b) = Len(a) + Len(b) /\ Len(a \o b) <= capacity
           /\ Range(a \o b) = Range(a) \cup Range(b)
<1>1. a \o b \in Seq(K) /\ Len(a \o b) = Len(a) + Len(b) /\ Len(a) \in Nat /\ Len(b) \in Nat
  OBVIOUS
<1> QED
  BY <1>1, RangeConcatenation

\* What a start puts on the planning queue: all open work, or as much as it holds.
LEMMA RecoveredIs ==
    ASSUME TypeOK
    PROVE  /\ RecoveredPlanning \in Seq(PlanningWork)
           /\ Len(RecoveredPlanning) <= PlanningCapacity
           /\ \A w \in PlanningWork :
                  Open(w) /\ Len(RecoveredPlanning) # PlanningCapacity
                     => w \in Range(RecoveredPlanning)
<1> DEFINE a == LoadPendingDecisionIds(PlanningCapacity)
           b == LoadRecoverableTaskIds(PlanningCapacity - Len(a))
<1>1. PlanningCapacity \in Nat
  BY CapacityAssumption
<1>2. \A ids \in {Decisions, Analyses} :
          /\ DOMAIN ByAge(ids) = ids /\ ids \in SUBSET Nat /\ IsFiniteSet(ids)
          /\ \A n \in ids : ByAge(ids)[n] = n
  BY RowAssumption DEF ByAge
<1>3. /\ a \in Seq(Work("decision", Decisions)) /\ Len(a) <= PlanningCapacity
      /\ \A d \in Decisions : /\ Open([kind |-> "decision", id |-> d])
                              /\ Len(a) < PlanningCapacity
                              => [kind |-> "decision", id |-> d] \in Range(a)
  <2> DEFINE row == ByAge(Decisions)
  <2>1. /\ DOMAIN row = Decisions /\ DOMAIN row \in SUBSET Nat /\ IsFiniteSet(DOMAIN row)
        /\ \A n \in DOMAIN row : row[n] \in Decisions /\ row[n] = n
    BY <1>2
  <2> HIDE DEF row
  <2>2. /\ Oldest(row, "decision", PlanningCapacity) \in Seq(Work("decision", Decisions))
        /\ Len(Oldest(row, "decision", PlanningCapacity)) <= PlanningCapacity
        /\ \A n \in DOMAIN row :
               /\ Open([kind |-> "decision", id |-> row[n]])
               /\ Len(Oldest(row, "decision", PlanningCapacity)) < PlanningCapacity
               => [kind |-> "decision", id |-> row[n]]
                     \in Range(Oldest(row, "decision", PlanningCapacity))
    BY <1>1, <2>1, OldestIs
  <2> USE DEF row
  <2> QED
    BY <2>1, <2>2 DEF LoadPendingDecisionIds
<1>4. Len(a) \in Nat /\ PlanningCapacity - Len(a) \in Nat
  <2> HIDE DEF a
  <2> QED
    BY <1>1, <1>3
<1>5. /\ b \in Seq(Work("task", Analyses)) /\ Len(b) <= PlanningCapacity - Len(a)
      /\ \A t \in Analyses : /\ Open([kind |-> "task", id |-> t])
                             /\ Len(b) < PlanningCapacity - Len(a)
                             => [kind |-> "task", id |-> t] \in Range(b)
  <2> DEFINE row == ByAge(Analyses)
             room == PlanningCapacity - Len(a)
  <2>1. /\ DOMAIN row = Analyses /\ DOMAIN row \in SUBSET Nat /\ IsFiniteSet(DOMAIN row)
        /\ \A n \in DOMAIN row : row[n] \in Analyses /\ row[n] = n
    BY <1>2
  <2>2. room \in Nat
    BY <1>4
  <2> HIDE DEF row, room
  <2>3. /\ Oldest(row, "task", room) \in Seq(Work("task", Analyses))
        /\ Len(Oldest(row, "task", room)) <= room
        /\ \A n \in DOMAIN row :
               /\ Open([kind |-> "task", id |-> row[n]]) /\ Len(Oldest(row, "task", room)) < room
               => [kind |-> "task", id |-> row[n]] \in Range(Oldest(row, "task", room))
    BY <2>1, <2>2, OldestIs
  <2> USE DEF row, room
  <2> QED
    BY <2>1, <2>3 DEF LoadRecoverableTaskIds
<1>6. RecoveredPlanning = a \o b
  BY DEF RecoveredPlanning
<1> HIDE DEF a, b
<1>7. a \in Seq(PlanningWork) /\ b \in Seq(PlanningWork)
  BY <1>3, <1>5, SeqMonotonic DEF PlanningWork
<1>8. /\ a \o b \in Seq(PlanningWork) /\ Len(a \o b) = Len(a) + Len(b)
      /\ Len(a \o b) <= PlanningCapacity /\ Range(a \o b) = Range(a) \cup Range(b)
  BY <1>1, <1>5, <1>7, ReadTwice
<1>9. ASSUME NEW w \in PlanningWork, Open(w), Len(a \o b) # PlanningCapacity
      PROVE  w \in Range(a) \cup Range(b)
  <2>1. Len(b) \in Nat
    BY <1>5
  <2>2. Len(a) < PlanningCapacity /\ Len(b) < PlanningCapacity - Len(a)
    BY <1>1, <1>4, <1>5, <1>8, <1>9, <2>1
  <2>3. CASE w \in Work("decision", Decisions)
    <3>1. w.id \in Decisions /\ w = [kind |-> "decision", id |-> w.id]
      BY <2>3, WorkIs
    <3> QED
      BY <1>3, <1>9, <2>2, <3>1
  <2>4. CASE w \in Work("task", Analyses)
    <3>1. w.id \in Analyses /\ w = [kind |-> "task", id |-> w.id]
      BY <2>4, WorkIs
    <3> QED
      BY <1>5, <1>9, <2>2, <3>1
  <2> QED
    BY <2>3, <2>4 DEF PlanningWork
<1> QED
  BY <1>6, <1>8, <1>9

\* The same of the implementation queue.
LEMMA PendingIs ==
    ASSUME TypeOK
    PROVE  /\ PendingWork(ImplementationCapacity) \in Seq(ImplementationWork)
           /\ Len(PendingWork(ImplementationCapacity)) <= ImplementationCapacity
           /\ \A w \in ImplementationWork :
                  /\ TestsListed /\ Open(w)
                  /\ Len(PendingWork(ImplementationCapacity)) # ImplementationCapacity
                  => w \in Range(PendingWork(ImplementationCapacity))
<1> DEFINE cap == ImplementationCapacity
           a == Oldest(ByAge(Runs), "implementation", cap)
           room == cap - Len(a)
           b == Oldest(tests, "test", room)
<1>1. cap \in Nat
  BY CapacityAssumption
<1>2. /\ a \in Seq(Work("implementation", Runs)) /\ Len(a) <= cap
      /\ \A r \in Runs : Open([kind |-> "implementation", id |-> r]) /\ Len(a) < cap
                         => [kind |-> "implementation", id |-> r] \in Range(a)
  <2> DEFINE row == ByAge(Runs)
  <2>1. /\ DOMAIN row = Runs /\ DOMAIN row \in SUBSET Nat /\ IsFiniteSet(DOMAIN row)
        /\ \A n \in DOMAIN row : row[n] \in Runs /\ row[n] = n
    BY RowAssumption DEF ByAge
  <2> HIDE DEF row, cap
  <2>2. /\ Oldest(row, "implementation", cap) \in Seq(Work("implementation", Runs))
        /\ Len(Oldest(row, "implementation", cap)) <= cap
        /\ \A n \in DOMAIN row :
               /\ Open([kind |-> "implementation", id |-> row[n]])
               /\ Len(Oldest(row, "implementation", cap)) < cap
               => [kind |-> "implementation", id |-> row[n]]
                     \in Range(Oldest(row, "implementation", cap))
    BY <1>1, <2>1, OldestIs
  <2> USE DEF row
  <2> QED
    BY <2>1, <2>2
<1>3. Len(a) \in Nat /\ room \in Nat
  <2> HIDE DEF a, cap
  <2> QED
    BY <1>1, <1>2
<1>4. /\ b \in Seq(Work("test", Runs)) /\ Len(b) <= room
      /\ \A n \in DOMAIN tests : Open([kind |-> "test", id |-> tests[n]]) /\ Len(b) < room
                                 => [kind |-> "test", id |-> tests[n]] \in Range(b)
  <2>1. tests \in Seq(Runs) /\ Len(tests) \in Nat /\ DOMAIN tests = 1 .. Len(tests)
    BY DEF TypeOK
  <2>2. DOMAIN tests \in SUBSET Nat /\ IsFiniteSet(DOMAIN tests)
    BY <2>1, FS_Interval
  <2>3. \A n \in DOMAIN tests : tests[n] \in Runs
    BY <2>1
  <2> HIDE DEF room
  <2> QED
    BY <1>3, <2>2, <2>3, OldestIs
<1>5. PendingWork(cap) = a \o b
  BY DEF PendingWork
<1> HIDE DEF a, b
<1>6. a \in Seq(ImplementationWork) /\ b \in Seq(ImplementationWork)
  BY <1>2, <1>4, SeqMonotonic DEF ImplementationWork
<1>7. /\ a \o b \in Seq(ImplementationWork) /\ Len(a \o b) = Len(a) + Len(b)
      /\ Len(a \o b) <= cap /\ Range(a \o b) = Range(a) \cup Range(b)
  BY <1>1, <1>4, <1>6, ReadTwice
<1>8. ASSUME NEW w \in ImplementationWork, TestsListed, Open(w), Len(a \o b) # cap
      PROVE  w \in Range(a) \cup Range(b)
  <2>1. Len(b) \in Nat
    BY <1>4
  <2>2. Len(a) < cap /\ Len(b) < room
    BY <1>1, <1>3, <1>4, <1>7, <1>8, <2>1
  <2>3. CASE w \in Work("implementation", Runs)
    <3>1. w.id \in Runs /\ w = [kind |-> "implementation", id |-> w.id]
      BY <2>3, WorkIs
    <3> QED
      BY <1>2, <1>8, <2>2, <3>1
  <2>4. CASE w \in Work("test", Runs)
    <3>1. w.id \in Runs /\ w = [kind |-> "test", id |-> w.id] /\ w.kind = "test"
      BY <2>4, WorkIs
    <3>2. test[w.id] \in {"pending", "running"}
      BY <1>8, <3>1 DEF Open
    <3>3. PICK n \in DOMAIN tests : tests[n] = w.id
      BY <1>8, <3>1, <3>2 DEF TestsListed
    <3> QED
      BY <1>4, <1>8, <2>2, <3>1, <3>3
  <2> QED
    BY <2>3, <2>4 DEF ImplementationWork
<1> QED
  BY <1>5, <1>7, <1>8

-----------------------------------------------------------------------------
(* Types. *)

LEMMA TypeRead ==
    ASSUME TypeOK, StartPlanning \/ StartImplementation
    PROVE  TypeOK'
<1> USE DEF TypeOK, rows, bounds
<1>1. \A work, queue, capacity :
          work \subseteq AnyWork => NoRoomFor(work, queue, capacity) \subseteq AnyWork
  BY DEF NoRoomFor
<1>2. CASE StartPlanning
  <2>1. overlooked' \subseteq AnyWork
    BY <1>1, <1>2, WorkIs DEF StartPlanning
  <2> QED
    BY <1>2, <2>1, RecoveredIs DEF StartPlanning
<1>3. CASE StartImplementation
  <2>1. overlooked' \subseteq AnyWork
    BY <1>1, <1>3, WorkIs DEF StartImplementation
  <2> QED
    BY <1>3, <2>1, PendingIs DEF StartImplementation
<1> QED
  BY <1>2, <1>3

LEMMA TypeProcess ==
    ASSUME TypeOK, StartFails \/ CrashProcess \/ BeginStop \/ FinishStop
    PROVE  TypeOK'
<1>1. Len(<<>>) = 0 /\ \A S : <<>> \in Seq(S)
  OBVIOUS
<1> USE DEF TypeOK, rows, queues, bounds
<1>2. CASE StartFails
  BY <1>1, <1>2, CapacityAssumption, BoundAssumption DEF StartFails, Drop, LoseMemory
<1>3. CASE CrashProcess
  BY <1>1, <1>3, CapacityAssumption, BoundAssumption DEF CrashProcess, Crash, LoseMemory
<1>4. CASE BeginStop \/ FinishStop
  BY <1>4 DEF BeginStop, FinishStop
<1> QED
  BY <1>2, <1>3, <1>4

LEMMA OfferType ==
    ASSUME NEW K, NEW w \in K, NEW queue \in Seq(K), NEW capacity \in Nat, Len(queue) <= capacity,
           K \subseteq AnyWork, left \subseteq AnyWork, overlooked \subseteq AnyWork,
           Offer(w, queue, capacity)
    PROVE  /\ Appended(w, queue, capacity) \in Seq(K)
           /\ Len(Appended(w, queue, capacity)) <= capacity
           /\ left' \subseteq AnyWork /\ overlooked' \subseteq AnyWork
BY DEF Offer, Appended

LEMMA TypeSubmit ==
    ASSUME TypeOK,
           \/ \E d \in Decisions : SubmitDecision(d)
           \/ \E r \in Runs : SubmitImplementation(r) \/ SubmitTest(r)
    PROVE  TypeOK'
<1> USE DEF TypeOK, bounds
<1>1. ASSUME NEW d \in Decisions, SubmitDecision(d) PROVE TypeOK'
  <2> DEFINE w == [kind |-> "decision", id |-> d]
  <2>1. w \in PlanningWork
    BY DEF PlanningWork, Work
  <2>2. Offer(w, planQueue, PlanningCapacity)
    BY <1>1 DEF SubmitDecision, OfferPlanning
  <2>3. /\ Appended(w, planQueue, PlanningCapacity) \in Seq(PlanningWork)
        /\ Len(Appended(w, planQueue, PlanningCapacity)) <= PlanningCapacity
        /\ left' \subseteq AnyWork /\ overlooked' \subseteq AnyWork
    BY <2>1, <2>2, WorkIs, CapacityAssumption, OfferType
  <2>4. decision' \in [Decisions -> {"absent", "pending", "settled"}]
    BY <1>1 DEF SubmitDecision
  <2> QED
    BY <1>1, <2>3, <2>4 DEF SubmitDecision, OfferPlanning
<1>2. ASSUME NEW r \in Runs, NEW kind \in {"implementation", "test"},
             OfferImplementation([kind |-> kind, id |-> r])
      PROVE  /\ implQueue' \in Seq(ImplementationWork)
             /\ Len(implQueue') <= ImplementationCapacity
             /\ left' \subseteq AnyWork /\ overlooked' \subseteq AnyWork
             /\ UNCHANGED <<mode, planQueue, planItem, implItem, repoItem, crashes, drops>>
  <2> DEFINE w == [kind |-> kind, id |-> r]
  <2>1. w \in ImplementationWork
    BY DEF ImplementationWork, Work
  <2>2. Offer(w, implQueue, ImplementationCapacity)
    BY <1>2 DEF OfferImplementation
  <2>3. /\ Appended(w, implQueue, ImplementationCapacity) \in Seq(ImplementationWork)
        /\ Len(Appended(w, implQueue, ImplementationCapacity)) <= ImplementationCapacity
        /\ left' \subseteq AnyWork /\ overlooked' \subseteq AnyWork
    BY <2>1, <2>2, WorkIs, CapacityAssumption, OfferType
  <2> QED
    BY <1>2, <2>3 DEF OfferImplementation
<1>3. ASSUME NEW r \in Runs, SubmitImplementation(r) PROVE TypeOK'
  <2>1. OfferImplementation([kind |-> "implementation", id |-> r])
    BY <1>3 DEF SubmitImplementation
  <2>2. run' \in [Runs -> RunStatus] /\ UNCHANGED <<decision, analysis, test, tests>>
    BY <1>3 DEF SubmitImplementation, RunStatus
  <2> QED
    BY <1>2, <2>1, <2>2
<1>4. ASSUME NEW r \in Runs, SubmitTest(r) PROVE TypeOK'
  <2>1. OfferImplementation([kind |-> "test", id |-> r])
    BY <1>4 DEF SubmitTest
  <2>2. /\ run' \in [Runs -> RunStatus]
        /\ test' \in [Runs -> {"absent", "pending", "running", "finished"}]
        /\ UNCHANGED <<decision, analysis>>
    BY <1>4 DEF SubmitTest, RunStatus
  <2>3. tests' \in Seq(Runs)
    <3>1. tests' = tests \/ tests' = Append(tests, r)
      BY <1>4 DEF SubmitTest
    <3> QED
      BY <3>1
  <2> QED
    BY <1>2, <2>1, <2>2, <2>3
<1> QED
  BY <1>1, <1>3, <1>4

LEMMA TypeAnalysis ==
    ASSUME TypeOK, EndAnalysis \/ \E a \in Analyses : Analyse(a)
    PROVE  TypeOK'
<1> USE DEF TypeOK, bounds
<1>1. CASE EndAnalysis
  BY <1>1, WorkIs DEF EndAnalysis
<1>2. ASSUME NEW a \in Analyses, Analyse(a) PROVE TypeOK'
  BY <1>2, WorkIs DEF Analyse
<1> QED
  BY <1>1, <1>2

LEMMA TakenFrom ==
    ASSUME NEW K, NEW queue \in Seq(K), queue # <<>>
    PROVE  /\ queue[1] \in K /\ Tail(queue) \in Seq(K) /\ Len(Tail(queue)) <= Len(queue)
           /\ Range(queue) = {queue[1]} \cup Range(Tail(queue))
<1>1. Len(queue) \in Nat /\ Len(queue) >= 1 /\ DOMAIN queue = 1 .. Len(queue)
  OBVIOUS
<1>2. /\ Tail(queue) \in Seq(K) /\ Len(Tail(queue)) = Len(queue) - 1
      /\ DOMAIN Tail(queue) = 1 .. Len(queue) - 1
      /\ \A i \in 1 .. Len(queue) - 1 : Tail(queue)[i] = queue[i + 1]
  BY <1>1, HeadTailProperties, LenProperties
<1>3. queue[1] \in K
  BY <1>1
<1>4. \A i \in 1 .. Len(queue) : i = 1 \/ i - 1 \in 1 .. Len(queue) - 1
  BY <1>1
<1>5. \A i \in 1 .. Len(queue) - 1 : i + 1 \in 1 .. Len(queue)
  BY <1>1
<1>6. \A i \in 1 .. Len(queue) : queue[i] \in {queue[1]} \cup Range(Tail(queue))
  <2> SUFFICES ASSUME NEW i \in 1 .. Len(queue), i # 1 PROVE queue[i] \in Range(Tail(queue))
    OBVIOUS
  <2>1. i - 1 \in DOMAIN Tail(queue) /\ Tail(queue)[i - 1] = queue[i - 1 + 1] /\ i - 1 + 1 = i
    BY <1>1, <1>2, <1>4
  <2> QED
    BY <2>1 DEF Range
<1>7. \A i \in 1 .. Len(queue) - 1 : Tail(queue)[i] \in Range(queue)
  BY <1>1, <1>2, <1>5 DEF Range
<1>8. queue[1] \in Range(queue)
  BY <1>1 DEF Range
<1>9. Range(queue) = {queue[1]} \cup Range(Tail(queue))
  BY <1>1, <1>2, <1>6, <1>7, <1>8 DEF Range
<1> QED
  BY <1>1, <1>2, <1>3, <1>9

LEMMA TypePlanning == ASSUME TypeOK, ConsumePlanning \/ DropPlanning PROVE TypeOK'
<1> USE DEF TypeOK, rows, bounds
<1>1. CASE TakePlanning
  <2>1. /\ planQueue[1] \in PlanningWork /\ Tail(planQueue) \in Seq(PlanningWork)
        /\ Len(Tail(planQueue)) <= Len(planQueue)
    BY <1>1, TakenFrom DEF TakePlanning
  <2>2. Len(Tail(planQueue)) <= PlanningCapacity
    BY <2>1, CapacityAssumption
  <2> QED
    BY <1>1, <2>1, <2>2 DEF TakePlanning
<1>2. CASE ProcessPlanning
  <2>1. planItem \in PlanningWork /\ planItem.kind \in {"decision", "task"}
    BY <1>2 DEF ProcessPlanning, PlanningWork, Work
  <2>2. /\ planItem.kind = "decision" => planItem.id \in Decisions
        /\ planItem.kind = "task" => planItem.id \in Analyses
    BY <2>1 DEF PlanningWork, Work
  <2> QED
    BY <1>2, <2>1, <2>2 DEF ProcessPlanning, FreePlanning
<1>3. CASE DropPlanning
  <2>1. planItem \in AnyWork
    BY <1>3, WorkIs DEF DropPlanning
  <2> QED
    BY <1>3, <2>1, BoundAssumption DEF DropPlanning, FreePlanning, Drop
<1> QED
  BY <1>1, <1>2, <1>3 DEF ConsumePlanning

LEMMA TypeImplementation ==
    ASSUME TypeOK, ConsumeImplementation \/ DropImplementation
    PROVE  TypeOK'
<1> USE DEF TypeOK, rows, bounds
<1>1. CASE TakeImplementation
  <2>1. /\ implQueue[1] \in ImplementationWork /\ Tail(implQueue) \in Seq(ImplementationWork)
        /\ Len(Tail(implQueue)) <= Len(implQueue)
    BY <1>1, TakenFrom DEF TakeImplementation
  <2>2. Len(Tail(implQueue)) <= ImplementationCapacity
    BY <2>1, CapacityAssumption
  <2> QED
    BY <1>1, <2>1, <2>2 DEF TakeImplementation
<1>2. ASSUME NEW r \in Runs,
             GeneratePatch(r) \/ GiveUpRun(r) \/ StartTest(r) \/ EndTest(r) \/ GiveUpTest(r)
                \/ SkipTest(r)
      PROVE  TypeOK'
  <2>1. /\ implItem' \in ImplementationWork \cup {NoWork}
        /\ UNCHANGED <<decision, analysis, tests, mode, planQueue, planItem, implQueue, repoItem,
                       overlooked, left, crashes, drops>>
    BY <1>2 DEF GeneratePatch, GiveUpRun, StartTest, EndTest, GiveUpTest, SkipTest, Elsewhere,
                FreeImplementation
  <2>2. run' \in [Runs -> RunStatus]
    <3>1. CASE SkipTest(r)
      BY <3>1 DEF SkipTest
    <3>2. CASE ~SkipTest(r)
      <4>1. RunType /\ RunWriters
        BY <1>2, <3>2 DEF RunType, RunWriters
      <4> QED
        BY <4>1, RunWrite DEF RunType
    <3> QED
      BY <3>1, <3>2
  <2>3. test' \in [Runs -> {"absent", "pending", "running", "finished"}]
    BY <1>2 DEF GeneratePatch, GiveUpRun, StartTest, EndTest, GiveUpTest, SkipTest
  <2> QED
    BY <2>1, <2>2, <2>3
<1>3. CASE DropImplementation
  <2>1. implItem \in AnyWork
    BY <1>3, WorkIs DEF DropImplementation
  <2> QED
    BY <1>3, <2>1, BoundAssumption DEF DropImplementation, FreeImplementation, Elsewhere, Drop
<1> QED
  BY <1>1, <1>2, <1>3 DEF ConsumeImplementation

-----------------------------------------------------------------------------
(* Runs and their tests. *)

LEMMA TestsStep ==
    ASSUME TypeOK, TestsListed, TestsFit, [Next]_vars
    PROVE  TestsListed' /\ TestsFit'
<1> USE DEF TestsListed, TestsFit
<1>1. CASE UNCHANGED <<run, test, tests>>
  BY <1>1
<1>2. ASSUME NEW r \in Runs, SubmitTest(r) PROVE TestsListed' /\ TestsFit'
  <2>1. CASE UNCHANGED <<run, test, tests>>
    BY <2>1
  <2>2. CASE /\ run[r] = "patch_ready" /\ test[r] = "absent"
             /\ run' = [run EXCEPT ![r] = "test_pending"]
             /\ test' = [test EXCEPT ![r] = "pending"] /\ tests' = Append(tests, r)
    <3>1. /\ DOMAIN tests = 1 .. Len(tests) /\ Len(tests) \in Nat
          /\ DOMAIN tests' = 1 .. Len(tests) + 1 /\ tests'[Len(tests) + 1] = r
          /\ \A n \in 1 .. Len(tests) : tests'[n] = tests[n]
      BY <2>2, AppendProperties, LenProperties DEF TypeOK
    <3>2. \A n \in DOMAIN tests : n \in DOMAIN tests'
      BY <3>1
    <3>3. Len(tests) + 1 \in DOMAIN tests'
      BY <3>1
    <3>4. TestsListed'
      <4> SUFFICES ASSUME NEW q \in Runs, test'[q] # "absent"
                   PROVE  \E n \in DOMAIN tests' : tests'[n] = q
        OBVIOUS
      <4>1. CASE q = r
        BY <3>1, <3>3, <4>1
      <4>2. CASE q # r
        BY <2>2, <3>1, <3>2, <4>2 DEF TypeOK
      <4> QED
        BY <4>1, <4>2
    <3>5. TestsFit'
      BY <2>2 DEF TypeOK
    <3> QED
      BY <3>4, <3>5
  <2> QED
    BY <1>2, <2>1, <2>2 DEF SubmitTest
<1>3. ASSUME NEW r \in Runs, SubmitImplementation(r) \/ GeneratePatch(r)
      PROVE  TestsListed' /\ TestsFit'
  <2>1. UNCHANGED <<test, tests>>
    BY <1>3 DEF SubmitImplementation, GeneratePatch, Elsewhere
  <2>2. \/ UNCHANGED run
        \/ run[r] = "absent" /\ run' = [run EXCEPT ![r] = "pending"]
        \/ run[r] = "pending" /\ run' = [run EXCEPT ![r] = "generating_patch"]
        \/ run[r] = "generating_patch" /\ run' = [run EXCEPT ![r] = "patch_ready"]
    BY <1>3 DEF SubmitImplementation, NextOf, GeneratePatch
  <2> QED
    BY <2>1, <2>2 DEF TypeOK
<1>4. ASSUME NEW r \in Runs, GiveUpRun(r) \/ GiveUpTest(r) PROVE TestsListed' /\ TestsFit'
  <2>1. UNCHANGED <<test, tests>>
    BY <1>4 DEF GiveUpRun, GiveUpTest, Elsewhere
  <2>2. PICK v \in GivenUp : Fail(r, v)
    BY <1>4 DEF GiveUpRun, GiveUpTest, GivenUp
  <2> QED
    BY <2>1, <2>2 DEF TypeOK, Fail, GivenUp
<1>5. ASSUME NEW r \in Runs, StartTest(r) PROVE TestsListed' /\ TestsFit'
  BY <1>5 DEF StartTest, Elsewhere, TypeOK
<1>6. ASSUME NEW r \in Runs, EndTest(r) PROVE TestsListed' /\ TestsFit'
  BY <1>6 DEF EndTest, Elsewhere, TypeOK
<1> QED
  BY <1>1, <1>2, <1>3, <1>4, <1>5, <1>6, RowsLeftAlone DEF RunWriters

-----------------------------------------------------------------------------
(* The planning side. *)

\* What a row of planning work says.
LEMMA PlanningOpen ==
    ASSUME NEW w \in PlanningWork
    PROVE  /\ \/ w.kind = "decision" /\ w.id \in Decisions /\ w = [kind |-> "decision", id |-> w.id]
              \/ w.kind = "task" /\ w.id \in Analyses /\ w = [kind |-> "task", id |-> w.id]
           /\ Open(w) <=> \/ w.kind = "decision" /\ decision[w.id] = "pending"
                          \/ w.kind = "task" /\ analysis[w.id] = "analyzing"
           /\ Open(w)' <=> \/ w.kind = "decision" /\ decision'[w.id] = "pending"
                           \/ w.kind = "task" /\ analysis'[w.id] = "analyzing"
<1>1. \/ w.kind = "decision" /\ w.id \in Decisions /\ w = [kind |-> "decision", id |-> w.id]
      \/ w.kind = "task" /\ w.id \in Analyses /\ w = [kind |-> "task", id |-> w.id]
  BY WorkIs DEF PlanningWork
<1> QED
  BY <1>1 DEF Open

LEMMA OtherKinds ==
    ASSUME NEW r, NEW kind \in {"implementation", "test"}
    PROVE  [kind |-> kind, id |-> r] \notin PlanningWork
<1>1. \A w \in PlanningWork : w.kind \in {"decision", "task"}
  BY WorkIs DEF PlanningWork
<1> QED
  BY <1>1

\* Steps of the other side leave what waits for planning where it is.
LEMMA PlanningKept ==
    ASSUME PlanningPlaced, mode' # "down" => mode # "down",
           UNCHANGED <<decision, analysis, planQueue, planItem, repoItem>>,
           \A w \in PlanningWork : w \in left \cup overlooked => w \in left' \cup overlooked'
    PROVE  PlanningPlaced'
<1> SUFFICES ASSUME mode' # "down", NEW w \in PlanningWork, Open(w)'
             PROVE  w \in (Held(planQueue, planItem) \cup {repoItem} \cup left \cup overlooked)'
  BY DEF PlanningPlaced
<1>1. Open(w)
  BY PlanningOpen
<1>2. w \in Held(planQueue, planItem) \cup {repoItem} \cup left \cup overlooked
  BY <1>1 DEF PlanningPlaced
<1> QED
  BY <1>2 DEF Held

\* Work that is offered is on its queue or refused, and all else stays where it was.
LEMMA Offered ==
    ASSUME NEW K, NEW w \in K, NEW queue \in Seq(K), NEW capacity, Offer(w, queue, capacity)
    PROVE  /\ w \in Range(Appended(w, queue, capacity)) \cup left'
           /\ Range(queue) \subseteq Range(Appended(w, queue, capacity))
           /\ \A v : v # w /\ v \in left \cup overlooked => v \in left' \cup overlooked'
<1> DEFINE q == Append(queue, w)
<1>1. q \in Seq(K) /\ Len(q) = Len(queue) + 1 /\ Len(queue) \in Nat
  BY AppendProperties
<1>2. DOMAIN q = 1 .. Len(queue) + 1 /\ DOMAIN queue = 1 .. Len(queue)
  BY <1>1, LenProperties
<1>3. q[Len(queue) + 1] = w /\ \A i \in 1 .. Len(queue) : q[i] = queue[i]
  BY AppendProperties
<1>4. Len(queue) + 1 \in DOMAIN q /\ \A i \in DOMAIN queue : i \in DOMAIN q
  BY <1>1, <1>2
<1> HIDE DEF q
<1>5. w \in Range(q) /\ Range(queue) \subseteq Range(q)
  BY <1>2, <1>3, <1>4 DEF Range
<1>6. Appended(w, queue, capacity) = IF Len(queue) < capacity THEN q ELSE queue
  BY DEF Appended, q
<1>7. CASE Len(queue) < capacity /\ left' = left \ {w} /\ overlooked' = overlooked \ {w}
  BY <1>5, <1>6, <1>7
<1>8. CASE Len(queue) = capacity /\ left' = left \cup {w} /\ UNCHANGED overlooked
  BY <1>5, <1>6, <1>8
<1> QED
  BY <1>7, <1>8 DEF Offer

LEMMA PlanningStep ==
    ASSUME TypeOK, PlanningPlaced, [Next]_vars
    PROVE  PlanningPlaced'
<1> USE DEF rows, queues, bounds
<1>1. CASE StartPlanning
  <2> SUFFICES ASSUME NEW w \in PlanningWork, Open(w)'
               PROVE  w \in (Held(planQueue, planItem) \cup {repoItem} \cup left \cup overlooked)'
    BY DEF PlanningPlaced
  <2>1. Open(w) /\ planQueue' = RecoveredPlanning
    BY <1>1, PlanningOpen DEF StartPlanning
  <2>2. CASE w \in Range(RecoveredPlanning)
    BY <2>1, <2>2 DEF Held
  <2>3. CASE w \notin Range(RecoveredPlanning)
    <3>1. Len(RecoveredPlanning) = PlanningCapacity
      BY <2>1, <2>3, RecoveredIs
    <3>2. w \in overlooked'
      BY <1>1, <2>1, <2>3, <3>1 DEF StartPlanning, NoRoomFor
    <3> QED
      BY <3>2
  <2> QED
    BY <2>2, <2>3
<1>2. CASE StartImplementation \/ BeginStop \/ FinishStop
  <2>1. /\ mode' # "down" => mode # "down"
        /\ UNCHANGED <<decision, analysis, planQueue, planItem, repoItem, left>>
        /\ overlooked \subseteq overlooked'
    BY <1>2 DEF StartImplementation, BeginStop, FinishStop
  <2> QED
    BY <2>1, PlanningKept
<1>3. CASE StartFails \/ CrashProcess
  BY <1>3 DEF StartFails, CrashProcess, PlanningPlaced
<1>4. ASSUME NEW d \in Decisions, SubmitDecision(d) PROVE PlanningPlaced'
  <2> DEFINE w == [kind |-> "decision", id |-> d]
  <2>1. w \in PlanningWork /\ planQueue \in Seq(PlanningWork)
    BY WorkIs DEF PlanningWork, TypeOK
  <2>2. /\ Offer(w, planQueue, PlanningCapacity)
        /\ planQueue' = Appended(w, planQueue, PlanningCapacity)
        /\ UNCHANGED <<mode, planItem, repoItem, analysis>>
        /\ \A e \in Decisions : e # d => decision'[e] = decision[e]
    BY <1>4 DEF SubmitDecision, OfferPlanning, TypeOK
  <2>3. /\ w \in Range(planQueue') \cup left' /\ Range(planQueue) \subseteq Range(planQueue')
        /\ \A v : v # w /\ v \in left \cup overlooked => v \in left' \cup overlooked'
    BY <2>1, <2>2, Offered
  <2> SUFFICES ASSUME mode' # "down", NEW v \in PlanningWork, Open(v)', v # w
               PROVE  v \in (Held(planQueue, planItem) \cup {repoItem} \cup left \cup overlooked)'
    BY <2>3 DEF PlanningPlaced, Held
  <2>4. Open(v)
    BY <2>2, PlanningOpen
  <2>5. v \in Held(planQueue, planItem) \cup {repoItem} \cup left \cup overlooked
    BY <2>2, <2>4 DEF PlanningPlaced
  <2> QED
    BY <2>2, <2>3, <2>5 DEF Held
<1>5. ASSUME NEW r \in Runs, SubmitImplementation(r) \/ SubmitTest(r) PROVE PlanningPlaced'
  <2>1. PICK kind \in {"implementation", "test"} : OfferImplementation([kind |-> kind, id |-> r])
    BY <1>5 DEF SubmitImplementation, SubmitTest
  <2>2. \A v \in PlanningWork : v # [kind |-> kind, id |-> r]
    BY OtherKinds
  <2>3. \A v \in PlanningWork : v \in left \cup overlooked => v \in left' \cup overlooked'
    BY <2>1, <2>2 DEF OfferImplementation, Offer
  <2>4. UNCHANGED <<decision, analysis, mode, planQueue, planItem, repoItem>>
    BY <1>5 DEF SubmitImplementation, SubmitTest, OfferImplementation
  <2> QED
    BY <2>3, <2>4, PlanningKept
<1>6. ASSUME NEW a \in Analyses, Analyse(a) PROVE PlanningPlaced'
  <2> SUFFICES ASSUME NEW w \in PlanningWork, Open(w)'
               PROVE  w \in (Held(planQueue, planItem) \cup {repoItem} \cup left \cup overlooked)'
    BY DEF PlanningPlaced
  <2>1. /\ UNCHANGED <<decision, mode, planQueue, planItem, left, overlooked>>
        /\ mode # "down" /\ repoItem = NoWork /\ repoItem' = [kind |-> "task", id |-> a]
        /\ \A e \in Analyses : e # a => analysis'[e] = analysis[e]
    BY <1>6 DEF Analyse, TypeOK
  <2>2. CASE w = [kind |-> "task", id |-> a]
    BY <2>1, <2>2
  <2>3. CASE w # [kind |-> "task", id |-> a]
    <3>1. Open(w) /\ w # NoWork
      BY <2>1, <2>3, PlanningOpen, WorkIs
    <3> QED
      BY <2>1, <3>1 DEF PlanningPlaced, Held
  <2> QED
    BY <2>2, <2>3
<1>7. CASE EndAnalysis
  <2> SUFFICES ASSUME mode' # "down", NEW w \in PlanningWork, Open(w)'
               PROVE  w \in (Held(planQueue, planItem) \cup {repoItem} \cup left \cup overlooked)'
    BY DEF PlanningPlaced
  <2>1. /\ UNCHANGED <<decision, mode, planQueue, planItem, left, overlooked>>
        /\ repoItem \in Work("task", Analyses)
        /\ analysis' = [analysis EXCEPT ![repoItem.id] = "ended"]
    BY <1>7 DEF EndAnalysis, TypeOK
  <2>2. repoItem.kind = "task" /\ repoItem.id \in Analyses
    BY <2>1, WorkIs
  <2>3. Open(w) /\ w # repoItem
    BY <2>1, <2>2, PlanningOpen DEF TypeOK
  <2> QED
    BY <2>1, <2>3 DEF PlanningPlaced, Held
<1>8. CASE TakePlanning
  <2> SUFFICES ASSUME mode' # "down", NEW w \in PlanningWork, Open(w)'
               PROVE  w \in (Held(planQueue, planItem) \cup {repoItem} \cup left \cup overlooked)'
    BY DEF PlanningPlaced
  <2>1. /\ UNCHANGED <<decision, analysis, mode, repoItem, left, overlooked>>
        /\ planItem = NoWork /\ planQueue # <<>> /\ planQueue \in Seq(PlanningWork)
        /\ planItem' = planQueue[1] /\ planQueue' = Tail(planQueue)
    BY <1>8 DEF TakePlanning, TypeOK
  <2>2. Range(planQueue) = {planQueue[1]} \cup Range(Tail(planQueue))
    BY <2>1, TakenFrom
  <2>3. Open(w) /\ w # NoWork
    BY <2>1, PlanningOpen, WorkIs
  <2> QED
    BY <2>1, <2>2, <2>3 DEF PlanningPlaced, Held
<1>9. CASE ProcessPlanning \/ DropPlanning
  <2> SUFFICES ASSUME mode' # "down", NEW w \in PlanningWork, Open(w)'
               PROVE  w \in (Held(planQueue, planItem) \cup {repoItem} \cup left \cup overlooked)'
    BY DEF PlanningPlaced
  <2>1. /\ UNCHANGED <<mode, planQueue, repoItem, overlooked>> /\ planItem \in PlanningWork
        /\ left \subseteq left'
    BY <1>9 DEF ProcessPlanning, DropPlanning, FreePlanning, TypeOK
  <2>2. CASE ProcessPlanning
    <3>1. Open(w) /\ w # planItem
      <4>1. \/ /\ planItem.kind = "decision"
               /\ decision' = [decision EXCEPT ![planItem.id] = "settled"] /\ UNCHANGED analysis
            \/ /\ planItem.kind = "task"
               /\ analysis' = [analysis EXCEPT ![planItem.id] = "ended"] /\ UNCHANGED decision
        BY <2>2 DEF ProcessPlanning
      <4>2. /\ planItem.kind = "decision" => planItem.id \in Decisions
            /\ planItem.kind = "task" => planItem.id \in Analyses
        BY <2>1, PlanningOpen
      <4> QED
        BY <4>1, <4>2, PlanningOpen DEF TypeOK
    <3> QED
      BY <2>1, <3>1 DEF PlanningPlaced, Held
  <2>3. CASE DropPlanning
    <3>1. UNCHANGED <<decision, analysis>> /\ left' = left \cup {planItem}
      BY <2>3 DEF DropPlanning
    <3>2. Open(w)
      BY <3>1, PlanningOpen
    <3> QED
      BY <2>1, <3>1, <3>2 DEF PlanningPlaced, Held
  <2> QED
    BY <1>9, <2>2, <2>3
<1>10. CASE ConsumeImplementation \/ DropImplementation
  <2>1. /\ UNCHANGED <<decision, analysis, mode, planQueue, planItem, repoItem, overlooked>>
        /\ left \subseteq left'
    <3>1. CASE TakeImplementation
      BY <3>1 DEF TakeImplementation
    <3>2. CASE DropImplementation
      BY <3>2 DEF DropImplementation, Elsewhere
    <3>3. ASSUME NEW r \in Runs,
                 GeneratePatch(r) \/ GiveUpRun(r) \/ StartTest(r) \/ EndTest(r) \/ GiveUpTest(r)
                    \/ SkipTest(r)
          PROVE  UNCHANGED <<decision, analysis, mode, planQueue, planItem, repoItem, overlooked,
                             left>>
      BY <3>3 DEF GeneratePatch, GiveUpRun, StartTest, EndTest, GiveUpTest, SkipTest, Elsewhere
    <3> QED
      BY <1>10, <3>1, <3>2, <3>3 DEF ConsumeImplementation
  <2> QED
    BY <2>1, PlanningKept
<1>11. CASE UNCHANGED vars
  BY <1>11, PlanningKept DEF vars
<1> QED
  BY <1>1, <1>2, <1>3, <1>4, <1>5, <1>6, <1>7, <1>8, <1>9, <1>10, <1>11
     DEF Next, Start, ConsumePlanning

-----------------------------------------------------------------------------
(* The implementation side. *)

\* What a row of implementation work says.
LEMMA ImplementationOpen ==
    ASSUME NEW w \in ImplementationWork
    PROVE  /\ w.id \in Runs /\ w.kind \in {"implementation", "test"}
           /\ w = [kind |-> w.kind, id |-> w.id]
           /\ (Open(w) /\ ~Stale(w)) <=>
                 \/ w.kind = "implementation" /\ run[w.id] \in {"pending", "generating_patch"}
                 \/ /\ w.kind = "test" /\ test[w.id] \in {"pending", "running"}
                    /\ run[w.id] \notin GivenUp
           /\ (Open(w) /\ ~Stale(w))' <=>
                 \/ w.kind = "implementation" /\ run'[w.id] \in {"pending", "generating_patch"}
                 \/ /\ w.kind = "test" /\ test'[w.id] \in {"pending", "running"}
                    /\ run'[w.id] \notin GivenUp
<1>1. \/ w.kind = "implementation" /\ w.id \in Runs /\ w = [kind |-> "implementation", id |-> w.id]
      \/ w.kind = "test" /\ w.id \in Runs /\ w = [kind |-> "test", id |-> w.id]
  BY WorkIs DEF ImplementationWork
<1> QED
  BY <1>1 DEF Open, Stale

Serving == {"up", "stopping", "stopped"}

\* Steps of the other side leave what waits for implementation where it is.
LEMMA ImplementationKept ==
    ASSUME ImplementationPlaced, mode' \in Serving => mode \in Serving,
           UNCHANGED <<run, test, implQueue, implItem>>,
           \A w \in ImplementationWork : w \in left \cup overlooked => w \in left' \cup overlooked'
    PROVE  ImplementationPlaced'
<1> SUFFICES ASSUME mode' \in Serving, NEW w \in ImplementationWork, (Open(w) /\ ~Stale(w))'
             PROVE  w \in (Held(implQueue, implItem) \cup left \cup overlooked)'
  BY DEF ImplementationPlaced, Serving
<1>1. Open(w) /\ ~Stale(w)
  BY ImplementationOpen
<1>2. w \in Held(implQueue, implItem) \cup left \cup overlooked
  BY <1>1 DEF ImplementationPlaced, Serving
<1> QED
  BY <1>2 DEF Held

\* An item that is done with leaves its row settled, given up, or in its hands.
LEMMA ItemStep ==
    ASSUME TypeOK, TestsFit, NEW r \in Runs,
           GeneratePatch(r) \/ GiveUpRun(r) \/ StartTest(r) \/ EndTest(r) \/ GiveUpTest(r)
              \/ SkipTest(r),
           NEW w \in ImplementationWork, (Open(w) /\ ~Stale(w))'
    PROVE  Open(w) /\ ~Stale(w) /\ (w = implItem => implItem' = implItem)
<1>1. /\ w.id \in Runs /\ w.kind \in {"implementation", "test"}
      /\ w = [kind |-> w.kind, id |-> w.id]
  BY ImplementationOpen
<1>2. w = implItem => w.id = r
  BY DEF GeneratePatch, GiveUpRun, StartTest, EndTest, GiveUpTest, SkipTest, Working
<1> USE ImplementationOpen DEF TypeOK
<1>3. CASE GeneratePatch(r)
  <2>1. test' = test /\ w.kind = "test" => run[w.id] \notin GivenUp
    BY <1>1, <1>3 DEF GeneratePatch, Elsewhere, GivenUp
  <2>2. \/ /\ run[r] = "pending" /\ run' = [run EXCEPT ![r] = "generating_patch"]
           /\ implItem' = implItem
        \/ run[r] = "generating_patch" /\ run' = [run EXCEPT ![r] = "patch_ready"]
    BY <1>3 DEF GeneratePatch
  <2>3. test' = test /\ implItem = [kind |-> "implementation", id |-> r]
    BY <1>3 DEF GeneratePatch, Working
  <2>4. Open(w) /\ ~Stale(w)
    BY <1>1, <2>1, <2>2, <2>3
  <2>5. w = implItem => implItem' = implItem
    BY <1>1, <2>2, <2>3
  <2> QED
    BY <2>4, <2>5
<1>4. ASSUME NEW v \in GivenUp, Fail(r, v), test' = test,
             run[r] \in {"tested", "failed"} => w.id # r \/ w.kind = "implementation"
                                                   \/ test[r] \notin {"pending", "running"}
      PROVE  Open(w) /\ ~Stale(w) /\ w.id # r
  <2>1. \A q \in Runs : q # r => run'[q] = run[q]
    BY <1>4 DEF Fail
  <2>2. run'[r] \in {"tested", "failed", "recovery_blocked"}
    BY <1>4 DEF Fail, GivenUp
  <2>3. run'[r] \in GivenUp \/ run[r] = "tested"
    BY <1>4 DEF Fail, GivenUp
  <2> QED
    BY <1>1, <1>4, <2>1, <2>2, <2>3
<1>5. CASE GiveUpRun(r) \/ GiveUpTest(r)
  <2>1. PICK v \in GivenUp : Fail(r, v)
    BY <1>5 DEF GiveUpRun, GiveUpTest, GivenUp
  <2>2. test' = test
    BY <1>5 DEF GiveUpRun, GiveUpTest
  <2>3. run[r] = "tested" => test[r] = "finished"
    BY DEF TestsFit
  <2>4. run[r] = "failed" => run'[r] = "failed"
    BY <2>1 DEF Fail
  <2>5. run[r] = "failed" /\ w.id = r =>
            w.kind = "implementation" \/ test[r] \notin {"pending", "running"}
    BY <1>1, <2>2, <2>4 DEF GivenUp
  <2> QED
    BY <1>2, <1>4, <2>1, <2>2, <2>3, <2>5
<1>6. CASE StartTest(r)
  BY <1>1, <1>6 DEF StartTest, Working, GivenUp
<1>7. CASE EndTest(r)
  BY <1>1, <1>2, <1>7 DEF EndTest, Working, GivenUp
<1>8. CASE SkipTest(r)
  BY <1>1, <1>8 DEF SkipTest, Working
<1> QED
  BY <1>3, <1>5, <1>6, <1>7, <1>8

LEMMA ImplementationStep ==
    ASSUME IInv, [Next]_vars
    PROVE  ImplementationPlaced'
<1> USE DEF IInv, rows, queues, bounds
<1>1. CASE StartPlanning \/ StartFails \/ CrashProcess
  BY <1>1 DEF StartPlanning, StartFails, CrashProcess, ImplementationPlaced
<1>2. CASE StartImplementation
  <2> SUFFICES ASSUME NEW w \in ImplementationWork, (Open(w) /\ ~Stale(w))'
               PROVE  w \in (Held(implQueue, implItem) \cup left \cup overlooked)'
    BY DEF ImplementationPlaced
  <2>1. Open(w) /\ implQueue' = PendingWork(ImplementationCapacity)
    BY <1>2, ImplementationOpen DEF StartImplementation
  <2>2. CASE w \in Range(implQueue')
    BY <2>2 DEF Held
  <2>3. CASE w \notin Range(implQueue')
    <3>1. Len(implQueue') = ImplementationCapacity
      BY <2>1, <2>3, PendingIs
    <3>2. w \in overlooked'
      BY <1>2, <2>1, <2>3, <3>1 DEF StartImplementation, NoRoomFor
    <3> QED
      BY <3>2
  <2> QED
    BY <2>2, <2>3
<1>3. CASE BeginStop \/ FinishStop
  <2>1. UNCHANGED <<run, test, implQueue, implItem, left, overlooked>> /\ mode \in Serving
    BY <1>3 DEF BeginStop, FinishStop, Serving
  <2> QED
    BY <2>1, ImplementationKept
<1>4. ASSUME NEW d \in Decisions, SubmitDecision(d) PROVE ImplementationPlaced'
  <2>1. \A v \in ImplementationWork : v # [kind |-> "decision", id |-> d]
    BY ImplementationOpen
  <2>2. /\ UNCHANGED <<run, test, mode, implQueue, implItem>>
        /\ Offer([kind |-> "decision", id |-> d], planQueue, PlanningCapacity)
    BY <1>4 DEF SubmitDecision, OfferPlanning
  <2>3. \A v \in ImplementationWork : v \in left \cup overlooked => v \in left' \cup overlooked'
    BY <2>1, <2>2 DEF Offer
  <2> QED
    BY <2>2, <2>3, ImplementationKept
<1>5. ASSUME NEW r \in Runs, NEW kind \in {"implementation", "test"},
             OfferImplementation([kind |-> kind, id |-> r]),
             \A w \in ImplementationWork :
                 /\ w # [kind |-> kind, id |-> r] /\ (Open(w) /\ ~Stale(w))'
                 => Open(w) /\ ~Stale(w)
      PROVE  ImplementationPlaced'
  <2> DEFINE w == [kind |-> kind, id |-> r]
  <2>1. w \in ImplementationWork /\ implQueue \in Seq(ImplementationWork)
    BY WorkIs DEF ImplementationWork, TypeOK
  <2>2. /\ Offer(w, implQueue, ImplementationCapacity)
        /\ implQueue' = Appended(w, implQueue, ImplementationCapacity)
        /\ UNCHANGED <<mode, implItem>>
    BY <1>5 DEF OfferImplementation
  <2>3. /\ w \in Range(implQueue') \cup left' /\ Range(implQueue) \subseteq Range(implQueue')
        /\ \A v : v # w /\ v \in left \cup overlooked => v \in left' \cup overlooked'
    BY <2>1, <2>2, Offered
  <2> SUFFICES ASSUME mode' \in Serving, NEW v \in ImplementationWork, (Open(v) /\ ~Stale(v))',
                      v # w
               PROVE  v \in (Held(implQueue, implItem) \cup left \cup overlooked)'
    BY <2>3 DEF ImplementationPlaced, Held, Serving
  <2>4. Open(v) /\ ~Stale(v)
    BY <1>5
  <2>5. v \in Held(implQueue, implItem) \cup left \cup overlooked
    BY <2>2, <2>4 DEF ImplementationPlaced, Serving
  <2> QED
    BY <2>2, <2>3, <2>5 DEF Held
<1>6. ASSUME NEW r \in Runs, SubmitImplementation(r) PROVE ImplementationPlaced'
  <2>1. OfferImplementation([kind |-> "implementation", id |-> r])
    BY <1>6 DEF SubmitImplementation
  <2>2. ASSUME NEW w \in ImplementationWork, w # [kind |-> "implementation", id |-> r],
               (Open(w) /\ ~Stale(w))'
        PROVE  Open(w) /\ ~Stale(w)
    <3>1. /\ UNCHANGED test
          /\ \/ UNCHANGED run
             \/ run[r] = "absent" /\ run' = [run EXCEPT ![r] = "pending"]
      BY <1>6 DEF SubmitImplementation, NextOf
    <3>2. run[r] = "absent" => test[r] = "absent"
      BY DEF TestsFit
    <3>3. w.id # r \/ w.kind = "test"
      BY <2>2, ImplementationOpen
    <3> QED
      BY <2>2, <3>1, <3>2, <3>3, ImplementationOpen DEF TypeOK
  <2> QED
    BY <1>5, <2>1, <2>2
<1>7. ASSUME NEW r \in Runs, SubmitTest(r) PROVE ImplementationPlaced'
  <2>1. OfferImplementation([kind |-> "test", id |-> r])
    BY <1>7 DEF SubmitTest
  <2>2. ASSUME NEW w \in ImplementationWork, w # [kind |-> "test", id |-> r],
               (Open(w) /\ ~Stale(w))'
        PROVE  Open(w) /\ ~Stale(w)
    <3>1. \/ UNCHANGED <<run, test>>
          \/ /\ run[r] = "patch_ready" /\ run' = [run EXCEPT ![r] = "test_pending"]
             /\ test' = [test EXCEPT ![r] = "pending"]
      BY <1>7 DEF SubmitTest
    <3>2. w.id # r \/ w.kind = "implementation"
      BY <2>2, ImplementationOpen
    <3> QED
      BY <2>2, <3>1, <3>2, ImplementationOpen DEF TypeOK
  <2> QED
    BY <1>5, <2>1, <2>2
<1>8. CASE EndAnalysis \/ (\E a \in Analyses : Analyse(a)) \/ ConsumePlanning \/ DropPlanning
  <2>1. UNCHANGED <<run, test, mode, implQueue, implItem, overlooked>> /\ left \subseteq left'
    BY <1>8 DEF EndAnalysis, Analyse, ConsumePlanning, TakePlanning, ProcessPlanning, DropPlanning,
                FreePlanning
  <2> QED
    BY <2>1, ImplementationKept
<1>9. CASE TakeImplementation
  <2> SUFFICES ASSUME mode' \in Serving, NEW w \in ImplementationWork, (Open(w) /\ ~Stale(w))'
               PROVE  w \in (Held(implQueue, implItem) \cup left \cup overlooked)'
    BY DEF ImplementationPlaced, Serving
  <2>1. /\ UNCHANGED <<run, test, mode, left, overlooked>>
        /\ implItem = NoWork /\ implQueue # <<>> /\ implQueue \in Seq(ImplementationWork)
        /\ implItem' = implQueue[1] /\ implQueue' = Tail(implQueue)
    BY <1>9 DEF TakeImplementation, TypeOK
  <2>2. Range(implQueue) = {implQueue[1]} \cup Range(Tail(implQueue))
    BY <2>1, TakenFrom
  <2>3. Open(w) /\ ~Stale(w) /\ w # NoWork
    BY <2>1, ImplementationOpen, WorkIs
  <2> QED
    BY <2>1, <2>2, <2>3 DEF ImplementationPlaced, Held, Serving
<1>10. CASE DropImplementation
  <2> SUFFICES ASSUME mode' \in Serving, NEW w \in ImplementationWork, (Open(w) /\ ~Stale(w))'
               PROVE  w \in (Held(implQueue, implItem) \cup left \cup overlooked)'
    BY DEF ImplementationPlaced, Serving
  <2>1. /\ UNCHANGED <<run, test, mode, implQueue, overlooked>> /\ left' = left \cup {implItem}
    BY <1>10 DEF DropImplementation, Elsewhere
  <2>2. Open(w) /\ ~Stale(w)
    BY <2>1, ImplementationOpen
  <2> QED
    BY <2>1, <2>2 DEF ImplementationPlaced, Held, Serving
<1>11. ASSUME NEW r \in Runs,
              GeneratePatch(r) \/ GiveUpRun(r) \/ StartTest(r) \/ EndTest(r) \/ GiveUpTest(r)
                 \/ SkipTest(r)
       PROVE  ImplementationPlaced'
  <2> SUFFICES ASSUME mode' \in Serving, NEW w \in ImplementationWork, (Open(w) /\ ~Stale(w))'
               PROVE  w \in (Held(implQueue, implItem) \cup left \cup overlooked)'
    BY DEF ImplementationPlaced, Serving
  <2>1. UNCHANGED <<mode, implQueue, left, overlooked>>
    BY <1>11 DEF GeneratePatch, GiveUpRun, StartTest, EndTest, GiveUpTest, SkipTest, Elsewhere
  <2>2. Open(w) /\ ~Stale(w) /\ (w = implItem => implItem' = implItem)
    BY <1>11, ItemStep
  <2> QED
    BY <2>1, <2>2 DEF ImplementationPlaced, Held, Serving
<1>12. CASE UNCHANGED vars
  BY <1>12, ImplementationKept DEF vars
<1> QED
  BY <1>1, <1>2, <1>3, <1>4, <1>6, <1>7, <1>8, <1>9, <1>10, <1>11, <1>12
     DEF Next, Start, ConsumeImplementation

-----------------------------------------------------------------------------
(* The invariant. *)

LEMMA TypeStep == ASSUME TypeOK, [Next]_vars PROVE TypeOK'
<1>1. CASE UNCHANGED vars
  BY <1>1 DEF vars, rows, queues, bounds, TypeOK
<1> QED
  BY <1>1, TypeRead, TypeProcess, TypeSubmit, TypeAnalysis, TypePlanning, TypeImplementation
     DEF Next, Start

LEMMA PlacedInit == ASSUME Init PROVE IInv
BY TypeInit DEF Init, IInv, TestsListed, TestsFit, PlanningPlaced, ImplementationPlaced

LEMMA Placed == Spec => []IInv
<1>1. IInv /\ [Next]_vars => IInv'
  BY TypeStep, TestsStep, PlanningStep, ImplementationStep DEF IInv
<1> QED
  BY <1>1, PlacedInit, PTL DEF Spec

\* No start and no request overfills a queue, whatever is found in the database
\* (load_pending_decision_ids, load_recoverable_task_ids, pending_work, enqueue).
THEOREM TypeCorrect == Spec => []TypeOK
BY Placed, PTL DEF IInv

\* Work that a row promises is on a queue or with a consumer from the start of its queue
\* until the process ends, unless a full queue refused it, a consumer dropped it or the
\* start found no room for it (lifespan, the consumers of both queues, the requests).
THEOREM WorkIsPlaced == Spec => []WorkHasPlace
<1>1. IInv => WorkHasPlace
  BY DEF IInv, PlanningPlaced, ImplementationPlaced, WorkHasPlace
<1> QED
  BY <1>1, Placed, PTL

===============================================================================
