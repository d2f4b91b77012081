------------------------------ MODULE TaskStages ------------------------------
(*****************************************************************************)
(* What the pipeline promises to whoever polls a task: every task by itself  *)
(* walks one ordered list of stages, fixes one commit, and adds evidence     *)
(* about that commit when it enters the stage that needs it.  A task may     *)
(* fail at any active stage and then keeps what it has.  No queue, worker,   *)
(* directory, restart or retry is visible.  RepositoryPipeline implements it.*)
(*****************************************************************************)
CONSTANTS Tasks,
          Commits,
          NoCommit   \* the repository of the task is not fixed yet

VARIABLES stage,     \* tasks.status as a client sees it
          commit,    \* the commit all evidence is about
          evidence   \* which evidence can be read

vars == <<stage, commit, evidence>>

Active == {"queued", "cloning", "indexing", "retrieving", "analyzing"}

Init == /\ stage = [t \in Tasks |-> "absent"]
        /\ commit = [t \in Tasks |-> NoCommit]
        /\ evidence = [t \in Tasks |-> {}]

Move(t, from, to) == stage[t] = from /\ stage' = [stage EXCEPT ![t] = to]

Add(t, kind) == evidence' = [evidence EXCEPT ![t] = @ \cup {kind}]

Advance(t) == /\ \/ Move(t, "absent", "created")
                 \/ Move(t, "created", "queued")
                 \/ Move(t, "queued", "cloning")
                 \/ Move(t, "waiting_approval", "decision_pending")
              /\ UNCHANGED <<commit, evidence>>

Clone(t, c) == /\ Move(t, "cloning", "indexing")
               /\ commit' = [commit EXCEPT ![t] = c]
               /\ Add(t, "tree")

Index(t) == /\ Move(t, "indexing", "retrieving")
            /\ Add(t, "structure") /\ UNCHANGED commit

Retrieve(t) == /\ Move(t, "retrieving", "analyzing") \/ Move(t, "retrieving", "retrieved")
               /\ Add(t, "retrieval") /\ UNCHANGED commit

\* Planning ends with a plan or, after a restart, with a blocked recovery.
Plan(t) == /\ Move(t, "analyzing", "waiting_approval") \/ Move(t, "analyzing", "recovery_blocked")
           /\ UNCHANGED <<commit, evidence>>

Fail(t) == /\ stage[t] \in Active
           /\ stage' = [stage EXCEPT ![t] = "failed"]
           /\ UNCHANGED <<commit, evidence>>

Next == \E t \in Tasks :
            \/ Advance(t) \/ Index(t) \/ Retrieve(t) \/ Plan(t) \/ Fail(t)
            \/ \E c \in Commits : Clone(t, c)

Spec == Init /\ [][Next]_vars

===============================================================================
