-------------------------- MODULE ApprovalLifecycle --------------------------
(*****************************************************************************)
(* What planning and approval promise to a client of the API: the life of a  *)
(* task as a single sequential object, without queue, workers, checkpoints,  *)
(* restarts or retries.  PlanningApproval implements it.                     *)
(*****************************************************************************)
EXTENDS Naturals

CONSTANTS Keys,    \* idempotency keys of the decisions
          Nobody   \* no decision is open

VARIABLES stage,   \* where the task is
          version, \* the plan on the table, 0 before there is one
          open,    \* the decision being carried out: its key and its action
          used     \* keys of all decisions ever accepted

vars == <<stage, version, open, used>>

Stages  == {"planning", "awaiting", "deciding", "approved", "rejected", "blocked", "failed"}
Choices == {"approve", "request_changes", "reject"}

Init == /\ \/ stage = "planning" /\ version = 0
           \/ stage = "awaiting" /\ version = 1
        /\ open = Nobody
        /\ used = {}

\* The first plan is on the table.
Publish == /\ stage = "planning"
           /\ stage' = "awaiting" /\ version' = 1
           /\ UNCHANGED <<open, used>>

\* Planning ends without a plan.
GiveUp == /\ stage = "planning"
          /\ stage' \in {"failed", "blocked"}
          /\ UNCHANGED <<version, open, used>>

\* A decision is accepted: one at a time, each key once.
Ask(k, choice) == /\ stage = "awaiting" /\ k \notin used
                  /\ stage' = "deciding"
                  /\ open' = [key |-> k, action |-> choice]
                  /\ used' = used \cup {k}
                  /\ UNCHANGED version

\* The open decision is closed, and the task goes on at stage next.
Close(next) == /\ stage = "deciding" /\ stage' = next
               /\ open' = Nobody
               /\ UNCHANGED used

Approve == open.action = "approve" /\ Close("approved") /\ UNCHANGED version
Reject  == open.action = "reject" /\ Close("rejected") /\ UNCHANGED version
Revise  == open.action = "request_changes" /\ Close("awaiting") /\ version' = version + 1
Fail    == Close("awaiting") /\ UNCHANGED version
Block   == Close("blocked") /\ UNCHANGED version

Next == \/ Publish \/ GiveUp
        \/ \E k \in Keys, choice \in Choices : Ask(k, choice)
        \/ stage = "deciding" /\ (Approve \/ Reject \/ Revise \/ Fail \/ Block)

Spec == Init /\ [][Next]_vars

===============================================================================
