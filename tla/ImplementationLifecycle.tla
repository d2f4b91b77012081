------------------------ MODULE ImplementationLifecycle ------------------------
(*****************************************************************************)
(* What milestone M7 promises: the patch of an approved plan is written      *)
(* after one authorisation, its tests run once after another, and the        *)
(* verdict is about that execution.  ImplementationRun implements it.        *)
(*****************************************************************************)
CONSTANTS Patches, \* everything the model may write
          NoPatch  \* nothing is published

VARIABLES stage, \* where the run is
          patch, \* what is published for review
          ran    \* the tests have been executed

vars == <<stage, patch, ran>>

Stages == {"approved", "generating", "ready", "testing",
           "tested", "test_failed", "blocked", "failed"}

Init == stage = "approved" /\ patch = NoPatch /\ ran = FALSE

AuthorisePatch == /\ stage = "approved" /\ stage' = "generating"
                  /\ UNCHANGED <<patch, ran>>

Publish == /\ stage = "generating" /\ stage' = "ready"
           /\ patch' \in Patches
           /\ UNCHANGED ran

AuthoriseTest == /\ stage = "ready" /\ stage' = "testing"
                 /\ UNCHANGED <<patch, ran>>

RunTests == /\ stage = "testing" /\ ~ran
            /\ ran' = TRUE
            /\ UNCHANGED <<stage, patch>>

Judge == /\ stage = "testing" /\ ran
         /\ stage' \in {"tested", "test_failed"}
         /\ UNCHANGED <<patch, ran>>

\* A run is given up for good, or until somebody has looked at it.
GiveUp == /\ stage \in {"generating", "ready", "testing", "blocked"}
          /\ stage' \in {"blocked", "failed"}
          /\ UNCHANGED <<patch, ran>>

Next == AuthorisePatch \/ Publish \/ AuthoriseTest \/ RunTests \/ Judge \/ GiveUp

Spec == Init /\ [][Next]_vars

===============================================================================
