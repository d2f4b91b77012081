------------------------- MODULE ImplementationEffects -------------------------
(*****************************************************************************)
(* The two services of an implementation run that act outside the database,  *)
(* one behind the other: PatchService writes the worktree, and when the user *)
(* has authorised the stored patch it is inspected once more and             *)
(* DockerTestRunner runs its tests in a container that mounts the worktree.  *)
(*****************************************************************************)
EXTENDS PatchFiles, TestRunner

vars == <<patchVars, runnerVars>>

Init == PatchInit /\ RunnerInit

\* ImplementationService.run_test: inspect agreed with the stored hash, the test is
\* marked as running and handed to the runner.
RunTest ==
    /\ step = "agreed" /\ purpose = "check" /\ call = "idle"
    /\ call' = "image"
    /\ UNCHANGED <<patchVars, after, docker, output, result, runnerFaults>>

Next == \/ call = "idle" /\ PatchNext /\ UNCHANGED runnerVars
        \/ RunnerNext /\ UNCHANGED patchVars
        \/ RunTest

Spec == Init /\ [][Next]_vars

FairSpec == Spec /\ RunnerFairness

===============================================================================
