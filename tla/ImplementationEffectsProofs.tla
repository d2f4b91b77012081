---------------------- MODULE ImplementationEffectsProofs ----------------------
(*****************************************************************************)
(* A patch is applied whole or not at all, and the result of a test leaves   *)
(* no container: for every set of files, every plan, every limit and every   *)
(* number of failures.  The two services meet in RunTest only, so each has   *)
(* an invariant of its own.                                                  *)
(*****************************************************************************)
EXTENDS ImplementationEffects, TLAPS

Inspecting == {"untracked", "changed", "numstat", "diff", "manifest"}

PatchType ==
    /\ file \in [Paths -> {"original", "patched", "edited"}] /\ untracked \in BOOLEAN
    /\ draft \in (SUBSET Paths) \ {{}} /\ todo \subseteq draft
    /\ step \in Steps /\ purpose \in {"apply", "check"}
    /\ edited \subseteq Paths /\ torn \in BOOLEAN

\* Who wrote what is in a file.
Authors == \A p \in Paths : /\ file[p] = "patched" => p \in draft
                            /\ file[p] = "edited" => p \in edited

\* Files are written before there is an artifact, and checked behind it.
Phases ==
    /\ step \in {"write", "restore"} => purpose = "apply"
    /\ step \in {"write", "restore"} \cup Inspecting /\ purpose = "apply" => artifact = NoArtifact
    /\ purpose = "check" => artifact # NoArtifact

\* What apply leaves behind when it does not get to an artifact.
NoTrace ==
    artifact = NoArtifact /\ ~torn =>
        /\ ~untracked
        /\ step \in {"idle", "rejected"} => \A p \in Paths \ edited : file[p] = "original"
        /\ step = "restore" => \A p \in Paths \ (edited \cup todo) : file[p] = "original"

\* What apply relies on between the first file and the artifact.
Progress ==
    purpose = "apply" =>
        /\ step \in {"write"} \cup Inspecting => draft \subseteq Allowed
        /\ step = "write" => \A p \in draft \ todo : file[p] # "original"
        /\ step \in Inspecting => \A p \in draft : file[p] # "original"
        /\ step \in {"numstat", "diff", "manifest"} => draft \subseteq seen
        /\ step = "manifest" => /\ draft \subseteq DOMAIN diff
                                /\ \A p \in draft \ edited : diff[p] = "patched"
                                /\ DOMAIN diff \subseteq draft \cup edited

WholeArtifact ==
    artifact # NoArtifact =>
        /\ DOMAIN artifact.diff \subseteq Allowed \cup edited
        /\ \A p \in draft \ edited :
               /\ p \in DOMAIN artifact.diff /\ artifact.diff[p] = "patched"
               /\ artifact.manifest[p] = "patched"
        /\ \A p \in DOMAIN artifact.diff \ draft : p \in edited

PatchInv == PatchType /\ Authors /\ Phases /\ NoTrace /\ Progress /\ WholeArtifact

Answers == {"passed", "failed", "killed", "timed_out"}

\* The client and the container end in this order, and not again.
ClientEnds ==
    /\ client \in {"none", "running", "ended"}
    /\ ending \in {"none"} \cup Ends /\ verdict \in {"none", "passed", "failed"}
    /\ client = "ended" <=> ending # "none"
    /\ ending \in {"passed", "failed"} => verdict = ending
    /\ verdict # "none" => container = "gone"

\* A stream that fell over its limit is full.
OverflowIsFull ==
    /\ captured \in [Streams -> Nat] /\ overflow \in BOOLEAN
    /\ overflow => \E s \in Streams : captured[s] >= MaxOutput

\* Where run stands, it knows what has become of the client.
RunKnows ==
    /\ call \in {"idle", "image", "exec"} => client = "none"
    /\ call = "wait" => client # "none" /\ ending # "killed"
    /\ call \in {"join", "drain"} => client = "ended"
    /\ call \in {"remove", "inspect"} /\ after # "cleaned" => client = "ended"
    /\ call = "join" /\ ending = "killed" => overflow
    /\ call # "over" => result = "none"
    /\ after \in {"none", "exit", "unavailable", "timed_out", "cleaned"}

Answered ==
    /\ result \in Answers => client = "ended" /\ container # "running"
    /\ result = "passed" => verdict = "passed"

RunnerInv == ClientEnds /\ OverflowIsFull /\ RunKnows /\ Answered

IInv == PatchInv /\ RunnerInv

-----------------------------------------------------------------------------
(* PatchService.                                                             *)

USE DEF files, memory, patchVars, Go, PatchFault

\* The first draft is not empty, so an artifact with a diff is one.
LEMMA ArtifactIs ==
    ASSUME NEW d, NEW m, DOMAIN d # {}
    PROVE  [diff |-> d, manifest |-> m] # NoArtifact
<1>1. NoArtifact.diff = <<>> /\ DOMAIN <<>> = {}
  BY DEF NoArtifact
<1>2. [diff |-> d, manifest |-> m].diff = d
  OBVIOUS
<1> QED
  BY <1>1, <1>2

\* Raise: apply is to put the originals back, inspect leaves everything alone.
LEMMA PatchRaises ==
    ASSUME PatchInv, step \in {"write"} \cup Inspecting, Raise,
           UNCHANGED <<files, draft, artifact, edited, torn>>
    PROVE  PatchInv'
<1> USE DEF PatchInv
<1>1. PatchType' /\ Authors' /\ WholeArtifact'
  BY DEF Raise, PatchType, Authors, WholeArtifact, Steps
<1>2. CASE purpose = "apply"
  <2>1. /\ step' = "restore" /\ todo' = draft /\ purpose' = "apply" /\ artifact' = NoArtifact
        /\ file' = file /\ untracked' = untracked /\ draft' = draft /\ edited' = edited /\ torn' = torn
    BY <1>2 DEF Raise, Phases
  <2>2. Phases' /\ Progress'
    BY <2>1 DEF Phases, Progress, Inspecting
  <2>3. \A q \in Paths \ (edited \cup draft) : file[q] = "original"
    BY DEF PatchType, Authors
  <2>4. NoTrace'
    BY <2>1, <2>3, <1>2 DEF NoTrace, Phases
  <2> QED
    BY <1>1, <2>2, <2>4
<1>3. CASE purpose = "check"
  <2>1. step' = "rejected" /\ purpose' = "check" /\ artifact' = artifact /\ artifact # NoArtifact
    BY <1>3 DEF Raise, Phases
  <2> QED
    BY <1>1, <2>1 DEF Phases, NoTrace, Progress, Inspecting
<1> QED
  BY <1>1, <1>2, <1>3 DEF PatchType

LEMMA InvApply == ASSUME PatchInv, Apply PROVE PatchInv'
<1> USE DEF PatchInv
<1>1. PatchType' /\ Authors' /\ WholeArtifact'
  BY DEF Apply, PatchType, Authors, WholeArtifact, Steps
<1>2. Phases' /\ NoTrace' /\ Progress'
  BY DEF Apply, Valid, Phases, NoTrace, Progress, Inspecting, PatchType
<1> QED
  BY <1>1, <1>2

LEMMA InvWrite == ASSUME PatchInv, NEW p \in Paths, Write(p) PROVE PatchInv'
<1> USE DEF PatchInv
<1>0. /\ step = "write" /\ p \in draft /\ purpose = "apply" /\ artifact = NoArtifact
      /\ file'[p] = "patched" /\ \A q \in Paths \ {p} : file'[q] = file[q]
      /\ todo' = todo \ {p} /\ step' = IF todo' = {} THEN "untracked" ELSE "write"
      /\ UNCHANGED <<untracked, draft, purpose, seen, diff, artifact, edited, torn>>
  BY DEF Write, PatchType, Phases
<1>1. PatchType'
  BY DEF Write, PatchType, Steps
<1>2. Authors' /\ WholeArtifact' /\ Phases'
  BY <1>0 DEF Authors, WholeArtifact, Phases, Inspecting
<1>3. NoTrace' /\ Progress'
  BY <1>0 DEF NoTrace, Progress, Inspecting, PatchType
<1> QED
  BY <1>1, <1>2, <1>3

LEMMA InvRestore == ASSUME PatchInv, NEW p \in Paths, Restore(p) PROVE PatchInv'
<1> USE DEF PatchInv
<1>0. /\ step = "restore" /\ purpose = "apply" /\ artifact = NoArtifact
      /\ file'[p] = "original" /\ \A q \in Paths \ {p} : file'[q] = file[q]
      /\ todo' = todo \ {p} /\ step' = IF todo' = {} THEN "rejected" ELSE "restore"
      /\ UNCHANGED <<untracked, draft, purpose, seen, diff, artifact, edited, torn>>
  BY DEF Restore, PatchType, Phases
<1>1. PatchType'
  BY DEF Restore, PatchType, Steps
<1>2. Authors' /\ WholeArtifact' /\ Phases' /\ Progress'
  BY <1>0 DEF Authors, WholeArtifact, Phases, Progress, Inspecting
<1>3. NoTrace'
  BY <1>0 DEF NoTrace
<1> QED
  BY <1>1, <1>2, <1>3

LEMMA InvManifest == ASSUME PatchInv, Manifest PROVE PatchInv'
<1> USE DEF PatchInv
<1>1. CASE purpose = "apply"
  <2>1. /\ step = "manifest" /\ step' = "idle"
        /\ artifact' = [diff |-> diff, manifest |-> Contents(seen)]
        /\ UNCHANGED <<file, untracked, draft, purpose, todo, seen, diff, edited, torn>>
    BY <1>1 DEF Manifest
  <2>2. /\ draft \subseteq Allowed /\ draft \subseteq seen /\ draft \subseteq DOMAIN diff /\ draft # {}
        /\ \A p \in draft \ edited : diff[p] = "patched" /\ file[p] = "patched"
        /\ DOMAIN diff \subseteq draft \cup edited
    <3>1. /\ draft \subseteq Allowed /\ draft \subseteq seen /\ draft \subseteq DOMAIN diff
          /\ \A p \in draft \ edited : diff[p] = "patched"
          /\ \A p \in draft : file[p] # "original"
          /\ DOMAIN diff \subseteq draft \cup edited
      BY <1>1, <2>1 DEF Progress, Inspecting
    <3>2. \A p \in draft \ edited : file[p] = "patched"
      BY <3>1 DEF Authors, PatchType
    <3>3. draft # {}
      BY DEF PatchType
    <3> QED
      BY <3>1, <3>2, <3>3
  <2>3. artifact' # NoArtifact
    BY <2>1, <2>2, ArtifactIs
  <2>4. artifact'.diff = diff /\ \A p \in draft : artifact'.manifest[p] = file[p]
    BY <2>1, <2>2 DEF Contents
  <2>5. PatchType' /\ Authors'
    BY <2>1 DEF PatchType, Authors, Steps
  <2>6. WholeArtifact'
    BY <2>1, <2>2, <2>4 DEF WholeArtifact
  <2>7. Phases' /\ NoTrace' /\ Progress'
    BY <1>1, <2>1, <2>3 DEF Phases, NoTrace, Progress, Inspecting
  <2> QED
    BY <2>5, <2>6, <2>7
<1>2. CASE purpose = "check"
  BY <1>2 DEF Manifest, PatchType, Authors, Phases, NoTrace, Progress, WholeArtifact, Inspecting, Steps
<1> QED
  BY <1>1, <1>2 DEF PatchType

LEMMA InvInspect ==
    ASSUME PatchInv, Check \/ UntrackedPaths \/ ChangedPaths \/ DiffNumstat \/ Diff \/ LimitExceeded
                           \/ GitFails \/ WriteFails
    PROVE  PatchInv'
<1> USE DEF PatchInv
<1>1. CASE Check
  BY <1>1 DEF Check, PatchType, Authors, Phases, NoTrace, Progress, WholeArtifact, Inspecting, Steps
<1>2. ASSUME NEW s \in {"changed", "diff"}, Go(s), step \in Inspecting,
             s = "diff" => step = "numstat",
             UNCHANGED <<files, draft, artifact, edited, torn, patchFaults>>
      PROVE  PatchInv'
  BY <1>2 DEF PatchType, Authors, Phases, NoTrace, Progress, WholeArtifact, Inspecting, Steps
<1>3. ASSUME step \in {"write"} \cup Inspecting, Raise,
             UNCHANGED <<files, draft, artifact, edited, torn>>
      PROVE  PatchInv'
  BY <1>3, PatchRaises
<1>4. CASE UntrackedPaths
  BY <1>2, <1>3, <1>4 DEF UntrackedPaths, Rejected, Inspecting
<1>5. CASE DiffNumstat
  BY <1>2, <1>3, <1>5 DEF DiffNumstat, Rejected, Inspecting
<1>6. CASE LimitExceeded \/ GitFails \/ WriteFails
  BY <1>3, <1>6 DEF LimitExceeded, GitFails, WriteFails, Rejected, Inspecting
<1>7. CASE ChangedPaths
  <2>1. CASE /\ seen' = Changed /\ step' = "numstat"
             /\ UNCHANGED <<files, draft, purpose, todo, diff, artifact, edited, torn, patchFaults>>
    <3>1. step = "changed"
      BY <1>7 DEF ChangedPaths
    <3>2. purpose = "apply" => draft \subseteq Changed
      BY <3>1 DEF Progress, Changed, PatchType, Inspecting
    <3>3. PatchType' /\ Authors' /\ WholeArtifact'
      BY <2>1 DEF PatchType, Authors, WholeArtifact, Steps
    <3>4. Phases' /\ NoTrace' /\ Progress'
      BY <2>1, <3>1, <3>2 DEF Phases, NoTrace, Progress, Inspecting
    <3> QED
      BY <3>3, <3>4
  <2> QED
    BY <1>3, <1>7, <2>1 DEF ChangedPaths, Rejected, Inspecting
<1>8. CASE Diff
  <2>1. /\ step = "diff" /\ step' = "manifest" /\ diff' = Contents(Changed)
        /\ UNCHANGED <<files, draft, purpose, todo, seen, artifact, edited, torn, patchFaults>>
    BY <1>8 DEF Diff
  <2>2. DOMAIN diff' = Changed /\ \A p \in Changed : diff'[p] = file[p]
    BY <2>1 DEF Contents
  <2>3. purpose = "apply" => /\ draft \subseteq Changed
                             /\ \A p \in draft \ edited : file[p] = "patched"
    BY <2>1 DEF Progress, Changed, PatchType, Inspecting, Authors
  <2>4. Changed \subseteq draft \cup edited
    BY DEF Changed, Authors, PatchType
  <2>5. PatchType' /\ Authors' /\ WholeArtifact'
    BY <2>1 DEF PatchType, Authors, WholeArtifact, Steps
  <2>6. Phases' /\ NoTrace'
    BY <2>1 DEF Phases, NoTrace, Inspecting
  <2>7. Progress'
    BY <2>1, <2>2, <2>3, <2>4 DEF Progress, Inspecting
  <2> QED
    BY <2>5, <2>6, <2>7
<1> QED
  BY <1>1, <1>4, <1>5, <1>6, <1>7, <1>8

LEMMA InvEdit == ASSUME PatchInv, NEW p \in Paths, Edit(p) PROVE PatchInv'
<1> USE DEF PatchInv
<1>0. /\ file'[p] = "edited" /\ \A q \in Paths \ {p} : file'[q] = file[q]
      /\ edited' = edited \cup {p}
      /\ UNCHANGED <<untracked, draft, step, purpose, todo, seen, diff, artifact, torn>>
  BY DEF Edit, PatchType
<1>1. PatchType' /\ Authors'
  BY <1>0 DEF Edit, PatchType, Authors
<1>2. Phases' /\ WholeArtifact'
  BY <1>0 DEF Phases, WholeArtifact
<1>3. NoTrace' /\ Progress'
  BY <1>0 DEF NoTrace, Progress, PatchType
<1> QED
  BY <1>1, <1>2, <1>3

LEMMA InvPatchCrash == ASSUME PatchInv, RestoreFails \/ CrashPatch PROVE PatchInv'
<1> USE DEF PatchInv
<1>1. CASE RestoreFails
  BY <1>1 DEF RestoreFails, PatchType, Authors, Phases, NoTrace, Progress, WholeArtifact,
              Inspecting, Steps
<1>2. CASE CrashPatch
  <2>1. /\ step' = "idle" /\ todo' = {} /\ torn' = (torn \/ purpose = "apply")
        /\ untracked' \in BOOLEAN /\ (purpose = "check" => untracked' = untracked)
        /\ UNCHANGED <<file, draft, purpose, artifact, edited>>
    BY <1>2 DEF CrashPatch, PatchType, Phases
  <2>2. PatchType' /\ Authors' /\ WholeArtifact' /\ Phases' /\ Progress'
    BY <2>1 DEF PatchType, Authors, WholeArtifact, Phases, Progress, Inspecting, Steps
  <2>3. NoTrace'
    BY <2>1 DEF NoTrace, Phases, PatchType
  <2> QED
    BY <2>2, <2>3
<1> QED
  BY <1>1, <1>2

LEMMA InvPatchNext == ASSUME PatchInv, PatchNext PROVE PatchInv'
BY InvApply, InvWrite, InvRestore, InvManifest, InvInspect, InvEdit, InvPatchCrash
   DEF PatchNext, Inspect

LEMMA PatchQuiet == ASSUME PatchInv, UNCHANGED patchVars PROVE PatchInv'
BY DEF PatchInv, PatchType, Authors, Phases, NoTrace, Progress, WholeArtifact

-----------------------------------------------------------------------------
(* DockerTestRunner.                                                         *)

USE DEF docker, output, runnerVars, RunnerFault, Return, Remove, Streams, Ends, Answers

\* What the coroutines of run do about the client and its output.
LEMMA InvCoroutines ==
    ASSUME RunnerInv, ResolveImage \/ Execute \/ GatherAfterTimeout \/ RemoveContainer
    PROVE  RunnerInv'
<1> USE DEF RunnerInv, ClientEnds, OverflowIsFull, RunKnows, Answered
<1>1. CASE ResolveImage
  BY <1>1 DEF ResolveImage
<1>2. CASE Execute
  BY <1>2 DEF Execute
<1>3. CASE GatherAfterTimeout
  BY <1>3 DEF GatherAfterTimeout, Drained
<1>4. CASE RemoveContainer
  BY <1>4 DEF RemoveContainer
<1> QED
  BY <1>1, <1>2, <1>3, <1>4

\* The kill waits for the end of the client, so run goes on without it.
LEMMA InvKill == ASSUME RunnerInv, WaitForProcess \/ Timeout PROVE RunnerInv'
<1> USE DEF RunnerInv
<1>1. call = "wait" /\ UNCHANGED <<container, verdict, output, result, after>>
  BY DEF WaitForProcess, Timeout, KillClient
<1>2. client' = "ended" /\ ending' = IF client = "running" THEN "killed" ELSE ending
  BY DEF WaitForProcess, Timeout, KillClient
<1>3. client \in {"running", "ended"}
  BY <1>1 DEF ClientEnds, RunKnows
<1>4. ClientEnds' /\ OverflowIsFull' /\ Answered'
  BY <1>1, <1>2, <1>3 DEF ClientEnds, OverflowIsFull, RunKnows, Answered
<1>5. CASE WaitForProcess
  <2>1. call' = "join" /\ (client = "ended" \/ overflow)
    BY <1>5 DEF WaitForProcess
  <2> QED
    BY <1>1, <1>2, <1>3, <1>4, <2>1 DEF RunKnows
<1>6. CASE Timeout
  <2>1. call' = "drain"
    BY <1>6 DEF Timeout
  <2> QED
    BY <1>1, <1>2, <1>3, <1>4, <2>1 DEF RunKnows
<1> QED
  BY <1>5, <1>6

\* run answers with the end of a client that nobody killed: a killed one is truncated.
LEMMA InvGather == ASSUME RunnerInv, Gather PROVE RunnerInv'
<1> USE DEF RunnerInv
<1>1. /\ call = "join" /\ client = "ended"
      /\ UNCHANGED <<docker, output, runnerFaults>>
  BY DEF Gather, Drained
<1>2. ClientEnds' /\ OverflowIsFull'
  BY <1>1 DEF ClientEnds, OverflowIsFull
<1>3. \/ call' = "remove" /\ after' \in {"exit", "unavailable"} /\ result' = result
      \/ /\ call' = "over" /\ after' = after /\ result' = ending
         /\ \A s \in Streams : ~Truncated(s) /\ ending # "infrastructure"
  BY DEF Gather
<1>4. CASE call' = "remove" /\ after' \in {"exit", "unavailable"} /\ result' = result
  BY <1>1, <1>2, <1>4 DEF RunKnows, Answered
<1>5. CASE /\ call' = "over" /\ after' = after /\ result' = ending
           /\ \A s \in Streams : ~Truncated(s) /\ ending # "infrastructure"
  <2>1. ~overflow
    BY <1>5 DEF OverflowIsFull, Truncated
  <2>2. ending \in {"passed", "failed"}
    BY <1>1, <1>5, <2>1 DEF ClientEnds, RunKnows
  <2>3. verdict = ending /\ container = "gone"
    BY <2>2 DEF ClientEnds
  <2> QED
    BY <1>1, <1>2, <1>5, <2>2, <2>3 DEF RunKnows, Answered
<1> QED
  BY <1>2, <1>3, <1>4, <1>5

\* Only a confirmed removal lets run answer for the tests.
LEMMA InvConfirm == ASSUME RunnerInv, ConfirmRemoval PROVE RunnerInv'
<1> USE DEF RunnerInv
<1>1. call = "inspect" /\ UNCHANGED <<docker, output>>
  BY DEF ConfirmRemoval
<1>2. ClientEnds' /\ OverflowIsFull'
  BY <1>1 DEF ClientEnds, OverflowIsFull
<1>3. CASE call' = "over" /\ result' = "unavailable" /\ after' = after
  BY <1>1, <1>2, <1>3 DEF RunKnows, Answered
<1>4. CASE call' = "remove" /\ result' = result /\ after' = "unavailable" /\ after = "exit"
  BY <1>1, <1>2, <1>4 DEF RunKnows, Answered
<1>5. CASE /\ call' = "over" /\ after' = after /\ container # "running"
           /\ \/ after = "exit" /\ ending # "infrastructure" /\ result' = ending
              \/ after # "exit" /\ result' = after
  BY <1>1, <1>2, <1>5 DEF ClientEnds, RunKnows, Answered
<1> QED
  BY <1>3, <1>4, <1>5 DEF ConfirmRemoval

\* A reader only signals a stream that has no room left.
LEMMA InvOutput ==
    ASSUME RunnerInv, NEW s \in Streams, ReadBounded(s) \/ PrintOutput(s)
    PROVE  RunnerInv'
<1> USE DEF RunnerInv
<1>1. UNCHANGED <<call, after, docker, result>>
  BY DEF ReadBounded, PrintOutput
<1>2. ClientEnds' /\ Answered'
  BY <1>1 DEF ClientEnds, Answered
<1>3. CASE ReadBounded(s)
  <2>1. /\ captured' = [captured EXCEPT ![s] = IF @ < MaxOutput THEN @ + 1 ELSE @]
        /\ overflow' = (overflow \/ captured[s] = MaxOutput)
    BY <1>3 DEF ReadBounded
  <2>2. MaxOutput \in Nat /\ captured \in [Streams -> Nat] /\ overflow \in BOOLEAN
    BY RunnerBoundAssumption DEF OverflowIsFull
  <2>3. captured' \in [Streams -> Nat] /\ overflow' \in BOOLEAN
    BY <2>1, <2>2
  <2>4. \A r \in Streams : captured'[r] >= captured[r]
    BY <2>1, <2>2
  <2>5. overflow' => \E r \in Streams : captured'[r] >= MaxOutput
    <3>1. CASE overflow
      <4>1. PICK r \in Streams : captured[r] >= MaxOutput
        BY <3>1 DEF OverflowIsFull
      <4>2. captured[r] \in Nat /\ captured'[r] \in Nat /\ captured'[r] >= captured[r]
        BY <2>2, <2>3, <2>4
      <4> QED
        BY <2>2, <4>1, <4>2
    <3>2. CASE captured[s] = MaxOutput
      <4>1. captured[s] \in Nat /\ captured'[s] \in Nat /\ captured'[s] >= captured[s]
        BY <2>2, <2>3, <2>4
      <4> QED
        BY <2>2, <3>2, <4>1
    <3> QED
      BY <2>1, <3>1, <3>2
  <2>6. call = "join" /\ ending = "killed" => overflow'
    BY <2>1 DEF RunKnows
  <2> QED
    BY <1>1, <1>2, <2>3, <2>5, <2>6 DEF RunKnows, OverflowIsFull
<1>4. CASE PrintOutput(s)
  <2>1. captured' = captured /\ overflow' = overflow
    BY <1>4 DEF PrintOutput
  <2> QED
    BY <1>1, <1>2, <2>1 DEF RunKnows, OverflowIsFull
<1> QED
  BY <1>3, <1>4

\* docker and the end of the process: no container starts without a client.
LEMMA InvDocker ==
    ASSUME RunnerInv, StartContainer \/ EndContainer \/ EndClient
    PROVE  RunnerInv'
<1> USE DEF RunnerInv, ClientEnds, OverflowIsFull, RunKnows, Answered
<1>1. CASE StartContainer
  BY <1>1 DEF StartContainer
<1>2. CASE EndContainer
  BY <1>2 DEF EndContainer
<1>3. CASE EndClient
  <2>1. /\ client = "running" /\ client' = "ended"
        /\ (verdict # "none" /\ ending' = verdict) \/ ending' = "infrastructure"
        /\ UNCHANGED <<call, after, container, verdict, output, result>>
    BY <1>3 DEF EndClient
  <2> QED
    BY <2>1
<1> QED
  BY <1>1, <1>2, <1>3

LEMMA InvRunnerCrash == ASSUME RunnerInv, CrashRunner PROVE RunnerInv'
BY DEF RunnerInv, ClientEnds, OverflowIsFull, RunKnows, Answered, CrashRunner

LEMMA InvRunnerNext == ASSUME RunnerInv, RunnerNext PROVE RunnerInv'
BY InvCoroutines, InvKill, InvGather, InvConfirm, InvOutput, InvDocker, InvRunnerCrash
   DEF RunnerNext, Coroutines

LEMMA RunnerQuiet == ASSUME RunnerInv, UNCHANGED runnerVars PROVE RunnerInv'
BY DEF RunnerInv, ClientEnds, OverflowIsFull, RunKnows, Answered

-----------------------------------------------------------------------------
(* Both.                                                                     *)

LEMMA InvInit == ASSUME Init PROVE IInv
<1>1. PatchInv
  BY DEF Init, PatchInit, PatchInv, PatchType, Authors, Phases, NoTrace, Progress,
         WholeArtifact, Steps, Inspecting
<1>2. RunnerInv
  BY DEF Init, RunnerInit, RunnerInv, ClientEnds, OverflowIsFull, RunKnows, Answered
<1> QED
  BY <1>1, <1>2 DEF IInv

LEMMA InvNext == ASSUME IInv, [Next]_vars PROVE IInv'
<1> USE DEF IInv
<1>1. CASE PatchNext /\ UNCHANGED runnerVars
  BY ONLY IInv, <1>1, InvPatchNext, RunnerQuiet DEF IInv
<1>2. CASE RunnerNext /\ UNCHANGED patchVars
  BY ONLY IInv, <1>2, InvRunnerNext, PatchQuiet DEF IInv
<1>3. CASE RunTest
  <2>1. UNCHANGED patchVars
    BY <1>3 DEF RunTest
  <2>2. RunnerInv'
    BY <1>3 DEF RunTest, RunnerInv, ClientEnds, OverflowIsFull, RunKnows, Answered
  <2> QED
    BY <2>1, <2>2, PatchQuiet
<1>4. CASE UNCHANGED vars
  <2>1. UNCHANGED patchVars /\ UNCHANGED runnerVars
    BY <1>4 DEF vars
  <2> QED
    BY ONLY IInv, <2>1, PatchQuiet, RunnerQuiet DEF IInv
<1> QED
  BY <1>1, <1>2, <1>3, <1>4 DEF Next

LEMMA Invariant == Spec => []IInv
<1>1. Init => IInv
  BY InvInit
<1>2. IInv /\ [Next]_vars => IInv'
  BY InvNext
<1> QED
  BY <1>1, <1>2, PTL DEF Spec

\* A refused patch leaves no trace, and a stored one is a whole draft, for every set of
\* files and every number of crashes, failed writes and foreign edits (PatchService).
THEOREM PatchWholeOrNot == Spec => []AllOrNothing
<1>1. IInv => AllOrNothing
  BY DEF IInv, PatchInv, NoTrace, WholeArtifact, AllOrNothing
<1> QED
  BY <1>1, Invariant, PTL

\* No result of the tests comes with a container of theirs, and only the container makes
\* them pass, for every limit and every number of docker failures (DockerTestRunner).
THEOREM VerdictIsFinal == Spec => []VerdictWithoutContainer
<1>1. IInv => VerdictWithoutContainer
  BY DEF IInv, RunnerInv, Answered, VerdictWithoutContainer
<1> QED
  BY <1>1, Invariant, PTL

===============================================================================
