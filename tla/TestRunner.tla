------------------------------ MODULE TestRunner ------------------------------
(*****************************************************************************)
(* DockerTestRunner.run and cleanup: the docker client is a process whose    *)
(* two streams are read by two coroutines while a third waits for its end,   *)
(* for the first stream that is full, or for a timeout, whichever is first.  *)
(* Killing the client does not stop the container, which is removed by name. *)
(*                                                                           *)
(* Output is counted in chunks.  The docker daemon is external: a container  *)
(* that ends is removed by it (--rm), and rm and inspect tell the truth or   *)
(* fail.                                                                     *)
(*****************************************************************************)
EXTENDS Naturals

CONSTANTS
    MaxOutput,     \* chunks of a stream that are kept (max_output_bytes)
    PipeSize,      \* chunks a pipe holds
    RunnerFaults   \* how often docker fails or the process dies

ASSUME RunnerBoundAssumption == MaxOutput \in Nat \ {0} /\ PipeSize \in Nat \ {0} /\ RunnerFaults \in Nat

Streams == {"stdout", "stderr"}

\* How the client ended: with the code of the tests, with one of docker's own (125-127),
\* or by SIGKILL.
Ends == {"passed", "failed", "infrastructure", "killed"}

VARIABLES
    call,       \* where run or cleanup stands
    after,      \* what it returns when the container is removed
    client,     \* the docker client process: none, running or ended
    ending,     \* how it ended
    container,  \* the container: none, running or gone
    verdict,    \* how the tests in it ended
    pipe,       \* chunks that wait in the pipes
    captured,   \* chunks kept of each stream
    overflow,   \* the event the readers set
    result,     \* what run returned
    runnerFaults

docker == <<client, ending, container, verdict>>
output == <<pipe, captured, overflow>>
runnerVars == <<call, after, docker, output, result, runnerFaults>>

RunnerInit ==
    /\ call = "idle" /\ after = "none"
    /\ client = "none" /\ ending = "none"
    /\ container = "none" /\ verdict = "none"
    /\ pipe = [s \in Streams |-> 0]
    /\ captured = [s \in Streams |-> 0]
    /\ overflow = FALSE
    /\ result = "none"
    /\ runnerFaults = RunnerFaults

RunnerFault == runnerFaults > 0 /\ runnerFaults' = runnerFaults - 1

Return(r) == call' = "over" /\ result' = r /\ UNCHANGED after
Remove(a) == call' = "remove" /\ after' = a /\ UNCHANGED result

-----------------------------------------------------------------------------
(* run.                                                                      *)

ResolveImage ==
    /\ call = "image"
    /\ \/ call' = "exec" /\ UNCHANGED <<after, result, runnerFaults>>
       \/ RunnerFault /\ Return("unavailable")
    /\ UNCHANGED <<docker, output>>

\* The client is started, or cannot be: run lets the OSError through.
Execute ==
    /\ call = "exec"
    /\ \/ call' = "wait" /\ client' = "running" /\ UNCHANGED <<after, result, runnerFaults>>
       \/ RunnerFault /\ Return("error") /\ UNCHANGED client
    /\ UNCHANGED <<ending, container, verdict, output>>

\* A reader keeps what fits and goes on reading, so that the client is never blocked.
ReadBounded(s) ==
    /\ pipe[s] > 0
    /\ pipe' = [pipe EXCEPT ![s] = @ - 1]
    /\ captured' = [captured EXCEPT ![s] = IF @ < MaxOutput THEN @ + 1 ELSE @]
    /\ overflow' = (overflow \/ captured[s] = MaxOutput)
    /\ UNCHANGED <<call, after, docker, result, runnerFaults>>

KillClient == /\ client' = "ended"
              /\ ending' = IF client = "running" THEN "killed" ELSE ending
              /\ UNCHANGED <<container, verdict>>

\* Mutant: the client is given the time to end by itself.
WaitForOutput ==
    /\ call = "wait" /\ (client = "ended" \/ overflow)
    /\ call' = "join"
    /\ UNCHANGED <<docker, after, output, result, runnerFaults>>

\* _wait_for_process: asyncio.wait returned with a task that is done.
WaitForProcess ==
    /\ call = "wait" /\ (client = "ended" \/ overflow)
    /\ call' = "join"
    /\ KillClient
    /\ UNCHANGED <<after, output, result, runnerFaults>>

\* The timeout is noticed first, even if a task is done in the same turn of the loop.
Timeout ==
    /\ call = "wait"
    /\ call' = "drain"
    /\ KillClient
    /\ UNCHANGED <<after, output, result, runnerFaults>>

Drained == client = "ended" /\ \A s \in Streams : pipe[s] = 0

\* Mutant: a stream is truncated when more was kept than the limit.
TruncatedBeyond(s) == overflow /\ captured[s] > MaxOutput

\* A stream of exactly the limit counts as truncated when the other one overflowed.
Truncated(s) == overflow /\ captured[s] >= MaxOutput

\* Both streams are at their end; run_command returns and run looks at the result.
Gather ==
    /\ call = "join" /\ Drained
    /\ \/ (\E s \in Streams : Truncated(s)) /\ Remove("exit")
       \/ /\ \A s \in Streams : ~Truncated(s)
          /\ \/ ending = "infrastructure" /\ Remove("unavailable")
             \/ ending # "infrastructure" /\ Return(ending)
    /\ UNCHANGED <<docker, output, runnerFaults>>

GatherAfterTimeout ==
    /\ call = "drain" /\ Drained
    /\ Remove("timed_out")
    /\ UNCHANGED <<docker, output, runnerFaults>>

-----------------------------------------------------------------------------
(* _remove_container: docker rm -f, then docker container inspect.           *)

RemoveContainer ==
    /\ call = "remove"
    /\ \/ /\ container' = IF container = "running" THEN "gone" ELSE container
          /\ call' = "inspect" /\ UNCHANGED <<after, result, runnerFaults>>
       \/ RunnerFault /\ Return("unavailable") /\ UNCHANGED container
    /\ UNCHANGED <<client, ending, verdict, output>>

\* Confirmed: run goes on behind the removal.
ConfirmRemoval ==
    /\ call = "inspect"
    /\ \/ /\ container # "running"
          /\ \/ after = "exit" /\ ending = "infrastructure" /\ Remove("unavailable")
             \/ after = "exit" /\ ending # "infrastructure" /\ Return(ending)
             \/ after # "exit" /\ Return(after)
          /\ UNCHANGED runnerFaults
       \/ container = "running" /\ Return("unavailable") /\ UNCHANGED runnerFaults
       \/ RunnerFault /\ Return("unavailable")
    /\ UNCHANGED <<docker, output>>

-----------------------------------------------------------------------------
(* The client, the container, and the end of the process.                    *)

StartContainer ==
    /\ client = "running" /\ container = "none"
    /\ container' = "running"
    /\ UNCHANGED <<call, after, client, ending, verdict, output, result, runnerFaults>>

PrintOutput(s) ==
    /\ client = "running" /\ container = "running"
    /\ pipe[s] < PipeSize
    /\ pipe' = [pipe EXCEPT ![s] = @ + 1]
    /\ UNCHANGED <<call, after, docker, captured, overflow, result, runnerFaults>>

\* The tests end, or the supervisor in the container stops them.
EndContainer ==
    /\ container = "running" /\ container' = "gone"
    /\ verdict' \in {"passed", "failed"}
    /\ UNCHANGED <<call, after, client, ending, output, result, runnerFaults>>

\* The client returns the code of its container, or loses the daemon.
EndClient ==
    /\ client = "running" /\ client' = "ended"
    /\ \/ verdict # "none" /\ ending' = verdict /\ UNCHANGED runnerFaults
       \/ RunnerFault /\ ending' = "infrastructure"
    /\ UNCHANGED <<call, after, container, verdict, output, result>>

\* The process dies; the client has a session of its own and lives on.  The next start
\* finds the test running and cleans up.
CrashRunner ==
    /\ call \notin {"idle", "over"} /\ RunnerFault
    /\ Remove("cleaned")
    /\ pipe' = [s \in Streams |-> 0] /\ captured' = [s \in Streams |-> 0] /\ overflow' = FALSE
    /\ UNCHANGED docker

-----------------------------------------------------------------------------
Coroutines == \/ ResolveImage \/ Execute \/ WaitForProcess \/ Gather \/ GatherAfterTimeout
              \/ RemoveContainer \/ ConfirmRemoval

RunnerNext == \/ Coroutines \/ Timeout
        \/ \E s \in Streams : ReadBounded(s) \/ PrintOutput(s)
        \/ StartContainer \/ EndContainer \/ EndClient \/ CrashRunner

\* The event loop resumes its coroutines and its timer; nothing is assumed of docker.
RunnerFairness == /\ WF_runnerVars(Coroutines) /\ WF_runnerVars(Timeout)
            /\ \A s \in Streams : WF_runnerVars(ReadBounded(s))

\* Behind a result of the tests no container of theirs runs, and none comes back; tests
\* count as passed only if their container said so, whichever of its end, a full stream
\* and the timeout was noticed first (run, run_command, _remove_container).
VerdictWithoutContainer ==
    /\ result \in {"passed", "failed", "killed", "timed_out"} => container # "running"
    /\ result = "passed" => verdict = "passed"

\* run and cleanup return, whatever the tests print and however long they take.
CallEnds == call # "idle" ~> call = "over"

===============================================================================
