------------------------------ MODULE PatchFiles ------------------------------
(*****************************************************************************)
(* PatchService on the files of one implementation worktree.  A draft is     *)
(* validated, written file by file and inspected with one git command after  *)
(* another; every error puts the original files back.  A crash leaves the    *)
(* worktree as it is, and the graph runs apply again with the same draft, or *)
(* inspects what an artifact already describes.                              *)
(*                                                                           *)
(* A file is original (as in the base commit), patched (as in the draft) or  *)
(* edited by somebody else.  Sizes are a property of the draft: within or    *)
(* beyond a limit.  Safety of paths is part of Allowed.                      *)
(*****************************************************************************)
EXTENDS Naturals, FiniteSets

CONSTANTS
    Paths,           \* tracked files of the worktree
    Allowed,         \* those the approved plan names
    MaxFiles,        \* PatchLimits.max_files
    PatchFaults      \* how often a write or git fails, the process dies, a file is edited

ASSUME AllowedAssumption == Allowed \subseteq Paths
ASSUME PatchBoundAssumption == MaxFiles \in Nat \ {0} /\ PatchFaults \in Nat

VARIABLES
    file,       \* contents of each file
    untracked,  \* whether a temporary file of _atomic_write was left behind
    draft,      \* paths of the replacements, fixed by the checkpoint before apply
    step,       \* where apply or inspect stands
    purpose,    \* apply, or check of a stored artifact
    todo,       \* files still to be written or put back
    seen,       \* changed paths as git listed them
    diff,       \* git diff: contents of the changed paths
    artifact,   \* patch_artifacts: the diff, and the contents its manifest hashes
    edited,     \* files somebody else wrote
    torn,       \* whether a crash or a failed roll-back left the files half written
    patchFaults

Steps == {"idle", "write", "untracked", "changed", "numstat", "diff", "manifest",
          "restore", "agreed", "rejected"}

NoArtifact == [diff |-> <<>>, manifest |-> <<>>]

files == <<file, untracked>>
memory == <<step, purpose, todo, seen, diff>>
patchVars == <<files, draft, memory, artifact, edited, torn, patchFaults>>

PatchInit ==
    /\ file = [p \in Paths |-> "original"] /\ untracked = FALSE
    /\ draft \in (SUBSET Paths) \ {{}}
    /\ step = "idle" /\ purpose = "apply"
    /\ todo = {} /\ seen = {} /\ diff = <<>>
    /\ artifact = NoArtifact
    /\ edited = {} /\ torn = FALSE
    /\ patchFaults = PatchFaults

PatchFault == patchFaults > 0 /\ patchFaults' = patchFaults - 1

Changed == {p \in Paths : file[p] # "original"}
Contents(paths) == [p \in paths |-> file[p]]

Go(s) == step' = s /\ UNCHANGED <<purpose, todo, seen, diff>>

\* Mutant: only errors of the writes are rolled back.
RaiseAtOnce == /\ step' = IF step = "write" THEN "restore" ELSE "rejected"
               /\ todo' = draft
               /\ UNCHANGED <<purpose, seen, diff>>

\* apply puts the originals back before it raises; inspect by itself just raises.
Raise == /\ step' = IF purpose = "apply" THEN "restore" ELSE "rejected"
         /\ todo' = draft
         /\ UNCHANGED <<purpose, seen, diff>>

Rejected == Raise /\ UNCHANGED <<files, draft, artifact, edited, torn, patchFaults>>

-----------------------------------------------------------------------------
\* Number of files, paths, and the hash of the source of every replacement; nothing is
\* awaited here.  A draft beyond a size limit is refused like one that is out of scope.
Valid == /\ Cardinality(draft) <= MaxFiles /\ draft \subseteq Allowed
         /\ \A p \in draft : file[p] = "original"

Apply ==
    /\ step = "idle" /\ artifact = NoArtifact
    /\ purpose' = "apply"
    /\ \/ Valid /\ step' = "write" /\ todo' = draft
       \/ step' = "rejected" /\ UNCHANGED todo
    /\ UNCHANGED <<files, draft, seen, diff, artifact, edited, torn, patchFaults>>

\* _atomic_write: a temporary file takes the place of the old one.
Write(p) ==
    /\ step = "write" /\ p \in todo
    /\ file' = [file EXCEPT ![p] = "patched"]
    /\ todo' = todo \ {p}
    /\ step' = IF todo' = {} THEN "untracked" ELSE "write"
    /\ UNCHANGED <<untracked, draft, purpose, seen, diff, artifact, edited, torn, patchFaults>>

\* The temporary file is removed again.
WriteFails ==
    /\ step = "write" /\ PatchFault /\ Raise
    /\ UNCHANGED <<files, draft, artifact, edited, torn>>

\* A patch is stored and somebody wants to know whether the worktree still holds it.
Check ==
    /\ step \in {"idle", "agreed"} /\ artifact # NoArtifact
    /\ step' = "untracked" /\ purpose' = "check"
    /\ UNCHANGED <<files, draft, todo, seen, diff, artifact, edited, torn, patchFaults>>

UntrackedPaths ==
    /\ step = "untracked"
    /\ \/ /\ ~untracked /\ Go("changed")
          /\ UNCHANGED <<files, draft, artifact, edited, torn, patchFaults>>
       \/ untracked /\ Rejected

ChangedPaths ==
    /\ step = "changed"
    /\ \/ /\ Changed # {} /\ Changed \subseteq Allowed
          /\ seen' = Changed /\ step' = "numstat"
          /\ UNCHANGED <<files, draft, purpose, todo, diff, artifact, edited, torn, patchFaults>>
       \/ (Changed = {} \/ ~(Changed \subseteq Allowed)) /\ Rejected

DiffNumstat ==
    /\ step = "numstat"
    /\ \/ /\ Changed = seen /\ Go("diff")
          /\ UNCHANGED <<files, draft, artifact, edited, torn, patchFaults>>
       \/ Changed # seen /\ Rejected

Diff ==
    /\ step = "diff"
    /\ diff' = Contents(Changed) /\ step' = "manifest"
    /\ UNCHANGED <<files, draft, purpose, todo, seen, artifact, edited, torn, patchFaults>>

\* More lines or bytes than allowed, no diff at all, or a file that cannot be read.
LimitExceeded == step \in {"numstat", "diff", "manifest"} /\ purpose = "apply" /\ Rejected

GitFails ==
    /\ step \in {"untracked", "changed", "numstat", "diff"} /\ PatchFault /\ Raise
    /\ UNCHANGED <<files, draft, artifact, edited, torn>>

\* The files that git listed are read and hashed, then persist_patch stores the draft
\* of an artifact; a check compares the hash of the diff with the stored one.
Manifest ==
    /\ step = "manifest"
    /\ \/ /\ purpose = "apply"
          /\ artifact' = [diff |-> diff, manifest |-> Contents(seen)]
          /\ Go("idle")
       \/ /\ purpose = "check"
          /\ Go(IF diff = artifact.diff THEN "agreed" ELSE "rejected")
          /\ UNCHANGED artifact
    /\ UNCHANGED <<files, draft, edited, torn, patchFaults>>

Restore(p) ==
    /\ step = "restore" /\ p \in todo
    /\ file' = [file EXCEPT ![p] = "original"]
    /\ todo' = todo \ {p}
    /\ step' = IF todo' = {} THEN "rejected" ELSE "restore"
    /\ UNCHANGED <<untracked, draft, purpose, seen, diff, artifact, edited, torn, patchFaults>>

\* The first write that fails ends the roll-back.
RestoreFails ==
    /\ step = "restore" /\ PatchFault
    /\ torn' = TRUE /\ Go("rejected")
    /\ UNCHANGED <<files, draft, artifact, edited>>

\* Somebody writes a tracked file of the worktree.
Edit(p) ==
    /\ PatchFault
    /\ file' = [file EXCEPT ![p] = "edited"] /\ edited' = edited \cup {p}
    /\ UNCHANGED <<untracked, draft, memory, artifact, torn>>

\* The process dies, perhaps with a temporary file on disk, and the run is taken up again.
CrashPatch ==
    /\ step \notin {"idle", "agreed", "rejected"} /\ PatchFault
    /\ torn' = (torn \/ purpose = "apply")
    /\ untracked' \in IF step \in {"write", "restore"} THEN BOOLEAN ELSE {untracked}
    /\ step' = "idle" /\ todo' = {} /\ seen' = {} /\ diff' = <<>>
    /\ UNCHANGED <<file, draft, purpose, artifact, edited>>

-----------------------------------------------------------------------------
Inspect == UntrackedPaths \/ ChangedPaths \/ DiffNumstat \/ Diff \/ LimitExceeded \/ Manifest

PatchNext == \/ Apply \/ Check \/ Inspect
        \/ \E p \in Paths : Write(p) \/ Restore(p) \/ Edit(p)
        \/ WriteFails \/ GitFails \/ RestoreFails \/ CrashPatch

\* A refused patch leaves no trace: unless a crash or a failed roll-back tore it, every
\* file that nobody else wrote is the original.  A stored patch is never half a draft,
\* whatever crashed on the way: what nobody else wrote is in it as drafted, it holds
\* nothing that the plan does not allow, and manifest and diff agree (apply, inspect).
AllOrNothing ==
    /\ step = "rejected" /\ artifact = NoArtifact /\ ~torn =>
           ~untracked /\ \A p \in Paths \ edited : file[p] = "original"
    /\ artifact # NoArtifact =>
           /\ DOMAIN artifact.diff \subseteq Allowed \cup edited
           /\ \A p \in draft \ edited :
                  /\ p \in DOMAIN artifact.diff /\ artifact.diff[p] = "patched"
                  /\ artifact.manifest[p] = "patched"
           /\ \A p \in DOMAIN artifact.diff \ draft : p \in edited

===============================================================================
