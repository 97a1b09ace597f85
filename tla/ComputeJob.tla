----------------------------- MODULE ComputeJob -----------------------------
(***************************************************************************)
(* What the unsteady-simulation action promises the batch system that runs *)
(* it, whatever scripts, files and uploads it takes: a job computes a      *)
(* solution, may publish that very solution, and then either succeeds,     *)
(* which it may only do with a stable solution, or fails.  A failed job may *)
(* be submitted again.  Nothing is published after the verdict.             *)
(***************************************************************************)
CONSTANTS
  Solutions,   \* what the Solution attribute of a plan file can say
  Stable,      \* the one that says "Finished Successfully"
  NoFile       \* there is no plan file

VARIABLES
  phase,       \* where the job is
  solution,    \* the solution the job will be judged by
  published    \* the solution last published, NoFile when none was

vars == <<phase, solution, published>>

Init ==
  /\ phase = "computing"
  /\ solution \in Solutions \cup {NoFile}
  /\ published = NoFile

\* The model ran and left a plan file, or none.
Compute ==
  /\ phase = "computing"
  /\ phase' = "publishing"
  /\ solution' \in Solutions \cup {NoFile}
  /\ UNCHANGED published

\* The solution about to be judged is stored remotely.
Publish ==
  /\ phase = "publishing"
  /\ solution # NoFile
  /\ published' = solution
  /\ UNCHANGED <<phase, solution>>

Succeed ==
  /\ phase = "publishing"
  /\ solution = Stable
  /\ phase' = "succeeded"
  /\ UNCHANGED <<solution, published>>

\* A job may fail while it computes, with whatever file that leaves, or after.
Fail ==
  /\ \/ phase = "computing" /\ solution' \in Solutions \cup {NoFile}
     \/ phase = "publishing" /\ UNCHANGED solution
  /\ phase' = "failed"
  /\ UNCHANGED published

Retry ==
  /\ phase = "failed"
  /\ phase' = "computing"
  /\ solution' \in Solutions \cup {NoFile}
  /\ UNCHANGED published

Next == Compute \/ Publish \/ Succeed \/ Fail \/ Retry

Spec == Init /\ [][Next]_vars

=============================================================================
