------------------------- MODULE UnsteadySimulation -------------------------
(***************************************************************************)
(* The unsteady-simulation action (actions/run/unsteady-simulation-action.go):*)
(* preprocess the geometry if asked to, run the RAS script, upload the plan *)
(* file and the log, then read the plan file's Solution attribute and end   *)
(* the process with a status the batch system acts on.                      *)
(*                                                                          *)
(* The scripts, the remote store and the batch system are the environment:  *)
(* a script may fail or leave any plan file, an upload may fail with or     *)
(* without having stored the object, the container may be killed between    *)
(* any two steps, and a failed job may be submitted again (at most          *)
(* MaxAttempts times) against the same remote store but a fresh container.  *)
(***************************************************************************)
EXTENDS Naturals

CONSTANT MaxAttempts   \* bound on the submissions of one job

ASSUME MaxAttemptsAssumption == MaxAttempts \in Nat \ {0}

VARIABLES
  cfg,      \* the manifest: see Configs
  attempt,  \* the number of this submission, 1, 2, ...
  pc,       \* the next step of Run
  exit,     \* how the process ended, "none" while it runs
  hdf,      \* the local plan file <prefix>.p<plan>.tmp.hdf
  out,      \* the strings.Builder the log is collected in
  results,  \* the plan file in the remote store
  log       \* the log in the remote store

vars == <<cfg, attempt, pc, exit, hdf, out, results, log>>
manifest == <<cfg, attempt>>
remote == <<results, log>>

-----------------------------------------------------------------------------
\* What the Solution attribute of /Results/Unsteady/Summary says: it contains
\* "Finished Successfully", it says something else, or it cannot be read.
Solutions == {"success", "unstable", "absent"}
NoFile == "noFile"

Configs ==
  [attributes       : BOOLEAN,  \* modelPrefix, plan and geom are all given
   geomPreproc      : {"absent", "true", "other", "notString"},
   planFile         : {"created", "copied"},  \* which action staged it
   resultsDs        : BOOLEAN,  \* there is an output named after the plan file
   logDs            : BOOLEAN]  \* there is an output named rasoutput

PCs == {"start", "preproc", "model", "results", "log", "check", "done"}

Failures == {"attributeError", "preprocError", "modelError", "unstable", "killed"}
Exits == {"none", "ok"} \cup Failures

\* What the log collects: all that a script wrote to one of its two streams, and
\* the failures to save.
LogLines ==
  {"preprocOut", "preprocErr", "modelOut", "modelErr", "openFailed", "copyFailed"}

\* A plan file and the submission whose script wrote it, 0 for a staged input.
HdfFiles == [by: 0 .. MaxAttempts, solution: Solutions \cup {NoFile}]

\* Remote objects carry the submission that put them there, 0 when absent.
StoredResults == [put: 0 .. MaxAttempts, solution: Solutions \cup {NoFile}]
StoredLogs == [put: 0 .. MaxAttempts, lines: SUBSET LogLines]

TypeOK ==
  /\ cfg \in Configs
  /\ attempt \in 1 .. MaxAttempts
  /\ pc \in PCs
  /\ exit \in Exits
  /\ hdf \in HdfFiles
  /\ out \in SUBSET LogLines
  /\ results \in StoredResults
  /\ log \in StoredLogs

-----------------------------------------------------------------------------
\* mutant: create-ras-tmp copies the results too
Staged_WithResults ==
  [by: {0},
   solution: IF cfg.planFile = "created" THEN Solutions
             ELSE Solutions \cup {NoFile}]

\* create-ras-tmp builds a plan file without results, copy-inputs may stage one
\* of an earlier run, or none.
Staged ==
  [by: {0},
   solution: IF cfg.planFile = "created" THEN {"absent"}
             ELSE Solutions \cup {NoFile}]

Init ==
  /\ cfg \in Configs
  /\ attempt = 1
  /\ pc = "start"
  /\ exit = "none"
  /\ hdf \in Staged
  /\ out = {}
  /\ results = [put |-> 0, solution |-> NoFile]
  /\ log = [put |-> 0, lines |-> {}]

\* The process ends with a status.
End(status) == pc' = "done" /\ exit' = status

Goto(label) == pc' = label /\ UNCHANGED exit

-----------------------------------------------------------------------------
\* GetStringOrFail on a missing attribute and the type assertion on a
\* geom_preproc that is not a string both end the process.
BadAttributes ==
  /\ pc = "start"
  /\ ~cfg.attributes \/ cfg.geomPreproc = "notString"
  /\ End("attributeError")
  /\ UNCHANGED <<manifest, hdf, out, remote>>

ReadAttributes ==
  /\ pc = "start"
  /\ cfg.attributes
  /\ cfg.geomPreproc # "notString"
  /\ Goto(IF cfg.geomPreproc = "true" THEN "preproc" ELSE "model")
  /\ UNCHANGED <<manifest, hdf, out, remote>>

\* mutant: the script's output does not reach the log
GeomPreproc_NoOutput ==
  /\ pc = "preproc"
  /\ Goto("model")
  /\ UNCHANGED <<manifest, hdf, out, remote>>

\* run-geom-preproc.sh succeeds.  It works on the geometry, not on results.  Its
\* standard output is collected (Output), its standard error is not.
GeomPreproc ==
  /\ pc = "preproc"
  /\ Goto("model")
  /\ out' = out \cup {"preprocOut"}
  /\ UNCHANGED <<manifest, hdf, remote>>

GeomPreprocFails ==
  /\ pc = "preproc"
  /\ End("preprocError")
  /\ UNCHANGED <<manifest, hdf, out, remote>>

\* run-model.sh leaves the plan file as it was or writes one, with any solution.
ScriptEffect ==
  hdf' \in {hdf} \cup [by: {attempt}, solution: Solutions]

\* mutant: the stability check comes before the upload
RunModel_CheckFirst ==
  /\ pc = "model"
  /\ ScriptEffect
  /\ Goto("check")
  /\ out' = out \cup {"modelOut", "modelErr"}
  /\ UNCHANGED <<manifest, remote>>

\* mutant: Output where CombinedOutput is, as for the preprocessor
RunModel_OutputOnly ==
  /\ pc = "model"
  /\ ScriptEffect
  /\ Goto("results")
  /\ out' = out \cup {"modelOut"}
  /\ UNCHANGED <<manifest, remote>>

\* Both streams of run-model.sh are collected (CombinedOutput).
RunModel ==
  /\ pc = "model"
  /\ ScriptEffect
  /\ Goto("results")
  /\ out' = out \cup {"modelOut", "modelErr"}
  /\ UNCHANGED <<manifest, remote>>

\* mutant: a script that fails is run again until it does not
RunModelFails_Retry ==
  /\ pc = "model"
  /\ ScriptEffect
  /\ Goto("model")
  /\ UNCHANGED <<manifest, out, remote>>

RunModelFails ==
  /\ pc = "model"
  /\ ScriptEffect
  /\ End("modelError")
  /\ UNCHANGED <<manifest, out, remote>>

-----------------------------------------------------------------------------
\* saveResults returns early, and Run drops the error, when the manifest has no
\* output for the plan file.
NoResultsSource ==
  /\ pc = "results"
  /\ ~cfg.resultsDs
  /\ Goto("check")
  /\ UNCHANGED <<manifest, hdf, out, remote>>

ResultsNotOpened ==
  /\ pc = "results"
  /\ cfg.resultsDs
  /\ hdf.solution = NoFile
  /\ Goto("log")
  /\ out' = out \cup {"openFailed"}
  /\ UNCHANGED <<manifest, hdf, remote>>

\* mutant: the results are put under another submission's number
StoreResults_NextNumber == results' = [put |-> attempt + 1, solution |-> hdf.solution]

StoreResults == results' = [put |-> attempt, solution |-> hdf.solution]

PutResults ==
  /\ pc = "results"
  /\ cfg.resultsDs
  /\ hdf.solution # NoFile
  /\ Goto("log")
  /\ StoreResults
  /\ UNCHANGED <<manifest, hdf, out, log>>

\* mutant: the error is not recorded
PutResultsFails_Silent ==
  /\ pc = "results"
  /\ cfg.resultsDs
  /\ hdf.solution # NoFile
  /\ Goto("log")
  /\ StoreResults \/ UNCHANGED results
  /\ UNCHANGED <<manifest, hdf, out, log>>

\* The upload reports an error, which the log records; whether the object was
\* stored before the error is unknown.
PutResultsFails ==
  /\ pc = "results"
  /\ cfg.resultsDs
  /\ hdf.solution # NoFile
  /\ Goto("log")
  /\ out' = out \cup {"copyFailed"}
  /\ StoreResults \/ UNCHANGED results
  /\ UNCHANGED <<manifest, hdf, log>>

NoLogSource ==
  /\ pc = "log"
  /\ ~cfg.logDs
  /\ Goto("check")
  /\ UNCHANGED <<manifest, hdf, out, remote>>

StoreLog == log' = [put |-> attempt, lines |-> out]

PutLog ==
  /\ pc = "log"
  /\ cfg.logDs
  /\ Goto("check")
  /\ StoreLog
  /\ UNCHANGED <<manifest, hdf, out, results>>

\* mutant: a failed log upload has the results saved again
PutLogFails_SaveAgain ==
  /\ pc = "log"
  /\ cfg.logDs
  /\ Goto("results")
  /\ StoreLog \/ UNCHANGED log
  /\ UNCHANGED <<manifest, hdf, out, results>>

\* The error is returned by saveResults and dropped by Run.
PutLogFails ==
  /\ pc = "log"
  /\ cfg.logDs
  /\ Goto("check")
  /\ StoreLog \/ UNCHANGED log
  /\ UNCHANGED <<manifest, hdf, out, results>>

-----------------------------------------------------------------------------
\* mutant: a solution attribute that cannot be read counts as stable
IsModelStable_Lenient == hdf.solution \in {"success", "absent"}

IsModelStable == hdf.solution = "success"

CheckStable ==
  /\ pc = "check"
  /\ End(IF IsModelStable THEN "ok" ELSE "unstable")
  /\ UNCHANGED <<manifest, hdf, out, remote>>

\* The container may be stopped between any two steps.
Killed ==
  /\ exit = "none"
  /\ End("killed")
  /\ UNCHANGED <<manifest, hdf, out, remote>>

\* The batch system runs a failed job again, in a fresh container.
Resubmit ==
  /\ exit \in Failures
  /\ attempt < MaxAttempts
  /\ attempt' = attempt + 1
  /\ pc' = "start"
  /\ exit' = "none"
  /\ hdf' \in Staged
  /\ out' = {}
  /\ UNCHANGED <<cfg, remote>>

\* The steps of Run, which the process takes whenever it can.
Run ==
  \/ BadAttributes \/ ReadAttributes
  \/ GeomPreproc \/ GeomPreprocFails
  \/ RunModel \/ RunModelFails
  \/ NoResultsSource \/ ResultsNotOpened \/ PutResults \/ PutResultsFails
  \/ NoLogSource \/ PutLog \/ PutLogFails
  \/ CheckStable

Next == Run \/ Killed \/ Resubmit

Spec == Init /\ [][Next]_vars

\* Run is sequential code whose calls return, so its next step is always taken.
FairSpec == Spec /\ WF_vars(Run)

-----------------------------------------------------------------------------
(* Properties the code has. *)

SaveFailures == {"openFailed", "copyFailed"}

\* The results are stored, or a log made of these lines says why they may not be.
SavedOrSaid(lines) == results.put = attempt \/ lines \cap SaveFailures # {}

\* These lines hold what a complete run collects of its scripts: both streams of
\* the model, standard output of the preprocessor.
OutputIsIn(lines) ==
  /\ {"modelOut", "modelErr"} \subseteq lines
  /\ cfg.geomPreproc = "true" => "preprocOut" \in lines

\* The exit status is the truth about the plan file, and about the copy of it
\* this submission stored: Run uploads before it looks, and nothing writes the
\* file between the two (Run, isModelStable, saveResults).
VerdictIsTrue ==
  exit \in {"ok", "unstable"} =>
    /\ exit = "ok" <=> hdf.solution = "success"
    /\ results.put = attempt => results.solution = hdf.solution

\* The verdict is about this submission's run when create-ras-tmp made the plan
\* file: no stale Solution attribute can be read then (isModelStable cannot tell
\* one that copy-inputs brought from one the script wrote).
VerdictIsFresh ==
  exit = "ok" /\ cfg.planFile = "created" => hdf.by = attempt

\* Run hard-exits on an unstable model only after it tried to save what the
\* model left: the results are stored, or what the log was to be made of, still
\* in memory, says why they may not be (Run, saveResults).
ResultsAreSavedFirst ==
  exit \in {"ok", "unstable"} /\ cfg.resultsDs =>
    SavedOrSaid(out)

\* A stored log accounts for the results of its submission: when they are not
\* stored it says so (saveResults writes the error into the log, then the log).
LogAccountsForResults ==
  log.put = attempt => SavedOrSaid(log.lines)

\* A stored log holds what its submission collected of the scripts: everything
\* the model script wrote, to either stream, and what the preprocessor wrote to
\* standard output, whatever became of the results (Run, saveResults).  What the
\* preprocessor wrote to standard error is not among it (line 52 uses Output), although
\* unsteady-simulation.md:13 has "all execution outputs" captured and logged.
LogHoldsCollectedOutput ==
  log.put = attempt => OutputIsIn(log.lines)

\* Once a submission's log is stored its results are not touched again, so
\* that the log stays a true account of them.
LogSealsResults == [][results' # results => log.put # attempt]_vars

\* Every submission ends, whichever calls fail.
Terminates == exit = "none" ~> exit # "none"

\* Run implements the contract of a compute job.
Job == INSTANCE ComputeJob WITH
  Stable <- "success",
  phase <- CASE exit = "ok" -> "succeeded"
             [] exit \in Failures -> "failed"
             [] pc \in {"results", "log", "check"} -> "publishing"
             [] OTHER -> "computing",
  solution <- hdf.solution,
  published <- results.solution

ImplementsComputeJob == Job!Spec

-----------------------------------------------------------------------------
(* The inductive invariant the properties follow from. *)

\* The process is running exactly while it has a next step.
PcMatchesExit == exit = "none" <=> pc # "done"

\* Nothing stored or written comes from a later submission.
NothingFromLater ==
  /\ results.put <= attempt
  /\ log.put <= attempt
  /\ hdf.by \in {0, attempt}

\* A plan file create-ras-tmp made has no solution until the script writes one.
CreatedFileIsBlank ==
  cfg.planFile = "created" /\ hdf.by = 0 => hdf.solution \in {"absent", NoFile}

\* What this submission stored is the plan file as it still is.
StoredIsLocal ==
  results.put = attempt =>
    pc \in {"log", "check", "done"} /\ results.solution = hdf.solution

\* The log is stored last, once what it must account for is settled.
LogIsLast ==
  log.put = attempt =>
    /\ pc \in {"check", "done"}
    /\ SavedOrSaid(log.lines)
    /\ OutputIsIn(log.lines)

\* The log collects the scripts' output, then the failures to save.
OutIsCollected ==
  /\ pc = "model" /\ cfg.geomPreproc = "true" => "preprocOut" \in out
  /\ pc \in {"results", "log", "check"} => OutputIsIn(out)
  /\ pc = "log" => SavedOrSaid(out)
  /\ pc = "check" /\ cfg.resultsDs => SavedOrSaid(out)

IInv ==
  /\ TypeOK
  /\ PcMatchesExit
  /\ NothingFromLater
  /\ CreatedFileIsBlank
  /\ StoredIsLocal
  /\ LogIsLast
  /\ OutIsCollected
  /\ VerdictIsTrue
  /\ VerdictIsFresh
  /\ ResultsAreSavedFirst

-----------------------------------------------------------------------------
(* What the code means to do and does not. *)

\* unsteady-simulation-action.go:76-79 means to return "failed to save the
\* results" when saveResults fails, but tests the error of another call.
SaveErrorFailsTheAction ==
  exit = "ok" => cfg.resultsDs /\ cfg.logDs /\ log.put = attempt

=============================================================================
