------------------------------ MODULE Pipeline ------------------------------
(***************************************************************************)
(* A whole job: main hands its manifest to the plugin manager, which stages *)
(* the model, simulates and extracts in one process and stops at the first  *)
(* error; a failed job is submitted again, in a fresh container against the *)
(* same store; and when it has succeeded, the job of a downstream model     *)
(* links to the results in the store (refline-to-boundary-condition).       *)
(*                                                                          *)
(* The simulation and the extraction are those of UnsteadySimulation and    *)
(* ExtractAccumulator, on one plan file; of the staging (Staging) only the  *)
(* plan file it leaves is seen.                                             *)
(***************************************************************************)
EXTENDS Naturals, Sequences, SequencesExt

CONSTANTS
  MaxAttempts,   \* bound on the submissions of one job
  Blocks, BreachBlock, MaxActions, MaxDatasets,  \* of ExtractAccumulator
  Manifests      \* see ManifestsAssumption

ASSUME BoundsAssumption ==
  /\ MaxAttempts \in Nat \ {0} /\ MaxActions \in Nat /\ MaxDatasets \in Nat \ {0}
  /\ BreachBlock \in Blocks

VARIABLES
  manifest,   \* the actions in their order, and the attributes of the simulation
  at,         \* the action that is next or under way
  job,        \* "running", "succeeded", or "failed"
  read,       \* history: what plan file each extraction read, and where in the manifest
  posted,     \* the submission that stored the document of each extraction, by its place
  linked,     \* the results a downstream job linked to
  cfg, attempt, pc, exit, hdf, out, results, log,   \* of the simulation
  acc, ran, status, produced, delivered             \* of the extractions

simulation == <<cfg, attempt, pc, exit, hdf, out, results, log>>
extraction == <<acc, ran, status, produced, delivered, read, posted>>
vars == <<manifest, at, job, linked, simulation, extraction>>

Sim == INSTANCE UnsteadySimulation
Acc == INSTANCE ExtractAccumulator

-----------------------------------------------------------------------------
Steps == {"stage", "simulate", "extract"}

\* The attributes of an extract action; whether its datasets can be extracted is
\* seen when it runs.
Extracts ==
  [kind: Acc!Kinds, block: Blocks, format: {"json", "console", "invalid"},
   accumulate: BOOLEAN, dest: BOOLEAN]

Places(order, step) == {n \in DOMAIN order : order[n] = step}

\* A job simulates once, and stages before that.
ASSUME ManifestsAssumption ==
  \A m \in Manifests :
    /\ m.cfg \in Sim!Configs
    /\ m.order \in Seq(Steps)
    /\ m.extracts \in [Places(m.order, "extract") -> Extracts]
    /\ \E i \in DOMAIN m.order :
         /\ Places(m.order, "simulate") = {i}
         /\ \A k \in Places(m.order, "stage") : k < i

TypeOK ==
  /\ Sim!TypeOK
  /\ Acc!TypeOK
  /\ manifest \in Manifests /\ manifest.cfg = cfg
  /\ at \in 1 .. Len(manifest.order) + 1
  /\ job \in {"running", "succeeded", "failed"}
  /\ read \in Seq([at: DOMAIN manifest.order, file: Sim!HdfFiles]) /\ Len(read) = ran
  /\ posted \in [DOMAIN manifest.extracts -> 0 .. MaxAttempts]
  /\ linked \in Sim!StoredResults

NoPlanFile == [by |-> 0, solution |-> Sim!NoFile]
NothingStored == [put |-> 0, solution |-> Sim!NoFile]

Init ==
  /\ manifest \in Manifests
  /\ cfg = manifest.cfg
  /\ attempt = 1
  /\ at = 1 /\ job = "running"
  /\ pc = "start" /\ exit = "none" /\ hdf = NoPlanFile /\ out = {}
  /\ Acc!Init /\ read = <<>>
  /\ results = NothingStored
  /\ log = [put |-> 0, lines |-> {}]
  /\ posted = [n \in DOMAIN manifest.extracts |-> 0]
  /\ linked = NothingStored

-----------------------------------------------------------------------------
(* RunActions, which runs the actions of the manifest in their order. *)

Current(step) ==
  /\ job = "running"
  /\ at <= Len(manifest.order)
  /\ manifest.order[at] = step

\* mutant: RunActions logs the error of an action and runs the next one
GoesOnAfter_Always(fails) == at' = at + 1 /\ UNCHANGED job

\* It goes on after an action without an error, and fails the job otherwise.
GoesOnAfter(fails) ==
  IF fails THEN job' = "failed" /\ UNCHANGED at
           ELSE at' = at + 1 /\ UNCHANGED job

\* copy-inputs or create-ras-tmp leave a plan file, or fail.
Stage ==
  /\ Current("stage")
  /\ \/ hdf' \in Sim!Staged /\ GoesOnAfter(FALSE)
     \/ hdf' \in Sim!Staged \cup {hdf} /\ GoesOnAfter(TRUE)
  /\ UNCHANGED <<manifest, linked, cfg, attempt, pc, exit, out, results, log, extraction>>

Simulate ==
  /\ Current("simulate")
  /\ Sim!Run
  /\ IF exit' = "none" THEN UNCHANGED <<at, job>> ELSE GoesOnAfter(exit' # "ok")
  /\ UNCHANGED <<manifest, linked, extraction>>

\* The handler of the extract actions: the record of a data set may be missing, and
\* attributes are one record.
RunExtract(a) ==
  Acc!DataExtract(a) \/ Acc!AttributeExtract(a) \/ Acc!BreachExtract(a) \/ Acc!NotReadable(a)

HasAttributes(a, e) == \A f \in DOMAIN e : a[f] = e[f]

\* A document that was stored, whether or not the upload says so.
Posts ==
  posted' = IF delivered' = delivered THEN posted
            ELSE [posted EXCEPT ![at] = attempt]

Extract ==
  /\ Current("extract")
  /\ \E a \in Acc!Actions : HasAttributes(a, manifest.extracts[at]) /\ RunExtract(a)
  /\ read' = Append(read, [at |-> at, file |-> hdf])
  /\ Posts
  /\ GoesOnAfter(status' = "error")
  /\ UNCHANGED <<manifest, linked, simulation>>

\* main returns, which is the exit status of a success.
Finish ==
  /\ job = "running"
  /\ at > Len(manifest.order)
  /\ job' = "succeeded"
  /\ UNCHANGED <<manifest, at, linked, simulation, extraction>>

-----------------------------------------------------------------------------
(* The batch system. *)

\* The container is stopped between any two steps.
Killed ==
  /\ job = "running"
  /\ job' = "failed"
  /\ UNCHANGED <<manifest, at, linked, simulation, extraction>>

\* A failed job is submitted again, in a fresh container.
Resubmit ==
  /\ job = "failed"
  /\ attempt < MaxAttempts
  /\ attempt' = attempt + 1
  /\ at' = 1 /\ job' = "running"
  /\ pc' = "start" /\ exit' = "none" /\ hdf' = NoPlanFile /\ out' = {}
  /\ acc' = Acc!EmptyAccumulator
  /\ ran' = 0 /\ status' = "ok" /\ produced' = {} /\ delivered' = <<>> /\ read' = <<>>
  /\ UNCHANGED <<manifest, cfg, results, log, posted, linked>>

\* The job of a downstream model, which waits for this one to succeed, reads the
\* results from the store.
Link ==
  /\ job = "succeeded"
  /\ results.solution # Sim!NoFile
  /\ linked' = results
  /\ UNCHANGED <<manifest, at, job, simulation, extraction>>

RunActions == Stage \/ Simulate \/ Extract \/ Finish

Next == RunActions \/ Killed \/ Resubmit \/ Link

Spec == Init /\ [][Next]_vars

\* The process runs on as long as it is not stopped.
FairSpec == Spec /\ WF_vars(RunActions)

-----------------------------------------------------------------------------
(* Properties the code has. *)

\* The action at place n comes after the simulation in the manifest.
AfterSimulation(n) == \E i \in Places(manifest.order, "simulate") : i < n

OfTheRun(file) ==
  /\ file.solution = "success"
  /\ cfg.planFile = "created" => file.by = attempt

\* Every record of a document that was collected after the simulation was read
\* from a plan file with a stable solution, and from the one this very run left
\* when create-ras-tmp made it; a document may hold older ones only where the
\* manifest extracts before it simulates (the hard exit of unsteady-simulation,
\* and an accumulator that does not outlive the process).
DocumentsAreOfTheRun ==
  \A i \in DOMAIN delivered : \A r \in Acc!RecordsIn(delivered[i].doc) :
    AfterSimulation(read[r.by].at) => OfTheRun(read[r.by].file)

\* A job that succeeded stored the document of every extraction that sends one in
\* this very submission, over those of failed ones: unlike an upload of the
\* results, one of a document cannot fail unnoticed (RasExtractAction.Run and
\* RasBreachExtractAction.Run return its error).
DocumentsAreNew ==
  job = "succeeded" =>
    \A n \in DOMAIN posted :
      LET e == manifest.extracts[n]
      IN  e.kind = "breach" \/ ~e.accumulate => posted[n] = attempt

\* The log in the store is of this submission, and says that it could not save.
IsLogged == log.put = attempt /\ Sim!SaveFailures \cap log.lines # {}

\* What a downstream job links to is the stable solution of the submission that
\* succeeded, or what an earlier one left, be it unstable: that submission could
\* not save, and the log it stored, if it stored one, says so.  Nothing does when
\* there is no output for the log or its upload failed (saveResults; Run drops its
\* error): StaleLinkIsLogged.
LinkedIsOfTheRun ==
  linked.put # 0 =>
    \/ linked.put = attempt /\ linked.solution = "success"
    \/ linked.put < attempt /\ (log.put = attempt => IsLogged)

\* Every submission ends, whichever actions fail.
Terminates == job = "running" ~> job # "running"

\* The whole job, with the actions around the simulation, is a compute job still:
\* an extraction that fails after the results were published fails it.
Phase ==
  IF job # "running" THEN job
  ELSE IF pc \in {"results", "log", "check"} \/ exit = "ok" THEN "publishing"
  ELSE "computing"

Job == INSTANCE ComputeJob WITH
  Solutions <- Sim!Solutions,
  NoFile <- Sim!NoFile,
  Stable <- "success",
  phase <- Phase,
  solution <- IF Phase = "computing" THEN Sim!NoFile ELSE hdf.solution,
  published <- results.solution

ImplementsComputeJob == Job!Spec

-----------------------------------------------------------------------------
(* The inductive invariant the properties follow from. *)

\* The simulation is under way only while it is the current action.
OnlySimulates ==
  pc \notin {"start", "done"} => at \in Places(manifest.order, "simulate")

\* What the simulation, once passed, says of the plan file is still true; one that
\* ended otherwise has failed the job.
SimulationHolds ==
  /\ AfterSimulation(at) => exit = "ok"
  /\ exit = "ok" => AfterSimulation(at) /\ OfTheRun(hdf)
  /\ exit \notin {"none", "ok"} => job = "failed"

\* A job succeeds at the end of its manifest.
SucceedsAtEnd == job = "succeeded" => at = Len(manifest.order) + 1

\* Only what is declared is stored, and only what is stored is linked to, after success.
StoredAsDeclared ==
  /\ results.put # 0 => cfg.resultsDs
  /\ linked.put # 0 => job = "succeeded" /\ linked = results

\* Every extraction read its plan file where it comes in the manifest.
ReadIsOfTheRun ==
  \A n \in DOMAIN read :
    read[n].at <= at /\ (AfterSimulation(read[n].at) => OfTheRun(read[n].file))

\* The extractions passed have posted their documents.
PostedUpToHere ==
  \A n \in DOMAIN posted :
    LET e == manifest.extracts[n]
    IN  n < at /\ (e.kind = "breach" \/ ~e.accumulate) => posted[n] = attempt

IInv ==
  /\ TypeOK
  /\ Sim!IInv
  /\ Acc!IInv
  /\ OnlySimulates
  /\ SimulationHolds
  /\ SucceedsAtEnd
  /\ StoredAsDeclared
  /\ ReadIsOfTheRun
  /\ PostedUpToHere

-----------------------------------------------------------------------------
(* What the documents say and the code does not do. *)

\* unsteady-simulation.md:26-27 has the action save the results and the log.  A job
\* that succeeded may have saved neither: a downstream job then links to the results
\* of an earlier submission, and no log says that they are not of this one.
StaleLinkIsLogged ==
  linked.put # 0 => linked.put = attempt \/ IsLogged

=============================================================================
