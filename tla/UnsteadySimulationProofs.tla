---------------------- MODULE UnsteadySimulationProofs ----------------------
(***************************************************************************)
(* Proofs about UnsteadySimulation, for every bound on the submissions: the *)
(* inductive invariant, the safety properties it implies, and that Run      *)
(* implements ComputeJob.                                                   *)
(***************************************************************************)
EXTENDS UnsteadySimulation, TLAPS

USE MaxAttemptsAssumption DEF MaxAttemptsAssumption

\* The initial state of the action satisfies the inductive invariant.
LEMMA InitIInv == Init => IInv
  <1> SUFFICES ASSUME Init PROVE IInv
    OBVIOUS
  <1> USE DEF Init, Staged, Configs, Solutions, NoFile
  <1>1. TypeOK
    BY DEF TypeOK, PCs, Exits, HdfFiles, StoredResults, StoredLogs
  <1>2. QED
    BY <1>1 DEF IInv, PcMatchesExit, NothingFromLater, CreatedFileIsBlank,
       StoredIsLocal, LogIsLast, OutIsCollected, VerdictIsTrue, VerdictIsFresh,
       ResultsAreSavedFirst

\* Every step keeps the variables in their types.
LEMMA TypeStep == TypeOK /\ [Next]_vars => TypeOK'
  <1> SUFFICES ASSUME TypeOK, [Next]_vars PROVE TypeOK'
    OBVIOUS
  <1> USE DEF TypeOK, PCs, Exits, Failures, LogLines, HdfFiles, StoredResults,
              StoredLogs, manifest, remote, End, Goto
  <1>1. CASE BadAttributes
    BY <1>1 DEF BadAttributes
  <1>2. CASE ReadAttributes
    BY <1>2 DEF ReadAttributes
  <1>3. CASE GeomPreproc \/ GeomPreprocFails
    BY <1>3 DEF GeomPreproc, GeomPreprocFails
  <1>4. CASE RunModel \/ RunModelFails
    <2>1. hdf' \in HdfFiles
      BY <1>4 DEF RunModel, RunModelFails, ScriptEffect
    <2>2. QED
      BY <1>4, <2>1 DEF RunModel, RunModelFails
  <1>5. CASE NoResultsSource \/ ResultsNotOpened
    BY <1>5 DEF NoResultsSource, ResultsNotOpened
  <1>6. CASE PutResults \/ PutResultsFails
    <2>1. results' \in StoredResults
      BY <1>6 DEF PutResults, PutResultsFails, StoreResults
    <2>2. QED
      BY <1>6, <2>1 DEF PutResults, PutResultsFails
  <1>7. CASE NoLogSource \/ PutLog \/ PutLogFails
    <2>1. log' = log \/ log' = [put |-> attempt, lines |-> out]
      BY <1>7 DEF NoLogSource, PutLog, PutLogFails, StoreLog
    <2>2. log' \in StoredLogs
      <3>1. CASE log' = log
        BY <3>1
      <3>2. CASE log' = [put |-> attempt, lines |-> out]
        <4>1. attempt \in 0 .. MaxAttempts
          OBVIOUS
        <4>2. QED
          BY <3>2, <4>1
      <3>3. QED
        BY <2>1, <3>1, <3>2
    <2>3. QED
      BY <1>7, <2>2 DEF NoLogSource, PutLog, PutLogFails
  <1>8. CASE CheckStable
    BY <1>8 DEF CheckStable
  <1>9. CASE Killed
    BY <1>9 DEF Killed
  <1>10. CASE Resubmit
    BY <1>10 DEF Resubmit, Staged, Solutions
  <1>11. CASE UNCHANGED vars
    BY <1>11 DEF vars
  <1>12. QED
    BY <1>1, <1>2, <1>3, <1>4, <1>5, <1>6, <1>7, <1>8, <1>9, <1>10, <1>11
       DEF Next, Run

\* Every step preserves the inductive invariant, shown action by action.
LEMMA StepIInv == IInv /\ [Next]_vars => IInv'
  <1> SUFFICES ASSUME IInv, [Next]_vars PROVE IInv'
    OBVIOUS
  <1>0. TypeOK /\ TypeOK'
    BY TypeStep DEF IInv
  <1> USE <1>0 DEF IInv, PcMatchesExit, NothingFromLater, CreatedFileIsBlank,
       StoredIsLocal, LogIsLast, OutIsCollected, VerdictIsTrue, VerdictIsFresh,
       ResultsAreSavedFirst, SavedOrSaid, OutputIsIn, manifest, remote, End, Goto
  <1>1. CASE BadAttributes
    BY <1>1 DEF BadAttributes
  <1>2. CASE ReadAttributes
    BY <1>2 DEF ReadAttributes
  <1>3. CASE GeomPreproc \/ GeomPreprocFails
    BY <1>3 DEF GeomPreproc, GeomPreprocFails
  <1>4. CASE RunModel \/ RunModelFails
    <2>1. hdf' = hdf \/ hdf'.by = attempt
      BY <1>4 DEF RunModel, RunModelFails, ScriptEffect
    <2>2. attempt \in Nat \ {0} /\ results.put # attempt /\ log.put # attempt
      BY <1>4 DEF RunModel, RunModelFails, TypeOK
    <2>3. QED
      BY <1>4, <2>1, <2>2 DEF RunModel, RunModelFails
  <1>5. CASE NoResultsSource \/ ResultsNotOpened
    BY <1>5 DEF NoResultsSource, ResultsNotOpened, SaveFailures
  <1>6. CASE PutResults \/ PutResultsFails
    <2>1. \/ results' = [put |-> attempt, solution |-> hdf.solution]
          \/ results' = results /\ PutResultsFails
      BY <1>6 DEF PutResults, PutResultsFails, StoreResults
    <2>2. log.put # attempt
      BY <1>6 DEF PutResults, PutResultsFails
    <2>3. QED
      BY <1>6, <2>1, <2>2 DEF PutResults, PutResultsFails, SaveFailures, TypeOK
  <1>7. CASE NoLogSource \/ PutLog \/ PutLogFails
    <2>1. log' = log \/ log' = [put |-> attempt, lines |-> out]
      BY <1>7 DEF NoLogSource, PutLog, PutLogFails, StoreLog
    <2>2. QED
      BY <1>7, <2>1 DEF NoLogSource, PutLog, PutLogFails, TypeOK
  <1>8. CASE CheckStable
    BY <1>8 DEF CheckStable, IsModelStable, NoFile
  <1>9. CASE Killed
    BY <1>9 DEF Killed
  <1>10. CASE Resubmit
    BY <1>10 DEF Resubmit, Staged, TypeOK, StoredResults, StoredLogs, HdfFiles
  <1>11. CASE UNCHANGED vars
    BY <1>11 DEF vars
  <1>12. QED
    BY <1>1, <1>2, <1>3, <1>4, <1>5, <1>6, <1>7, <1>8, <1>9, <1>10, <1>11
       DEF Next, Run

\* The inductive invariant holds in every state Run can reach.
THEOREM Invariance == Spec => []IInv
  BY InitIInv, StepIInv, PTL DEF Spec

\* The variables keep their types, for any number of submissions.
THEOREM TypeCorrect == Spec => []TypeOK
  <1>1. IInv => TypeOK
    BY DEF IInv
  <1>2. QED
    BY <1>1, Invariance, PTL

\* The exit status is the truth about the plan file and about the copy stored by
\* the same submission (Run, isModelStable).
THEOREM Verdict == Spec => []VerdictIsTrue
  <1>1. IInv => VerdictIsTrue
    BY DEF IInv
  <1>2. QED
    BY <1>1, Invariance, PTL

\* For a plan file made by create-ras-tmp, a success is of the run of this
\* submission, never of an earlier one (Run, isModelStable).
THEOREM Fresh == Spec => []VerdictIsFresh
  <1>1. IInv => VerdictIsFresh
    BY DEF IInv
  <1>2. QED
    BY <1>1, Invariance, PTL

\* No verdict is given before the results were stored, or the reason why they may
\* not be was noted for the log (Run, saveResults).
THEOREM SavedFirst == Spec => []ResultsAreSavedFirst
  <1>1. IInv => ResultsAreSavedFirst
    BY DEF IInv
  <1>2. QED
    BY <1>1, Invariance, PTL

\* A stored log accounts for the results of its submission (saveResults).
THEOREM LogIsAccount == Spec => []LogAccountsForResults
  <1>1. IInv => LogAccountsForResults
    BY DEF IInv, LogIsLast, LogAccountsForResults
  <1>2. QED
    BY <1>1, Invariance, PTL

\* A stored log holds what its submission collected: both streams of the model
\* script and standard output of the preprocessor (Run, saveResults).
THEOREM LogIsComplete == Spec => []LogHoldsCollectedOutput
  <1>1. IInv => LogHoldsCollectedOutput
    BY DEF IInv, LogIsLast, LogHoldsCollectedOutput
  <1>2. QED
    BY <1>1, Invariance, PTL

\* No step replaces the results of a submission whose log is stored.
THEOREM LogSeals == Spec => LogSealsResults
  <1>1. IInv /\ [Next]_vars => [results' # results => log.put # attempt]_vars
    <2> SUFFICES ASSUME IInv, [Next]_vars, results' # results
                 PROVE  log.put # attempt
      BY DEF vars
    <2>1. PutResults \/ PutResultsFails
      BY DEF Next, Run, vars, manifest, remote, BadAttributes, ReadAttributes,
         GeomPreproc, GeomPreprocFails, RunModel, RunModelFails,
         NoResultsSource, ResultsNotOpened, NoLogSource, PutLog, PutLogFails,
         CheckStable, Killed, Resubmit
    <2>2. QED
      BY <2>1 DEF IInv, LogIsLast, PutResults, PutResultsFails
  <1>2. QED
    BY <1>1, Invariance, PTL DEF Spec, LogSealsResults

-----------------------------------------------------------------------------
(* Refinement. *)

\* Every step of Run is a step of the compute job or leaves it unchanged.
LEMMA StepJob == IInv /\ IInv' /\ [Next]_vars => [Job!Next]_(Job!vars)
  <1> SUFFICES ASSUME IInv, IInv', [Next]_vars PROVE [Job!Next]_(Job!vars)
    OBVIOUS
  <1> USE DEF Job!Next, Job!vars, manifest, remote, End, Goto, Failures, IInv,
              PcMatchesExit, TypeOK
  <1>1. CASE BadAttributes \/ GeomPreprocFails \/ Killed
    <2>1. Job!Fail \/ UNCHANGED Job!vars
      BY <1>1 DEF BadAttributes, GeomPreprocFails, Killed, Job!Fail, PCs,
         HdfFiles
    <2>2. QED
      BY <2>1
  <1>2. CASE ReadAttributes \/ GeomPreproc
    BY <1>2 DEF ReadAttributes, GeomPreproc
  <1>3. CASE RunModel
    <2>1. Job!Compute
      BY <1>3 DEF RunModel, Job!Compute, HdfFiles
    <2>2. QED
      BY <2>1
  <1>4. CASE RunModelFails
    <2>1. Job!Fail
      BY <1>4 DEF RunModelFails, Job!Fail, HdfFiles
    <2>2. QED
      BY <2>1
  <1>5. CASE NoResultsSource \/ ResultsNotOpened
    BY <1>5 DEF NoResultsSource, ResultsNotOpened
  <1>6. CASE PutResults \/ PutResultsFails
    <2>1. Job!Publish \/ UNCHANGED Job!vars
      BY <1>6 DEF PutResults, PutResultsFails, StoreResults, Job!Publish
    <2>2. QED
      BY <2>1
  <1>7. CASE NoLogSource \/ PutLog \/ PutLogFails
    BY <1>7 DEF NoLogSource, PutLog, PutLogFails
  <1>8. CASE CheckStable
    <2>1. Job!Succeed \/ Job!Fail
      BY <1>8 DEF CheckStable, IsModelStable, Job!Succeed, Job!Fail
    <2>2. QED
      BY <2>1
  <1>9. CASE Resubmit
    <2>1. Job!Retry
      BY <1>9 DEF Resubmit, Job!Retry, HdfFiles
    <2>2. QED
      BY <2>1
  <1>10. CASE UNCHANGED vars
    BY <1>10 DEF vars
  <1>11. QED
    BY <1>1, <1>2, <1>3, <1>4, <1>5, <1>6, <1>7, <1>8, <1>9, <1>10
       DEF Next, Run

\* unsteady-simulation is an implementation of ComputeJob: it publishes only the
\* solution it is judged by and succeeds only when that solution is stable.
THEOREM Refinement == Spec => ImplementsComputeJob
  <1>1. Init => Job!Init
    BY DEF Init, Staged, Configs, NoFile, Solutions, Failures, Job!Init
  <1>2. QED
    BY <1>1, StepJob, Invariance, PTL DEF Spec, ImplementsComputeJob, Job!Spec

=============================================================================
