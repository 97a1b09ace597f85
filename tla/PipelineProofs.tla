--------------------------- MODULE PipelineProofs ---------------------------
(***************************************************************************)
(* Proofs about Pipeline, for every manifest, block name and bound: the     *)
(* inductive invariant, the safety properties it implies, and that a whole  *)
(* job is still a compute job.                                              *)
(*                                                                          *)
(* What the simulation and the extractions keep true is not proved again:   *)
(* it is taken from UnsteadySimulationProofs and ExtractAccumulatorProofs,  *)
(* whose theorems are about SimP!X and AccP!X.  These are the definitions   *)
(* Sim!X and Acc!X of Pipeline, with the same constants and variables, and  *)
(* the first section says so.                                               *)
(***************************************************************************)
EXTENDS Pipeline, TLAPS

SimP == INSTANCE UnsteadySimulationProofs
AccP == INSTANCE ExtractAccumulatorProofs

-----------------------------------------------------------------------------
(* The simulation. *)

LEMMA SimInv == Sim!IInv <=> SimP!IInv
  BY DEF Sim!IInv, SimP!IInv, Sim!TypeOK, SimP!TypeOK, Sim!PcMatchesExit,
     SimP!PcMatchesExit, Sim!NothingFromLater, SimP!NothingFromLater,
     Sim!CreatedFileIsBlank, SimP!CreatedFileIsBlank, Sim!StoredIsLocal,
     SimP!StoredIsLocal, Sim!LogIsLast, SimP!LogIsLast, Sim!OutIsCollected,
     SimP!OutIsCollected, Sim!VerdictIsTrue, SimP!VerdictIsTrue,
     Sim!VerdictIsFresh, SimP!VerdictIsFresh, Sim!ResultsAreSavedFirst,
     SimP!ResultsAreSavedFirst, Sim!SavedOrSaid, SimP!SavedOrSaid,
     Sim!OutputIsIn, SimP!OutputIsIn, Sim!SaveFailures, SimP!SaveFailures,
     Sim!Configs, SimP!Configs, Sim!PCs, SimP!PCs, Sim!Exits, SimP!Exits,
     Sim!Failures, SimP!Failures, Sim!HdfFiles, SimP!HdfFiles, Sim!LogLines,
     SimP!LogLines, Sim!StoredResults, SimP!StoredResults, Sim!StoredLogs,
     SimP!StoredLogs, Sim!Solutions, SimP!Solutions, Sim!NoFile, SimP!NoFile

LEMMA SimRun == Sim!Run <=> SimP!Run
  BY DEF Sim!Run, SimP!Run, Sim!BadAttributes, SimP!BadAttributes,
     Sim!ReadAttributes, SimP!ReadAttributes, Sim!GeomPreproc, SimP!GeomPreproc,
     Sim!GeomPreprocFails, SimP!GeomPreprocFails, Sim!RunModel, SimP!RunModel,
     Sim!RunModelFails, SimP!RunModelFails, Sim!NoResultsSource,
     SimP!NoResultsSource, Sim!ResultsNotOpened, SimP!ResultsNotOpened,
     Sim!PutResults, SimP!PutResults, Sim!PutResultsFails, SimP!PutResultsFails,
     Sim!NoLogSource, SimP!NoLogSource, Sim!PutLog, SimP!PutLog,
     Sim!PutLogFails, SimP!PutLogFails, Sim!CheckStable, SimP!CheckStable,
     Sim!ScriptEffect, SimP!ScriptEffect, Sim!StoreResults, SimP!StoreResults,
     Sim!StoreLog, SimP!StoreLog, Sim!IsModelStable, SimP!IsModelStable,
     Sim!End, SimP!End, Sim!Goto, SimP!Goto, Sim!manifest, SimP!manifest,
     Sim!remote, SimP!remote, Sim!Solutions, SimP!Solutions, Sim!NoFile,
     SimP!NoFile

\* Neither a step of Run nor one of another action breaks its invariant.
LEMMA SimStep == Sim!IInv /\ (Sim!Run \/ UNCHANGED simulation) => Sim!IInv'
  <1>1. SimP!IInv /\ [SimP!Next]_(SimP!vars) => SimP!IInv'
    BY SimP!StepIInv, BoundsAssumption DEF BoundsAssumption
  <1>2. SimP!Run => SimP!Next
    BY DEF SimP!Next
  <1>3. UNCHANGED simulation => UNCHANGED SimP!vars
    BY DEF simulation, SimP!vars
  <1>4. SimP!IInv /\ (SimP!Run \/ UNCHANGED simulation) => SimP!IInv'
    BY <1>1, <1>2, <1>3, Zenon
  <1>5. Sim!IInv' <=> SimP!IInv'
    BY SimInv, PTL
  <1>6. QED
    BY <1>4, <1>5, SimInv, SimRun, Zenon

-----------------------------------------------------------------------------
(* The extractions. *)

LEMMA AccTypes ==
  /\ Acc!Records = AccP!Records /\ Acc!Kinds = AccP!Kinds
  /\ Acc!Accumulators = AccP!Accumulators
  /\ Acc!EmptyAccumulator = AccP!EmptyAccumulator
  /\ Acc!Actions = AccP!Actions
  <1>1. Acc!Records = AccP!Records /\ Acc!Kinds = AccP!Kinds
    BY DEF Acc!Records, AccP!Records, Acc!Kinds, AccP!Kinds
  <1>2. Acc!Accumulators = AccP!Accumulators
    BY <1>1 DEF Acc!Accumulators, AccP!Accumulators
  <1>3. Acc!EmptyAccumulator = AccP!EmptyAccumulator
    BY DEF Acc!EmptyAccumulator, AccP!EmptyAccumulator
  <1>4. Acc!Actions = AccP!Actions
    BY <1>1 DEF Acc!Actions, AccP!Actions, Acc!BoundedSeq, AccP!BoundedSeq,
       Acc!SeqOf, AccP!SeqOf
  <1>5. QED
    BY <1>1, <1>2, <1>3, <1>4

LEMMA AccInv == Acc!IInv <=> AccP!IInv
  <1>1. Acc!TypeOK <=> AccP!TypeOK
    BY AccTypes DEF Acc!TypeOK, AccP!TypeOK
  <1>2. \A doc : Acc!RecordsIn(doc) = AccP!RecordsIn(doc)
    BY DEF Acc!RecordsIn, AccP!RecordsIn, Acc!ToSet, AccP!ToSet
  <1>3. Acc!Sent = AccP!Sent
    BY <1>2 DEF Acc!Sent, AccP!Sent
  <1>4. \A r : Acc!TakenOver(r) <=> AccP!TakenOver(r)
    BY DEF Acc!TakenOver, AccP!TakenOver
  <1>5. \A i, j, s : Acc!Follows(i, j, s) <=> AccP!Follows(i, j, s)
    BY <1>2, <1>4 DEF Acc!Follows, AccP!Follows
  <1>6. \A doc : Acc!InOrder(doc) <=> AccP!InOrder(doc)
    BY DEF Acc!InOrder, AccP!InOrder, Acc!Before, AccP!Before
  <1>7. QED
    BY <1>1, <1>2, <1>3, <1>4, <1>5, <1>6
       DEF Acc!IInv, AccP!IInv, Acc!WaitsInItsBlock, AccP!WaitsInItsBlock,
       Acc!SentIsOfThePast, AccP!SentIsOfThePast, Acc!WaitingFollows,
       AccP!WaitingFollows, Acc!NothingElseIsLost, AccP!NothingElseIsLost,
       Acc!RepeatedOnlyAfterBreach, AccP!RepeatedOnlyAfterBreach,
       Acc!BlocksAreInOrder, AccP!BlocksAreInOrder

LEMMA AccInit == Acc!Init <=> AccP!Init
  BY AccTypes DEF Acc!Init, AccP!Init

LEMMA AccRun ==
  \A a : RunExtract(a) => \/ AccP!DataExtract(a) \/ AccP!AttributeExtract(a)
                          \/ AccP!BreachExtract(a) \/ AccP!NotReadable(a)
  <1>1. \A a : Acc!RecordsOf(a) = AccP!RecordsOf(a)
    BY Zenon DEF Acc!RecordsOf, AccP!RecordsOf
  <1>2. \A a, s : /\ Acc!Produce(s) <=> AccP!Produce(s)
                  /\ Acc!Appended(a, s) = AccP!Appended(a, s)
                  /\ Acc!Replaced(a, s) = AccP!Replaced(a, s)
    BY DEF Acc!Produce, AccP!Produce, Acc!ToSet, AccP!ToSet, Acc!Appended,
       AccP!Appended, Acc!Replaced, AccP!Replaced
  <1>3. \A a, s : /\ Acc!Deliver(a, s) <=> AccP!Deliver(a, s)
                  /\ Acc!KeepOrFlush(a, s) <=> AccP!KeepOrFlush(a, s)
    BY AccTypes DEF Acc!Deliver, AccP!Deliver, Acc!KeepOrFlush,
       AccP!KeepOrFlush, Acc!NotDelivered, AccP!NotDelivered
  <1>4. QED
    BY AccTypes, <1>1, <1>2, <1>3
       DEF RunExtract, Acc!DataExtract, AccP!DataExtract, Acc!AttributeExtract,
       AccP!AttributeExtract, Acc!BreachExtract, AccP!BreachExtract,
       Acc!NotReadable, AccP!NotReadable, Acc!Starts, AccP!Starts,
       Acc!NotDelivered, AccP!NotDelivered

\* The accumulator of a new process satisfies its invariant.
LEMMA AccStart == Acc!Init => Acc!IInv
  <1>1. AccP!Init => AccP!IInv
    BY AccP!InitIInv, BoundsAssumption DEF BoundsAssumption
  <1>2. QED
    BY <1>1, AccInit, AccInv, Zenon

\* Neither an extraction nor a step of another action breaks its invariant.
LEMMA AccStep ==
  Acc!IInv /\ ((\E a \in Acc!Actions : RunExtract(a)) \/ UNCHANGED extraction) => Acc!IInv'
  <1>1. AccP!IInv /\ [AccP!Next]_(AccP!vars) => AccP!IInv'
    BY AccP!StepIInv, BoundsAssumption DEF BoundsAssumption
  <1>2. (\E a \in Acc!Actions : RunExtract(a)) => AccP!Next
    BY AccRun, AccTypes DEF AccP!Next
  <1>3. UNCHANGED extraction => UNCHANGED AccP!vars
    BY DEF extraction, AccP!vars
  <1>4. Acc!IInv' <=> AccP!IInv'
    BY AccInv, PTL
  <1>5. QED
    BY <1>1, <1>2, <1>3, <1>4, AccInv, Zenon

-----------------------------------------------------------------------------
(* The manifest. *)

\* The place of the simulation divides the manifest.
LEMMA SimulatesOnce ==
  ASSUME manifest \in Manifests
  PROVE  /\ Len(manifest.order) \in Nat
         /\ DOMAIN manifest.order = 1 .. Len(manifest.order)
         /\ \A s : Places(manifest.order, s) = {n \in 1 .. Len(manifest.order) : manifest.order[n] = s}
         /\ \E i \in 1 .. Len(manifest.order) :
              /\ Places(manifest.order, "simulate") = {i}
              /\ manifest.order[i] = "simulate"
              /\ \A n : AfterSimulation(n) <=> i < n
              /\ \A k \in 1 .. Len(manifest.order) :
                   /\ manifest.order[k] = "stage" => k < i
                   /\ manifest.order[k] = "simulate" => k = i
  <1> DEFINE order == manifest.order
  <1>1. order \in Seq(Steps)
    BY ManifestsAssumption DEF ManifestsAssumption
  <1>2. Len(order) \in Nat /\ DOMAIN order = 1 .. Len(order)
    BY <1>1
  <1>3. \A s : Places(order, s) = {n \in 1 .. Len(order) : order[n] = s}
    BY <1>2 DEF Places
  <1>4. PICK i \in DOMAIN order :
          /\ Places(order, "simulate") = {i}
          /\ \A k \in Places(order, "stage") : k < i
    BY ManifestsAssumption DEF ManifestsAssumption
  <1>5. i \in 1 .. Len(order) /\ order[i] = "simulate"
    BY <1>2, <1>3, <1>4
  <1>6. \A n : AfterSimulation(n) <=> i < n
    BY <1>4 DEF AfterSimulation
  <1>7. \A k \in 1 .. Len(order) : /\ order[k] = "stage" => k < i
                                  /\ order[k] = "simulate" => k = i
    BY <1>3, <1>4
  <1>8. QED
    BY <1>2, <1>3, <1>4, <1>5, <1>6, <1>7

LEMMA ExtractsHavePlaces ==
  ASSUME manifest \in Manifests
  PROVE  /\ DOMAIN manifest.extracts = Places(manifest.order, "extract")
         /\ \A n \in DOMAIN manifest.extracts :
              /\ n \in 1 .. Len(manifest.order)
              /\ manifest.order[n] = "extract"
              /\ manifest.extracts[n] \in Extracts
  <1>1. manifest.extracts \in [Places(manifest.order, "extract") -> Extracts]
    BY ManifestsAssumption DEF ManifestsAssumption
  <1>2. QED
    BY <1>1, SimulatesOnce

\* The action under way.
LEMMA CurrentIs ==
  ASSUME TypeOK, NEW step, Current(step)
  PROVE  /\ at \in 1 .. Len(manifest.order) /\ at \in Nat
         /\ at \in Places(manifest.order, step)
         /\ manifest.order[at] = step
  <1>1. manifest \in Manifests /\ Len(manifest.order) \in Nat
    BY SimulatesOnce DEF TypeOK
  <1>2. at \in 1 .. Len(manifest.order) + 1 /\ at <= Len(manifest.order)
    BY DEF TypeOK, Current
  <1>3. at \in 1 .. Len(manifest.order) /\ at \in Nat
    BY <1>1, <1>2
  <1>4. QED
    BY <1>1, <1>3, SimulatesOnce DEF Current

\* Before the simulation the process has not begun it, and after it, it has ended
\* with success.
LEMMA NotSimulating ==
  ASSUME IInv, NEW step, Current(step), step # "simulate"
  PROVE  /\ ~AfterSimulation(at) => pc = "start" /\ exit = "none"
         /\ AfterSimulation(at) => pc = "done" /\ exit = "ok"
  <1>1. TypeOK /\ manifest \in Manifests
    BY DEF IInv, TypeOK
  <1>2. at \notin Places(manifest.order, "simulate")
    BY <1>1, CurrentIs, SimulatesOnce
  <1>3. pc \in {"start", "done"} /\ job = "running" /\ (exit = "none" <=> pc # "done")
    BY <1>2 DEF IInv, OnlySimulates, Current, Sim!IInv, Sim!PcMatchesExit
  <1>4. QED
    BY <1>3 DEF IInv, SimulationHolds

-----------------------------------------------------------------------------
(* The first state. *)

LEMMA InitIInv == Init => IInv
  <1> SUFFICES ASSUME Init PROVE IInv
    OBVIOUS
  <1> USE DEF Init
  <1>1. manifest \in Manifests /\ cfg \in Sim!Configs
    BY ManifestsAssumption DEF ManifestsAssumption
  <1>2. Sim!TypeOK
    BY <1>1, BoundsAssumption DEF BoundsAssumption, Sim!TypeOK, Sim!PCs, Sim!Exits,
       Sim!HdfFiles, Sim!StoredResults, Sim!StoredLogs, NoPlanFile, NothingStored
  <1>3. Sim!IInv
    BY <1>2 DEF Sim!IInv, Sim!PcMatchesExit, Sim!NothingFromLater,
       Sim!CreatedFileIsBlank, Sim!StoredIsLocal, Sim!LogIsLast, Sim!OutIsCollected,
       Sim!VerdictIsTrue, Sim!VerdictIsFresh, Sim!ResultsAreSavedFirst,
       NoPlanFile, NothingStored
  <1>4. Acc!IInv
    BY AccStart
  <1>5. TypeOK
    <2>1. 1 \in 1 .. Len(manifest.order) + 1
      BY <1>1, SimulatesOnce
    <2>2. linked \in Sim!StoredResults
      BY BoundsAssumption DEF BoundsAssumption, NothingStored, Sim!StoredResults
    <2>3. posted \in [DOMAIN manifest.extracts -> 0 .. MaxAttempts]
      BY BoundsAssumption DEF BoundsAssumption
    <2>4. read \in Seq([at: DOMAIN manifest.order, file: Sim!HdfFiles]) /\ Len(read) = ran
      BY DEF Acc!Init
    <2>5. QED
      BY <1>1, <1>3, <1>4, <2>1, <2>2, <2>3, <2>4 DEF TypeOK, Sim!IInv, Acc!IInv
  <1>6. ~AfterSimulation(at)
    BY <1>1, SimulatesOnce
  <1>7. OnlySimulates /\ SimulationHolds /\ SucceedsAtEnd
    BY <1>6 DEF OnlySimulates, SimulationHolds, SucceedsAtEnd
  <1>8. StoredAsDeclared /\ ReadIsOfTheRun
    BY DEF StoredAsDeclared, ReadIsOfTheRun, NothingStored
  <1>9. PostedUpToHere
    <2>1. \A n \in DOMAIN posted : ~(n < at)
      BY <1>1, ExtractsHavePlaces, SimulatesOnce
    <2>2. QED
      BY <2>1 DEF PostedUpToHere
  <1>10. QED
    BY <1>3, <1>4, <1>5, <1>7, <1>8, <1>9 DEF IInv

-----------------------------------------------------------------------------
(* The steps. *)

\* What was read stays as it was read.
LEMMA ReadGoesOn ==
  ASSUME TypeOK, ReadIsOfTheRun, at \in Nat, at' \in {at, at + 1},
         UNCHANGED <<manifest, cfg, attempt, extraction>>
  PROVE  ReadIsOfTheRun'
  <1>1. read' = read
    BY DEF extraction
  <1>2. \A n \in DOMAIN read : read[n].at \in Nat /\ read[n].at <= at
    <2> DEFINE S == [at: DOMAIN manifest.order, file: Sim!HdfFiles]
    <2>1. read \in Seq(S)
      BY DEF TypeOK
    <2>2. \A e \in S : e.at \in DOMAIN manifest.order
      OBVIOUS
    <2> HIDE DEF S
    <2>3. \A n \in DOMAIN read : read[n] \in S
      BY <2>1
    <2>4. \A n \in DOMAIN read : read[n].at \in DOMAIN manifest.order
      BY <2>2, <2>3
    <2>5. QED
      BY <2>4, SimulatesOnce DEF TypeOK, ReadIsOfTheRun
  <1>3. \A n \in DOMAIN read : read[n].at <= at'
    BY <1>2
  <1>4. QED
    BY <1>1, <1>3 DEF ReadIsOfTheRun, AfterSimulation, OfTheRun

\* What other actions than extractions do needs no document.
LEMMA PostedGoesOn ==
  ASSUME TypeOK, PostedUpToHere, at \in Nat, at' \in {at, at + 1},
         at' = at + 1 => manifest.order[at] # "extract",
         UNCHANGED <<manifest, attempt, extraction>>
  PROVE  PostedUpToHere'
  <1>1. posted' = posted
    BY DEF extraction
  <1>2. \A n \in DOMAIN posted : n \in Nat /\ manifest.order[n] = "extract"
    BY ExtractsHavePlaces, SimulatesOnce DEF TypeOK
  <1>3. \A n \in DOMAIN posted : n < at' => n < at
    BY <1>2
  <1>4. QED
    BY <1>1, <1>3 DEF PostedUpToHere

\* What the simulation leaves alone, and stores.
LEMMA RunKeeps ==
  ASSUME Sim!Run
  PROVE  /\ UNCHANGED <<cfg, attempt>>
         /\ results' = results \/ cfg.resultsDs
  BY DEF Sim!Run, Sim!BadAttributes, Sim!ReadAttributes, Sim!GeomPreproc,
     Sim!GeomPreprocFails, Sim!RunModel, Sim!RunModelFails, Sim!NoResultsSource,
     Sim!ResultsNotOpened, Sim!PutResults, Sim!PutResultsFails, Sim!NoLogSource,
     Sim!PutLog, Sim!PutLogFails, Sim!CheckStable, Sim!manifest, Sim!remote

\* Staging comes before the simulation, which has stored nothing yet.
LEMMA StageStep == IInv /\ Stage => IInv'
  <1> SUFFICES ASSUME IInv, Stage PROVE IInv'
    OBVIOUS
  <1>1. TypeOK /\ manifest \in Manifests /\ Current("stage")
    BY DEF IInv, TypeOK, Stage
  <1>2. /\ UNCHANGED <<manifest, linked, cfg, attempt, pc, exit, out, results, log>>
        /\ UNCHANGED extraction
        /\ at' = at \/ at' = at + 1
        /\ job' \in {"running", "failed"}
        /\ hdf' \in Sim!Staged \cup {hdf}
    BY <1>1 DEF Stage, GoesOnAfter, Current
  <1>3. /\ at \in 1 .. Len(manifest.order) /\ at \in Nat
        /\ manifest.order[at] = "stage"
    BY <1>1, CurrentIs
  <1>4. ~AfterSimulation(at) /\ ~AfterSimulation(at + 1)
    BY <1>1, <1>3, SimulatesOnce
  <1>5. pc = "start" /\ exit = "none" /\ job = "running"
    BY <1>1, <1>4, NotSimulating DEF Current
  <1>6. hdf' \in Sim!HdfFiles /\ hdf'.by \in {0, attempt}
        /\ (cfg.planFile = "created" /\ hdf'.by = 0 => hdf'.solution \in {"absent", Sim!NoFile})
    <2>1. CASE hdf' = hdf
      BY <2>1, <1>2 DEF IInv, Sim!IInv, Sim!TypeOK, Sim!NothingFromLater,
         Sim!CreatedFileIsBlank
    <2>2. CASE hdf' \in Sim!Staged
      <3>1. /\ hdf' \in [by: {0}, solution: Sim!Solutions \cup {Sim!NoFile}]
            /\ cfg.planFile = "created" => hdf'.solution = "absent"
        BY <2>2 DEF Sim!Staged, Sim!Solutions
      <3>2. QED
        BY <3>1, BoundsAssumption DEF BoundsAssumption, Sim!HdfFiles
    <2>3. QED
      BY <1>2, <2>1, <2>2
  <1>7. Sim!IInv'
    <2>1. Sim!TypeOK'
      BY <1>2, <1>6 DEF IInv, Sim!IInv, Sim!TypeOK
    <2>2. QED
      BY <2>1, <1>2, <1>5, <1>6 DEF IInv, Sim!IInv, Sim!PcMatchesExit,
         Sim!NothingFromLater, Sim!CreatedFileIsBlank, Sim!StoredIsLocal,
         Sim!LogIsLast, Sim!OutIsCollected, Sim!VerdictIsTrue,
         Sim!VerdictIsFresh, Sim!ResultsAreSavedFirst
  <1>8. Acc!IInv'
    BY <1>2, AccStep DEF IInv
  <1>9. TypeOK'
    <2>1. at' \in 1 .. Len(manifest.order) + 1
      BY <1>1, <1>2, <1>3, SimulatesOnce
    <2>2. QED
      BY <1>2, <1>7, <1>8, <2>1 DEF IInv, TypeOK, Sim!IInv, Acc!IInv, extraction
  <1>10. OnlySimulates' /\ SucceedsAtEnd'
    BY <1>2, <1>5 DEF OnlySimulates, SucceedsAtEnd
  <1>11. SimulationHolds'
    <2>1. ~AfterSimulation(at)'
      BY <1>2, <1>4 DEF AfterSimulation
    <2>2. QED
      BY <1>2, <1>5, <2>1 DEF SimulationHolds
  <1>12. StoredAsDeclared'
    BY <1>2, <1>5 DEF IInv, StoredAsDeclared
  <1>13. ReadIsOfTheRun'
    BY <1>2, <1>3, ReadGoesOn DEF IInv
  <1>14. PostedUpToHere'
    BY <1>2, <1>3, PostedGoesOn DEF IInv
  <1>15. QED
    BY <1>7, <1>8, <1>9, <1>10, <1>11, <1>12, <1>13, <1>14 DEF IInv

\* A step of the simulation ends it with a verdict or leaves it under way.
LEMMA SimulateStep == IInv /\ Simulate => IInv'
  <1> SUFFICES ASSUME IInv, Simulate PROVE IInv'
    OBVIOUS
  <1>1. TypeOK /\ manifest \in Manifests /\ Current("simulate") /\ Sim!Run
    BY DEF IInv, TypeOK, Simulate
  <1>2. /\ UNCHANGED <<manifest, linked, cfg, attempt>>
        /\ UNCHANGED extraction
        /\ job = "running"
        /\ IF exit' = "none" THEN at' = at /\ job' = job
           ELSE IF exit' = "ok" THEN at' = at + 1 /\ job' = job
           ELSE at' = at /\ job' = "failed"
    BY <1>1, RunKeeps DEF Simulate, GoesOnAfter, Current
  <1>3. /\ at \in 1 .. Len(manifest.order) /\ at \in Nat
        /\ manifest.order[at] = "simulate" /\ at \in Places(manifest.order, "simulate")
    BY <1>1, CurrentIs
  <1>4. ~AfterSimulation(at) /\ AfterSimulation(at + 1)
    BY <1>1, <1>3, SimulatesOnce
  <1>5. Sim!IInv'
    BY <1>1, SimStep DEF IInv
  <1>6. Acc!IInv'
    BY <1>2, AccStep DEF IInv
  <1>7. at' \in {at, at + 1} /\ job' \in {"running", "failed"}
    BY <1>2
  <1>8. TypeOK'
    <2>1. at' \in 1 .. Len(manifest.order) + 1
      BY <1>1, <1>3, <1>7, SimulatesOnce
    <2>2. QED
      BY <1>2, <1>5, <1>6, <1>7, <2>1 DEF IInv, TypeOK, Sim!IInv, Acc!IInv, extraction
  <1>9. OnlySimulates'
    <2>1. exit' # "none" <=> pc' = "done"
      BY <1>5 DEF Sim!IInv, Sim!PcMatchesExit
    <2>2. QED
      BY <1>2, <1>3, <2>1 DEF OnlySimulates
  <1>10. SimulationHolds'
    <2>1. exit' = "ok" => hdf'.solution = "success" /\ (cfg.planFile = "created" => hdf'.by = attempt)
      BY <1>2, <1>5 DEF Sim!IInv, Sim!VerdictIsTrue, Sim!VerdictIsFresh
    <2>2. AfterSimulation(at)' <=> exit' = "ok"
      BY <1>2, <1>4 DEF AfterSimulation
    <2>3. exit' = "ok" => OfTheRun(hdf)'
      BY <1>2, <2>1 DEF OfTheRun
    <2>4. QED
      BY <1>2, <2>2, <2>3 DEF SimulationHolds
  <1>11. SucceedsAtEnd'
    BY <1>7 DEF SucceedsAtEnd
  <1>12. StoredAsDeclared'
    BY <1>1, <1>2, RunKeeps DEF IInv, StoredAsDeclared
  <1>13. ReadIsOfTheRun'
    BY <1>2, <1>3, <1>7, ReadGoesOn DEF IInv
  <1>14. PostedUpToHere'
    BY <1>2, <1>3, <1>7, PostedGoesOn DEF IInv
  <1>15. QED
    BY <1>5, <1>6, <1>8, <1>9, <1>10, <1>11, <1>12, <1>13, <1>14 DEF IInv

\* An extraction counts, and says that it is done when its document is stored.
LEMMA ExtractDoes ==
  ASSUME TypeOK, Extract, Acc!IInv'
  PROVE  /\ ran' = ran + 1
         /\ status' \in {"ok", "error"}
         /\ LET e == manifest.extracts[at]
            IN  status' = "ok" /\ (e.kind = "breach" \/ ~e.accumulate) => delivered' # delivered
  <1>1. PICK a \in Acc!Actions : HasAttributes(a, manifest.extracts[at]) /\ RunExtract(a)
    BY DEF Extract
  <1>2. manifest \in Manifests /\ Current("extract")
    BY DEF TypeOK, Extract
  <1>3. manifest.extracts[at] \in Extracts
    BY <1>2, CurrentIs, ExtractsHavePlaces
  <1>4. /\ manifest.extracts[at].kind = a.kind
        /\ manifest.extracts[at].accumulate = a.accumulate
    BY <1>1, <1>3 DEF Extracts, HasAttributes
  <1>5. ran' = ran + 1
    BY <1>1 DEF RunExtract, Acc!DataExtract, Acc!AttributeExtract,
       Acc!BreachExtract, Acc!NotReadable, Acc!Starts
  <1>6. status' \in {"ok", "error"}
    BY DEF Acc!IInv, Acc!TypeOK
  <1>7. \A full : Acc!Deliver(a, full) => delivered' # delivered
    <2> DEFINE D == [kind: Acc!Kinds, doc: Acc!Accumulators]
    <2>1. delivered \in Seq(D)
      BY DEF TypeOK, Acc!TypeOK
    <2> HIDE DEF D
    <2>2. \A d : Len(Append(delivered, d)) = Len(delivered) + 1 /\ Len(delivered) \in Nat
      BY <2>1
    <2>3. \A d : Append(delivered, d) # delivered
      BY <2>2
    <2>4. QED
      BY <2>3 DEF Acc!Deliver
  <1>8. status' = "ok" /\ (a.kind = "breach" \/ ~a.accumulate) => \E full : Acc!Deliver(a, full)
    BY <1>1 DEF RunExtract, Acc!DataExtract, Acc!AttributeExtract,
       Acc!BreachExtract, Acc!NotReadable, Acc!KeepOrFlush, Acc!NotDelivered
  <1>9. QED
    BY <1>4, <1>5, <1>6, <1>7, <1>8

\* An extraction after the simulation reads what the simulation left.
LEMMA ExtractStep == IInv /\ Extract => IInv'
  <1> SUFFICES ASSUME IInv, Extract PROVE IInv'
    OBVIOUS
  <1>1. TypeOK /\ manifest \in Manifests /\ Current("extract")
    BY DEF IInv, TypeOK, Extract
  <1>2. UNCHANGED <<manifest, linked, simulation>> /\ job = "running"
    BY <1>1 DEF Extract, Current
  <1>3. /\ at \in 1 .. Len(manifest.order) /\ at \in Nat
        /\ manifest.order[at] = "extract" /\ at \in DOMAIN manifest.extracts
    BY <1>1, CurrentIs, ExtractsHavePlaces
  <1>4. Sim!IInv'
    BY <1>2, SimStep DEF IInv
  <1>5. Acc!IInv'
    <2>1. \E a \in Acc!Actions : RunExtract(a)
      BY DEF Extract
    <2>2. QED
      BY <2>1, AccStep DEF IInv
  <1>6. ran' = ran + 1 /\ status' \in {"ok", "error"}
    BY <1>1, <1>5, ExtractDoes
  <1>7. IF status' = "error" THEN at' = at /\ job' = "failed"
        ELSE at' = at + 1 /\ job' = "running"
    BY <1>2 DEF Extract, GoesOnAfter
  <1>8. /\ at' \in {at, at + 1} /\ job' \in {"running", "failed"}
        /\ UNCHANGED <<cfg, attempt, pc, exit, hdf, out, results, log>>
    BY <1>2, <1>7 DEF simulation
  <1>9. ~(at \in Places(manifest.order, "simulate"))
    BY <1>1, <1>3, SimulatesOnce
  <1>10. AfterSimulation(at + 1) <=> AfterSimulation(at)
    <2>1. PICK i \in 1 .. Len(manifest.order) :
            /\ manifest.order[i] = "simulate"
            /\ \A n : AfterSimulation(n) <=> i < n
      BY <1>1, SimulatesOnce
    <2>2. i # at /\ i \in Nat
      BY <1>1, <1>3, <2>1, SimulatesOnce
    <2>3. i < at + 1 <=> i < at
      BY <1>3, <2>2
    <2>4. QED
      BY <2>1, <2>3
  <1>11. AfterSimulation(at)' <=> AfterSimulation(at)
    BY <1>2, <1>8, <1>10 DEF AfterSimulation
  <1>12. OnlySimulates' /\ SucceedsAtEnd' /\ StoredAsDeclared'
    BY <1>2, <1>8, <1>9 DEF IInv, OnlySimulates, SucceedsAtEnd, StoredAsDeclared
  <1>13. SimulationHolds'
    BY <1>2, <1>7, <1>8, <1>11 DEF IInv, SimulationHolds, OfTheRun
  <1> DEFINE S == [at: DOMAIN manifest.order, file: Sim!HdfFiles]
             last == [at |-> at, file |-> hdf]
  <1>14. /\ read \in Seq(S) /\ last \in S /\ Len(read) = ran /\ read' = Append(read, last)
         /\ \A e \in S : e.at \in 1 .. Len(manifest.order)
    BY <1>1, <1>3, SimulatesOnce DEF TypeOK, Sim!TypeOK, Extract
  <1>15. last.at = at /\ last.file = hdf
    OBVIOUS
  <1> HIDE DEF S, last
  <1>16. /\ read' \in Seq(S) /\ Len(read') = Len(read) + 1 /\ Len(read) \in Nat
         /\ \A n \in DOMAIN read' : (n \in DOMAIN read /\ read'[n] = read[n]) \/ read'[n] = last
         /\ \A n \in DOMAIN read : read[n] \in S
    BY <1>14
  <1>17. TypeOK'
    <2>1. at' \in 1 .. Len(manifest.order) + 1
      BY <1>1, <1>3, <1>8, SimulatesOnce
    <2>2. read' \in Seq([at: DOMAIN manifest'.order, file: Sim!HdfFiles])
      BY <1>2, <1>16 DEF S
    <2>3. attempt \in 0 .. MaxAttempts
      BY BoundsAssumption DEF BoundsAssumption, IInv, Sim!IInv, Sim!TypeOK
    <2>4. posted' \in [DOMAIN manifest.extracts -> 0 .. MaxAttempts]
      BY <1>1, <2>3 DEF TypeOK, Extract, Posts
    <2>5. QED
      BY <1>2, <1>4, <1>5, <1>6, <1>8, <1>14, <1>16, <2>1, <2>2, <2>4
         DEF IInv, TypeOK, Sim!IInv, Acc!IInv
  <1>18. ReadIsOfTheRun'
    <2>1. \A n \in DOMAIN read :
            /\ read[n].at <= at'
            /\ AfterSimulation(read[n].at) => OfTheRun(read[n].file)
      <3>1. \A n \in DOMAIN read : read[n].at \in Nat /\ read[n].at <= at
        BY <1>1, <1>14, <1>16, SimulatesOnce DEF IInv, ReadIsOfTheRun
      <3>2. QED
        BY <1>3, <1>8, <3>1 DEF IInv, ReadIsOfTheRun
    <2>2. last.at <= at' /\ (AfterSimulation(last.at) => OfTheRun(last.file))
      <3>1. AfterSimulation(at) => OfTheRun(hdf)
        BY DEF IInv, SimulationHolds
      <3>2. QED
        BY <1>3, <1>8, <1>15, <3>1
    <2>3. \A n \in DOMAIN read' :
            /\ read'[n].at <= at'
            /\ AfterSimulation(read'[n].at) => OfTheRun(read'[n].file)
      BY <1>16, <2>1, <2>2
    <2>4. QED
      BY <1>2, <1>8, <2>3 DEF ReadIsOfTheRun, AfterSimulation, OfTheRun
  <1>19. PostedUpToHere'
    <2>1. posted \in [DOMAIN manifest.extracts -> 0 .. MaxAttempts]
      BY <1>1 DEF TypeOK
    <2>2. posted' = posted \/ posted' = [posted EXCEPT ![at] = attempt]
      BY DEF Extract, Posts
    <2>3. delivered' # delivered => posted'[at] = attempt
      BY <1>3, <2>1 DEF Extract, Posts
    <2> DEFINE Sends(n) == manifest.extracts[n].kind = "breach" \/ ~manifest.extracts[n].accumulate
    <2>4. status' = "ok" /\ Sends(at) => delivered' # delivered
      BY <1>1, <1>5, ExtractDoes
    <2>5. ASSUME NEW n \in DOMAIN posted, n < at', Sends(n)
          PROVE  posted'[n] = attempt
      <3>1. n \in Nat
        BY <1>1, <2>1, ExtractsHavePlaces, SimulatesOnce
      <3>2. CASE n = at
        BY <1>3, <1>6, <1>7, <2>3, <2>4, <2>5, <3>2
      <3>3. CASE n # at
        <4>1. n < at
          BY <1>3, <1>8, <2>5, <3>1, <3>3
        <4>2. posted[n] = attempt
          BY <2>5, <4>1 DEF IInv, PostedUpToHere
        <4>3. QED
          BY <2>1, <2>2, <3>3, <4>2
      <3>4. QED
        BY <3>2, <3>3
    <2>6. DOMAIN posted' = DOMAIN posted
      BY <2>1, <2>2
    <2>7. QED
      BY <1>2, <1>8, <2>5, <2>6 DEF PostedUpToHere
  <1>20. QED
    BY <1>4, <1>5, <1>12, <1>13, <1>17, <1>18, <1>19 DEF IInv

\* The job ends: at the end of its manifest, or killed.
LEMMA EndStep == IInv /\ (Finish \/ Killed) => IInv'
  <1> SUFFICES ASSUME IInv, Finish \/ Killed PROVE IInv'
    OBVIOUS
  <1>1. /\ UNCHANGED <<manifest, at, linked, simulation, extraction>>
        /\ job = "running" /\ job' \in {"succeeded", "failed"}
        /\ job' = "succeeded" => at > Len(manifest.order)
    BY DEF Finish, Killed
  <1>2. Sim!IInv' /\ Acc!IInv'
    BY <1>1, SimStep, AccStep DEF IInv
  <1>3. /\ UNCHANGED <<cfg, attempt, pc, exit, hdf, out, results, log>>
        /\ UNCHANGED <<ran, read, posted>>
    BY <1>1 DEF simulation, extraction
  <1>4. TypeOK'
    BY <1>1, <1>2, <1>3 DEF IInv, TypeOK, Sim!IInv, Acc!IInv
  <1>5. SucceedsAtEnd'
    <2>1. /\ at \in 1 .. Len(manifest.order) + 1 /\ Len(manifest.order) \in Nat
      BY SimulatesOnce DEF IInv, TypeOK
    <2>2. at > Len(manifest.order) => at = Len(manifest.order) + 1
      BY <2>1
    <2>3. QED
      BY <1>1, <2>2 DEF SucceedsAtEnd
  <1>6. OnlySimulates' /\ SimulationHolds'
    BY <1>1, <1>3 DEF IInv, OnlySimulates, SimulationHolds, AfterSimulation, OfTheRun
  <1>7. StoredAsDeclared'
    BY <1>1, <1>3 DEF IInv, StoredAsDeclared
  <1>8. ReadIsOfTheRun' /\ PostedUpToHere'
    BY <1>1, <1>3 DEF IInv, ReadIsOfTheRun, PostedUpToHere, AfterSimulation, OfTheRun
  <1>9. QED
    BY <1>2, <1>4, <1>5, <1>6, <1>7, <1>8 DEF IInv

\* A downstream job only reads.
LEMMA LinkStep == IInv /\ (Link \/ UNCHANGED vars) => IInv'
  <1> SUFFICES ASSUME IInv, Link \/ UNCHANGED vars PROVE IInv'
    OBVIOUS
  <1>1. /\ UNCHANGED <<manifest, at, job, simulation, extraction>>
        /\ linked' = linked \/ (linked' = results /\ job = "succeeded")
    BY DEF Link, vars
  <1>2. Sim!IInv' /\ Acc!IInv'
    BY <1>1, SimStep, AccStep DEF IInv
  <1>3. /\ UNCHANGED <<cfg, attempt, pc, exit, hdf, out, results, log>>
        /\ UNCHANGED <<ran, read, posted>>
    BY <1>1 DEF simulation, extraction
  <1>4. TypeOK'
    <2>1. linked' \in Sim!StoredResults
      BY <1>1 DEF IInv, TypeOK, Sim!TypeOK
    <2>2. QED
      BY <1>1, <1>2, <1>3, <2>1 DEF IInv, TypeOK, Sim!IInv, Acc!IInv
  <1>5. OnlySimulates' /\ SimulationHolds' /\ SucceedsAtEnd' /\ StoredAsDeclared'
    BY <1>1, <1>3 DEF IInv, OnlySimulates, SimulationHolds, SucceedsAtEnd,
       StoredAsDeclared, AfterSimulation, OfTheRun
  <1>6. ReadIsOfTheRun' /\ PostedUpToHere'
    BY <1>1, <1>3 DEF IInv, ReadIsOfTheRun, PostedUpToHere, AfterSimulation, OfTheRun
  <1>7. QED
    BY <1>2, <1>4, <1>5, <1>6 DEF IInv

\* A fresh container knows nothing of the last; the store keeps what it left.
LEMMA ResubmitStep == IInv /\ Resubmit => IInv'
  <1> SUFFICES ASSUME IInv, Resubmit PROVE IInv'
    OBVIOUS
  <1> USE DEF Resubmit
  <1>1. manifest \in Manifests /\ manifest' = manifest
    BY DEF IInv, TypeOK
  <1>2. attempt \in Nat \ {0} /\ attempt' \in 1 .. MaxAttempts /\ attempt' = attempt + 1
    BY BoundsAssumption DEF BoundsAssumption, IInv, Sim!IInv, Sim!TypeOK
  <1>3. /\ results.put \in Nat /\ results.put <= attempt
        /\ log.put \in Nat /\ log.put <= attempt
    BY BoundsAssumption
       DEF BoundsAssumption, IInv, Sim!IInv, Sim!TypeOK, Sim!NothingFromLater, Sim!StoredResults, Sim!StoredLogs
  <1>4. /\ results'.put <= attempt' /\ results'.put # attempt'
        /\ log'.put <= attempt' /\ log'.put # attempt'
    BY <1>2, <1>3
  <1>5. Sim!TypeOK'
    BY <1>2, BoundsAssumption
       DEF BoundsAssumption, IInv, Sim!IInv, Sim!TypeOK, Sim!PCs, Sim!Exits, Sim!HdfFiles, NoPlanFile
  <1>6. Sim!IInv'
    BY <1>4, <1>5 DEF Sim!IInv, Sim!PcMatchesExit, Sim!NothingFromLater,
       Sim!CreatedFileIsBlank, Sim!StoredIsLocal, Sim!LogIsLast, Sim!OutIsCollected,
       Sim!VerdictIsTrue, Sim!VerdictIsFresh, Sim!ResultsAreSavedFirst, NoPlanFile
  <1>7. Acc!IInv'
    <2>1. Acc!Init'
      BY DEF Acc!Init, Acc!EmptyAccumulator
    <2>2. Acc!Init' => Acc!IInv'
      BY AccStart, PTL
    <2>3. QED
      BY <2>1, <2>2
  <1>8. TypeOK'
    <2>1. 1 \in 1 .. Len(manifest.order) + 1
      BY <1>1, SimulatesOnce
    <2>2. QED
      BY <1>1, <1>6, <1>7, <2>1 DEF IInv, TypeOK, Sim!IInv, Acc!IInv
  <1>9. ~AfterSimulation(at)'
    <2>1. ~AfterSimulation(1)
      BY <1>1, SimulatesOnce
    <2>2. QED
      BY <1>1, <2>1 DEF AfterSimulation
  <1>10. OnlySimulates' /\ SimulationHolds' /\ SucceedsAtEnd'
    BY <1>9 DEF OnlySimulates, SimulationHolds, SucceedsAtEnd
  <1>11. StoredAsDeclared' /\ ReadIsOfTheRun'
    BY DEF IInv, StoredAsDeclared, ReadIsOfTheRun
  <1>12. PostedUpToHere'
    <2>1. \A n \in DOMAIN posted' : ~(n < 1)
      BY <1>1, ExtractsHavePlaces, SimulatesOnce DEF IInv, TypeOK
    <2>2. QED
      BY <2>1 DEF PostedUpToHere
  <1>13. QED
    BY <1>6, <1>7, <1>8, <1>10, <1>11, <1>12 DEF IInv

LEMMA StepIInv == IInv /\ [Next]_vars => IInv'
  BY StageStep, SimulateStep, ExtractStep, EndStep, LinkStep, ResubmitStep
     DEF Next, RunActions

-----------------------------------------------------------------------------
(* Theorems. *)

\* The inductive invariant holds in every state a job can reach.
THEOREM Invariance == Spec => []IInv
  BY InitIInv, StepIInv, PTL DEF Spec

\* The variables keep their types, for every manifest and number of submissions.
THEOREM TypeCorrect == Spec => []TypeOK
  <1>1. IInv => TypeOK
    BY DEF IInv
  <1>2. QED
    BY <1>1, Invariance, PTL

\* What was collected after the simulation is from a stable solution, and from the
\* one of this very run when create-ras-tmp made the plan file.
THEOREM OfThisRun == Spec => []DocumentsAreOfTheRun
  <1>1. IInv => DocumentsAreOfTheRun
    <2> SUFFICES ASSUME IInv,
                        NEW i \in DOMAIN delivered, NEW r \in Acc!RecordsIn(delivered[i].doc),
                        AfterSimulation(read[r.by].at)
                 PROVE  OfTheRun(read[r.by].file)
      BY DEF DocumentsAreOfTheRun
    <2>1. r.by <= ran
      BY DEF IInv, Acc!IInv, Acc!SentIsOfThePast
    <2>2. r \in Acc!Records
      <3> DEFINE D == [kind: Acc!Kinds, doc: Acc!Accumulators]
      <3>1. delivered \in Seq(D)
        BY DEF IInv, TypeOK, Acc!TypeOK
      <3>2. \A d \in D : d.doc \in Acc!Accumulators
        OBVIOUS
      <3> HIDE DEF D
      <3>3. delivered[i] \in D
        BY <3>1
      <3>4. PICK b \in Blocks : r \in Acc!ToSet(delivered[i].doc[b])
        BY DEF Acc!RecordsIn
      <3>5. delivered[i].doc[b] \in Seq(Acc!Records)
        BY <3>2, <3>3 DEF Acc!Accumulators
      <3>6. PICK k \in DOMAIN delivered[i].doc[b] : r = delivered[i].doc[b][k]
        BY <3>4 DEF Acc!ToSet
      <3>7. QED
        BY <3>5, <3>6
    <2>3. r.by \in 1 .. MaxActions
      BY <2>2 DEF Acc!Records
    <2>4. Len(read) = ran /\ DOMAIN read = 1 .. Len(read)
      BY DEF IInv, TypeOK
    <2>5. ran \in Nat
      BY BoundsAssumption DEF BoundsAssumption, IInv, Acc!IInv, Acc!TypeOK
    <2>6. r.by \in DOMAIN read
      BY <2>1, <2>3, <2>4, <2>5, BoundsAssumption DEF BoundsAssumption
    <2>7. QED
      BY <2>6 DEF IInv, ReadIsOfTheRun
  <1>2. QED
    BY <1>1, Invariance, PTL

\* A job that succeeded stored all its documents in the submission that did.
THEOREM NewDocuments == Spec => []DocumentsAreNew
  <1>1. IInv => DocumentsAreNew
    <2> SUFFICES ASSUME IInv, job = "succeeded" PROVE DocumentsAreNew
      BY DEF DocumentsAreNew
    <2>1. manifest \in Manifests /\ DOMAIN posted = DOMAIN manifest.extracts
      BY DEF IInv, TypeOK
    <2>2. \A n \in DOMAIN posted : n < at
      BY <2>1, ExtractsHavePlaces, SimulatesOnce DEF IInv, SucceedsAtEnd
    <2>3. QED
      BY <2>2 DEF IInv, PostedUpToHere, DocumentsAreNew
  <1>2. QED
    BY <1>1, Invariance, PTL

\* A downstream job links to the stable solution of the submission that succeeded, or to
\* what an earlier one left, which the stored log of that submission, if any, says.
THEOREM Linked == Spec => []LinkedIsOfTheRun
  <1>1. IInv => LinkedIsOfTheRun
    <2> SUFFICES ASSUME IInv, linked.put # 0 PROVE LinkedIsOfTheRun
      BY DEF LinkedIsOfTheRun
    <2>1. job = "succeeded" /\ linked = results /\ cfg.resultsDs
      BY DEF IInv, StoredAsDeclared
    <2>2. AfterSimulation(at)
      BY <2>1, SimulatesOnce DEF IInv, SucceedsAtEnd, TypeOK
    <2>3. exit = "ok" /\ hdf.solution = "success"
      BY <2>2 DEF IInv, SimulationHolds, OfTheRun
    <2>4. results.put <= attempt /\ results.put \in Nat /\ attempt \in Nat
      BY BoundsAssumption DEF BoundsAssumption, IInv, Sim!IInv, Sim!TypeOK,
         Sim!StoredResults, Sim!NothingFromLater
    <2>5. results.put = attempt \/ (log.put = attempt => IsLogged)
      BY DEF IInv, Sim!IInv, Sim!LogIsLast, Sim!SavedOrSaid, IsLogged
    <2>6. results.put = attempt => results.solution = "success"
      BY <2>3 DEF IInv, Sim!IInv, Sim!VerdictIsTrue
    <2>7. QED
      BY <2>1, <2>4, <2>5, <2>6 DEF LinkedIsOfTheRun
  <1>2. QED
    BY <1>1, Invariance, PTL

-----------------------------------------------------------------------------
(* Refinement. *)

\* A step of the simulation is a step of the job while it runs.
LEMMA SimulateJob == IInv /\ Simulate => [Job!Next]_(Job!vars)
  <1> SUFFICES ASSUME IInv, Simulate PROVE [Job!Next]_(Job!vars)
    OBVIOUS
  <1>1. /\ job = "running" /\ exit = "none" /\ Sim!Run
        /\ hdf.solution \in Sim!Solutions \cup {Sim!NoFile}
    <2>1. Current("simulate") /\ Sim!Run /\ TypeOK /\ manifest \in Manifests
      BY DEF Simulate, IInv, TypeOK
    <2>2. ~AfterSimulation(at)
      BY <2>1, CurrentIs, SimulatesOnce
    <2>3. exit = "none"
      BY <2>1, <2>2 DEF IInv, SimulationHolds, Current
    <2>4. QED
      BY <2>1, <2>3 DEF Current, IInv, Sim!IInv, Sim!TypeOK, Sim!HdfFiles
  <1>2. hdf'.solution \in Sim!Solutions \cup {Sim!NoFile}
    BY SimulateStep DEF IInv, Sim!IInv, Sim!TypeOK, Sim!HdfFiles
  <1>3. IF exit' \in {"none", "ok"} THEN job' = "running" ELSE job' = "failed"
    BY <1>1 DEF Simulate, GoesOnAfter
  <1> USE <1>1, <1>2, <1>3 DEF Job!Next, Job!vars, Phase, Sim!manifest, Sim!remote, Sim!End, Sim!Goto
  <1>4. CASE Sim!BadAttributes \/ Sim!GeomPreprocFails \/ Sim!RunModelFails
    <2>1. Job!Fail
      BY <1>4 DEF Sim!BadAttributes, Sim!GeomPreprocFails, Sim!RunModelFails, Job!Fail
    <2>2. QED
      BY <2>1
  <1>5. CASE Sim!ReadAttributes \/ Sim!GeomPreproc
    BY <1>5 DEF Sim!ReadAttributes, Sim!GeomPreproc
  <1>6. CASE Sim!RunModel
    <2>1. Job!Compute
      BY <1>6 DEF Sim!RunModel, Job!Compute
    <2>2. QED
      BY <2>1
  <1>7. CASE Sim!NoResultsSource \/ Sim!ResultsNotOpened \/ Sim!NoLogSource \/ Sim!PutLog \/ Sim!PutLogFails
    BY <1>7 DEF Sim!NoResultsSource, Sim!ResultsNotOpened, Sim!NoLogSource, Sim!PutLog, Sim!PutLogFails
  <1>8. CASE Sim!PutResults \/ Sim!PutResultsFails
    <2>1. Job!Publish \/ UNCHANGED Job!vars
      BY <1>8 DEF Sim!PutResults, Sim!PutResultsFails, Sim!StoreResults, Job!Publish
    <2>2. QED
      BY <2>1
  <1>9. CASE Sim!CheckStable
    <2>1. Job!Fail \/ UNCHANGED Job!vars
      BY <1>9 DEF Sim!CheckStable, Sim!IsModelStable, Job!Fail
    <2>2. QED
      BY <2>1
  <1>10. QED
    BY <1>4, <1>5, <1>6, <1>7, <1>8, <1>9 DEF Sim!Run

\* Every step of a job is a step of the compute job or leaves it unchanged.
LEMMA StepJob == IInv /\ [Next]_vars => [Job!Next]_(Job!vars)
  <1> SUFFICES ASSUME IInv, [Next]_vars PROVE [Job!Next]_(Job!vars)
    OBVIOUS
  <1> USE DEF Job!Next, Job!vars, Phase
  <1>0. hdf.solution \in Sim!Solutions \cup {Sim!NoFile}
    BY DEF IInv, Sim!IInv, Sim!TypeOK, Sim!HdfFiles
  <1>1. CASE Stage
    <2>1. /\ UNCHANGED <<pc, exit, results>> /\ job = "running"
          /\ job' \in {"running", "failed"}
      BY <1>1 DEF Stage, GoesOnAfter, Current
    <2>2. hdf'.solution \in Sim!Solutions \cup {Sim!NoFile}
      BY <1>1, StageStep DEF IInv, Sim!IInv, Sim!TypeOK, Sim!HdfFiles
    <2>3. pc = "start" /\ exit = "none"
      <3>1. Current("stage") /\ TypeOK /\ manifest \in Manifests
        BY <1>1 DEF Stage, IInv, TypeOK
      <3>2. ~AfterSimulation(at)
        BY <3>1, CurrentIs, SimulatesOnce
      <3>3. QED
        BY <3>1, <3>2, NotSimulating
    <2>4. Job!Fail \/ UNCHANGED Job!vars
      BY <2>1, <2>2, <2>3 DEF Job!Fail
    <2>5. QED
      BY <2>4
  <1>2. CASE Simulate
    BY <1>2, SimulateJob
  <1>3. CASE Extract
    <2>1. /\ UNCHANGED <<pc, exit, results, hdf>> /\ job = "running"
          /\ job' \in {"running", "failed"}
      BY <1>3 DEF Extract, GoesOnAfter, Current, simulation
    <2>2. Job!Fail \/ UNCHANGED Job!vars
      BY <1>0, <2>1 DEF Job!Fail
    <2>3. QED
      BY <2>2
  <1>4. CASE Finish
    <2>1. UNCHANGED <<pc, exit, results, hdf>> /\ job = "running" /\ job' = "succeeded"
      BY <1>4 DEF Finish, simulation
    <2>2. AfterSimulation(at)
      BY <1>4, SimulatesOnce DEF Finish, IInv, TypeOK
    <2>3. exit = "ok" /\ hdf.solution = "success"
      BY <2>2 DEF IInv, SimulationHolds, OfTheRun
    <2>4. Phase = "publishing" /\ Phase' = "succeeded"
      BY <2>1, <2>3
    <2>5. Job!Succeed
      BY <2>1, <2>3, <2>4 DEF Job!Succeed
    <2>6. QED
      BY <2>5
  <1>5. CASE Killed
    <2>1. UNCHANGED <<pc, exit, results, hdf>> /\ job = "running" /\ job' = "failed"
      BY <1>5 DEF Killed, simulation
    <2>2. Phase \in {"computing", "publishing"} /\ Phase' = "failed"
      BY <2>1
    <2>3. Job!Fail
      BY <1>0, <2>1, <2>2 DEF Job!Fail
    <2>4. QED
      BY <2>3
  <1>6. CASE Resubmit
    <2>1. Phase = "failed" /\ Phase' = "computing" /\ UNCHANGED results
      BY <1>6 DEF Resubmit
    <2>2. Job!Retry
      BY <2>1 DEF Job!Retry
    <2>3. QED
      BY <2>2
  <1>7. CASE Link \/ UNCHANGED vars
    BY <1>7 DEF Link, vars, simulation
  <1>8. QED
    BY <1>1, <1>2, <1>3, <1>4, <1>5, <1>6, <1>7 DEF Next, RunActions

\* A whole job, with its stagings and extractions, is a compute job: it publishes
\* only the solution it is judged by and succeeds only when that is stable.
THEOREM Refinement == Spec => ImplementsComputeJob
  <1>1. Init => Job!Init
    BY DEF Init, Phase, Job!Init, NothingStored
  <1>2. QED
    BY <1>1, StepJob, Invariance, PTL DEF Spec, ImplementsComputeJob, Job!Spec

=============================================================================
