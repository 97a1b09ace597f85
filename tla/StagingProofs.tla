---------------------------- MODULE StagingProofs ----------------------------
(***************************************************************************)
(* Proofs about Staging, for every set of manifests, every list of outputs  *)
(* and any number of runs: what the actions leave when they return, and     *)
(* what the remote store holds.                                             *)
(***************************************************************************)
EXTENDS Staging, SharedLemmas

\* The number of parts, as a number.
LEMMA AllPartsIs4 == AllParts = 4
  BY DEF AllParts, RasTmpDatasets

\* What the assumptions on the constants say of types.
LEMMA ConstantTypes ==
  /\ Src \in Files /\ Dest \in Files
  /\ MaxRuns \in Nat \ {0}
  /\ Len(Outputs) \in Nat /\ DOMAIN Outputs = 1 .. Len(Outputs)
  /\ \A i \in 1 .. Len(Outputs) : Outputs[i] \in ToSet(Outputs)
  /\ ToSet(Outputs) \subseteq Files
  /\ NoFile \in FileStates
  BY NamesAssumption, AllPartsIs4 DEF NamesAssumption, ToSet, NoFile, FileStates, Kinds

\* A manifest has the parts its assumption gives it.
LEMMA ManifestType ==
  ASSUME manifest \in Manifests
  PROVE  /\ manifest.actions \in Seq(Actions) /\ Len(manifest.actions) \in Nat \ {0}
         /\ Len(manifest.inputs) \in Nat
         /\ DOMAIN manifest.inputs = 1 .. Len(manifest.inputs)
         /\ \A i \in 1 .. Len(manifest.inputs) :
              /\ manifest.inputs[i] \subseteq [base: Files, parts: 0 .. AllParts]
              /\ manifest.inputs[i] \subseteq Paths
         /\ Paths \subseteq [base: Files, parts: 0 .. AllParts]
         /\ manifest.remote \in {"no", "named", "unnamed"}
  BY ManifestsAssumption DEF ManifestsAssumption, Paths, ToSet

\* MaxSteps is a number that no loop passes.
LEMMA StepBound ==
  ASSUME manifest \in Manifests
  PROVE  /\ MaxSteps \in Nat
         /\ Len(manifest.inputs) <= MaxSteps
         /\ AllParts + 1 <= MaxSteps
         /\ Len(Outputs) <= MaxSteps
  <1> DEFINE a == Len(manifest.inputs)
             b == AllParts + 1
             c == Len(Outputs)
  <1>1. a \in Nat /\ b \in Nat /\ c \in Nat
    BY ManifestType, ConstantTypes, AllPartsIs4
  <1> HIDE DEF a, b, c
  <1>2. \E x \in {a, b, c} : \A y \in {a, b, c} : x >= y
    BY <1>1
  <1>3. /\ Max({a, b, c}) \in {a, b, c}
        /\ \A y \in {a, b, c} : Max({a, b, c}) >= y
    BY <1>2 DEF Max
  <1>4. QED
    BY <1>1, <1>3 DEF a, b, c, MaxSteps

\* The first state satisfies the inductive invariant.
LEMMA InitIInv == Init => IInv
  <1> SUFFICES ASSUME Init PROVE IInv
    OBVIOUS
  <1> USE ConstantTypes DEF Init
  <1>1. TypeOK
    BY ManifestType, StepBound, AllPartsIs4 DEF TypeOK
  <1>2. AtIsNext /\ LeftIsOfStep /\ PartsAreCounted /\ PostedUpToStep
    BY ManifestType DEF AtIsNext, LeftIsOfStep, PartsAreCounted, PostedUpToStep, Posted
  <1>3. LastIsStaged
    BY DEF LastIsStaged, CopiedFrom
  <1>n. NoPartsOfNoFile
    BY DEF NoPartsOfNoFile, NoFile
  <1>4. StoredByNow /\ StoreGetsOlder
    BY DEF StoredByNow, StoreGetsOlder, Posted, ToSet
  <1>5. InputsAreStaged /\ CreatedFromNothing /\ OutputsArePosted
    BY DEF InputsAreStaged, CreatedFromNothing, OutputsArePosted, JustReturned
  <1>6. QED
    BY <1>1, <1>2, <1>3, <1>n, <1>4, <1>5 DEF IInv

\* No step changes the manifest.
LEMMA ManifestStays == [Next]_vars => manifest' = manifest
  BY DEF Next, vars, position, GoesOn, Returns, ReturnsError,
     NextDataSource, CopyPath, CopyPathFails, CopyInputsReturns,
     OpenFiles, CopyPart, CreateFails, CreateReturns, SaveTmp, SaveTmpFails, Simulate,
     SkipReserved, PostOutput, PostFails, PostNotPossible, PostOutputsReturns, Rerun

\* Every step keeps the variables in their types.
LEMMA TypeStep == TypeOK /\ AtIsNext /\ LeftIsOfStep /\ [Next]_vars => TypeOK'
  <1> SUFFICES ASSUME TypeOK, AtIsNext, LeftIsOfStep, [Next]_vars PROVE TypeOK'
    OBVIOUS
  <1> DEFINE Control == /\ at \in 1 .. Len(manifest.actions) + 1 /\ run \in 1 .. MaxRuns
                        /\ step \in 0 .. MaxSteps /\ left \subseteq Paths
                        /\ before \in 0 .. AllParts /\ status \in {"running", "ok", "error"}
             Stored == [ToSet(Outputs) -> [file: FileStates, put: 0 .. MaxRuns]]
             Data == dir \in [Files -> FileStates] /\ store \in Stored /\ saved \in FileStates
  <1>m. /\ manifest' = manifest /\ manifest \in Manifests
        /\ MaxSteps' = MaxSteps /\ Paths' = Paths
    BY ManifestStays DEF TypeOK, MaxSteps, Paths
  <1>c. Control /\ Data
    BY DEF TypeOK
  <1>t. ASSUME Control', Data' PROVE TypeOK'
    BY <1>m, <1>t DEF TypeOK
  <1>n. /\ Len(manifest.actions) \in Nat \ {0} /\ Len(manifest.inputs) \in Nat /\ Len(Outputs) \in Nat
        /\ MaxSteps \in Nat /\ Len(manifest.inputs) <= MaxSteps /\ Len(Outputs) <= MaxSteps
        /\ AllParts = 4 /\ 5 <= MaxSteps
        /\ Src \in Files /\ Dest \in Files /\ MaxRuns \in Nat \ {0}
    BY <1>m, ManifestType, StepBound, ConstantTypes, AllPartsIs4
  <1>r. ASSUME Returns, status = "running" PROVE Control'
    BY <1>c, <1>m, <1>n, <1>r DEF Returns, AtIsNext
  <1>e. ASSUME ReturnsError PROVE Control'
    BY <1>c, <1>m, <1>e DEF ReturnsError, position
  <1>g. ASSUME GoesOn, step' \in 0 .. MaxSteps, left' \subseteq Paths, before' \in 0 .. AllParts
        PROVE  Control'
    BY <1>c, <1>m, <1>g DEF GoesOn, position
  <1>d. ASSUME dir' \in [Files -> FileStates], UNCHANGED remote PROVE Data'
    BY <1>c, <1>d DEF remote
  <1>f. \A p \in Paths : p.base \in Files /\ p.parts \in 0 .. AllParts
    BY <1>m, ManifestType
  <1>a. \A n \in 0 .. AllParts : /\ Made("created", n) \in FileStates
                                 /\ Made("script", n) \in FileStates
    BY <1>c DEF Made, FileStates, Kinds
  <1> HIDE DEF Control, Data
  <1>1. CASE NextDataSource
    <2>1. step' \in 0 .. MaxSteps /\ step' \in 1 .. Len(manifest.inputs)
      BY <1>1, <1>c, <1>n DEF NextDataSource, Control
    <2>2. left' \subseteq Paths
      BY <1>1, <1>m, <2>1, ManifestType DEF NextDataSource
    <2>3. Control'
      BY <1>1, <1>c, <1>g, <2>1, <2>2 DEF NextDataSource, Control
    <2>4. Data'
      BY <1>1, <1>c, <1>d DEF NextDataSource, Data
    <2>5. QED
      BY <1>t, <2>3, <2>4
  <1>2. CASE CopyPath \/ CopyPathFails
    <2>1. ASSUME NEW p \in left, NEW c \in BOOLEAN PROVE Copied(p, c) \in [Files -> FileStates]
      <3>1. p.base \in Files /\ p.parts \in 0 .. AllParts /\ dir \in [Files -> FileStates]
        BY <1>c, <1>f DEF Control, Data
      <3>2. [kind |-> "input", ds |-> step, run |-> run, parts |-> p.parts, cut |-> c] \in FileStates
        BY <1>c, <1>n, <3>1 DEF FileStates, Kinds, Control
      <3>3. QED
        BY <3>1, <3>2 DEF Copied
    <2>2. dir' \in [Files -> FileStates] /\ UNCHANGED remote
      BY <1>2, <1>c, <2>1 DEF CopyPath, CopyPathFails, Data
    <2>3. CASE CopyPath
      <3>1. left' \subseteq Paths /\ GoesOn /\ UNCHANGED <<step, before>>
        BY <1>c, <2>3 DEF CopyPath, Control
      <3>2. Control'
        BY <1>c, <1>g, <3>1 DEF Control
      <3>3. QED
        BY <1>d, <1>t, <2>2, <3>2
    <2>4. CASE CopyPathFails
      BY <1>d, <1>e, <1>t, <2>2, <2>4 DEF CopyPathFails
    <2>5. QED
      BY <1>2, <2>3, <2>4
  <1>3. CASE CopyInputsReturns \/ CreateReturns \/ PostOutputsReturns
    <2>1. Returns /\ status = "running" /\ UNCHANGED <<dir, remote>>
      BY <1>3 DEF CopyInputsReturns, CreateReturns, PostOutputsReturns, Running
    <2>2. QED
      BY <1>c, <1>d, <1>r, <1>t, <2>1 DEF Data
  <1>4. CASE OpenFiles
    <2>1. dir' \in [Files -> FileStates]
      BY <1>4, <1>a, <1>c, <1>n DEF OpenFiles, Data
    <2>2. before' \in 0 .. AllParts
      <3>1. dir[Dest] \in FileStates
        BY <1>c, <1>n DEF Data
      <3>2. QED
        BY <1>4, <3>1 DEF OpenFiles, FileStates
    <2>3. step' \in 0 .. MaxSteps /\ left' \subseteq Paths
      BY <1>4, <1>c, <1>n DEF OpenFiles, Control
    <2>4. QED
      BY <1>4, <1>d, <1>g, <1>t, <2>1, <2>2, <2>3 DEF OpenFiles
  <1>5. CASE CopyPart
    <2>1. dir[Dest] \in FileStates /\ step \in 0 .. AllParts
      BY <1>5, <1>c, <1>n DEF CopyPart, Data
    <2>2. [dir[Dest] EXCEPT !.parts = step] \in FileStates
      BY <2>1 DEF FileStates
    <2>3. dir' \in [Files -> FileStates]
      BY <1>5, <1>c, <2>2 DEF CopyPart, Data
    <2>4. step' \in 0 .. MaxSteps /\ left' \subseteq Paths /\ before' \in 0 .. AllParts
      BY <1>5, <1>c, <1>n, <2>1 DEF CopyPart, Control
    <2>5. QED
      BY <1>5, <1>d, <1>g, <1>t, <2>3, <2>4 DEF CopyPart
  <1>6. CASE CreateFails \/ PostNotPossible
    <2>1. ReturnsError /\ UNCHANGED <<dir, remote>>
      BY <1>6 DEF CreateFails, PostNotPossible
    <2>2. QED
      BY <1>c, <1>d, <1>e, <1>t, <2>1 DEF Data
  <1>7. CASE SaveTmp \/ SaveTmpFails
    <2>1. Data'
      BY <1>7, <1>c, <1>n DEF SaveTmp, SaveTmpFails, Data
    <2>2. Control'
      BY <1>7, <1>e, <1>r DEF SaveTmp, SaveTmpFails, Running
    <2>3. QED
      BY <1>t, <2>1, <2>2
  <1>8. CASE Simulate
    <2>1. Made("script", AllParts) \in FileStates
      BY <1>a, <1>n
    <2>2. dir' \in [Files -> FileStates]
      BY <1>8, <1>c, <2>1 DEF Simulate, Script, Data
    <2>3. Control'
      BY <1>8, <1>e, <1>r DEF Simulate, Running
    <2>4. QED
      BY <1>8, <1>d, <1>t, <2>2, <2>3 DEF Simulate
  <1>9. ASSUME NEW o \in ToSet(Outputs), SkipReserved(o) \/ PostOutput(o) \/ PostFails(o)
        PROVE  TypeOK'
    <2>1. dir[o] \in FileStates
      BY <1>c, ConstantTypes DEF Data
    <2>2. store' = store \/ Put(o)
      BY <1>9 DEF SkipReserved, PostOutput, PostFails, remote
    <2>3. store' \in Stored
      <3> DEFINE S == [file: FileStates, put: 0 .. MaxRuns]
      <3>1. [file |-> dir[o], put |-> run] \in S /\ store \in [ToSet(Outputs) -> S]
        BY <1>c, <1>n, <2>1 DEF Data, Control
      <3> HIDE DEF S
      <3>2. store' \in [ToSet(Outputs) -> S]
        BY <2>2, <3>1 DEF Put
      <3>3. QED
        BY <3>2 DEF S
    <2>4. Data'
      BY <1>9, <1>c, <2>3 DEF SkipReserved, PostOutput, PostFails, remote, Data
    <2>5. CASE SkipReserved(o) \/ PostOutput(o)
      <3>1. GoesOn /\ UNCHANGED <<left, before>> /\ step' = step + 1 /\ step < Len(Outputs)
        BY <2>5 DEF SkipReserved, PostOutput, Posting
      <3>2. Control'
        BY <1>c, <1>g, <1>n, <3>1 DEF Control
      <3>3. QED
        BY <1>t, <2>4, <3>2
    <2>6. CASE PostFails(o)
      BY <1>e, <1>t, <2>4, <2>6 DEF PostFails
    <2>7. QED
      BY <1>9, <2>5, <2>6
  <1>10. CASE Rerun
    <2>1. dir' \in [Files -> FileStates]
      BY <1>10, <1>c, ConstantTypes DEF Rerun, Data
    <2>2. Control'
      BY <1>10, <1>c, <1>m, <1>n DEF Rerun, Control
    <2>3. QED
      BY <1>10, <1>d, <1>t, <2>1, <2>2 DEF Rerun
  <1>11. CASE UNCHANGED vars
    BY <1>11, <1>m DEF vars, TypeOK
  <1>12. QED
    BY <1>1, <1>2, <1>3, <1>4, <1>5, <1>6, <1>7, <1>8, <1>9, <1>10, <1>11 DEF Next

-----------------------------------------------------------------------------
(* The position in the manifest. *)

\* The steps of an action that goes on, of one that returns, with or without an
\* error, and the rest.
LEMMA StepKinds ==
  ASSUME [Next]_vars
  PROVE  \/ NextDataSource \/ CopyPath \/ OpenFiles \/ CopyPart
         \/ \E o \in ToSet(Outputs) : SkipReserved(o) \/ PostOutput(o)
         \/ CopyInputsReturns
         \/ Returns /\ (CreateReturns \/ SaveTmp \/ Simulate \/ PostOutputsReturns)
         \/ ReturnsError
         \/ Rerun
         \/ UNCHANGED vars
  BY DEF Next, CopyPathFails, CreateFails, CreateReturns, SaveTmp, SaveTmpFails, Simulate,
         PostFails, PostNotPossible, PostOutputsReturns

\* Only copy-inputs copies paths.
LEMMA NotCopying ==
  ASSUME CreateReturns \/ SaveTmp \/ Simulate \/ PostOutputsReturns \/ OpenFiles \/ CopyPart
           \/ \E o \in ToSet(Outputs) : SkipReserved(o) \/ PostOutput(o)
  PROVE  status = "running" /\ manifest.actions[at] # "copy-inputs"
  BY DEF CreateReturns, SaveTmp, Simulate, PostOutputsReturns, OpenFiles, CopyPart,
         SkipReserved, PostOutput, Posting, Running

\* Every step keeps the position in the manifest and the paths left in line.
LEMMA PositionStep == TypeOK /\ AtIsNext /\ LeftIsOfStep /\ [Next]_vars => AtIsNext' /\ LeftIsOfStep'
  <1> SUFFICES ASSUME TypeOK, AtIsNext, LeftIsOfStep, [Next]_vars PROVE AtIsNext' /\ LeftIsOfStep'
    OBVIOUS
  <1>m. /\ manifest' = manifest /\ manifest \in Manifests
        /\ at \in Nat /\ step \in Nat
    BY ManifestStays, StepBound, ManifestType DEF TypeOK
  <1> USE <1>m, ManifestType DEF AtIsNext, LeftIsOfStep, Running, GoesOn, position
  <1>1. CASE NextDataSource
    BY <1>1 DEF NextDataSource
  <1>2. CASE CopyPath
    BY <1>2 DEF CopyPath
  <1>3. CASE CopyInputsReturns
    BY <1>3 DEF CopyInputsReturns, Returns, TypeOK
  <1>4. CASE Returns /\ (CreateReturns \/ SaveTmp \/ Simulate \/ PostOutputsReturns)
    <2>1. left = {} /\ status = "running"
      BY <1>4, NotCopying
    <2>2. /\ at' = at + 1 /\ step' = 0 /\ left' = {}
          /\ status' = IF at = Len(manifest.actions) THEN "ok" ELSE "running"
      BY <1>4, <2>1 DEF Returns
    <2>3. AtIsNext'
      BY <2>1, <2>2
    <2>4. LeftIsOfStep'
      BY <2>2
    <2>5. QED
      BY <2>3, <2>4
  <1>5. CASE ReturnsError
    BY <1>5 DEF ReturnsError
  <1>6. CASE OpenFiles \/ CopyPart
    BY <1>6 DEF OpenFiles, CopyPart
  <1>7. ASSUME NEW o \in ToSet(Outputs), SkipReserved(o) \/ PostOutput(o)
        PROVE  AtIsNext' /\ LeftIsOfStep'
    BY <1>7 DEF SkipReserved, PostOutput, Posting
  <1>8. CASE Rerun
    BY <1>8 DEF Rerun
  <1>9. CASE UNCHANGED vars
    BY <1>9 DEF vars
  <1>10. QED
    BY <1>1, <1>2, <1>3, <1>4, <1>5, <1>6, <1>7, <1>8, <1>9, StepKinds

-----------------------------------------------------------------------------
(* copy-inputs. *)

\* When copy-inputs has got past the last data source, it has copied them all.
LEMMA AllAreCopied ==
  ASSUME manifest \in Manifests, step = Len(manifest.inputs), left = {}, NEW f \in Files
  PROVE  /\ CopiedFrom(f) = SourcesOf(f)
         /\ \A p \in Paths : p.base = f =>
              /\ Max(SourcesOf(f)) \in SourcesOf(f)
              /\ \A i \in SourcesOf(f) : i <= Max(SourcesOf(f))
  <1> USE ManifestType
  <1>1. CopiedFrom(f) = SourcesOf(f)
    BY DEF CopiedFrom, SourcesOf, IsCopied
  <1>2. ASSUME NEW p \in Paths, p.base = f
        PROVE  /\ Max(SourcesOf(f)) \in SourcesOf(f)
               /\ \A i \in SourcesOf(f) : i <= Max(SourcesOf(f))
    <2>1. SourcesOf(f) # {}
      BY <1>2 DEF SourcesOf, Paths, ToSet
    <2>2. SourcesOf(f) \in SUBSET Nat /\ \A i \in SourcesOf(f) : i <= Len(manifest.inputs)
      BY DEF SourcesOf
    <2>3. \E m \in SourcesOf(f) : \A i \in SourcesOf(f) : i <= m
      BY <2>1, <2>2, Greatest
    <2>4. \E m \in SourcesOf(f) : \A i \in SourcesOf(f) : m >= i
      BY <2>2, <2>3
    <2>5. /\ Max(SourcesOf(f)) \in SourcesOf(f)
          /\ \A i \in SourcesOf(f) : Max(SourcesOf(f)) >= i
      BY <2>4 DEF Max
    <2>6. QED
      BY <2>2, <2>5
  <1>3. QED
    BY <1>1, <1>2

\* What copy-inputs has copied is in the directory as the last data source has it,
\* and stays so until the next action begins.
LEMMA StagedStep ==
  IInv /\ [Next]_vars /\ TypeOK' => LastIsStaged' /\ InputsAreStaged'
  <1> SUFFICES ASSUME IInv, [Next]_vars, TypeOK' PROVE LastIsStaged' /\ InputsAreStaged'
    OBVIOUS
  <1>m. /\ manifest' = manifest /\ manifest \in Manifests
        /\ at \in Nat /\ at > 0 /\ step \in Nat /\ step' \in Nat
    BY ManifestStays, StepBound, ManifestType DEF TypeOK, IInv
  <1> USE <1>m, ManifestType
  <1>n. ASSUME ~Running("copy-inputs")' PROVE LastIsStaged'
    BY <1>n DEF LastIsStaged
  <1>z. ASSUME step' = 0 PROVE LastIsStaged'
    BY <1>z DEF LastIsStaged, CopiedFrom
  <1>j. ASSUME ~JustReturned("copy-inputs")' PROVE InputsAreStaged'
    BY <1>j DEF InputsAreStaged
  <1>1. CASE NextDataSource
    <2>1. ASSUME NEW i \in 1 .. step, NEW p PROVE IsCopied(i, p)' <=> IsCopied(i, p)
      BY <1>1 DEF NextDataSource, IsCopied
    <2>2. ASSUME NEW i, i = step', NEW p PROVE ~IsCopied(i, p)'
      BY <1>1, <2>2 DEF NextDataSource, IsCopied
    <2>3. \A f \in Files : CopiedFrom(f)' = CopiedFrom(f)
      BY <1>1, <2>1, <2>2 DEF NextDataSource, CopiedFrom
    <2>4. \A f \in Files : CopiedFrom(f) \subseteq 1 .. step
      BY DEF CopiedFrom
    <2>5. LastIsStaged /\ Running("copy-inputs") /\ run' = run /\ dir' = dir
      BY <1>1 DEF NextDataSource, IInv, GoesOn, position
    <2>6. LastIsStaged'
      BY <2>1, <2>3, <2>4, <2>5 DEF LastIsStaged
    <2>7. QED
      BY <1>1, <1>j, <2>6 DEF NextDataSource, JustReturned
  <1>2. CASE CopyPath
    <2>1. PICK p \in left : left' = left \ {p} /\ dir' = Copied(p, FALSE)
      BY <1>2 DEF CopyPath
    <2>2. /\ step' = step /\ run' = run /\ at' = at /\ status' = status
          /\ Running("copy-inputs") /\ LastIsStaged
      BY <1>2 DEF CopyPath, GoesOn, position, IInv
    <2>3. /\ step \in 1 .. Len(manifest.inputs)
          /\ p \in manifest.inputs[step] /\ p.base \in Files
      BY <2>1, <2>2 DEF IInv, LeftIsOfStep
    <2>4. InputsAreStaged'
      BY <1>j, <2>2, <2>3 DEF JustReturned
    <2>5. ASSUME NEW i, NEW q PROVE IsCopied(i, q)' <=> IsCopied(i, q) \/ (i = step /\ q = p)
      BY <2>1, <2>2, <2>3 DEF IsCopied
    <2>6. ASSUME NEW f \in Files, NEW i \in CopiedFrom(f)', \A j \in CopiedFrom(f)' : j <= i
          PROVE  \E q \in manifest.inputs[i] :
                   /\ q.base = f
                   /\ IsCopied(i, q)'
                   /\ dir'[f] = [kind |-> "input", ds |-> i, run |-> run,
                                 parts |-> q.parts, cut |-> FALSE]
      <3>1. CASE f = p.base
        <4>1. step \in CopiedFrom(f)' /\ \A j \in CopiedFrom(f)' : j <= step
          BY <2>2, <2>3, <2>5, <3>1 DEF CopiedFrom
        <4>2. i = step
          BY <2>6, <4>1 DEF CopiedFrom
        <4>3. dir'[f] = [kind |-> "input", ds |-> step, run |-> run,
                         parts |-> p.parts, cut |-> FALSE]
          BY <2>1, <3>1 DEF Copied, IInv, TypeOK
        <4>4. QED
          BY <2>3, <2>5, <3>1, <4>2, <4>3
      <3>2. CASE f # p.base
        <4>1. CopiedFrom(f)' = CopiedFrom(f)
          BY <2>2, <2>5, <3>2 DEF CopiedFrom
        <4>2. dir'[f] = dir[f]
          BY <2>1, <3>2 DEF Copied, IInv, TypeOK
        <4>3. QED
          BY <2>2, <2>5, <2>6, <4>1, <4>2 DEF LastIsStaged
      <3>3. QED
        BY <3>1, <3>2
    <2>7. LastIsStaged'
      BY <2>2, <2>6 DEF LastIsStaged
    <2>8. QED
      BY <2>4, <2>7
  <1>3. CASE CopyInputsReturns
    <2>1. step = Len(manifest.inputs) /\ left = {} /\ LastIsStaged /\ Running("copy-inputs")
      BY <1>3 DEF CopyInputsReturns, IInv
    <2>2. step' = 0 /\ dir' = dir /\ run' = run
      BY <1>3 DEF CopyInputsReturns, Returns
    <2>3. ASSUME NEW q \in Paths
          PROVE  LET ds == Max(SourcesOf(q.base))
                 IN  \E p \in manifest.inputs[ds] :
                       p.base = q.base /\ dir[q.base] = [kind |-> "input", ds |-> ds, run |-> run,
                                                       parts |-> p.parts, cut |-> FALSE]
      <3> DEFINE f == q.base
                 ds == Max(SourcesOf(f))
      <3>1. f \in Files /\ manifest \in Manifests
        OBVIOUS
      <3>2. ds \in CopiedFrom(f) /\ \A i \in CopiedFrom(f) : i <= ds
        BY <2>1, <3>1, AllAreCopied
      <3> HIDE DEF f, ds
      <3>3. \E p \in manifest.inputs[ds] :
              p.base = f /\ dir[f] = [kind |-> "input", ds |-> ds, run |-> run,
                                     parts |-> p.parts, cut |-> FALSE]
        BY <2>1, <3>1, <3>2 DEF LastIsStaged
      <3>4. QED
        BY <3>3 DEF f, ds
    <2>4. Paths' = Paths /\ \A f : SourcesOf(f)' = SourcesOf(f)
      BY DEF Paths, SourcesOf
    <2>5. InputsAreStaged'
      BY <2>2, <2>3, <2>4 DEF InputsAreStaged
    <2>6. QED
      BY <1>z, <2>2, <2>5
  <1>4. CASE Returns /\ (CreateReturns \/ SaveTmp \/ Simulate \/ PostOutputsReturns)
    <2>1. step' = 0 /\ at' = at + 1 /\ manifest.actions[at] # "copy-inputs"
      BY <1>4, NotCopying DEF Returns
    <2>2. QED
      BY <1>j, <1>z, <2>1 DEF JustReturned
  <1>5. CASE ReturnsError
    BY <1>5, <1>n, <1>j DEF ReturnsError, Running, JustReturned
  <1>6. CASE OpenFiles \/ CopyPart \/ \E o \in ToSet(Outputs) : SkipReserved(o) \/ PostOutput(o)
    <2>1. step' # 0 /\ at' = at /\ status' = status
      BY <1>6 DEF OpenFiles, CopyPart, SkipReserved, PostOutput, GoesOn, position
    <2>2. ~Running("copy-inputs")'
      BY <1>6, <2>1, NotCopying DEF Running
    <2>3. QED
      BY <1>j, <1>n, <2>1, <2>2 DEF JustReturned
  <1>7. CASE Rerun
    BY <1>7, <1>j, <1>z DEF Rerun, JustReturned
  <1>8. CASE UNCHANGED vars
    <2>1. LastIsStaged' <=> LastIsStaged
      BY <1>8 DEF vars, LastIsStaged, CopiedFrom, IsCopied, Running
    <2>2. InputsAreStaged' <=> InputsAreStaged
      BY <1>8 DEF vars, InputsAreStaged, JustReturned, Paths, SourcesOf
    <2>3. QED
      BY <2>1, <2>2 DEF IInv
  <1>9. QED
    BY <1>1, <1>2, <1>3, <1>4, <1>5, <1>6, <1>7, <1>8, StepKinds

-----------------------------------------------------------------------------
(* create-ras-tmp. *)

\* What an action may leave in the directory: what was there, or a copy, a file of
\* create-ras-tmp, a part more of it, or files of the simulation.
LEMMA DirStep ==
  ASSUME [Next]_vars
  PROVE  \/ dir' = dir
         \/ \E p \in left, c \in BOOLEAN : dir' = Copied(p, c)
         \/ OpenFiles
         \/ CopyPart
         \/ Script
         \/ dir' = [f \in Files |-> NoFile]
  BY DEF Next, vars, NextDataSource, CopyPath, CopyPathFails, CopyInputsReturns,
     CreateFails, CreateReturns, SaveTmp, SaveTmpFails, Simulate,
     SkipReserved, PostOutput, PostFails, PostNotPossible, PostOutputsReturns, Rerun

\* No step leaves parts where there is no file.
LEMMA NoPartsStep == IInv /\ [Next]_vars => NoPartsOfNoFile'
  <1> SUFFICES ASSUME IInv, [Next]_vars PROVE NoPartsOfNoFile'
    OBVIOUS
  <1>t. TypeOK /\ NoPartsOfNoFile /\ PartsAreCounted /\ dir \in [Files -> FileStates]
    BY DEF IInv, TypeOK
  <1>1. CASE dir' = dir
    BY <1>t, <1>1 DEF NoPartsOfNoFile
  <1>2. ASSUME NEW p \in left, NEW c \in BOOLEAN, dir' = Copied(p, c) PROVE NoPartsOfNoFile'
    BY <1>t, <1>2 DEF NoPartsOfNoFile, Copied
  <1>3. CASE OpenFiles
    BY <1>t, <1>3 DEF OpenFiles, NoPartsOfNoFile, Made
  <1>4. CASE CopyPart
    <2>1. dir' = [dir EXCEPT ![Dest].parts = step] /\ CanBeOpened(Dest)
      BY <1>t, <1>4 DEF CopyPart, PartsAreCounted
    <2>2. dir[Dest] \in FileStates
      BY <1>t, ConstantTypes
    <2>3. [dir[Dest] EXCEPT !.parts = step].kind # "none"
      BY <2>1, <2>2 DEF CanBeOpened, FileStates
    <2>4. QED
      BY <1>t, <2>1, <2>3 DEF NoPartsOfNoFile
  <1>5. CASE Script
    BY <1>t, <1>5 DEF Script, NoPartsOfNoFile, Made
  <1>6. CASE dir' = [f \in Files |-> NoFile]
    BY <1>6 DEF NoPartsOfNoFile, NoFile
  <1>7. QED
    BY <1>1, <1>2, <1>3, <1>4, <1>5, <1>6, DirStep

\* The file of create-ras-tmp has the parts it has got past, all of them new.
LEMMA PartsStep == IInv /\ [Next]_vars => PartsAreCounted' /\ CreatedFromNothing'
  <1> SUFFICES ASSUME IInv, [Next]_vars PROVE PartsAreCounted' /\ CreatedFromNothing'
    OBVIOUS
  <1>t. /\ TypeOK /\ CreatedFromNothing /\ PartsAreCounted /\ NoPartsOfNoFile
        /\ manifest' = manifest /\ step \in Nat /\ at \in Nat /\ at > 0
        /\ dir \in [Files -> FileStates] /\ Dest \in Files /\ dir[Dest] \in FileStates
    BY ManifestStays, StepBound, ManifestType, ConstantTypes DEF IInv, TypeOK
  <1>z. ASSUME step' = 0 \/ ~Running("create-ras-tmp")' PROVE PartsAreCounted'
    BY <1>z DEF PartsAreCounted
  <1>s. ASSUME saved' = saved, ~JustReturned("create-ras-tmp")' PROVE CreatedFromNothing'
    BY <1>s, <1>t DEF CreatedFromNothing
  <1>d. ASSUME Running("create-ras-tmp"), step = AllParts + 1
        PROVE  dir[Dest].parts = AllParts /\ before = 0 /\ ~dir[Dest].cut
    BY <1>t, <1>d, AllPartsIs4 DEF PartsAreCounted, CanBeOpened
  <1>1. CASE NextDataSource \/ CopyPath
    <2>1. /\ Running("copy-inputs") /\ at' = at /\ status' = status /\ saved' = saved
          /\ step' # 0
      <3>1. CASE NextDataSource
        BY <1>t, <3>1 DEF NextDataSource, GoesOn, position, remote
      <3>2. CASE CopyPath
        <4>1. Running("copy-inputs") /\ left # {} /\ step' = step
          BY <3>2 DEF CopyPath
        <4>2. step # 0
          BY <4>1 DEF IInv, LeftIsOfStep
        <4>3. QED
          BY <3>2, <4>1, <4>2 DEF CopyPath, GoesOn, position, remote
      <3>3. QED
        BY <1>1, <3>1, <3>2
    <2>2. ~Running("create-ras-tmp")' /\ ~JustReturned("create-ras-tmp")'
      BY <1>t, <2>1 DEF Running, JustReturned
    <2>3. QED
      BY <1>z, <1>s, <2>1, <2>2
  <1>2. CASE OpenFiles
    <2>1. /\ step' = 1 /\ saved' = saved /\ before' = dir[Dest].parts
          /\ dir'[Dest].parts = dir[Dest].parts /\ CanBeOpened(Dest)'
      BY <1>2, <1>t DEF OpenFiles, remote, CanBeOpened, NoPartsOfNoFile, Made
    <2>2. QED
      BY <1>s, <2>1, AllPartsIs4 DEF PartsAreCounted, JustReturned
  <1>3. CASE CopyPart
    <2>1. /\ dir' = [dir EXCEPT ![Dest].parts = step] /\ CanBeOpened(Dest)
          /\ step \in 1 .. AllParts /\ step' = step + 1 /\ saved' = saved /\ before' = before
          /\ dir[Dest].parts = step - 1 /\ dir[Dest].parts = IF step = 1 THEN before ELSE step - 1
          /\ step > 1 => before = 0
      BY <1>t, <1>3 DEF CopyPart, PartsAreCounted, remote
    <2>2. dir'[Dest] = [dir[Dest] EXCEPT !.parts = step]
      BY <1>t, <2>1
    <2>3. dir'[Dest].parts = step /\ CanBeOpened(Dest)'
      BY <1>t, <2>1, <2>2 DEF CanBeOpened, FileStates
    <2>4. PartsAreCounted'
      BY <2>1, <2>3, AllPartsIs4 DEF PartsAreCounted
    <2>5. QED
      BY <1>s, <1>t, <2>1, <2>4 DEF JustReturned
  <1>4. CASE CreateReturns \/ SaveTmp
    <2>1. /\ Running("create-ras-tmp") /\ step = AllParts + 1 /\ Returns
          /\ dir' = dir /\ saved' \in {saved, dir[Dest]}
      BY <1>4 DEF CreateReturns, SaveTmp, remote
    <2>2. step' = 0 /\ before' = before
      BY <2>1 DEF Returns
    <2>3. QED
      BY <1>t, <1>d, <1>z, <2>1, <2>2 DEF CreatedFromNothing
  <1>5. CASE SaveTmpFails
    <2>1. /\ Running("create-ras-tmp") /\ step = AllParts + 1 /\ status' = "error"
          /\ dir' = dir /\ saved' \in {saved, dir[Dest]}
      BY <1>5 DEF SaveTmpFails, ReturnsError
    <2>2. QED
      BY <1>t, <1>d, <1>z, <2>1 DEF CreatedFromNothing, Running, JustReturned
  <1>6. CASE CopyInputsReturns \/ PostOutputsReturns \/ (Simulate /\ Returns)
    <2>1. /\ status = "running" /\ manifest.actions[at] # "create-ras-tmp" /\ Returns
          /\ saved' = saved
      BY <1>6 DEF CopyInputsReturns, PostOutputsReturns, Simulate, Running, remote
    <2>2. step' = 0 /\ at' = at + 1
      BY <2>1 DEF Returns
    <2>3. QED
      BY <1>t, <1>z, <1>s, <2>1, <2>2 DEF JustReturned
  <1>7. CASE ReturnsError /\ saved' = saved
    BY <1>7, <1>z, <1>s DEF ReturnsError, Running, JustReturned
  <1>8. ASSUME NEW o \in ToSet(Outputs), SkipReserved(o) \/ PostOutput(o)
        PROVE  PartsAreCounted' /\ CreatedFromNothing'
    <2>1. /\ Running("post-outputs") /\ at' = at /\ status' = status /\ saved' = saved
          /\ step' # 0
      BY <1>8, <1>t DEF SkipReserved, PostOutput, Posting, GoesOn, position, remote
    <2>2. QED
      BY <1>t, <1>z, <1>s, <2>1 DEF Running, JustReturned
  <1>9. CASE Rerun
    BY <1>9, <1>z, <1>s DEF Rerun, JustReturned, remote
  <1>10. CASE UNCHANGED vars
    BY <1>10, <1>t DEF vars, PartsAreCounted, CreatedFromNothing, Running, JustReturned, CanBeOpened
  <1>11. QED
    <2>1. ASSUME CopyPathFails \/ CreateFails \/ (Simulate /\ ReturnsError) \/ PostNotPossible
                   \/ \E o \in ToSet(Outputs) : PostFails(o)
          PROVE  ReturnsError /\ saved' = saved
      BY <2>1 DEF CopyPathFails, CreateFails, Simulate, PostFails, PostNotPossible, remote
    <2>2. Simulate => (Simulate /\ Returns) \/ (Simulate /\ ReturnsError)
      BY DEF Simulate
    <2>3. QED
      BY <1>1, <1>2, <1>3, <1>4, <1>5, <1>6, <1>7, <1>8, <1>9, <1>10, <2>1, <2>2 DEF Next

-----------------------------------------------------------------------------
(* post-outputs. *)

\* An output is at one place of the list.
LEMMA OutputPlaces ==
  /\ Posted \subseteq 1 .. Len(Outputs)
  /\ \A i \in Posted : Outputs[i] \notin Reserved
  /\ \A i, j \in Posted : Outputs[i] = Outputs[j] => i = j
  BY NamesAssumption, ConstantTypes DEF NamesAssumption, IsInjective, Posted

\* What the store holds is newest at the front, and of no later run.
StoreIsOrdered == StoreGetsOlder /\ StoredByNow /\ \A o \in Reserved \cap ToSet(Outputs) : store[o].put = 0

\* Putting the output post-outputs is at keeps the store in order.
LEMMA PutStep ==
  ASSUME TypeOK, PostedUpToStep, StoreIsOrdered, run' = run,
         NEW o \in ToSet(Outputs), Posting(o), ~IsReserved(o), Put(o)
  PROVE  /\ StoreIsOrdered'
         /\ step + 1 \in Posted
         /\ \A i \in Posted : i <= step => store'[Outputs[i]] = store[Outputs[i]]
         /\ store'[Outputs[step + 1]] = [file |-> dir[o], put |-> run]
  <1> DEFINE k == step + 1
  <1>1. /\ k \in 1 .. Len(Outputs) /\ o = Outputs[k] /\ Running("post-outputs")
        /\ step \in Nat /\ run \in Nat
    BY ConstantTypes, StepBound DEF Posting, TypeOK
  <1>2. k \in Posted
    BY <1>1, ConstantTypes DEF Posted, IsReserved
  <1> HIDE DEF k
  <1>3. store'[o] = [file |-> dir[o], put |-> run]
    BY DEF Put, TypeOK
  <1>4. \A q \in ToSet(Outputs) : q # o => store'[q] = store[q]
    BY DEF Put, TypeOK
  <1>5. \A i \in Posted : i # k => Outputs[i] \in ToSet(Outputs) /\ Outputs[i] # o
    BY <1>1, <1>2, OutputPlaces, ConstantTypes
  <1>6. \A i \in Posted : i # k => store'[Outputs[i]] = store[Outputs[i]]
    BY <1>4, <1>5
  <1>7. \A i \in Posted : i < k => store[Outputs[i]].put = run
    <2>1. ASSUME NEW i \in Posted, i < k PROVE store[Outputs[i]].put = run
      <3>1. i <= step
        BY <1>1, <2>1, OutputPlaces DEF k
      <3>2. StoredAsItIs(i)
        BY <1>1, <2>1, <3>1 DEF PostedUpToStep
      <3>3. QED
        BY <3>2 DEF StoredAsItIs
    <2>2. QED
      BY <2>1
  <1>8. \A i \in Posted : store[Outputs[i]].put \in Nat /\ store[Outputs[i]].put <= run
    <2>1. \A q \in ToSet(Outputs) : store[q].put \in Nat /\ store[q].put <= run
      BY DEF StoreIsOrdered, StoredByNow, TypeOK
    <2>2. QED
      BY <2>1, OutputPlaces, ConstantTypes
  <1>9. StoreGetsOlder'
    <2>1. ASSUME NEW i \in Posted, NEW j \in Posted, i < j
          PROVE  store'[Outputs[j]].put <= store'[Outputs[i]].put
      <3>1. CASE i = k
        <4>1. j # k
          BY <1>1, <2>1, <3>1 DEF k
        <4>2. QED
          BY <1>1, <1>3, <1>6, <1>8, <3>1, <4>1
      <3>2. CASE j = k
        <4>1. i # k /\ store[Outputs[i]].put = run
          BY <1>1, <1>7, <2>1, <3>2 DEF k
        <4>2. QED
          BY <1>1, <1>3, <1>6, <3>2, <4>1
      <3>3. CASE i # k /\ j # k
        BY <1>6, <2>1, <3>3 DEF StoreIsOrdered, StoreGetsOlder
      <3>4. QED
        BY <3>1, <3>2, <3>3
    <2>2. QED
      BY <2>1 DEF StoreGetsOlder, Posted
  <1>10. StoredByNow'
    BY <1>1, <1>3, <1>4 DEF StoreIsOrdered, StoredByNow
  <1>11. \A q \in Reserved \cap ToSet(Outputs) : store'[q].put = 0
    BY <1>4 DEF StoreIsOrdered, IsReserved
  <1>12. QED
    BY <1>1, <1>2, <1>3, <1>6, <1>9, <1>10, <1>11, OutputPlaces DEF StoreIsOrdered, k

\* Every step keeps what post-outputs has posted, and the order of the store.
LEMMA StoreStep == IInv /\ [Next]_vars => PostedUpToStep' /\ StoreIsOrdered' /\ OutputsArePosted'
  <1> SUFFICES ASSUME IInv, [Next]_vars
               PROVE  PostedUpToStep' /\ StoreIsOrdered' /\ OutputsArePosted'
    OBVIOUS
  <1>t. /\ TypeOK /\ PostedUpToStep /\ StoreIsOrdered /\ OutputsArePosted
        /\ manifest' = manifest /\ step \in Nat /\ at \in Nat /\ at > 0 /\ run \in Nat
        /\ store \in [ToSet(Outputs) -> [file: FileStates, put: 0 .. MaxRuns]]
        /\ Len(Outputs) \in Nat
    BY ManifestStays, StepBound, ManifestType, ConstantTypes
       DEF IInv, TypeOK, StoreIsOrdered, OutputsArePosted
  <1>z. ASSUME step' = 0 \/ ~Running("post-outputs")', Len(Outputs) \in Nat PROVE PostedUpToStep'
    BY <1>z, OutputPlaces DEF PostedUpToStep
  <1>o. ASSUME StoreIsOrdered', ~JustReturned("post-outputs")' PROVE OutputsArePosted'
    BY <1>o DEF OutputsArePosted, StoreIsOrdered
  <1>s. ASSUME store' = store, run' \in Nat, run' >= run PROVE StoreIsOrdered'
    <2>1. StoreGetsOlder'
      BY <1>s, <1>t DEF StoreIsOrdered, StoreGetsOlder, Posted
    <2>2. \A o \in ToSet(Outputs) : store[o].put \in Nat
      BY <1>t
    <2>3. StoredByNow'
      BY <1>s, <1>t, <2>2 DEF StoreIsOrdered, StoredByNow
    <2>4. QED
      BY <1>s, <1>t, <2>1, <2>3 DEF StoreIsOrdered
  <1>1. CASE NextDataSource \/ CopyPath \/ OpenFiles \/ CopyPart
    <2>1. /\ status = "running" /\ manifest.actions[at] # "post-outputs" /\ store' = store
          /\ run' = run /\ at' = at /\ status' = status
      BY <1>1 DEF NextDataSource, CopyPath, OpenFiles, CopyPart, Running, GoesOn, position, remote
    <2>2. step' # 0
      <3>1. CASE CopyPath
        <4>1. Running("copy-inputs") /\ left # {} /\ step' = step
          BY <3>1 DEF CopyPath
        <4>2. QED
          BY <4>1 DEF IInv, LeftIsOfStep
      <3>2. QED
        BY <1>1, <1>t, <3>1 DEF NextDataSource, OpenFiles, CopyPart
    <2>3. ~Running("post-outputs")' /\ ~JustReturned("post-outputs")'
      BY <1>t, <2>1, <2>2 DEF Running, JustReturned
    <2>4. QED
      BY <1>t, <1>s, <1>z, <1>o, <2>1, <2>3
  <1>2. CASE CopyInputsReturns \/ (Returns /\ (CreateReturns \/ SaveTmp \/ Simulate))
    <2>1. /\ status = "running" /\ manifest.actions[at] # "post-outputs" /\ store' = store
          /\ Returns
      BY <1>2 DEF CopyInputsReturns, CreateReturns, SaveTmp, Simulate, Running, remote
    <2>2. step' = 0 /\ at' = at + 1 /\ run' = run
      BY <2>1 DEF Returns
    <2>3. ~JustReturned("post-outputs")'
      BY <1>t, <2>1, <2>2 DEF JustReturned
    <2>4. QED
      BY <1>t, <1>s, <1>z, <1>o, <2>1, <2>2, <2>3
  <1>3. CASE PostOutputsReturns
    <2>1. /\ Running("post-outputs") /\ step = Len(Outputs) /\ dir' = dir /\ store' = store
          /\ step' = 0 /\ run' = run
      BY <1>3 DEF PostOutputsReturns, Returns, remote
    <2>2. StoreIsOrdered'
      BY <1>t, <1>s, <2>1
    <2>3. \A i \in Posted : StoredAsItIs(i)'
      BY <1>t, <2>1, OutputPlaces DEF PostedUpToStep, StoredAsItIs
    <2>4. QED
      BY <1>t, <1>z, <2>1, <2>2, <2>3 DEF OutputsArePosted, StoreIsOrdered, Posted
  <1>4. CASE ReturnsError /\ store' = store
    <2>1. run' = run /\ status' = "error"
      BY <1>4 DEF ReturnsError, position
    <2>2. QED
      BY <1>t, <1>s, <1>z, <1>o, <1>4, <2>1 DEF Running, JustReturned
  <1>5. ASSUME NEW o \in ToSet(Outputs), SkipReserved(o) \/ PostOutput(o)
        PROVE  PostedUpToStep' /\ StoreIsOrdered' /\ OutputsArePosted'
    <2>1. /\ step' = step + 1 /\ run' = run /\ dir' = dir /\ Posting(o)
      BY <1>5 DEF SkipReserved, PostOutput, GoesOn, position
    <2>2. ~JustReturned("post-outputs")'
      BY <1>t, <2>1 DEF JustReturned
    <2>3. /\ o = Outputs[step + 1] /\ step + 1 \in 1 .. Len(Outputs) /\ Running("post-outputs")
      BY <1>t, <2>1 DEF Posting
    <2>4. CASE SkipReserved(o)
      <3>1. store' = store /\ step + 1 \notin Posted
        BY <2>3, <2>4 DEF SkipReserved, IsReserved, Posted, remote
      <3>2. StoreIsOrdered'
        BY <1>t, <1>s, <2>1, <3>1
      <3>3. \A i \in Posted : i <= step + 1 => StoredAsItIs(i)'
        BY <1>t, <2>1, <2>3, <3>1, OutputPlaces DEF PostedUpToStep, StoredAsItIs
      <3>4. PostedUpToStep'
        BY <2>1, <2>3, <3>3 DEF PostedUpToStep, Posted
      <3>5. QED
        BY <1>o, <2>2, <3>2, <3>4
    <2>5. CASE PostOutput(o)
      <3>1. ~IsReserved(o) /\ Put(o)
        BY <2>5 DEF PostOutput
      <3>2. /\ StoreIsOrdered'
            /\ \A i \in Posted : i <= step => store'[Outputs[i]] = store[Outputs[i]]
            /\ store'[Outputs[step + 1]] = [file |-> dir[o], put |-> run]
        BY <1>t, <2>1, <3>1, PutStep
      <3>3. ASSUME NEW i \in Posted, i <= step + 1 PROVE StoredAsItIs(i)'
        <4>1. CASE i = step + 1
          BY <2>1, <2>3, <3>2, <4>1 DEF StoredAsItIs
        <4>2. CASE i <= step
          <5>1. StoredAsItIs(i)
            BY <1>t, <2>3, <4>2 DEF PostedUpToStep
          <5>2. QED
            BY <2>1, <3>2, <4>2, <5>1 DEF StoredAsItIs
        <4>3. QED
          BY <1>t, <3>3, <4>1, <4>2, OutputPlaces
      <3>4. PostedUpToStep'
        BY <2>1, <2>3, <3>3 DEF PostedUpToStep, Posted
      <3>5. QED
        BY <1>o, <2>2, <3>2, <3>4
    <2>6. QED
      BY <1>5, <2>4, <2>5
  <1>6. ASSUME NEW o \in ToSet(Outputs), PostFails(o), Put(o)
        PROVE  PostedUpToStep' /\ StoreIsOrdered' /\ OutputsArePosted'
    <2>1. run' = run /\ status' = "error" /\ Posting(o) /\ ~IsReserved(o)
      BY <1>6 DEF PostFails, ReturnsError, position
    <2>2. StoreIsOrdered'
      BY <1>t, <1>6, <2>1, PutStep
    <2>3. QED
      BY <1>t, <1>z, <1>o, <2>1, <2>2 DEF Running, JustReturned
  <1>7. CASE Rerun
    <2>1. /\ store' = store /\ run' = run + 1 /\ step' = 0 /\ at' = 1
      BY <1>7 DEF Rerun, remote
    <2>2. QED
      BY <1>t, <1>s, <1>z, <1>o, <2>1 DEF JustReturned
  <1>8. CASE UNCHANGED vars
    <2>1. StoreIsOrdered'
      BY <1>t, <1>s, <1>8 DEF vars
    <2>2. QED
      BY <1>t, <1>8, <2>1 DEF vars, PostedUpToStep, OutputsArePosted, StoredAsItIs, Running,
         JustReturned, Posted
  <1>9. QED
    <2>1. ASSUME CopyPathFails \/ CreateFails \/ SaveTmpFails \/ (Simulate /\ ReturnsError)
                   \/ PostNotPossible
          PROVE  ReturnsError /\ store' = store
      BY <2>1 DEF CopyPathFails, CreateFails, SaveTmpFails, Simulate, PostNotPossible, remote
    <2>2. ASSUME NEW o \in ToSet(Outputs), PostFails(o)
          PROVE  Put(o) \/ (ReturnsError /\ store' = store)
      BY <2>2 DEF PostFails
    <2>3. /\ CreateReturns => Returns
          /\ SaveTmp => Returns
          /\ Simulate => (Simulate /\ Returns) \/ (Simulate /\ ReturnsError)
      BY DEF CreateReturns, SaveTmp, Simulate
    <2>4. QED
      <3>1. \/ NextDataSource \/ CopyPath \/ OpenFiles \/ CopyPart
            \/ CopyInputsReturns \/ (Returns /\ (CreateReturns \/ SaveTmp \/ Simulate))
            \/ PostOutputsReturns \/ Rerun \/ UNCHANGED vars
            \/ \E o \in ToSet(Outputs) : SkipReserved(o) \/ PostOutput(o) \/ PostFails(o)
            \/ (ReturnsError /\ store' = store)
        BY <2>1, <2>3 DEF Next
      <3>2. QED
        BY <1>1, <1>2, <1>3, <1>4, <1>5, <1>6, <1>7, <1>8, <2>2, <3>1

-----------------------------------------------------------------------------
(* The theorems. *)

\* Every step keeps the inductive invariant.
LEMMA StepIInv == IInv /\ [Next]_vars => IInv'
  <1> SUFFICES ASSUME IInv, [Next]_vars PROVE IInv'
    OBVIOUS
  <1>1. TypeOK' /\ AtIsNext' /\ LeftIsOfStep'
    BY TypeStep, PositionStep DEF IInv
  <1>2. LastIsStaged' /\ InputsAreStaged'
    BY <1>1, StagedStep
  <1>3. PartsAreCounted' /\ CreatedFromNothing' /\ NoPartsOfNoFile'
    BY PartsStep, NoPartsStep
  <1>4. PostedUpToStep' /\ StoredByNow' /\ StoreGetsOlder' /\ OutputsArePosted'
    BY StoreStep DEF StoreIsOrdered
  <1>5. QED
    BY <1>1, <1>2, <1>3, <1>4 DEF IInv

\* The inductive invariant holds in every reachable state, whatever fails and however
\* often a manifest is run again.
THEOREM Invariance == Spec => []IInv
  BY InitIInv, StepIInv, PTL DEF Spec

\* Every variable keeps its type; no loop of an action runs past its end.
THEOREM TypeCorrect == Spec => []TypeOK
  <1>1. IInv => TypeOK
    BY DEF IInv
  <1>2. QED
    BY <1>1, Invariance, PTL

\* copy-inputs returns only when every input is there, whole, of this run, and from the
\* last data source that names it (CopyInputsAction.Run).
THEOREM Staged == Spec => []InputsAreStaged
  <1>1. IInv => InputsAreStaged
    BY DEF IInv
  <1>2. QED
    BY <1>1, Invariance, PTL

\* create-ras-tmp never passes on, or saves, a file it has not made whole and from nothing
\* (MakeRasHdfTmp, CreateRasTmpAction.Run).
THEOREM MadeFromNothing == Spec => []CreatedFromNothing
  <1>1. IInv => CreatedFromNothing
    BY DEF IInv
  <1>2. QED
    BY <1>1, Invariance, PTL

\* Over any number of failed runs, the outputs in the store are never newer than the ones
\* before them in the list (postOutputFiles).
THEOREM NeverNewer == Spec => []StoreGetsOlder
  <1>1. IInv => StoreGetsOlder
    BY DEF IInv
  <1>2. QED
    BY <1>1, Invariance, PTL

\* post-outputs returns only when every output is stored as this run left it, and never
\* stores the two that are the simulation's (postOutputFiles).
THEOREM AllPosted == Spec => []OutputsArePosted
  <1>1. IInv => OutputsArePosted
    BY DEF IInv
  <1>2. QED
    BY <1>1, Invariance, PTL

=============================================================================
