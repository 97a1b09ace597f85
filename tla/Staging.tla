------------------------------- MODULE Staging ------------------------------
(***************************************************************************)
(* The actions that stage a model and post what it leaves (actions/utils:   *)
(* copy-inputs, create-ras-tmp, post-outputs), on the model directory they  *)
(* share with the simulation, in the order of a manifest that ends at the   *)
(* first error.  A manifest that failed may be run again (at most MaxRuns   *)
(* runs), in a fresh container or in the directory the failed run left, as  *)
(* with a mounted one.                                                      *)
(*                                                                          *)
(* A file is described by what wrote it and in which run, how many of the   *)
(* parts create-ras-tmp copies it has (its three groups, then its           *)
(* attributes), and whether a copy of it was cut short.                     *)
(***************************************************************************)
EXTENDS Naturals, Sequences, SequencesExt, FiniteSetsExt

CONSTANTS
  Files,      \* names in the model directory
  Manifests,  \* sequences of actions, with their attributes: see ManifestsAssumption
  Src, Dest,  \* the attributes src and local_dest of create-ras-tmp
  Outputs,    \* the output data sources in their order, named after files
  Reserved,   \* the outputs post-outputs leaves to unsteady-simulation
  MaxRuns     \* bound on the runs of a manifest

ASSUME NamesAssumption ==
  /\ {Src, Dest} \subseteq Files /\ Src # Dest
  /\ Outputs \in Seq(Files) /\ IsInjective(Outputs)
  /\ MaxRuns \in Nat \ {0}

RasTmpDatasets == <<"Geometry", "Plan Data", "Event Conditions">>

\* A file has all parts when it has the groups and was given the attributes.
AllParts == Len(RasTmpDatasets) + 1

Actions == {"copy-inputs", "create-ras-tmp", "unsteady-simulation", "post-outputs"}

\* The input data sources are sets of paths; "remote" is create-ras-tmp's.
ASSUME ManifestsAssumption ==
  \A m \in Manifests :
    /\ m.actions \in Seq(Actions) /\ m.actions # <<>>
    /\ m.inputs \in Seq(SUBSET [base: Files, parts: 0 .. AllParts])
    /\ m.remote \in {"no", "named", "unnamed"}

VARIABLES
  manifest,  \* the manifest, and the input data sources in their order
  dir,       \* the model directory
  store,     \* the outputs in the remote store
  saved,     \* what create-ras-tmp put there
  run,       \* the number of this run
  at,        \* the action of the manifest that is next or under way
  step,      \* how far its loop is: data sources, parts or outputs done
  left,      \* copy-inputs: the paths of the data source not yet copied
  before,    \* history: the parts Dest had when create-ras-tmp opened it
  status     \* "running", "ok", or "error"

vars == <<manifest, dir, store, saved, run, at, step, left, before, status>>
position == <<manifest, run, at>>
remote == <<store, saved>>

-----------------------------------------------------------------------------
Kinds == {"none", "input", "created", "script"}

\* "ds" is the data source of an input.
FileStates == [kind: Kinds, ds: Nat, run: 0 .. MaxRuns, parts: 0 .. AllParts, cut: BOOLEAN]

NoFile == [kind |-> "none", ds |-> 0, run |-> 0, parts |-> 0, cut |-> FALSE]

\* A file this run made, with some of the parts.
Made(kind, parts) == [kind |-> kind, ds |-> 0, run |-> run, parts |-> parts, cut |-> FALSE]

Paths == UNION ToSet(manifest.inputs)

\* The longest loop of an action.
MaxSteps == Max({Len(manifest.inputs), AllParts + 1, Len(Outputs)})

TypeOK ==
  /\ manifest \in Manifests
  /\ dir \in [Files -> FileStates]
  /\ store \in [ToSet(Outputs) -> [file: FileStates, put: 0 .. MaxRuns]]
  /\ saved \in FileStates
  /\ run \in 1 .. MaxRuns
  /\ at \in 1 .. Len(manifest.actions) + 1
  /\ step \in 0 .. MaxSteps
  /\ left \subseteq Paths
  /\ before \in 0 .. AllParts
  /\ status \in {"running", "ok", "error"}

Init ==
  /\ manifest \in Manifests
  /\ dir = [f \in Files |-> NoFile]
  /\ store = [o \in ToSet(Outputs) |-> [file |-> NoFile, put |-> 0]]
  /\ saved = NoFile
  /\ run = 1
  /\ at = 1
  /\ step = 0
  /\ left = {}
  /\ before = 0
  /\ status = "running"

Running(action) == status = "running" /\ manifest.actions[at] = action

\* The action returns without an error, and the next one of the manifest follows.
Returns ==
  /\ at' = at + 1
  /\ step' = 0
  /\ status' = IF at = Len(manifest.actions) THEN "ok" ELSE "running"
  /\ UNCHANGED <<manifest, run, left, before>>

\* It returns an error, which ends the manifest.
ReturnsError == status' = "error" /\ UNCHANGED <<position, step, left, before>>

GoesOn == UNCHANGED <<position, status>>

-----------------------------------------------------------------------------
(* copy-inputs: data sources in their order, the paths of each in any.  *)

NextDataSource ==
  /\ Running("copy-inputs")
  /\ left = {}
  /\ step < Len(manifest.inputs)
  /\ step' = step + 1
  /\ left' = manifest.inputs[step']
  /\ GoesOn /\ UNCHANGED <<dir, remote, before>>

\* The file is created, or emptied, before it is written.
Copied(p, isCut) ==
  [dir EXCEPT ![p.base] =
     [kind |-> "input", ds |-> step, run |-> run, parts |-> p.parts, cut |-> isCut]]

CopyPath ==
  /\ Running("copy-inputs")
  /\ \E p \in left : left' = left \ {p} /\ dir' = Copied(p, FALSE)
  /\ GoesOn /\ UNCHANGED <<remote, step, before>>

\* mutant: the error is logged, and the next path copied
CopyPathFails_GoesOn ==
  /\ Running("copy-inputs")
  /\ \E p \in left : left' = left \ {p} /\ dir' \in {dir, Copied(p, TRUE)}
  /\ GoesOn /\ UNCHANGED <<remote, step, before>>

\* The object or the file cannot be opened, or the copy breaks off.
CopyPathFails ==
  /\ Running("copy-inputs")
  /\ \E p \in left : dir' \in {dir, Copied(p, TRUE)}
  /\ ReturnsError /\ UNCHANGED remote

CopyInputsReturns ==
  /\ Running("copy-inputs")
  /\ left = {}
  /\ step = Len(manifest.inputs)
  /\ Returns /\ UNCHANGED <<dir, remote>>

-----------------------------------------------------------------------------
(* create-ras-tmp: step counts the opening of the files, then the parts. *)

CanBeOpened(f) == dir[f].kind # "none" /\ ~dir[f].cut

\* Dest is created when there is none, and opened otherwise.
OpenFiles ==
  /\ Running("create-ras-tmp")
  /\ step = 0
  /\ CanBeOpened(Src)
  /\ \/ CanBeOpened(Dest) /\ UNCHANGED dir
     \/ /\ dir[Dest].kind = "none"
        /\ dir' = [dir EXCEPT ![Dest] = Made("created", 0)]
  /\ before' = dir[Dest].parts
  /\ step' = 1
  /\ GoesOn /\ UNCHANGED <<remote, left>>

\* mutant: a part that is there already is left as it is
CopyPart_KeepsOld ==
  /\ Running("create-ras-tmp")
  /\ step \in 1 .. AllParts
  /\ step <= Len(RasTmpDatasets) => dir[Src].parts >= step
  /\ dir' = [dir EXCEPT ![Dest].parts = Max({@, step})]
  /\ step' = step + 1
  /\ GoesOn /\ UNCHANGED <<remote, left, before>>

\* mutant: one part too many
CopyPart_TooMany ==
  /\ Running("create-ras-tmp")
  /\ step \in 1 .. AllParts + 1
  /\ step <= Len(RasTmpDatasets) => dir[Src].parts >= step
  /\ dir[Dest].parts = step - 1
  /\ dir' = [dir EXCEPT ![Dest].parts = step]
  /\ step' = step + 1
  /\ GoesOn /\ UNCHANGED <<remote, left, before>>

\* HDF5 copies a group that is in Src to a name that is free in Dest.  An
\* attribute Src does not have is passed over.
CopyPart ==
  /\ Running("create-ras-tmp")
  /\ step \in 1 .. AllParts
  /\ step <= Len(RasTmpDatasets) => dir[Src].parts >= step
  /\ dir[Dest].parts = step - 1
  /\ dir' = [dir EXCEPT ![Dest].parts = step]
  /\ step' = step + 1
  /\ GoesOn /\ UNCHANGED <<remote, left, before>>

\* mutant: the error of a part is logged, and the next part copied
CreateFails_GoesOn ==
  /\ Running("create-ras-tmp")
  /\ step \in 1 .. AllParts
  /\ step' = step + 1
  /\ GoesOn /\ UNCHANGED <<dir, remote, left, before>>

\* An attribute of the action is missing, or a file or a part cannot be read or
\* written.  What was made stays.
CreateFails ==
  /\ Running("create-ras-tmp")
  /\ step <= AllParts
  /\ ReturnsError /\ UNCHANGED <<dir, remote>>

CreateReturns ==
  /\ Running("create-ras-tmp")
  /\ step = AllParts + 1
  /\ manifest.remote = "no"
  /\ Returns /\ UNCHANGED <<dir, remote>>

\* The file is closed, and then saved.
SaveTmp ==
  /\ Running("create-ras-tmp")
  /\ step = AllParts + 1
  /\ manifest.remote = "named"
  /\ saved' = dir[Dest]
  /\ Returns /\ UNCHANGED <<dir, store>>

\* There is no remote_dest, or the upload fails, with or without the object.
SaveTmpFails ==
  /\ Running("create-ras-tmp")
  /\ step = AllParts + 1
  /\ \/ manifest.remote = "unnamed" /\ UNCHANGED saved
     \/ manifest.remote = "named" /\ saved' \in {saved, dir[Dest]}
  /\ ReturnsError /\ UNCHANGED <<dir, store>>

-----------------------------------------------------------------------------
(* The simulation, which writes any of the outputs and the plan file. *)

Script ==
  \E written \in SUBSET (ToSet(Outputs) \cup {Dest}) :
    dir' = [f \in Files |->
              IF f \in written THEN Made("script", AllParts) ELSE dir[f]]

Simulate ==
  /\ Running("unsteady-simulation")
  /\ Script
  /\ Returns \/ ReturnsError
  /\ UNCHANGED remote

-----------------------------------------------------------------------------
(* post-outputs: step counts the outputs dealt with. *)

Posting(o) ==
  /\ Running("post-outputs")
  /\ step < Len(Outputs)
  /\ o = Outputs[step + 1]

\* mutant: only the log is reserved
IsReserved_LogOnly(o) == o = "rasoutput"

IsReserved(o) == o \in Reserved

Put(o) == store' = [store EXCEPT ![o] = [file |-> dir[o], put |-> run]]

SkipReserved(o) ==
  /\ Posting(o)
  /\ IsReserved(o)
  /\ step' = step + 1
  /\ GoesOn /\ UNCHANGED <<dir, remote, left, before>>

PostOutput(o) ==
  /\ Posting(o)
  /\ ~IsReserved(o)
  /\ dir[o].kind # "none"
  /\ Put(o)
  /\ step' = step + 1
  /\ GoesOn /\ UNCHANGED <<dir, saved, left, before>>

\* mutant: the error is logged, and the next output posted
PostFails_GoesOn(o) ==
  /\ Posting(o)
  /\ ~IsReserved(o)
  /\ step' = step + 1
  /\ GoesOn /\ UNCHANGED <<dir, remote, left, before>>

\* The file is not there, or the upload fails, with or without the object.
PostFails(o) ==
  /\ Posting(o)
  /\ ~IsReserved(o)
  /\ UNCHANGED store \/ (dir[o].kind # "none" /\ Put(o))
  /\ ReturnsError /\ UNCHANGED <<dir, saved>>

\* The prefix or the plan is not given.
PostNotPossible ==
  /\ Running("post-outputs")
  /\ step = 0
  /\ ReturnsError /\ UNCHANGED <<dir, remote>>

PostOutputsReturns ==
  /\ Running("post-outputs")
  /\ step = Len(Outputs)
  /\ Returns /\ UNCHANGED <<dir, remote>>

-----------------------------------------------------------------------------
\* A failed manifest is run again, in a fresh container or the same directory.
Rerun ==
  /\ status = "error"
  /\ run < MaxRuns
  /\ run' = run + 1
  /\ at' = 1
  /\ step' = 0
  /\ left' = {}
  /\ before' = 0
  /\ status' = "running"
  /\ dir' \in {dir, [f \in Files |-> NoFile]}
  /\ UNCHANGED <<manifest, remote>>

Next ==
  \/ NextDataSource \/ CopyPath \/ CopyPathFails \/ CopyInputsReturns
  \/ OpenFiles \/ CopyPart \/ CreateFails \/ CreateReturns \/ SaveTmp \/ SaveTmpFails
  \/ Simulate
  \/ \E o \in ToSet(Outputs) : SkipReserved(o) \/ PostOutput(o) \/ PostFails(o)
  \/ PostNotPossible \/ PostOutputsReturns
  \/ Rerun

Spec == Init /\ [][Next]_vars

-----------------------------------------------------------------------------
(* Properties the code has. *)

\* The action before the next one has just returned without an error.
JustReturned(action) ==
  status # "error" /\ step = 0 /\ at > 1 /\ manifest.actions[at - 1] = action

SourcesOf(f) ==
  {i \in DOMAIN manifest.inputs : \E p \in manifest.inputs[i] : p.base = f}

\* When copy-inputs returns, every base name is there, whole and copied by this run,
\* from the last data source that has it (CopyInputsAction.Run), whatever an
\* earlier run left under that name.
InputsAreStaged ==
  JustReturned("copy-inputs") =>
    \A f \in {p.base : p \in Paths} :
      LET ds == Max(SourcesOf(f))
      IN  \E p \in manifest.inputs[ds] :
            p.base = f /\ dir[f] = [kind |-> "input", ds |-> ds, run |-> run,
                                    parts |-> p.parts, cut |-> FALSE]

\* create-ras-tmp returns only with a file that has all parts, none of which it had
\* before: it never passes a file of an earlier run on, and cannot be repeated on
\* one it left half made (MakeRasHdfTmp).  So the file it saves remotely is whole too,
\* whichever call failed in this run or an earlier one (CreateRasTmpAction.Run).
CreatedFromNothing ==
  /\ JustReturned("create-ras-tmp") => dir[Dest].parts = AllParts /\ before = 0
  /\ saved # NoFile => saved.parts = AllParts /\ ~saved.cut

\* The places of the outputs post-outputs posts.
Posted == {i \in DOMAIN Outputs : Outputs[i] \notin Reserved}

\* Along the list of outputs, what is stored never gets newer: a run that fails
\* replaces the first of them and leaves the rest of an earlier run
\* (postOutputFiles stops at the first error).
StoreGetsOlder ==
  \A i, j \in Posted : i < j => store[Outputs[j]].put <= store[Outputs[i]].put

\* Outputs[i] is stored as this run left it in the directory.
StoredAsItIs(i) == store[Outputs[i]] = [file |-> dir[Outputs[i]], put |-> run]

\* When post-outputs returns, every output is stored as it is in the directory; the
\* plan file and the log are left to unsteady-simulation.
OutputsArePosted ==
  /\ \A o \in Reserved \cap ToSet(Outputs) : store[o].put = 0
  /\ JustReturned("post-outputs") => \A i \in Posted : StoredAsItIs(i)

-----------------------------------------------------------------------------
(* The inductive invariant the properties follow from. *)

\* A running manifest has a next action; one that ended well is past its last.
AtIsNext ==
  /\ status = "running" => at <= Len(manifest.actions)
  /\ status = "ok" => step = 0

\* The paths left are of the data source the loop of copy-inputs is at.
LeftIsOfStep ==
  /\ left # {} => Running("copy-inputs") \/ status = "error"
  /\ Running("copy-inputs") =>
       /\ step <= Len(manifest.inputs)
       /\ IF step = 0 THEN left = {} ELSE left \subseteq manifest.inputs[step]

\* Path p of data source i has been copied.
IsCopied(i, p) == p \in manifest.inputs[i] /\ (i = step => p \notin left)

\* The data sources that name f, among those copy-inputs has got to.
CopiedFrom(f) == {i \in 1 .. step : \E p \in manifest.inputs[i] : p.base = f /\ IsCopied(i, p)}

\* So far, the last of them is in the directory.
LastIsStaged ==
  Running("copy-inputs") =>
    \A f \in Files : \A i \in CopiedFrom(f) :
      (\A j \in CopiedFrom(f) : j <= i) =>
        \E p \in manifest.inputs[i] :
          /\ p.base = f
          /\ IsCopied(i, p)
          /\ dir[f] = [kind |-> "input", ds |-> i, run |-> run, parts |-> p.parts, cut |-> FALSE]

\* create-ras-tmp has copied as many parts as it says, to a file that had none: else
\* it does not get past the first.
PartsAreCounted ==
  Running("create-ras-tmp") /\ step > 0 =>
    /\ dir[Dest].parts = IF step = 1 THEN before ELSE step - 1
    /\ step > 1 => before = 0
    /\ step <= AllParts + 1
    /\ CanBeOpened(Dest)

\* Where there is no file, there is no part of one.
NoPartsOfNoFile == \A f \in Files : dir[f].kind = "none" => dir[f].parts = 0

\* post-outputs has posted what it has got past.
PostedUpToStep ==
  Running("post-outputs") =>
    /\ step <= Len(Outputs)
    /\ \A i \in Posted : i <= step => StoredAsItIs(i)

\* Nothing is stored by a later run.
StoredByNow == \A o \in ToSet(Outputs) : store[o].put <= run

IInv ==
  /\ TypeOK
  /\ AtIsNext
  /\ LeftIsOfStep
  /\ LastIsStaged
  /\ PartsAreCounted
  /\ NoPartsOfNoFile
  /\ PostedUpToStep
  /\ StoredByNow
  /\ InputsAreStaged
  /\ CreatedFromNothing
  /\ StoreGetsOlder
  /\ OutputsArePosted

=============================================================================
