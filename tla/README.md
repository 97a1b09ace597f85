# A TLA+ verification of ras-runner

ras-runner is a container plugin that prepares, runs and post-processes HEC-RAS
simulations. A *manifest* (payload) names inputs, outputs and a list of
*actions*; `main.go` hands it to the plugin manager of the cc-go-sdk, which runs
the actions one after the other in one process and stops at the first error.
These modules model the actions, the files they share and what they promise.

## 1. Inventory

### Components, their state and operations

| component | source | state it keeps | operations | what makes it correct |
|---|---|---|---|---|
| unsteady-simulation | `actions/run` | log buffer, local plan file, stored results and log, exit status | preprocess, run the model, store results, store log, judge | the exit status is the truth about the plan file; a stored log accounts for the results |
| extract accumulator | `actions/extract/hdf/ras-extract-action.go`, `ras-breach-action.go`, `ras-extractor-writers.go` | `writerAccumulator`, a package variable that outlives every action | collect, flush | no record is lost, and none sent twice unless it is kept |
| RAS extractor | `actions/extract/hdf/ras-extractor.go` | none | select datasets, read, summarise | the record of a dataset has its name and its numbers |
| breach record | `actions/extract/hdf/ras-breach-extract.go`, `ras-breach-action.go` | none | walk areas and connections; find the breach, its stages, maxima and duration | every breach has its record, nothing is one off at a boundary of the time steps |
| b-file | `ras/bFile.go`, `breachData.go`, `outletTS.go` | parsed blocks | parse, amend, write | what was not edited is written as it was |
| b-file edits | `actions/link/update-*.go` | the b-file | update-breach-bfile, update-outlet-ts-bfile, update-bfile-skip-dss | any sequence leaves a file the next one can read |
| boundary links | `actions/link/column-to-bc.go`, `refline-to-bc.go`, `hdf-to-hdf.go`, `update-boundary-condition-delete-me.go` | conditions in the model's HDF file | look up by time, go row by row, copy | a dataset is never half written, each of its rows has the value of the row it is paired with: the one of its time (`column-to-bc`), or the one in its place (`refline-to-bc`, which assumes that the times are the same) |
| staging | `actions/utils/create-ras-tmp.go`, `copy-inputs-action.go`, `post-outputs.go` | the model directory | create, copy in, copy out | every input is there, a retry works |
| structure names | `ras/structuresAttr.go` | none | map names to ids | an unknown name changes nothing |
| main, plugin manager, store, batch system | `main.go`, external | the manifest, the remote store | run actions, put, get, kill, submit again | documents, stored results and exit status are of one run |
| run scripts, HEC-RAS | `runScripts`, external | the plan file | preprocess, simulate | - |

Left aside: the HDF5 helpers (`group.go`, `hdf-attrs.go`: wrappers), `blockfile.go`
and the CSV breach writer (nothing calls them), `result-types.go` and
`fragilitycurve.go` (plain data), `read-hdf-results-deprecated.go` (commented out from
the first line to the last), the Dockerfiles.

### How they interact

* Actions share the model directory `/sim/model`: staging writes it, the link
  actions edit the b-file and HDF files in it, the scripts read and write them, and
  the extract actions read the plan file.
* The extract actions share the accumulator in memory.
* A downstream model's job links to the results in the store, not to those in the
  directory they came from.
* Everything else goes through the remote store. An upload may fail before or
  after the object was stored.
* The batch system sees only the exit status, and may submit a failed job again,
  in a fresh container against the same store.

Nothing runs concurrently inside the process, apart from the container being
killed at any step. The hard behaviours are sequences of actions, state left by an
earlier one, partial failure, and numeric boundaries. `PROJECT.json` lists them as
hazards, each at its line.

## 2. Modules

| module | models | notes |
|---|---|---|
| `ComputeJob` | abstract: what a job promises the batch system | compute, publish, succeed or fail, retry |
| `UnsteadySimulation` | `unsteady-simulation-action.go` | one action per step of `Run` and `saveResults`, each outcome of a call an action; `Killed`, `Resubmit` and the effect of the script are the environment. Implements `ComputeJob` |
| `Outbox` | abstract: what waits is sent together, and what a document does not keep is never sent again | `Lists` are the records that take the place of their block |
| `ExtractAccumulator` | the extract actions on the accumulator | one action per kind of extraction. Every manifest implements `Outbox` |
| `BFile` | the b-file as rows, its parser and writer, as operators | used by `BFileEdits` |
| `BFileEdits` | the three edit actions | a ghost `want` holds the data, `Render` lays it out as RAS does: the reference for the parser and writer |
| `BoundaryLink` | the four boundary actions | a value is named by where it was read; times are minutes, with the float32 rounding of days |
| `BreachRecord` | ras-breach-extract up to the blocks it appends | numbers and NaN over a few time steps |
| `RasExtractor` | one extraction of ras-extract: datasets, names, summaries, attributes | members of a group are numbered; patterns are sets of members |
| `Staging` | copy-inputs, create-ras-tmp, post-outputs | copy by copy on one directory, which a second run may meet again |
| `Pipeline` | `main.go` and a whole job with its resubmissions and a downstream link | instantiates `UnsteadySimulation` and `ExtractAccumulator` on one plan file. Implements `ComputeJob` |
| `MC*` | instances for TLC | |
| `UnsteadySimulationProofs`, `ExtractAccumulatorProofs`, `PipelineProofs`, `StagingProofs`, `BreachRecordProofs`, `RasExtractorProofs` | theorems about the module each is named after | section 5 |
| `LinkProofs` | theorems about `BoundaryLink` and `BFileEdits`, the two components of the package `actions/link` | the only module that extends both, which is why `BFileEdits` has names of its own (`EditsInit`, `EditsNext`, `EditsSpec`, `EditsTypeOK`) |
| `SharedLemmas` | least and greatest elements of sets of numbers, induction, the loop of a recursive function; `FlattenSeq`, `FoldLeft` and mapping of sequences of any length | used by most of them |

How state and actions correspond to code (line by line in `PROJECT.json`, `map`):

* `UnsteadySimulation`: `out` is the `strings.Builder` of `Run`, `hdf` the file
  `<prefix>.p<plan>.tmp.hdf` with the submission that wrote it and what its
  `Solution` attribute says, `results` and `log` the remote objects with the
  submission that put them. `pc` walks through `Run`: `GeomPreproc`, `RunModel`,
  `PutResults`, `PutLog`, `CheckStable` and the early returns of each.
* `ExtractAccumulator`: `acc` is `writerAccumulator`; an action is a whole `Run`, ending
  in `KeepOrFlush` (ras-extract) or a flush that keeps (ras-breach-extract).
  `produced` and `delivered` are history.
* `BFile`: a row is its kind and its cells. `BreachBlocks` and `OutletBlock` cut blocks
  at the same rows as `InitBreachData` and `InitOutletTS`; `ToRows` is `ToBytes`.
* `BoundaryLink`: `dest` are the conditions; `ColumnToBc` and `ReflineToBc` are whole
  handlers, since they fill a buffer and write it once; `HdfToHdf` begins a copy whose
  datasets are copied one by one, in any order, as the loop over a map does.
* `BFileEdits`: `file` is the rows of the b-file, `terminated` whether the last one ends in a newline,
  `outcome` how the last action ended. `Structures` is the table of structures of the geometry file, `IdOf` the map
  made of it. `ContentsAssumption` says that RAS numbers structures from one: a structure with id 0
  would be given the elevation of every name the table does not have. A cell is a number that
  stands for its eight characters; `Reformat` is any function that says what parsing one as a
  float32 and writing it again makes of it.
* `BreachRecord`: the loops over `file.areas` and their connections; `Record` is one round of
  the inner one and holds the whole of `GetBreachRecord`; `Finish` makes the blocks. Properties speak
  of *places* in the file (an area and a connection in it) and the position of their record.
  `MaxOf`, like `ColumnMax` and `Selected` of `RasExtractor`, is a function of the turns of its loop.
  `IsBreach` is what RAS writes of a connection that breaches.
* `RasExtractor`: `next` is the loop of `DataExtract` over `Selected`, `block` the block of the
  accumulator as keys and datasets, `written` the body of the last record. The contents of a
  dataset are chosen when it is read.
* `Staging`: `step` is how far the loop of the current action is. A file is described by who
  wrote it, in which run, and how many of the parts of a plan file it has; `dir` survives a
  failed run or not, `Rerun` chooses.
* `Pipeline`: `manifest.order` is the list of actions, `at` the next of them. `Simulate` takes
  the steps of `Sim!Run`, so that the container can be killed between two of them; `Extract` is a
  handler of `Acc` that also notes, in `read`, the plan file it read. The submissions of the job
  share `results`, `log` and the documents; the accumulator and the plan file are gone with the
  container. `Phase` maps a job to `ComputeJob`: a killed one is failed, wherever it was.

Definitions named `X_Y` marked "mutant" are plausible mistakes in definition `X`; no
specification uses them, they show that the properties can tell them from the
code.

## 3. Runs

All passing runs disable the deadlock check for one reason: a manifest, a job or a
loop ends.

| run | instance | shows |
|---|---|---|
| `unsteady` | every manifest, 3 submissions | the exit status is the truth about the plan file and its copy, and about this run if create-ras-tmp made the file; results are dealt with before the verdict; a stored log accounts for the results, holds what was collected of the scripts (of the preprocessor, standard output alone) and seals them; every submission ends; `ComputeJob` is implemented |
| `extract` | 2 blocks, 2 datasets, 3 actions of any kind | nothing is lost except by an attribute extraction that takes a block over; only breach extractions repeat records; and the whole is an outbox: a record that was sent and not kept is never sent again |
| `bfile_edits` | every layout around a full row, 3 edits | the file stays what RAS would have laid out; the reader panics for two causes only; the rewriting actions commute when the flows settle, that is when reformatting them again changes nothing |
| `boundary` | grids of times at every edge of float32 coarseness up to day 33, steps of a minute, an hour and a day, 2 actions | no dataset is half written, each row comes from the one its action pairs it with, by time or by position; lookup and row order agree where the times are the same; every time of the first 32 days is found |
| `breach_record` | all velocities in {NaN, below, at, above} over 5 steps, 9 places of the breach time, 3 orders of columns; two areas with a dam of one name, missing time steps, unreadable columns | every breach has its record, which two areas do not share; the document has no NaN; stages are those of the last step before the breach, maxima ignore NaN, the sign of the duration tells what happened |
| `extractor` | groups of up to 3 members under any two patterns; up to 3 rows or 2 columns of {-1, 0, 1, NaN}; two attributes | every dataset the documents select is tried; none has two records, and none that the patterns leave out has one, except that `match` has no effect beside `exclude`; the key of a record is off by just the members left out before it; summaries are extremes, and null for two causes only |
| `staging` | every order of two actions and the documented manifests, inputs that share a name, 2 runs in one directory or a fresh one | a later data source wins, whole; a plan file is made from nothing or not at all; what is saved remotely is whole; along the outputs the store only gets older |
| `pipeline` | a staged simulation with two extractions of any kind after it, or one before, 2 submissions, kills, a link | documents are of this run's plan file; a job that succeeded replaced all of them; a link is to the stable results of this run or to those of an earlier one, and then the log this submission stored, if it stored one, says so; every submission ends; the whole job is still a `ComputeJob` |

Why the bounds are enough: three submissions are one with a predecessor and a
successor; the history of stored objects only compares "this submission" with
others. Three extract actions are one that collects, one that flushes, and one that
meets what the flush left. Three edits apply every action to what every other wrote
and to its own result, over cells that reformatting leaves alone, changes once, or changes every time; the counts 0, 1, 5, 6 and 11 lie on both sides of a full row of five.
Two boundary actions overwrite one dataset by another action, or interrupt a copy.
Five steps hold a rise, a fall, a second rise and a boundary on either side.
Three members are one left out, one before it and one behind it; three rows are a missing
value before, between and behind numbers. Two runs of staging are one that stops anywhere and
one that meets what it left. Two extractions are one that collects and one that sends, and
two submissions one that leaves something in the store and one that must not be mistaken
for it.

### Runs that are expected to fail

Each checks one sentence of a comment, document or message of the repository that
the code does not keep (`findings` in `PROJECT.json` quotes both sides).

| run | sentence | what happens |
|---|---|---|
| `unsteady_save_error` | "failed to save the results" is returned | the error of another call is tested, that of `saveResults` is dropped |
| `pipeline_link` | the results and the log are saved | with the results not saved and the log neither, a downstream job links to an earlier submission's results, be they unstable, and nothing says so |
| `boundary_first_column` | the specified column is extracted | the first column is, for times at or before the start |
| `boundary_late_times` | Tolerance compares RAS times | from day 32 the rounding to float32 can exceed it: the condition's own times are not found |

Seen in the code while modelling and without a run of their own:

* `ras-extract-action.md:244` uses `accumulate-results` to collect several extractions; an attribute
  extraction replaces the block they wait in (`NothingElseIsLost` allows for just that), and what
  the last extractions of a manifest collected is never sent.
* `breachData.go:93` reads on "until we hit another header or empty line"; `rowIsNotAHeader` indexes
  the first character of an empty one, and skip-dss appends one to a file that ends in a
  newline (`PanicHasACause`).
* `ras-extract-action.md:148`: "`match` is applied first, followed by `exclude`"; with both given, `match`
  has no effect (`Include`; `OnlySelectedAreRecorded` allows for just that).
* `ras-extractor-json-output-file-specification.md:48`: each entry has "a unique key that identifies
  the specific dataset". Behind a member that a pattern leaves out, the key is the name of
  another dataset (`KeyIsShiftedByLeftOut`, `ras-extractor.go:256`); and two connections of one
  name in two flow areas have one key.
* `unsteady-simulation.md:13`: "Capturing and logging all execution outputs". The preprocessor is run with
  `Output` (`unsteady-simulation-action.go:52`), so that what it wrote to standard error is in no log: the
  line `preprocErr` of the model, which no action collects. `LogHoldsCollectedOutput` is about the rest.
* The same document, line 93, has the maximum of each column; a NaN in the first row hides
  all others, and integers become null (`SummariesAreExtremes`). A `postprocess` function that
  does not exist gives zeros.
* `ras-extract-action.md:156` extracts attributes "from datasets or groups"; only groups are opened.
* The dataset of a breach block is a path with the connection where the flow area stands
  (`ras-breach-action.go:136`).
* `copy-inputs-action.md:19` "Maintains original filenames"; inputs of one base name overwrite each
  other, in a random order within a data source.
* `create-ras-tmp.md:14` "Creates a new temporary file"; an existing one is opened, and copying its
  first group fails. A missing `remote_dest` is noticed after the file was made.
* `post-outputs.md:29` copies "to the dataset path of `default`"; the name of the data source is used as
  that of a store, and `default` as the path in it.
* `docs/actions/read-bcline-peak-compute-manifest.json` uses the path key `0` for outputs where
  the code uses `output` and `log`.
* The extractors and `isModelStable` never close the HDF5 file they open.
* `ras-breach-action.md:28` writes "the current and any accumulated extractions", and keeps them all: a
  later `ras-extract` sends them again (`RepeatedOnlyAfterBreach`; `keeps` of a document in `Outbox`).
* `refline-to-bc.md:104` assumes that the times of source and destination are the same, and line 107
  matches by row. Nothing checks the first: a condition that starts later than the results is given
  values of other times.
* The comment at `unsteady-simulation-action.go:72` promises the log before any error;
  a failed script returns first, at line 69, and its output is lost.
* `unsteady-simulation.md:39` lists `geom_preproc` under the attributes of the action; it is
  read from the payload.
* `ras-breach-action.md:131` lets `accumulate-results` defer the breach extraction; it is not read.
* `ras-extract-action.md:217`, `:220`: an invalid `outputformat`, and `accumulate-results` together
  with `outputDataSource`, should be errors; neither is. A dataset that fails is only logged.
* `"string"` is in the table of data types and has no case, so nothing is extracted and the
  error of an earlier lookup is returned.
* `update-breach-data.md:59` says a failed elevation update is returned; it is logged. `:38` says
  elevations are updated in place; every outlet number is formatted again as well.
* `update-outletts-data.md:57` asks for the exact name; the first outlet that contains it is taken.
* `column-to-bc.md:23` counts columns from 0, `:30` and the code from 1.
* `ras-breach-action.md:109` says the index is that of the breach date; a breach on a step after the first
  has the index of the step before (`StagesAreBeforeTheBreach`, `ras-breach-extract.go:379`).
* `ras-breach-action.md:110` gives the duration above the threshold; it is negative when the velocity never
  falls below it again, and 0 when it is above only in the first step (`DurationIsOfFirstExcess`).
* `ras-breach-action.md:112` has a record say breached if there is a start time; an attribute that cannot be
  read is 0 and counts as a breach (`ras-breach-extract.go:209`).
* `ras-breach-action.md:119` has the maximum of a named column; a column that cannot be read is zeros
  unless it is the last (`ras-breach-extract.go:262`), and for a name that is missing column 0 is read (line 345).
* A structure name the geometry does not have gets id 0 in `AmmendBreachElevations`.

## 4. Fairness

Only `Terminates` needs it. In `UnsteadySimulation`, `FairSpec` adds weak fairness of `Run`, the disjunction of the
steps of the handler. `Run` is sequential code and every call it makes returns, with
or without an error (a script or an upload that hangs would be killed by the batch
system, which is `Killed`), so a step that is enabled is taken. Nothing is assumed of
`Killed` or `Resubmit`, nor that any call ever succeeds. `Pipeline` assumes the same of `RunActions`, the loop of the
plugin manager with the handlers it calls: it is fair to the process as a whole, and nothing
says that it is submitted again or that a downstream job ever links.

## 5. Proofs

By TLAPS, for every value of the constants. What `PROJECT.json` lists under `theorems`:

| module | theorem | property |
|---|---|---|
| `UnsteadySimulationProofs` | `TypeCorrect` | `TypeOK` |
| | `Verdict`, `Fresh` | `VerdictIsTrue`, `VerdictIsFresh` |
| | `SavedFirst` | `ResultsAreSavedFirst` |
| | `LogIsAccount`, `LogIsComplete` | `LogAccountsForResults`, `LogHoldsCollectedOutput` |
| | `LogSeals` | `LogSealsResults` |
| | `Refinement` | `ImplementsComputeJob` |
| `ExtractAccumulatorProofs` | `TypeCorrect` | `TypeOK` |
| | `LosesNothingElse`, `Repetition`, `Order` | `NothingElseIsLost`, `RepeatedOnlyAfterBreach`, `BlocksAreInOrder` |
| | `Refinement` | `ImplementsOutbox` |
| `PipelineProofs` | `TypeCorrect` | `TypeOK` |
| | `OfThisRun`, `NewDocuments`, `Linked` | `DocumentsAreOfTheRun`, `DocumentsAreNew`, `LinkedIsOfTheRun` |
| | `Refinement` | `ImplementsComputeJob` |
| `StagingProofs` | `TypeCorrect` | `TypeOK` |
| | `Staged`, `MadeFromNothing` | `InputsAreStaged`, `CreatedFromNothing` |
| | `NeverNewer`, `AllPosted` | `StoreGetsOlder`, `OutputsArePosted` |
| `LinkProofs` | `TypeCorrect` | `TypeOK` of `BoundaryLink` |
| | `Whole`, `Agreement`, `FirstDays` | `DatasetsAreWhole`, `LookupAgreesWithRows`, `FirstDaysAreFound` |
| | `ReadIsBlocks`, `WriteIsRendered`, `ResultsAreApplied` | the reader, the writer and the edits of the blocks, on every file |
| | `EditsInvariant`, `EditsTypesAreCorrect` | `EditsInv`, `EditsTypeOK` of `BFileEdits` |
| | `BFileSaysWhatWasAsked`, `ReaderPanicsForACause` | `FileSaysWhatWasAsked`, `PanicHasACause` |
| | `TheOrderOfEditsDoesNotMatter` | `EditsCommute` |
| `BreachRecordProofs` | `All`, `Document` | `EveryBreachIsRecorded`, `DocumentTellsConnectionsApart` |
| | `Stages`, `Maxima`, `Duration` | `StagesAreBeforeTheBreach`, `MaximaAreOfTheirVariable`, `DurationIsOfFirstExcess` |
| `RasExtractorProofs` | `Tried`, `Recorded`, `Keys`, `Extremes` | `DocumentedAreTried`, `OnlySelectedAreRecorded`, `KeyIsShiftedByLeftOut`, `SummariesAreExtremes` |

Every proof module has the same shape. `IInv`, in the module of the component, is an invariant
that is inductive; TLC was asked about it before it was proved. `InitIInv` and `StepIInv` show
that it is, with one step per action and one below for each conjunct the action can disturb;
`Invariance` is `Spec => []IInv`, and the theorems above follow from it. For `BFileEdits` it is
`EditsInv`, stated in `LinkProofs` beside the operators it speaks of, with one lemma per action.

### Assumptions

Each is on constants, has a name, and is evaluated by TLC on the instance of every run.

| assumption | why the code justifies it |
|---|---|
| `MaxAttemptsAssumption`, `BoundsAssumption`, `MaxActionsAssumption` | the bounds are numbers; a job is submitted at least once |
| `BlocksAssumption`, `NamesAssumption` | the breach block is a block; the plan file is not its own source; an output is listed once |
| `ReformatAssumption` (`BFile`) | a cell is a number, and writing it gives a number |
| `MaxEditsAssumption`, `ContentsAssumption`, `InputsAssumption` (`BFileEdits`) | a b-file has any structures and outlet series, of any lengths; RAS numbers structures from one; the inputs are lists of names, numbers and flows. A flow may be any cell |
| `ManifestsAssumption` (`Staging`) | the shape of the attributes |
| `ManifestsAssumption` (`Pipeline`) | a job simulates once, and stages before that: a manifest that simulates twice overwrites its own plan file, and one that stages later has made it in vain |
| `ScenesAssumption` (`BoundaryLink`) | time runs forward in what RAS wrote, a dataset starts with values nobody has written, names are strings |
| `InputsAssumption`, `ValuesAssumption` (`RasExtractor`) | a dataset is a matrix, NaN is no number |
| `FilesAssumption`, `ValuesAssumption` (`BreachRecord`) | time runs from a first to a last step, the members of an HDF5 group have names of their own, a connection that breaches has a value of each variable at each step, and its headwater is a number |

Nothing is assumed of how many files, paths, blocks, rows, columns or steps there are, except that
they are finite in number where the code reads them into a slice.

### The arguments

*`UnsteadySimulation`.* The properties are about the end of a submission, and no step preserves
them by themselves: whether the log accounts for the results depends on what was collected
steps before. `IInv` adds, for every program counter, what `Run` has established there:

* `PcMatchesExit`: the process runs just while it has a next step;
* `NothingFromLater`: stored objects have the number of this submission or an earlier one,
  so a fresh submission starts with nothing stored under its own number;
* `CreatedFileIsBlank`: a created plan file has no solution before the script;
* `StoredIsLocal`: what this submission stored is still the local file, since no step after
  the script writes it;
* `LogIsLast`: the log of this submission is stored only after the results were settled;
* `OutIsCollected`: what the buffer holds at each program counter.

`LogSeals` follows from `LogIsLast`: a step that stores results is taken at `pc = "results"`, where
the log is not this submission's. `Refinement` maps every step to a step of `ComputeJob` or a
stutter (`StepJob`), from the same invariant.

*`ExtractAccumulator`.* That documents do not repeat each other speaks of documents sent, and is
preserved only because of what waits: `WaitingFollows` says that a document made of the accumulator
now would follow those that were sent, `WaitsInItsBlock` and `SentIsOfThePast` date the records, so
that the records of the next action are new. The refinement, which holds for every manifest, rests on
the same facts: what waits after an action is what waited and new records, or an attribute list in the
place of its block (`TakesOver`), and `OnlyNewAreCollected` says that none of it has been sent
unless it was kept, as ras-breach-extract keeps all it sends.

*`Pipeline`* instantiates `UnsteadySimulation` and `ExtractAccumulator` over its own variables, and
its proofs use theirs: `Sim!IInv` and `Acc!IInv` are conjuncts of its `IInv`, and the step lemmas of
`UnsteadySimulationProofs` and `ExtractAccumulatorProofs`, instantiated in the same way, show that
a step of a component preserves them. What is added ties the two together: `SimulationHolds` (once
the simulation is passed, its verdict is still true of the plan file, which no later action
writes), `ReadIsOfTheRun` (every extraction read its file where it comes in the manifest),
`PostedUpToHere`, `StoredAsDeclared`, `OnlySimulates` and `SucceedsAtEnd`. Its `Refinement` says that
ComputeJob is still a true account of a process that does more than simulate.

*`Staging`.* What is promised when a loop returns is kept, during the loop, for the part that is
done: `LastIsStaged` for the paths copied so far, which a random order within a data source makes
a set, `PartsAreCounted` for the groups of the plan file (a file that had one fails at the first,
so past it the count starts from nothing), `PostedUpToStep` for the outputs. `StoreGetsOlder` is
about several runs, and needs that nothing is stored by a run to come (`StoredByNow`).

*`BoundaryLink`.* `DatasetsAreWhole` is nearly inductive, since a handler writes a whole buffer; what it
needs is that files, tables and their times stay as they were (`FilesAreKept`) and that a writer
names what there is. `FirstDays` is arithmetic: in the first 32 days the float32s of
days are so close (`FloatsPerDay`) that rounding moves a time by less than `Tolerance`.

*`BFileEdits`.* The hard part is not the invariant but the reader. `EditsInv` says that `want` is well
formed, that `file = Render(want)`, and that only a file with an empty line made the reader panic. That
an edit keeps it is that reading, editing and writing a laid-out file gives the layout of the
edited data, for any number of structures and outlets of any lengths:

* `SplitsBack`: a concatenation of blocks that each have one header, in front, is cut into just
  those blocks;
* `BreachIsParsed`: by induction over the structures, that the rows the parser counts from two flags
  and two counts (`StructBlockIs`) are those of the structure, so that the next one starts
  where it does, with its elevation below mass wasting or without it;
* `OutletIsParsed`: the pairs of a series come back from rows of five, whatever is left for the last;
* `ReadIsBlocks`: the three together, for a file without empty lines; `WriteIsRendered` the
  way back, with every series reformatted;
* `ResultsAreApplied`, `UpdatedIs`: amending the blocks is amending the data. Induction over the
  results; the table's last structure of a name counts, and the first block with its id;
* `BlankIsNotClean`: the reader panics just on files with an empty line, and the data says which
  these are.

`TheOrderOfEditsDoesNotMatter` computes both orders by these lemmas. It needs one hypothesis that
stands in `EditsCommute` itself: the flows settle (`Reformat[Reformat[x]] = Reformat[x]`), since they
are reformatted twice when they are put in first and once when last. A number that changes
every time it is written would make the files differ in its last digits.

*`BreachRecord`.* `RecordsAreOfTheDone` says that the records are those of the places before the one
that is next, each at its position, the number of breaching places before it. That a step keeps
this is a fact about counting (`PositionsFollowPlaces`): the position of the next place is one
more than the number of those done. What a record says of its connection then needs no
state, but the searches and loops of `GetBreachRecord`: `IndexIs` for `breachAtTimeIndex`,
`MaxOfIsMaximum` for `Max`, `StartAndEndAre` and `SignOfDuration` for `getThresholdDuration`.

*`RasExtractor`.* The properties are about one turn of the loop over `Selected`. What they rest on is
what the loops compute for inputs of any size: `Selected` is the members included, in order,
without one twice, so that a member's place in it is its number less those left out before
it, and the records, which are of datasets already tried (`RecordsAreOfTheTried`), are in its order; `ColumnMax` starts from the first row, so that a NaN there stays and one below is passed
over.

*Induction.* What a loop computes is proved from `SharedLemmas`: the library's induction theorems take an
operator as a parameter, which cannot be cited here, so `Induction` is stated for a set of numbers and
proved from the well-foundedness of `<` on the naturals. A recursive function in TLA+ is a `CHOOSE`;
`Loop` shows that there is a function to choose, whenever every turn is a function on a set.
The loops `RecordsOf`, `Selected`, `ColumnMax`, `ColumnMin` and `MaxOf` are written as recursive functions.
`FoldLeft`, `FlattenSeq` and `SelectInSeq` of the community modules, which `BFile` uses, are
operators over operators, which no prover here unfolds in one go: `FlattenAppend`, `FlattenedAt`,
`MappedConcat` and `FoldedAppend` say what they do with one more element, from their definitions as recursive
functions, and the proofs about b-files use only these.

### Only model-checked

* `Terminates`, of one action and of a whole job: liveness under fairness is beyond this prover.
* The runs that are expected to fail, which no theorem can state.

The order of the records in their blocks, `BlocksAreInOrder`, is proved (`Order`, and a conjunct of the
invariant) and has no run of its own. Every other property of a passing run, each invariant, action property and refinement, is stated by a
theorem of the table above.

## 6. Not modelled

* Bytes, formats, HDF5 itself: a value is named by its place. The digits of a b-file
  cell are abstract (`Reformat` may change a cell every time it is written).
* The SDK (plugin manager, stores): modelled as it is used.
* `structuresAttr.go`: the fields of the two compound layouts. Which of them is read depends on
  the file version; the ids that come of it do not.
* Open HDF5 handles: what the library does with a file that is open twice is not in this
  repository.
* `blockfile.go`: nothing calls it. `result-types.go`, `fragilitycurve.go`: data without behaviour.
  `read-hdf-results-deprecated.go`: commented out.
* In `Pipeline`, the link actions that prepare the model: what they write goes into the
  simulation, whose outcome is any. They are in `BFileEdits` and `BoundaryLink`.

## 7. Plan

In order of importance; all but the last are done.

1. `UnsteadySimulation`, implementing `ComputeJob`, with proofs.
2. `ExtractAccumulator`, implementing `Outbox`.
3. `BFile` and `BFileEdits`.
4. `BoundaryLink`.
5. `BreachRecord`, with flow areas and unreadable data.
6. Theorems about 1.
7. `RasExtractor`.
8. `Staging`.
9. `Pipeline`.
10. Theorems about 2, 4, 5, 7, 8 and 9.
11. Theorems about 3: reader and writer are inverse on what RAS lays out, then the four invariants.
12. The digits of an eight-character cell.
