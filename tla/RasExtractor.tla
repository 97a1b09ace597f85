---------------------------- MODULE RasExtractor ----------------------------
(***************************************************************************)
(* One extraction of ras-extract (actions/extract/hdf/ras-extractor.go and  *)
(* the writers): which members of a group are extracted, under which key    *)
(* each is written, and what its summaries say.  What becomes of the        *)
(* records is in ExtractAccumulator.                                        *)
(*                                                                          *)
(* A member of the group stands for its name and is numbered in the order   *)
(* in which HDF5 lists it; a pattern is the set of members it matches.  A   *)
(* matrix is a sequence of rows of small numbers and NaN.                   *)
(***************************************************************************)
EXTENDS Integers, Sequences, FiniteSets, SequencesExt

CONSTANTS
  Inputs,       \* the extractions, and what the file holds
  NoPattern,    \* an empty pattern
  BadPattern,   \* one that is not a regular expression
  NaN,          \* not a number
  Null,         \* null in the json document
  Unreadable    \* a dataset or an attribute that cannot be read

ASSUME ValuesAssumption ==
  /\ NoPattern # BadPattern
  /\ NaN # Null /\ NaN # Unreadable
  /\ \A v \in {NaN, Null, Unreadable} : v \notin Int

Values == Int \cup {NaN}

\* HDF5 numbers the members of a group, and the rows of a dataset are of one length.
ASSUME InputsAssumption ==
  \A in \in Inputs :
    /\ in.members \in Nat
    /\ ~in.attributes =>
         \A data \in in.contents :
           /\ data \in Seq(Seq(Values))
           /\ \A i \in DOMAIN data : Len(data[i]) = Len(data[1])

VARIABLES
  input,    \* the RasExtractInput, and what the file holds
  next,     \* the next dataset of the selection
  block,    \* the records written, as their keys and datasets
  source,   \* history: what was read for the record last written
  written,  \* the body of the record last written
  outcome   \* "running", "returned", "error", or "panic"

vars == <<input, next, block, source, written, outcome>>

Nothing == [data |-> <<>>, summaries |-> <<>>, record |-> <<>>]

-----------------------------------------------------------------------------
(* Selection of datasets. *)

Given(pattern) == pattern # NoPattern

\* mutant: the match pattern is the one that counts
Include_Match(m) ==
  IF Given(input.match) THEN m \in input.match
  ELSE Given(input.exclude) => m \notin input.exclude

\* Without patterns every member; the test of an exclude pattern overwrites that of
\* a match pattern.
Include(m) ==
  IF Given(input.exclude) THEN m \notin input.exclude
  ELSE Given(input.match) => m \in input.match

Members == [m \in 1 .. input.members |-> m]

Selected ==
  LET upTo[m \in 0 .. input.members] ==
        IF m = 0 THEN <<>>
        ELSE IF Include(m) THEN Append(upTo[m - 1], m)
        ELSE upTo[m - 1]
  IN  IF input.group THEN upTo[input.members] ELSE <<1>>

\* mutant: the key counts the records written
DatasetName_OfRecords(k) == IF input.group THEN Members[Len(block) + 1] ELSE 1

\* datasetNames holds all members of the group, and k counts the selected ones.
DatasetName(k) == IF input.group THEN Members[k] ELSE 1

-----------------------------------------------------------------------------
(* Summaries. *)

\* A comparison with NaN is false.
Greater(a, b) == a # NaN /\ b # NaN /\ a > b

\* mutant: the maximum starts at zero
ColumnMax_FromZero(data, k) ==
  LET upTo[i \in 0 .. Len(data)] ==
        IF i = 0 THEN 0
        ELSE IF Greater(data[i][k], upTo[i - 1]) THEN data[i][k]
        ELSE upTo[i - 1]
  IN  upTo[Len(data)]

\* mutant: a NaN at the start is replaced
ColumnMax_PastNaN(data, k) ==
  LET upTo[i \in 0 .. Len(data)] ==
        IF i = 0 THEN data[1][k]
        ELSE IF upTo[i - 1] = NaN \/ Greater(data[i][k], upTo[i - 1]) THEN data[i][k]
        ELSE upTo[i - 1]
  IN  upTo[Len(data)]

\* The loop starts with the first value of column k and goes over all rows.
ColumnMax(data, k) ==
  LET upTo[i \in 0 .. Len(data)] ==
        IF i = 0 THEN data[1][k]
        ELSE IF Greater(data[i][k], upTo[i - 1]) THEN data[i][k]
        ELSE upTo[i - 1]
  IN  upTo[Len(data)]

ColumnMin(data, k) ==
  LET upTo[i \in 0 .. Len(data)] ==
        IF i = 0 THEN data[1][k]
        ELSE IF Greater(upTo[i - 1], data[i][k]) THEN data[i][k]
        ELSE upTo[i - 1]
  IN  upTo[Len(data)]

\* One number a column; a name that is no function leaves zeros.
Summary(pp, data) ==
  [k \in DOMAIN data[1] |->
     CASE pp = "max" -> ColumnMax(data, k)
       [] pp = "min" -> ColumnMin(data, k)
       [] OTHER -> 0]

\* No summaries of a dataset without rows.
Summaries(data) ==
  [pp \in (IF data = <<>> THEN {} ELSE input.postprocess) |-> Summary(pp, data)]

\* NaN becomes null, and so does an integer: the writer has no case for it.
SummaryNumber(v) == IF v = NaN \/ input.datatype = "int" THEN Null ELSE v

\* NaNSafeMatrix keeps integers.
DataNumber(v) == IF v = NaN THEN Null ELSE v

\* What the json writer makes of a dataset.
OutputBlock(data) ==
  [data |-> IF input.writeData
            THEN [i \in DOMAIN data |-> [k \in DOMAIN data[i] |-> DataNumber(data[i][k])]]
            ELSE <<>>,
   summaries |-> IF input.writeSummary
                 THEN [pp \in DOMAIN Summaries(data) |->
                         [k \in DOMAIN data[1] |-> SummaryNumber(Summaries(data)[pp][k])]]
                 ELSE <<>>,
   record |-> <<>>]

-----------------------------------------------------------------------------
Init ==
  /\ input \in Inputs
  /\ next = 1
  /\ block = <<>>
  /\ source = <<>>
  /\ written = Nothing
  /\ outcome = "running"

\* The file or the group cannot be read.
NotOpened ==
  /\ outcome = "running"
  /\ next = 1
  /\ block = <<>>
  /\ outcome' = "error"
  /\ UNCHANGED <<input, next, block, source, written>>

Patterns == {input.match, input.exclude}

\* MustCompile is called for every member, so that an empty group hides it.
PatternPanics ==
  /\ outcome = "running"
  /\ ~input.attributes /\ input.group
  /\ input.members > 0
  /\ BadPattern \in Patterns
  /\ outcome' = "panic"
  /\ UNCHANGED <<input, next, block, source, written>>

SelectsDatasets ==
  /\ outcome = "running"
  /\ ~input.attributes
  /\ BadPattern \in Patterns => input.members = 0 \/ ~input.group

Extracting ==
  /\ SelectsDatasets
  /\ next <= Len(Selected)
  /\ next' = next + 1

\* mutant: the loop ends at the dataset that cannot be extracted
ExtractFails_Ends ==
  /\ Extracting
  /\ outcome' = "returned"
  /\ UNCHANGED <<input, block, source, written>>

\* The column names or the dataset cannot be read, or there is no such writer: the
\* failure is logged and the loop goes on.  Column names are read anew for every
\* dataset.
ExtractFails ==
  /\ Extracting
  /\ UNCHANGED <<input, block, source, written, outcome>>

\* The json writer appends a record; the name and the path come from different
\* lists.
ExtractToJson ==
  /\ Extracting
  /\ input.coldata /\ input.writer = "json"
  /\ block' = Append(block, [key |-> DatasetName(next), dataset |-> Selected[next]])
  /\ \E data \in input.contents :
       /\ source' = data
       /\ written' = OutputBlock(data)
  /\ UNCHANGED <<input, outcome>>

\* The console writer prints.
ExtractToConsole ==
  /\ Extracting
  /\ input.coldata /\ input.writer = "console"
  /\ UNCHANGED <<input, block, source, written, outcome>>

Extracted ==
  /\ SelectsDatasets
  /\ next > Len(Selected)
  /\ outcome' = "returned"
  /\ UNCHANGED <<input, next, block, source, written>>

-----------------------------------------------------------------------------
(* Attributes: those asked for (a set of names) among those there are.  *)

AttributeRecord(there) ==
  [a \in input.colnames \cap DOMAIN there |-> DataNumber(there[a])]

CannotRead(there) ==
  \E a \in input.colnames \cap DOMAIN there : there[a] = Unreadable

\* The writer replaces the block.
AttributeExtract ==
  /\ outcome = "running"
  /\ input.attributes
  /\ \E there \in input.contents :
       /\ ~CannotRead(there)
       /\ source' = there
       /\ written' = [Nothing EXCEPT !.record = AttributeRecord(there)]
  /\ block' = <<[key |-> 1, dataset |-> 1]>>
  /\ outcome' = "returned"
  /\ UNCHANGED <<input, next>>

AttributeExtractFails ==
  /\ outcome = "running"
  /\ input.attributes
  /\ \E there \in input.contents :
       /\ CannotRead(there)
       /\ source' = there
  /\ outcome' = "error"
  /\ UNCHANGED <<input, next, block, written>>

Next ==
  \/ NotOpened \/ PatternPanics
  \/ ExtractFails \/ ExtractToJson \/ ExtractToConsole \/ Extracted
  \/ AttributeExtract \/ AttributeExtractFails

Spec == Init /\ [][Next]_vars

-----------------------------------------------------------------------------
(* Properties the code has. *)

\* The document's words: a member the match pattern matches, if there is one, and
\* the exclude pattern does not.
Documented(m) ==
  /\ Given(input.match) => m \in input.match
  /\ Given(input.exclude) => m \notin input.exclude

\* When a group extraction returns, every dataset the patterns ask for was tried,
\* whichever datasets before it failed: an exclude pattern may add some to them,
\* but loses none (DataExtract).
DocumentedAreTried ==
  outcome = "returned" /\ ~input.attributes /\ input.group /\ BadPattern \notin Patterns =>
    \A m \in ToSet(Members) :
      Documented(m) => \E i \in 1 .. next - 1 : Selected[i] = m

\* A record is of a dataset the document's words select.  With both patterns given
\* it may also be of one that match does not select (against
\* ras-extract-action.md:148, "match is applied first, followed by exclude"), but
\* never of one that exclude names.  And no dataset has two records, nor comes
\* before one that the file has before it (DataExtract).
OnlySelectedAreRecorded ==
  ~input.attributes /\ input.group =>
    /\ \A i \in DOMAIN block :
         LET m == block[i].dataset
         IN  \/ Documented(m)
             \/ Given(input.match) /\ Given(input.exclude) /\ m \notin input.exclude
    /\ \A i, j \in DOMAIN block : i < j => block[i].dataset < block[j].dataset

LeftOutBefore(m) == {q \in 1 .. m - 1 : ~Include(q)}

\* The key of a record is the name of a member so many places before its dataset as
\* members were left out before it: right without patterns, whichever datasets
\* fail, and wrong behind every member a pattern leaves out (RunExtract).
KeyIsShiftedByLeftOut ==
  \A i \in DOMAIN block : input.group =>
    block[i].dataset - block[i].key = Cardinality(LeftOutBefore(block[i].dataset))

Column(k) == {source[i][k] : i \in DOMAIN source}

IsExtreme(pp, v, k) ==
  /\ v \in Column(k)
  /\ \A w \in Column(k) : IF pp = "max" THEN ~Greater(w, v) ELSE ~Greater(v, w)

\* A number in the summaries of a document is the extreme of its column, negative
\* columns and missing values included (columnMax, columnMin and the json writer).
\* It is null for two reasons only: the data are integers, or the first value of
\* the column is missing, whatever values follow (columnMax starts there, and no
\* comparison replaces NaN).
SummariesAreExtremes ==
  \A pp \in {"max", "min"} \cap DOMAIN written.summaries :
    \A k \in DOMAIN written.summaries[pp] :
      LET v == written.summaries[pp][k]
      IN  IF input.datatype = "int" \/ source[1][k] = NaN
          THEN v = Null
          ELSE v # Null /\ IsExtreme(pp, v, k)

-----------------------------------------------------------------------------
(* The inductive invariant: beside the properties, what the loop has done when it
   ends and where its records come from, and that attributes are not summarised.  *)

LoopIsOver ==
  outcome = "returned" /\ ~input.attributes => next > Len(Selected)

RecordsAreOfTheTried ==
  ~input.attributes /\ input.group =>
    \A i \in DOMAIN block :
      \E k \in 1 .. next - 1 : k <= Len(Selected) /\ block[i].dataset = Selected[k]

AttributesHaveNoSummaries ==
  input.attributes => written.summaries = <<>>

IInv ==
  /\ input \in Inputs
  /\ next \in Nat \ {0}
  /\ block \in Seq([key : Nat, dataset : Nat])
  /\ LoopIsOver
  /\ RecordsAreOfTheTried
  /\ OnlySelectedAreRecorded
  /\ AttributesHaveNoSummaries
  /\ KeyIsShiftedByLeftOut
  /\ SummariesAreExtremes

=============================================================================
