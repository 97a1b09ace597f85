------------------------- MODULE ExtractAccumulator -------------------------
(***************************************************************************)
(* The extract actions of a manifest and the accumulator they share         *)
(* (actions/extract/hdf): ras-extract of data or attributes, which collects *)
(* records and may flush them, and ras-breach-extract, which collects and   *)
(* flushes.  Each action is one Run handler; the plugin manager runs them   *)
(* one after the other and stops at the first that fails.                   *)
(*                                                                          *)
(* A record stands for one output block (a dataset, an attribute list, a    *)
(* breach record): the action and the dataset it comes from tell it apart   *)
(* from every other.  An upload may fail with or without having stored the  *)
(* document.                                                                *)
(***************************************************************************)
EXTENDS Naturals, Sequences, SequencesExt

CONSTANTS
  Blocks,        \* the block names a manifest uses
  BreachBlock,   \* the one ras-breach-extract uses, "breach_records"
  MaxActions,    \* bound on the actions of a manifest
  MaxDatasets    \* bound on the datasets of one extraction

ASSUME BlocksAssumption == BreachBlock \in Blocks
ASSUME BoundsAssumption == MaxActions \in Nat /\ MaxDatasets \in Nat \ {0}

VARIABLES
  acc,        \* writerAccumulator: the records waiting under each block name
  ran,        \* the number of actions run
  status,     \* how the last action ended
  produced,   \* history: every record an action wrote to the accumulator
  delivered   \* history: the documents stored, in order

vars == <<acc, ran, status, produced, delivered>>

-----------------------------------------------------------------------------
Kinds == {"data", "attribute", "breach"}

\* An action: the attributes that decide what it does, and the datasets it meets,
\* TRUE for one that can be extracted.
Actions ==
  [kind      : Kinds,
   block     : Blocks,
   format    : {"json", "console", "invalid"},
   accumulate: BOOLEAN,    \* accumulate-results
   dest      : BOOLEAN,    \* outputDataSource is given
   datasets  : BoundedSeq(BOOLEAN, MaxDatasets)]

Records ==
  [by: 1 .. MaxActions, ds: 1 .. MaxDatasets, kind: Kinds, block: Blocks]

Accumulators == [Blocks -> Seq(Records)]
EmptyAccumulator == [b \in Blocks |-> <<>>]

TypeOK ==
  /\ acc \in Accumulators
  /\ ran \in 0 .. MaxActions
  /\ status \in {"ok", "error"}
  /\ produced \subseteq Records
  /\ delivered \in Seq([kind: Kinds, doc: Accumulators])

Init ==
  /\ acc = EmptyAccumulator
  /\ ran = 0
  /\ status = "ok"
  /\ produced = {}
  /\ delivered = <<>>

-----------------------------------------------------------------------------
\* The plugin manager runs the next action of the manifest unless one failed.
Starts ==
  /\ status = "ok"
  /\ ran < MaxActions
  /\ ran' = ran + 1

\* mutant: datasets are numbered from zero
RecordsOf_FromZero(a) ==
  [d \in DOMAIN a.datasets |->
     [by |-> ran + 1, ds |-> d - 1, kind |-> a.kind, block |-> a.block]]

\* The records of the datasets action a can extract, one after the other; a failure
\* is only logged.
RecordsOf(a) ==
  LET Record(d) == [by |-> ran + 1, ds |-> d, kind |-> a.kind, block |-> a.block]
      upTo[d \in 0 .. Len(a.datasets)] ==
        IF d = 0 THEN <<>>
        ELSE IF a.datasets[d] THEN Append(upTo[d - 1], Record(d))
        ELSE upTo[d - 1]
  IN  upTo[Len(a.datasets)]

\* mutant: the block is replaced
Appended_Replace(a, records) == [acc EXCEPT ![a.block] = records]

\* The writers of data and breach records append to the block.
Appended(a, records) == [acc EXCEPT ![a.block] = @ \o records]

\* The writer of attributes replaces the block.
Replaced(a, records) == [acc EXCEPT ![a.block] = records]

Produce(records) == produced' = produced \cup ToSet(records)

\* The accumulator as it is in "full" is stored; the upload may still report an
\* error.
Deliver(a, full) ==
  /\ delivered' = Append(delivered, [kind |-> a.kind, doc |-> full])
  /\ status' \in {"ok", "error"}

\* mutant: the error of the upload is dropped
NotDelivered_Silent == status' = "ok" /\ UNCHANGED delivered

NotDelivered == status' = "error" /\ UNCHANGED delivered

\* mutant: the accumulator is not reset
KeepOrFlush_NoReset(a, full) ==
  \/ /\ a.accumulate
     /\ acc' = full
     /\ status' = "ok"
     /\ UNCHANGED delivered
  \/ /\ ~a.accumulate
     /\ acc' = full
     /\ NotDelivered \/ (a.dest /\ Deliver(a, full))

\* The end of RasExtractAction.Run: keep the records, or send the accumulator and
\* start it anew, whether the upload worked or not.
KeepOrFlush(a, full) ==
  \/ /\ a.accumulate
     /\ acc' = full
     /\ status' = "ok"
     /\ UNCHANGED delivered
  \/ \* the document cannot be marshalled (a value is infinite), or there is no
     \* outputDataSource, which ends the process
     /\ ~a.accumulate
     /\ acc' = full
     /\ NotDelivered
  \/ /\ ~a.accumulate
     /\ a.dest
     /\ acc' = EmptyAccumulator
     /\ NotDelivered \/ Deliver(a, full)

-----------------------------------------------------------------------------
\* ras-extract of datasets.  Only the json writer writes to the accumulator; an
\* unknown format fails in RunExtract, where DataExtract logs it and goes on.
DataExtract(a) ==
  LET records == IF a.format = "json" THEN RecordsOf(a) ELSE <<>>
  IN  /\ a.kind = "data"
      /\ Starts
      /\ Produce(records)
      /\ KeepOrFlush(a, Appended(a, records))

\* ras-extract with attributes=true: one record, always for json.
AttributeExtract(a) ==
  LET records == RecordsOf(a)
  IN  /\ a.kind = "attribute"
      /\ a.format = "json"
      /\ a.datasets = <<TRUE>>
      /\ Starts
      /\ Produce(records)
      /\ KeepOrFlush(a, Replaced(a, records))

\* ras-extract with an attributepath, which is printed.
AttributePath(a) ==
  /\ a.kind = "attribute"
  /\ a.format = "json"
  /\ a.datasets = <<>>
  /\ Starts
  /\ status' = "ok"
  /\ UNCHANGED <<acc, produced, delivered>>

\* mutant: the accumulator is reset, as ras-extract does
BreachExtract_Reset(a) ==
  LET full == Appended(a, RecordsOf(a))
  IN  /\ a.kind = "breach"
      /\ a.format = "json"
      /\ a.block = BreachBlock
      /\ Starts
      /\ Produce(RecordsOf(a))
      /\ acc' = EmptyAccumulator
      /\ NotDelivered \/ (a.dest /\ Deliver(a, full))

\* ras-breach-extract: one record per connection with breach data, always sent,
\* and the accumulator is kept.
BreachExtract(a) ==
  LET full == Appended(a, RecordsOf(a))
  IN  /\ a.kind = "breach"
      /\ a.format = "json"
      /\ a.block = BreachBlock
      /\ Starts
      /\ Produce(RecordsOf(a))
      /\ acc' = full
      /\ NotDelivered \/ (a.dest /\ Deliver(a, full))

\* The plan file, the group or the flow areas cannot be read, or the data type is
\* unknown: the action ends before it writes anything.
NotReadable(a) ==
  /\ a.datasets = <<>>
  /\ a.format = "json"
  /\ Starts
  /\ status' = "error"
  /\ UNCHANGED <<acc, produced, delivered>>

Next ==
  \E a \in Actions :
    \/ DataExtract(a) \/ AttributeExtract(a) \/ AttributePath(a)
    \/ BreachExtract(a) \/ NotReadable(a)

Spec == Init /\ [][Next]_vars

-----------------------------------------------------------------------------
(* Properties the code has. *)

RecordsIn(doc) == UNION {ToSet(doc[b]) : b \in Blocks}

Sent == UNION {RecordsIn(delivered[i].doc) : i \in DOMAIN delivered}

\* A later attribute extraction took the block of record r over.
TakenOver(r) ==
  \E q \in produced : q.kind = "attribute" /\ q.block = r.block /\ q.by > r.by

\* Until an action fails, every record an action wrote is still waiting, was sent,
\* or had its block taken over by a later attribute extraction: neither the reset
\* after a flush nor an append loses anything else.
NothingElseIsLost ==
  status = "ok" =>
    \A r \in produced : r \in RecordsIn(acc) \/ r \in Sent \/ TakenOver(r)

\* The documents from i to j are followed by one with "records".
Follows(i, j, records) ==
  IF \A k \in i .. j : delivered[k].kind = "breach"
  THEN \A r \in RecordsIn(delivered[i].doc) : r \in records \/ TakenOver(r)
  ELSE RecordsIn(delivered[i].doc) \cap records = {}

\* A record is sent again just by the flushes that follow a breach extraction with
\* no ras-extract flush between: ras-extract resets the accumulator,
\* ras-breach-extract does not.  The document after one of a breach extraction
\* repeats all of it but what attribute extractions took over, so that a second
\* flush to the same place loses nothing then.
RepeatedOnlyAfterBreach ==
  \A i, j \in DOMAIN delivered : i < j => Follows(i, j - 1, RecordsIn(delivered[j].doc))

Before(r, q) == r.by < q.by \/ (r.by = q.by /\ r.ds < q.ds)

InOrder(doc) ==
  \A b \in Blocks : \A i, j \in DOMAIN doc[b] :
    i < j => Before(doc[b][i], doc[b][j])

\* In every block, waiting or sent, records are in the order of the manifest and of
\* the datasets, each at most once.
BlocksAreInOrder ==
  InOrder(acc) /\ \A i \in DOMAIN delivered : InOrder(delivered[i].doc)

\* Every manifest gets an outbox: what ras-extract sends is the current and all
\* accumulated records, and is never sent again; what ras-breach-extract sends is
\* too, and goes on waiting, so that the next document has it again; an attribute
\* extraction, and nothing else, takes the place of records that wait
\* (RasExtractAction.Run, RasBreachExtractAction.Run and the writers).
Out == INSTANCE Outbox WITH
  Lists <- {r \in Records : r.kind = "attribute"},
  waiting <- RecordsIn(acc),
  documents <- [i \in DOMAIN delivered |->
                  [keeps   |-> delivered[i].kind = "breach",
                   records |-> RecordsIn(delivered[i].doc)]],
  broken <- status = "error"

ImplementsOutbox == Out!Spec

-----------------------------------------------------------------------------
(* The inductive invariant the properties follow from. *)

\* What waits is under its block name, and of an action that has run.
WaitsInItsBlock ==
  \A b \in Blocks : \A i \in DOMAIN acc[b] : acc[b][i].block = b /\ acc[b][i].by <= ran

\* What was sent is of an action that has run.
SentIsOfThePast ==
  \A i \in DOMAIN delivered : \A r \in RecordsIn(delivered[i].doc) : r.by <= ran

\* A document made of what waits would follow those that were sent.
WaitingFollows ==
  status = "ok" =>
    \A i \in DOMAIN delivered : Follows(i, Len(delivered), RecordsIn(acc))

IInv ==
  /\ TypeOK
  /\ WaitsInItsBlock
  /\ SentIsOfThePast
  /\ WaitingFollows
  /\ NothingElseIsLost
  /\ RepeatedOnlyAfterBreach
  /\ BlocksAreInOrder

=============================================================================
