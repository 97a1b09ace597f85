--------------------------- MODULE MCRasExtractor ---------------------------
(***************************************************************************)
(* RasExtractor for groups of up to three members under any two patterns,   *)
(* for single datasets of up to three rows or two columns, with any missing *)
(* values, and for two attributes.                                          *)
(***************************************************************************)
EXTENDS RasExtractor

PatternsOf(n) == SUBSET (1 .. n) \cup {NoPattern, BadPattern}

Numbers(datatype) == -1 .. 1 \cup (IF datatype = "float" THEN {NaN} ELSE {})

Rows(datatype, columns) == [1 .. columns -> Numbers(datatype)]

Matrices(datatype) ==
  BoundedSeq(Rows(datatype, 1), 3) \cup BoundedSeq(Rows(datatype, 2), 2)

\* Any of two attributes, each with any value.
AttributeSets ==
  UNION {[names -> {1, NaN, Unreadable}] : names \in SUBSET {"Solution", "Time"}}

Plain ==
  [group |-> TRUE, attributes |-> FALSE, members |-> 1, match |-> NoPattern,
   exclude |-> NoPattern, coldata |-> TRUE, colnames |-> {}, datatype |-> "float",
   writer |-> "json", writeData |-> TRUE, writeSummary |-> TRUE,
   postprocess |-> {"max", "min"}, contents |-> {<<>>, <<<<0>>>>}]

GroupInputs ==
  {[Plain EXCEPT !.members = n, !.match = m, !.exclude = x, !.writer = w, !.coldata = c] :
     n \in 0 .. 3, m \in PatternsOf(3), x \in PatternsOf(3),
     w \in {"json", "console", "invalid"}, c \in BOOLEAN}

DatasetInputs ==
  UNION {{[Plain EXCEPT !.group = FALSE, !.datatype = t, !.writeData = d,
                        !.writeSummary = s, !.postprocess = p, !.contents = Matrices(t)] :
            d \in BOOLEAN, s \in BOOLEAN,
            p \in SUBSET {"max", "min", "mean"}} : t \in {"float", "int"}}

AttributeInputs ==
  {[Plain EXCEPT !.attributes = TRUE, !.group = FALSE, !.colnames = a,
                 !.contents = AttributeSets] :
     a \in SUBSET {"Solution", "Time"}}

MCInputs == GroupInputs \cup DatasetInputs \cup AttributeInputs

=============================================================================
