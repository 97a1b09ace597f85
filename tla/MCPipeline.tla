----------------------------- MODULE MCPipeline -----------------------------
(***************************************************************************)
(* Pipeline with a job submitted up to twice, which extracts twice: before  *)
(* and after the simulation, or both times after it.                        *)
(***************************************************************************)
EXTENDS Pipeline

MCBlocks == {"data", "breach_records"}

MCOrders == {
  <<"stage", "simulate", "extract", "extract">>,
  <<"stage", "extract", "simulate", "extract">>,
  <<"stage", "simulate">>}

Data(accumulate) ==
  [kind |-> "data", block |-> "data", format |-> "json",
   accumulate |-> accumulate, dest |-> TRUE]

Attribute == [Data(FALSE) EXCEPT !.kind = "attribute"]

Breach == [Data(FALSE) EXCEPT !.kind = "breach", !.block = "breach_records"]

MCExtracts ==
  {Data(TRUE), Data(FALSE), Breach} \X {Data(FALSE), Attribute, Breach}

MCConfigs ==
  {[attributes |-> TRUE, geomPreproc |-> g, planFile |-> p, resultsDs |-> r, logDs |-> l] :
     g \in {"absent", "true"}, p \in {"created", "copied"}, r \in BOOLEAN, l \in BOOLEAN}

Manifest(c, order, first, second) ==
  LET places == Places(order, "extract")
  IN  [cfg |-> c, order |-> order,
       extracts |-> [n \in places |-> IF \E k \in places : k < n THEN second ELSE first]]

MCManifests ==
  {Manifest(c, order, e[1], e[2]) : c \in MCConfigs, order \in MCOrders, e \in MCExtracts}

=============================================================================
