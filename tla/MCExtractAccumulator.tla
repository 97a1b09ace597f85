------------------------ MODULE MCExtractAccumulator ------------------------
(***************************************************************************)
(* ExtractAccumulator with two block names, one of them the breach block,   *)
(* and manifests of three actions: one collects, one flushes, and one meets *)
(* what the flush left.                                                     *)
(***************************************************************************)
EXTENDS ExtractAccumulator

MCBlocks == {"breach_records", "peaks"}
MCBreachBlock == "breach_records"
=============================================================================
