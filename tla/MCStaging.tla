------------------------------ MODULE MCStaging ------------------------------
(***************************************************************************)
(* Staging with a model of four files, of which the b-file is an input of   *)
(* two data sources, and two of one of them, and the plan file is created,  *)
(* or is an input too; every order of two actions, and the documented       *)
(* manifests; two runs.                                                     *)
(***************************************************************************)
EXTENDS Staging

MCFiles == {"plan", "tmp", "b", "dss", "rasoutput"}
MCOutputs == <<"dss", "tmp", "b", "rasoutput">>
MCReserved == {"tmp", "rasoutput"}

Path(base, parts) == [base |-> base, parts |-> parts]

\* The plan file has all groups, or lacks the last; two b-files differ in "parts".
MCInputs == {
  <<{Path("plan", 4), Path("b", 0)}, {Path("b", 1)}>>,
  <<{Path("plan", 2), Path("b", 0), Path("b", 1)}>>,
  <<{Path("plan", 4)}, {Path("tmp", 4)}>>,
  <<{Path("plan", 3), Path("tmp", 0)}>>,
  <<>>}

Documented == {
  <<"copy-inputs", "create-ras-tmp", "unsteady-simulation", "post-outputs">>,
  <<"copy-inputs", "unsteady-simulation", "post-outputs">>,
  <<"copy-inputs", "create-ras-tmp", "copy-inputs", "create-ras-tmp">>}

MCManifests ==
  [actions: Documented \cup (Actions \X Actions),
   inputs: MCInputs,
   remote: {"no", "named", "unnamed"}]

=============================================================================
