------------------------ MODULE MCUnsteadySimulation ------------------------
(***************************************************************************)
(* UnsteadySimulation with a job submitted up to three times: the first     *)
(* failure, a retry that meets what it stored, and one more.                *)
(***************************************************************************)
EXTENDS UnsteadySimulation

Attempts == 3

=============================================================================
