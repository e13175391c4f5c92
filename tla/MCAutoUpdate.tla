----------------------------- MODULE MCAutoUpdate -----------------------------
(* A small instance of AutoUpdate: two machines, two of the builds. *)
EXTENDS AutoUpdate

MCRequests == {"MachineA", "MachineB"} \X {"Retail", "Debug"}
=============================================================================
