---------------------------- MODULE MCCosmosSync ----------------------------
(***************************************************************************)
(* The logs on the watch for the runs of CosmosSync, and the symmetry of   *)
(* the doSync threads, which only safety runs use.                         *)
(***************************************************************************)
EXTENDS CosmosSync, TLC

OneLog   == [f \in Sn |-> IF f = 1 THEN 2 ELSE 0]
TwoLogs  == [f \in Sn |-> CASE f = 1 -> 1 [] f = 2 -> 2 [] OTHER -> 0]
FullCard == [f \in Sn |-> CASE f = 0 -> 0 [] f = 1 -> 2 [] OTHER -> 1]

SyncerSymmetry == Permutations(Syncers)
=============================================================================
