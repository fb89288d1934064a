------------------------------ MODULE MCMaster ------------------------------
(* Small values for the constants of the master's specification.           *)
EXTENDS MasterProperties

OnePhase == [s \in Signatures |-> "impl"]
=============================================================================
