----------------------------- MODULE MCHistory ------------------------------
(* Small instances of OrchestratorHistory, started as in MCOrchestrator.   *)
EXTENDS MCOrchestrator, OrchestratorHistory

MCHistoryInit == StartOnQueued /\ HistoryInit

MCHistorySpec == MCHistoryInit /\ [][HistoryNext]_allVars

MCFairSpec == MCHistorySpec /\ Fairness

=============================================================================
