----------------------- MODULE MCWorkflowSnapshots -----------------------
(* Small instances of WorkflowSnapshots for TLC.                           *)
EXTENDS WorkflowSnapshots

CONSTANTS w1, w2, s1, s2, blank

TwoRuns    == {w1, w2}
TwoSyncers == {s1, s2}
BlankOnly  == {blank}

Symmetry == Permutations(Runs) \cup Permutations(Syncers)

=============================================================================
