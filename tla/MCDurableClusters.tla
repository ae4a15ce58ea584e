------------------------ MODULE MCDurableClusters ------------------------
(* Small instances of DurableClusters for TLC.                             *)
EXTENDS DurableClusters, TLC

CONSTANTS r1, r2

ThreeThreads == 1..3
TwoRunners   == {r1, r2}

Symmetry == Permutations(Runners)

=============================================================================
