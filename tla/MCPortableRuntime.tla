------------------------ MODULE MCPortableRuntime -------------------------
(* Small instances of PortableRuntime for TLC.                             *)
EXTENDS PortableRuntime, TLC

CONSTANTS p1, p2

OneProcess   == {p1}
TwoProcesses == {p1, p2}

Symmetry == Permutations(Procs)

=============================================================================
