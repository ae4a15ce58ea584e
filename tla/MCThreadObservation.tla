----------------------- MODULE MCThreadObservation -----------------------
(* Small instances of ThreadObservation for TLC.                           *)
EXTENDS ThreadObservation, TLC

CONSTANTS t1, s1, s2, r1, r2, blank

OneThread  == {t1}
TwoSyncers == {s1, s2}
TwoRows    == {r1, r2}
SecondRow  == {r2}
BlankOnly  == {blank}

CompleteOptions == {Families}
PullOptions     == {{}, {"details"}, Families}

SyncerSymmetry == Permutations(Syncers)

=============================================================================
