-------------------------- MODULE SnapshotArchive --------------------------
(***************************************************************************)
(* What `gitcrawl cloud publish` promises its readers: the remote archive   *)
(* holds whole, immutable snapshots named by the digest of the image they   *)
(* were exported from, readers are moved from one to the next in one step,  *)
(* and a publisher reports only what it could read back.  CloudPublish      *)
(* shows how the publishers and the remote keep this promise.               *)
(***************************************************************************)
CONSTANTS
  Publishers,   \* who may report a publication
  Snapshots,    \* digests
  Profiles,     \* capabilities a snapshot is published with
  Image(_, _),  \* the rows exported from a snapshot's image under a profile
  Generations,  \* when the rows were exported
  NotStaged,    \* no such snapshot
  NothingServed, \* before the first cutover
  NoReport      \* of a publisher whose command has not succeeded

VARIABLES
  catalog,      \* the complete snapshots
  served,       \* the snapshot unpinned readers see
  report        \* what each publisher reported last

archiveVars == <<catalog, served, report>>

Init ==
  /\ catalog = [s \in Snapshots |-> NotStaged]
  /\ served = NothingServed
  /\ report = [p \in Publishers |-> NoReport]

(* A snapshot becomes complete once, with exactly the rows of its image.    *)
Stage(s) ==
  /\ catalog[s] = NotStaged
  /\ \E profile \in Profiles, generation \in Generations :
       catalog' = [catalog EXCEPT ![s] =
         [profile |-> profile, generation |-> generation,
          rows |-> Image(s, profile), hydrates |-> TRUE]]
  /\ UNCHANGED <<served, report>>

CutOver(s) ==
  /\ catalog[s] # NotStaged
  /\ served' = s
  /\ UNCHANGED <<catalog, report>>

(* A publisher that moved the readers saw its snapshot served when it read  *)
(* it back, and every report names the generation that was staged.          *)
Report(p) ==
  /\ \E s \in Snapshots, how \in {"staged", "published"} :
       /\ catalog[s] # NotStaged
       /\ how = "published" => served = s
       /\ report' = [report EXCEPT ![p] =
            [how |-> how, snapshot |-> s, generation |-> catalog[s].generation]]
  /\ UNCHANGED <<catalog, served>>

Withdraw(p) ==
  /\ report' = [report EXCEPT ![p] = NoReport]
  /\ UNCHANGED <<catalog, served>>

Next ==
  \/ \E s \in Snapshots : Stage(s) \/ CutOver(s)
  \/ \E p \in Publishers : Report(p) \/ Withdraw(p)

Spec == Init /\ [][Next]_archiveVars
=============================================================================
