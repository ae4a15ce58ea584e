---------------------------- MODULE CloudPublish ----------------------------
(***************************************************************************)
(* `gitcrawl cloud publish` (internal/cli/cloud_commands.go and             *)
(* cloud_snapshot.go): a publisher freezes the archive into an image named  *)
(* by its digest, uploads the image, stages its rows batch by batch under a *)
(* mutation token, completes the snapshot with its coverage rows, moves the *)
(* readers to it and reads everything back.  Several publishers run against *)
(* one remote archive, and any of them may die or lose an answer.           *)
(*                                                                         *)
(* The remote is a service outside the repository.  It is modelled from the *)
(* answers the code handles: a request with no token that finds rows of an  *)
(* earlier attempt takes the staging over and deletes them chunk by chunk   *)
(* (reset_incomplete); a token that is not the current one is refused; a    *)
(* complete snapshot is immutable (snapshot_active); the reader projection  *)
(* may lag behind a cutover.                                                *)
(*                                                                         *)
(* A lost answer is a request whose effect happened before its publisher    *)
(* stopped (Stop).  A digest is the version of the archive it was taken     *)
(* from; a row is its data set, its position and the profile it was         *)
(* exported with.                                                           *)
(***************************************************************************)
EXTENDS Naturals, Sequences, FiniteSets, FiniteSetsExt, TLC

CONSTANTS
  Publishers,
  Contracts,      \* the feature sets a remote may advertise
  RowBytes,       \* for each data set, the encoded size of each of its rows
  BatchRows,      \* gitcrawlCloudBatchSize
  RequestBytes,   \* gitcrawlCloudIngestRequestMaxBytes, less the envelope
  Incomplete,     \* versions of the archive with incomplete enrichment
  Attempts,       \* gitcrawlCloudPostCutoverStatusAttempts
  MaxLag,         \* stale projections a run may read
  MaxVersion,     \* bound on the versions of the archive
  MaxRuns,        \* bound on the publish commands
  MaxFaults       \* bound on stopped commands and rejected rows

Features == {"publisher", "reader", "staging", "cutover", "order"}

ASSUME CloudAssumption ==
  /\ RowBytes \in Seq(Seq(Nat)) /\ RowBytes # <<>>
  /\ BatchRows \in Nat \ {0} /\ RequestBytes \in Nat
  /\ \A d \in DOMAIN RowBytes : \A i \in DOMAIN RowBytes[d] :
       RowBytes[d][i] <= RequestBytes   \* a larger row is an error: a Stop
  /\ Incomplete \subseteq Nat
  /\ Attempts \in Nat \ {0} /\ MaxLag \in Nat
  /\ MaxVersion \in Nat \ {0} /\ MaxRuns \in Nat /\ MaxFaults \in Nat
  /\ Contracts \subseteq SUBSET Features

Versions == 1..MaxVersion
Profiles == {"plain", "ordered"}
DataSets == DOMAIN RowBytes

VARIABLES
  archive,    \* version of the local archive
  contract,   \* what the remote advertises
  staged,     \* the staging area of each snapshot on the remote
  bundles,    \* snapshots whose SQLite bundle is finalized
  serving,    \* the snapshot of unpinned reads, and the run that cut it over
  pub,        \* the state of each publisher
  runs,       \* publish commands started
  faults      \* faults so far

vars == <<archive, contract, staged, bundles, serving, pub, runs, faults>>
remote == <<staged, bundles, serving>>

-----------------------------------------------------------------------------
(* What is exported, and in which requests *)

(* The rows of an image.  With --observation-order the threads and their    *)
(* revisions carry one more column, so the same image has other rows.       *)
Row == UNION {[of : Versions, set : {d}, at : 1..Len(RowBytes[d]),
               profile : Profiles] : d \in DataSets}

Image(version, profile) ==
  {r \in Row : r.of = version /\ r.profile = profile}

(* The bytes n rows of a data set need after the first `sent`, with the     *)
(* commas between them.                                                     *)
EncodedBytes(d, sent, n) ==
  MapThenSumSet(LAMBDA i : RowBytes[d][i], sent + 1 .. sent + n)
    + (IF n = 0 THEN 0 ELSE n - 1)

(* The sizes of the next request of a data set: as many rows as fit the row *)
(* and the byte bound.                                                      *)
Fitting(d, sent) ==
  {n \in 1..BatchRows : /\ sent + n <= Len(RowBytes[d])
                        /\ EncodedBytes(d, sent, n) <= RequestBytes}

BatchSize(d, sent) == Max(Fitting(d, sent) \cup {0})

Batch(version, d, sent, profile) ==
  {[of |-> version, set |-> d, at |-> i, profile |-> profile] :
     i \in sent + 1 .. sent + BatchSize(d, sent)}

-----------------------------------------------------------------------------
(* The remote and the publishers *)

Empty == [complete |-> FALSE, token |-> 0, rows |-> {},
          profile |-> "plain", generation |-> 0]

Staging == [complete : BOOLEAN, token : 0..MaxRuns, rows : SUBSET Row,
            profile : Profiles, generation : 0..MaxRuns]

Ended == {"idle", "failed", "done"}
Running == {"probe", "upload", "ingest", "drain", "complete", "recover",
            "status", "cutover", "verify", "hydrate", "output"}

RunState ==
  [pc : Ended \cup Running, version : 0..MaxVersion, profile : Profiles,
   cutover : BOOLEAN, run : 0..MaxRuns, generation : 0..MaxRuns,
   set : Nat, sent : Nat, token : 0..MaxRuns, expected : 0..MaxRuns,
   tries : 0..Attempts - 1, lag : 0..MaxLag, disturbed : BOOLEAN]

Active(p) == pub[p].pc \notin Ended

(* The options of the command, the manifest of its image, and how far it    *)
(* got: the next row, the token, the stamp of its cutover, status reads.    *)
Run(pc, version, profile, cutover, run, disturbed) ==
  [pc |-> pc, version |-> version, profile |-> profile, cutover |-> cutover,
   run |-> run, generation |-> run, set |-> 1, sent |-> 0, token |-> 0,
   expected |-> 0, tries |-> 0, lag |-> 0, disturbed |-> disturbed]

RequiredRoles == {"publisher", "reader"}

(* requireGitcrawlSnapshotPublishContract                                   *)
Required(profile, cutover) ==
  {"staging"} \cup (IF cutover THEN {"cutover"} ELSE {})
              \cup (IF profile = "ordered" THEN {"order"} ELSE {})

(* Mutant: the generation must be the publisher's own.                      *)
MatchesOwnGeneration(p) ==
  LET snapshot == staged[pub[p].version]
  IN /\ snapshot.complete /\ snapshot.profile = pub[p].profile
     /\ snapshot.generation = pub[p].generation

(* gitcrawlPublisherStatusMatches: the remote holds this image, complete,   *)
(* under the same capabilities.  Its generation may be another run's.       *)
PublisherStatusMatches(p) ==
  LET snapshot == staged[pub[p].version]
  IN snapshot.complete /\ snapshot.profile = pub[p].profile

(* gitcrawlReaderCutoverMatches: after its own cutover a run accepts only   *)
(* the stamp it was given.                                                  *)
CutoverMatches(p) == pub[p].expected \in {0, serving.run}

(* gitcrawlDatasetCoverageMatches: same image and profile, so same counts;  *)
(* the generation of the coverage rows may still be another one.            *)
CoverageMatches(p) == staged[pub[p].version].generation = pub[p].generation

(* gitcrawlReaderStatusMatches                                              *)
ReaderStatusMatches(p) ==
  /\ serving.version = pub[p].version
  /\ PublisherStatusMatches(p)
  /\ CutoverMatches(p)
  /\ CoverageMatches(p)

Goto(p, pc) == pub' = [pub EXCEPT ![p].pc = pc]

Succeeded(run) ==
  [Run("done", run.version, "plain", run.cutover, 0, FALSE)
     EXCEPT !.generation = run.generation]

Failed(run, disturbed) ==
  Run("failed", run.version, run.profile, FALSE, 0, disturbed)

Fail(p) == pub' = [pub EXCEPT ![p] = Failed(@, @.disturbed)]
Disrupt(p) == pub' = [pub EXCEPT ![p] = Failed(@, TRUE)]

-----------------------------------------------------------------------------
(* The local archive changes.                                               *)
Sync ==
  /\ archive < MaxVersion
  /\ archive' = archive + 1
  /\ UNCHANGED <<contract, remote, pub, runs, faults>>

(* vacuum into a temporary file, sanitized: what the archive holds now,     *)
(* without what is only local.  Its digest names the snapshot.              *)
FrozenImage == archive

EnrichmentComplete(version) == version \notin Incomplete

(* runCloudPublish up to the remote: the image is frozen, sanitized and     *)
(* hashed, its enrichment checked, and the contract and roles of the remote *)
(* verified.  A command that is refused here has done nothing.              *)
Freeze(p, profile, cutover, allowIncomplete) ==
  /\ ~Active(p)
  /\ runs < MaxRuns
  /\ runs' = runs + 1
  /\ EnrichmentComplete(FrozenImage) \/ allowIncomplete
  /\ Required(profile, cutover) \cup RequiredRoles \subseteq contract
  /\ LET alone == \A q \in Publishers : ~Active(q)
     IN pub' = [q \in Publishers |->
          IF q = p THEN Run("probe", FrozenImage, profile, cutover, runs + 1, ~alone)
          ELSE [pub[q] EXCEPT !.disturbed = @ \/ Active(q)]]
  /\ UNCHANGED <<archive, contract, remote, faults>>

(* The snapshot is staged under this generation; --stage-only is all but    *)
(* done.                                                                    *)
StagedAs(p, generation) ==
  pub' = [pub EXCEPT ![p] =
    [Run(IF @.cutover THEN "status" ELSE "output", @.version, @.profile,
         @.cutover, @.run, @.disturbed) EXCEPT !.generation = generation]]

AdoptGeneration(p) == StagedAs(p, staged[pub[p].version].generation)

(* PublishStatusForSnapshot finds the snapshot staged by an earlier run,    *)
(* whose generation is adopted; or it answers not found, or incomplete.     *)
Probe(p) ==
  /\ pub[p].pc = "probe"
  /\ IF PublisherStatusMatches(p) THEN AdoptGeneration(p) ELSE Goto(p, "upload")
  /\ UNCHANGED <<archive, contract, remote, runs, faults>>

(* uploadSQLiteSnapshotArchive: the bundle of the image, before its rows.   *)
Upload(p) ==
  /\ pub[p].pc = "upload"
  /\ bundles' = bundles \cup {pub[p].version}
  /\ Goto(p, "ingest")
  /\ UNCHANGED <<archive, contract, staged, serving, runs, faults>>

-----------------------------------------------------------------------------
(* Staging: sendSnapshotIngestDataset, sendIngestBatch, drainIngestReset    *)

(* The remote refuses a complete snapshot, and a token that is not current. *)
SnapshotActive(p) == staged[pub[p].version].complete
TokenRefused(p) ==
  pub[p].token # 0 /\ staged[pub[p].version].token # pub[p].token

(* A first request that finds rows of another attempt.                      *)
ResetNeeded(p) == pub[p].token = 0 /\ staged[pub[p].version].rows # {}

Refused(p) ==
  /\ pub[p].pc \in {"ingest", "drain", "complete"}
  /\ IF SnapshotActive(p) THEN Goto(p, "recover")
     ELSE TokenRefused(p) /\ Fail(p)
  /\ UNCHANGED <<archive, contract, remote, runs, faults>>

Admitted(p) == ~SnapshotActive(p) /\ ~TokenRefused(p)

(* Mutant: a request that met a reset is sent again without draining it.    *)
RetryUndrained(p) ==
  /\ pub[p].pc = "ingest"
  /\ Admitted(p) /\ ResetNeeded(p)
  /\ staged' = [staged EXCEPT ![pub[p].version].token = 0]
  /\ Goto(p, "ingest")
  /\ UNCHANGED <<archive, contract, bundles, serving, runs, faults>>

MeetReset(p) ==
  /\ pub[p].pc = "ingest"
  /\ Admitted(p) /\ ResetNeeded(p)
  /\ staged' = [staged EXCEPT ![pub[p].version].token = 0]
  /\ Goto(p, "drain")
  /\ UNCHANGED <<archive, contract, bundles, serving, runs, faults>>

(* An empty request deletes one more chunk, until nothing is left.          *)
Drain(p) ==
  /\ pub[p].pc = "drain"
  /\ Admitted(p)
  /\ LET v == pub[p].version
     IN IF staged[v].rows = {}
        THEN Goto(p, "ingest") /\ UNCHANGED staged
        ELSE /\ \E d \in DataSets :
                  /\ \E r \in staged[v].rows : r.set = d
                  /\ staged' = [staged EXCEPT ![v].token = 0,
                       ![v].rows = {r \in @ : r.set # d}]
             /\ UNCHANGED pub
  /\ UNCHANGED <<archive, contract, bundles, serving, runs, faults>>

(* The run after this batch, which goes on with the next rows of the set,    *)
(* the next set, or the coverage rows that complete the snapshot; and the    *)
(* token of its next request.                                               *)
AfterBatch(p) ==
  LET run  == [pub[p] EXCEPT !.token = pub[p].run]
      d    == run.set
      sent == run.sent + BatchSize(d, run.sent)
  IN IF sent < Len(RowBytes[d]) THEN [run EXCEPT !.sent = sent]
     ELSE IF d < Len(RowBytes) THEN [run EXCEPT !.set = d + 1, !.sent = 0]
     ELSE [run EXCEPT !.pc = "complete", !.sent = 0]

(* Mutant: the rows are read from the live archive.                         *)
LiveArchive(p) == archive

ExportSource(p) == pub[p].version

(* Each accepted request rotates the token, and the next one carries it.    *)
Ingest(p) ==
  /\ pub[p].pc = "ingest"
  /\ Admitted(p) /\ ~ResetNeeded(p)
  /\ LET v == pub[p].version
         batch == Batch(ExportSource(p), pub[p].set, pub[p].sent, pub[p].profile)
     IN staged' = [staged EXCEPT ![v].rows = @ \cup batch,
                                 ![v].token = pub[p].run]
  /\ pub' = [pub EXCEPT ![p] = AfterBatch(p)]
  /\ UNCHANGED <<archive, contract, bundles, serving, runs, faults>>

(* Mutant: the count of accepted rows is not compared with the batch.       *)
IgnoreRejectedRows(p) ==
  /\ pub[p].pc = "ingest"
  /\ Admitted(p) /\ ~ResetNeeded(p)
  /\ faults < MaxFaults /\ faults' = faults + 1
  /\ staged' = [staged EXCEPT ![pub[p].version].token = pub[p].run]
  /\ pub' = [pub EXCEPT ![p] = AfterBatch(p)]
  /\ UNCHANGED <<archive, contract, bundles, serving, runs>>

(* The remote accepts fewer rows than were sent: the run gives up.          *)
RejectRows(p) ==
  /\ pub[p].pc = "ingest"
  /\ Admitted(p) /\ ~ResetNeeded(p)
  /\ faults < MaxFaults /\ faults' = faults + 1
  /\ staged' = [staged EXCEPT ![pub[p].version].token = pub[p].run]
  /\ Disrupt(p)
  /\ UNCHANGED <<archive, contract, bundles, serving, runs>>

(* completeGitcrawlSnapshotStaging: the coverage rows name the generation,  *)
(* and the last of them completes the snapshot.                             *)
Complete(p) ==
  /\ pub[p].pc = "complete"
  /\ Admitted(p)
  /\ staged' = [staged EXCEPT ![pub[p].version] =
       [@ EXCEPT !.complete = TRUE, !.token = 0, !.profile = pub[p].profile,
                 !.generation = pub[p].generation]]
  /\ StagedAs(p, pub[p].generation)
  /\ UNCHANGED <<archive, contract, bundles, serving, runs, faults>>

(* recoverConcurrentGitcrawlSnapshot: only the same image, completed by     *)
(* another run under the same capabilities, is taken as this run's work.    *)
Recover(p) ==
  /\ pub[p].pc = "recover"
  /\ IF PublisherStatusMatches(p) THEN AdoptGeneration(p) ELSE Fail(p)
  /\ UNCHANGED <<archive, contract, remote, runs, faults>>

-----------------------------------------------------------------------------
(* Cutover and verification *)

(* What Status answers: the projection, or one that lags behind it.         *)
ReadStatus(p) ==
  /\ pub[p].pc = "status"
  /\ \/ /\ ReaderStatusMatches(p)
        /\ Goto(p, "verify")
     \/ /\ ReaderStatusMatches(p) => pub[p].lag < MaxLag
        /\ pub' = [pub EXCEPT ![p].pc = "cutover",
                              ![p].lag = @ + (IF ReaderStatusMatches(p) THEN 1 ELSE 0)]
  /\ UNCHANGED <<archive, contract, remote, runs, faults>>

CutOver(p) ==
  /\ pub[p].pc = "cutover"
  /\ PublisherStatusMatches(p)
  /\ serving' = [version |-> pub[p].version, run |-> pub[p].run]
  /\ pub' = [pub EXCEPT ![p].pc = "verify", ![p].expected = pub[p].run]
  /\ UNCHANGED <<archive, contract, staged, bundles, runs, faults>>

(* Mutant: the status is read until it matches.                             *)
NeverGivesUp(p) == TRUE

AttemptsLeft(p) == pub[p].tries + 1 < Attempts

(* verifyGitcrawlReaderProjectionWithRetry                                  *)
VerifyReader(p) ==
  /\ pub[p].pc = "verify"
  /\ \/ /\ ReaderStatusMatches(p)
        /\ Goto(p, "hydrate")
     \/ /\ ReaderStatusMatches(p) => pub[p].lag < MaxLag
        /\ IF AttemptsLeft(p)
           THEN pub' = [pub EXCEPT ![p].tries = @ + 1,
                  ![p].lag = @ + (IF ReaderStatusMatches(p) THEN 1 ELSE 0)]
           ELSE Fail(p)
  /\ UNCHANGED <<archive, contract, remote, runs, faults>>

(* The image downloaded is the one that is served when it is asked for.     *)
DigestMatches(p) == serving.version = pub[p].version /\ serving.version \in bundles

(* The publisher status once more, and the downloaded image.                *)
Hydrated(p) ==
  /\ PublisherStatusMatches(p)
  /\ CoverageMatches(p)
  /\ DigestMatches(p)

Hydrate(p) ==
  /\ pub[p].pc = "hydrate"
  /\ pub' = [pub EXCEPT ![p] =
       IF Hydrated(p) THEN Succeeded(@) ELSE Failed(@, @.disturbed)]
  /\ UNCHANGED <<archive, contract, remote, runs, faults>>

Output(p) ==
  /\ pub[p].pc = "output"
  /\ pub' = [pub EXCEPT ![p] = Succeeded(@)]
  /\ UNCHANGED <<archive, contract, remote, runs, faults>>

(* The process is killed, or a request fails, or its answer is lost.        *)
Stop(p) ==
  /\ Active(p)
  /\ faults < MaxFaults /\ faults' = faults + 1
  /\ Disrupt(p)
  /\ UNCHANGED <<archive, contract, remote, runs>>

-----------------------------------------------------------------------------
Init ==
  /\ archive = 1
  /\ contract \in Contracts
  /\ staged = [v \in Versions |-> Empty]
  /\ bundles = {}
  /\ serving = [version |-> 0, run |-> 0]
  /\ pub = [p \in Publishers |-> Run("idle", 0, "plain", FALSE, 0, FALSE)]
  /\ runs = 0 /\ faults = 0

(* What a publisher does by itself once its command runs.                   *)
Step(p) ==
  \/ Probe(p) \/ Upload(p) \/ Refused(p) \/ MeetReset(p) \/ Drain(p)
  \/ Ingest(p) \/ Complete(p) \/ Recover(p)
  \/ ReadStatus(p) \/ CutOver(p) \/ VerifyReader(p) \/ Hydrate(p)
  \/ Output(p)

Next ==
  \/ Sync
  \/ \E p \in Publishers :
       \/ \E profile \in Profiles, cutover \in BOOLEAN, allow \in BOOLEAN :
            Freeze(p, profile, cutover, allow)
       \/ Step(p) \/ RejectRows(p) \/ Stop(p)

Spec == Init /\ [][Next]_vars

(* A command that was started goes on: it waits for answers, which come.    *)
FairSpec == Spec /\ \A p \in Publishers : WF_vars(Step(p))

-----------------------------------------------------------------------------
(* Properties *)

TypeOK ==
  /\ archive \in Versions /\ contract \in SUBSET Features
  /\ staged \in [Versions -> Staging]
  /\ bundles \subseteq Versions
  /\ serving \in [version : 0..MaxVersion, run : 0..MaxRuns]
  /\ pub \in [Publishers -> RunState]
  /\ runs \in 0..MaxRuns /\ faults \in 0..MaxFaults

(* The publishers and the remote keep the promise of SnapshotArchive: a     *)
(* snapshot becomes complete once, whole and downloadable, readers move     *)
(* only between complete snapshots, and a command that succeeds names the   *)
(* generation that is staged and, with a cutover, has seen its own image    *)
(* served.                                                                  *)
NotStaged == [profile |-> "none", generation |-> 0, rows |-> {}, hydrates |-> FALSE]
NoReport  == [how |-> "none", snapshot |-> 0, generation |-> 0]

Catalog ==
  [v \in Versions |->
     IF staged[v].complete
     THEN [profile |-> staged[v].profile, generation |-> staged[v].generation,
           rows |-> staged[v].rows, hydrates |-> v \in bundles]
     ELSE NotStaged]

Reports ==
  [p \in Publishers |->
     IF pub[p].pc = "done"
     THEN [how |-> IF pub[p].cutover THEN "published" ELSE "staged",
           snapshot |-> pub[p].version, generation |-> pub[p].generation]
     ELSE NoReport]

Promise ==
  INSTANCE SnapshotArchive WITH
    Snapshots <- Versions, Generations <- 1..MaxRuns, NothingServed <- 0,
    catalog <- Catalog, report <- Reports, served <- serving.version

PublicationKeepsPromise == Promise!Spec

(* A run that no other run overlapped and that met no fault succeeds,       *)
(* whatever the runs before it left behind, unless the same image was       *)
(* staged under other capabilities.                                         *)
FailureHasCause ==
  \A p \in Publishers : pub[p].pc = "failed" =>
    \/ pub[p].disturbed
    \/ LET snapshot == staged[pub[p].version]
       IN snapshot.complete /\ snapshot.profile # pub[p].profile

(* Every command ends, also when publishers reset each other's staging: all *)
(* publishers are at rest again and again.                                  *)
EveryRunEnds == []<>(\A p \in Publishers : ~Active(p))

=============================================================================
