# gitcrawl: verification project

gitcrawl keeps a local SQLite archive of the issues and pull requests of GitHub
repositories, enriches it (documents, revisions, fingerprints, summaries,
embeddings, clusters), lets a maintainer govern the result, and publishes or
reads it as a Git-backed *portable store* or through a cloud service. There is
no server and no lock manager: every command is a process of its own, and any
number of them may work on the same archive, the same checkout, the same mirror
and the same GitHub token at once.

This directory models the parts where that matters in TLA+, checks them with TLC
on small instances, and proves the central safety properties with TLAPS for
every value of the constants. Every definition that stands for code is listed
with its lines in `PROJECT.json` under `map`; the map covers about a third of
the implementation's lines.

Contents: [inventory](#inventory), [modules](#modules),
[runs](#runs-what-is-checked-and-what-it-shows), [fairness](#fairness),
[proofs](#proofs), [disagreements](#where-the-code-and-its-documents-disagree),
[abstractions](#abstractions), [not modelled](#not-modelled), [plan](#plan),
[running](#running).

## Inventory

The state, the operations and the hard behaviour of each part (sources relative
to `src/internal`). The last column names the module.

| Part | State | Operations | What is hard | Module |
|---|---|---|---|---|
| Observation order (`store/observation_order.go`) | none | compare a source clock and a generation with the stored ones | blank, malformed and equal clocks, legacy rows without a generation | `ObservationOrder` |
| Sync (`syncer/syncer.go`, `store/threads.go`, `thread_observation.go`, `thread_enrichment.go`, `sync_failures.go`) | threads, evidence fence, child reservations, comments, details, revisions, documents, failure ledger, the generation counter | list, fetch children, take a generation, persist everything in one transaction; record a failed fetch | several syncs read GitHub while it changes and commit in any order | `ThreadObservation` |
| Workflow runs (`syncer/pull_details.go`, `store/workflow_snapshots.go`) | the runs of a head and the reservation of their snapshot | list, compare with the stored snapshot, look up missing and reappearing runs, merge sibling pull requests, compare-and-replace | the stored snapshot is read before the lookups and replaced after them; deletions must not be undone by old lists | `WorkflowSnapshots` |
| Durable clusters (`store/clusters.go`, `cluster/build.go`, `cli/app.go`) | groups, memberships, closures, overrides | complete and partial clustering runs; close, reopen, exclude, include, pin | clusters are computed from what was read long before they are saved; identity depends on the representative a run picked | `DurableClusters` |
| Portable runtime (`cli/runtime.go`) | Git checkout, its `index.lock`, refresh lock file, state file with health stamps, the mirror | refresh, repair, reclone, verified copy, open | several processes with nothing but lock files; `SIGKILL`ed merges, crashed processes, checks cached by file times | `PortableRuntime` |
| Cloud publication (`cli/cloud_commands.go`, `cloud_snapshot.go`) | the remote's staged and serving snapshots | freeze, stage in batches, reset, complete, cut over, read back | two publishers of one archive, lost answers, resets that take several calls, a projection that lags | `SnapshotArchive`, `CloudPublish` |
| Embeddings (`cli/app.go`, `store/embedding_tasks.go`, `vectors.go`) | vectors with the hash of their text, the runs' records | `embed`, `cluster`, `refresh`, `neighbors` | results stored minutes after their text was read; coverage counted in several statements; a queue with retries | `EmbeddingRuns` |
| Cluster browser (`cli/tui.go`) | a copy of the list, detail and neighbors, the selection, open menus | keys, wheel, ticks, jump, filters, confirmed local actions, repository switch, background refresh | answers, timers and ticks arrive after the screen moved on; the file below is replaced | `ClusterBrowser` |
| Schema (`store/store.go`, `schema_*.go`), portable prune (`store/portable.go`) | tables, triggers, convergence mark, generation counter | `Open`'s migrations statement by statement; syncs and prunes beside them | several processes open the same old archive; killed between two statements; a mark that lets later opens skip the inspection | `ArchiveSchema` |
| GitHub client (`github/client.go`) | rate-limit snapshots | guarded request, retry once after a 403 or 429, refusal at the reserve | other clients and programs on the token, a window that ends meanwhile | `TokenReserve` |
| Filling of details (`cli/app.go`, `store/pull_request_fill.go`) | which pull requests have details | select, fetch a batch, stop at the reserve, persist, resume | batches discarded by refusals, errors and each other | `DetailFill` |
| Key summaries (`store/summary_tasks.go`, `cli/summarize.go`, `openai/`) | summaries of revisions | a worker pool with one consumer | a failed store must not leave workers blocked | [not modelled](#not-modelled) |
| gh-compatible search (`cli/gh_search.go`, `gh_rate_limit.go`) | a rate-limit file | search, sync when stale | several stale readers start syncs at once | not modelled |
| Store transactions (`store/store.go`) | the connection | one transaction, retried when busy | closures run again from the start | taken as one step |
| Archive coverage, search, documents, code index, configuration, command line, remote reader, doctor | | reports, parsing, presentation | little or no state that changes | not modelled |

How they interact: `sync` writes the tables that `cluster`, `embed` and
`summarize` read outside any transaction and write back later; governance
commands, also those confirmed in the browser, change rows those runs are about
to save; `fill-pr-details` is a sync driven by the token's quota; publication
freezes a copy of the database; readers of a portable store copy it again behind
a manifest, and the browser copies the copy into memory; every one of them goes
through `Open`, whose migrations run beside the others' commands. The
interaction is always the same: *read, leave the transaction, work, come back*.
What makes it correct is a fence that the way back is checked against: a
generation, a reservation, a snapshot, an override, a manifest, a mutation
token, the hash of a text. The properties below are about those fences.

What makes each modelled part correct, in a sentence:

- **Sync**: an observation that is older (by GitHub's clock, then by generation)
  never replaces a newer one; a sync that saw the newest state always lands; no
  tie makes a whole transaction fail; documents and fresh revisions describe the
  stored rows.
- **Workflow runs**: a run leaves the archive only when GitHub deleted it; a run
  verified as deleted is not brought back by an older list; clocks never regress.
- **Clusters**: maintainers' decisions outlive every clustering run; partial runs
  leave alone what they did not see; complete runs partition.
- **Portable runtime**: the mirror is never a torn or mismatched database;
  readers are answered; the mirror becomes current.
- **Publication**: what readers are served is always one whole frozen image; a
  command reports only what it read back; an undisturbed command succeeds.
- **Embeddings**: clusters come from texts the threads had while the command ran,
  and so does the target of a search for neighbors (not what it is ranked
  against); coverage retires nothing that is open; no selected row is lost
  without being counted.
- **Browser**: all of the screen comes from one store; the selection stays where
  the user put it; a confirmed action hits what its menu named.
- **Schema**: every `Open` converges in one pass, forgets no fence, and hands out
  generations nobody used.
- **Token**: guarded clients leave the reserve but for requests already on their
  way; every pull request is filled in the end.

The complete list of hazards, each with its line and the properties that would
catch it, is in `PROJECT.json`.

## Modules

Each component has a module, and an `MC…` module with the sets its
configurations use. `…Proofs` modules hold theorems and lemmas.

    ObservationOrder ──┬─ ThreadObservation ── SyncProofs
                       ├─ WorkflowSnapshots ── WorkflowSnapshotsProofs
                       └─ ArchiveSchema ────── ArchiveSchemaProofs
    TokenReserve ──────── DetailFill ───────── SyncProofs
    SnapshotArchive ◁──── CloudPublish ─────── CloudPublishProofs
                          (refinement: INSTANCE … WITH)
    PortableRuntime ────────────────────────── PortableRuntimeProofs
    EmbeddingRuns ──────────────────────────── EmbeddingRunsProofs
    DurableClusters ────────────────────────── DurableClustersProofs
    ClusterBrowser ─────────────────────────── ClusterBrowserProofs

`ObservationOrder` holds the comparisons that syncs, workflow snapshots and
migrations share. `DetailFill` extends the token: its fetching is a guarded
client's requests, conjoined with what the command does with the answers.
`CloudPublish` instantiates the abstract archive of snapshots under a
refinement mapping. The others touch neither generations nor the token.
`SyncProofs` holds the theorems about what `syncer` runs: the syncs, and the
details that are filled through a guarded client.

### ObservationOrder

`observationSequenceOrderValue` and `compareObservationOrder` (and the
workflow and reservation variants) as pure operators: negative sequences are
legacy marks whose order value is their absolute value, a zero sequence is older
than all, the source clock decides before the generation, and blank or malformed
clocks fall back to the generation.

### ThreadObservation

| State | Code |
|---|---|
| `github`, `now` | what GitHub serves, and its clock (one-second resolution, so several changes may share a clock) |
| `counter` | `thread_observation_sequence.value` |
| `thread`, `evidence` | `threads` and its `evidence_*` columns |
| `reservation`, `children` | `thread_child_observation_reservations` and the child tables |
| `revisions`, `document`, `failure` | `thread_revisions` with fingerprints, `documents`, `sync_attempt_failures` |
| `sync[s]` | what a running sync has fetched, and its generation |

A sync is `ListIssues` → `FetchChild`* → `NextThreadObservationSequence` →
`Persist`, where `Persist` is the whole transaction: thread upsert, evidence
acceptance, child reservations and replacement, document, revision and
fingerprint, resolved failures. `RecordSyncFailure` is the separate transaction
that follows a failed pull-request fetch, `Abort` any other way out. `Tick`,
`EditRow` and `EditChild` are GitHub.

### WorkflowSnapshots

The runs of one head. A sync lists (`ListWorkflowRuns`), reads the stored
snapshot (`ReadBaseline`), looks up runs that are missing or reappeared
(`LookUpRun`), may do this for sibling pull requests of the same head
(`LookUpSiblingRun`), takes a generation (`Sequence`), and merges and
applies in one transaction (`Persist`). `tombstones` remembers verified deletions
and is read by properties only.

### DurableClusters

`BuildClusters` computes a clustering of what is open and stores it in `run[r]`;
`Save` is the transaction of `saveDurableClusters`, complete or partial
(reconciliation of identities, upserts, overrides, pruning, retirement,
representatives, in the code's order). The governance commands and
`CloseOrReopenThread` happen in between. A cluster is named by the thread its
stable key was derived from.

### PortableRuntime

| State | Code |
|---|---|
| `published[v]` | the remote: the version the manifest of commit `v` was made for |
| `checkout` | the working tree's database and manifest, its `HEAD`, and whether the directory is there |
| `gitLock`, `refreshLock` | `.git/index.lock`, `.portable-refresh.json.lock` |
| `attempted`, `verified` | the last refresh and the health stamps in `.portable-refresh.json` |
| `mirror`, `newer` | the mirror's base version and local writes; whether the source file is younger |
| `proc[p]` | a process: its place in `refreshPortableRuntimeDB`, and what it read that may be stale by now |

A step of a process is the code between two places where another process can
interfere: see the lock, remove it, take it, pull (four steps of git: the
database is torn, then whole, then the manifest, then `HEAD`), check the mirror,
check the source, repair, reclone, read the source, validate the copy, rename,
stamp, open. `MergeKilled` is the deadline's `SIGKILL`, `Crash` the death of a
process anywhere outside git.

### SnapshotArchive and CloudPublish

`SnapshotArchive` is the promise: a snapshot becomes complete once, with exactly
the rows of its image; readers move only to complete snapshots, in one step; a
publisher reports only a staged snapshot by its true generation, and a
publication only when it has seen its own snapshot served.

| State of `CloudPublish` | Code |
|---|---|
| `archive` | the local archive, whose digest names a snapshot |
| `contract` | the features the remote advertises |
| `staged[v]`, `bundles` | the remote's staging of each snapshot: rows, mutation token, profile, generation, whether complete; the finalized SQLite bundles |
| `serving` | the snapshot of unpinned reads and the run that cut it over |
| `pub[p]` | a `cloud publish`: its frozen version, place, token and retries |

`Freeze` → `Probe` → `Upload` → (`Drain` | `Ingest` by data set and batch, with
`Refused`, `MeetReset`, `RejectRows`) → `Complete` → `Recover` or `ReadStatus` →
`CutOver` → `VerifyReader` → `Hydrate` → `Output`. `Stop` is a publisher's death
or a lost answer; whether the request it was waiting for had its effect is
decided by whether the step before it was taken. The mapping `Catalog`,
`Reports` and `serving.version` makes each of these a step of the promise or a
stutter.

### EmbeddingRuns

`embed`, `cluster`, `refresh` (embed, then cluster) and `neighbors` of several
processes over `thread`, `config`, `vector` (by configuration and thread) and
`clustered` (threads of clusters that are not retired). Embedding is
`List` → (`Answer` | `Reject` | `Retry` | `Interrupt`) per batch → `StoreVector`
per row → `Record`; a batch whose attempts are spent (`GiveUp`) is queued again
once and then counted as failed, a rejected one is counted at once. What the
loop keeps (rows, queue, batch, counts) is the `job` of a command. Clustering
reads vectors, counts coverage in three statements (`ReadVectors`, `CountScope`,
`Coverage`), may fall back to another basis (`ReadFallback`), and saves
(`SaveClusters`) or stops when it is strict.
Neighbors find their target, embed it when it is stale (`CheckTarget`), read the
vectors it is ranked against (`ReadCandidates`) and then the rows of the threads
(`ReadNeighbors`). What these two keep is their `cover`. `Sync` and `Configure`
change what they read.

A command's `seen`, `alone` and `steady` are for the properties: what the threads
have been since it started, and whether another command ran or the configuration
changed. Only the target is asked whether its vector is current; the candidates
are all stored vectors of its configuration (`app.go:956`–`969`), old ones among
them. So `MembersAndTargetsAreCurrent`, in its part `SearchesFromCurrentTarget`,
promises a current text of the target, and of the candidates only that none
carries the hash of its thread's text without being of it. Without `steady`, the target too may be of an old text: after it
was found stale and embedded anew, `runNeighbors` opens the runtime again
(`app.go:934`–`955`) and takes the vector of the configuration it finds then,
without another check. TLC shows it with three changes; nothing in the documents
promises otherwise.

### ClusterBrowser

The Bubble Tea loop of `tui.go`: one action per message. `view` is what the
browser holds (list, whole list, limit, filters, sorting, selection, detail,
detail cache, member rows); `flight` the neighbour loads under way, `neighbors`
their cache, `settling` the 90 ms wheel timer, `confirm` an open menu. Keys,
clicks and the wheel, `AutoRefresh` (the 15 s tick), `NeighborsLoaded`, `Jump`,
`Confirm` (close, reopen and exclude by the store's governance functions),
`SwitchRepository`; `MirrorReplaced` and `Reopened` are the background refresh of
a portable store, `OtherProcessEdits` any other command.

The lists are sequences made by position: `Arranged` has at each place the
element with that many before it, `Chosen` the next element that fits. So the
proofs can count what precedes an element, and need no induction over a list.

### ArchiveSchema

`Open` with its migrations, one step per statement or transaction that another
process may come between: `ApplySchema`, `InspectStructure`, `CheckConverged`,
`Inspect`, then for each of `Steps` a `Look` and a `Rebuild` or `Repair`,
`Verify` and `Mark`. Beside them a sync (`Allocate`, `Persist`) with the
triggers that withdraw the convergence mark, a portable prune
(`PrunePortablePayloads`, `DropColumns`, `StampPortable`), `Close`, and `Kill` at
any of these places. `db.shape[t]` is how a table looks: `missing`, `unsourced`
(reservations without clocks), `old`, `current`. The archives it starts on
(`Archives`) are one new file, one per older generation of the schema with what
that generation could hold, the current one, and a later one that is refused.

### TokenReserve and DetailFill

`TokenReserve` is the guarded client: `Ask` reads `/rate_limit`, `Grant` or
`Refuse` compare it with the reserve, `Answer`, `Exhausted`, `Delayed` and
`Breaks` are GitHub's answers, `Retry` the one repetition, which reads again.
`OtherSpends` and `Reset` are the environment. `DetailFill` adds the command:
`Start` selects (`MissingNumbers`), `Fetch`… runs a batch's requests through the
client, `AbortBatch` loses a batch at the reserve or an error, `Allocate` and
`PersistBatch` store it unless another process has observed its pull requests
meanwhile, `Finish`, `Kill`.

## Runs: what is checked and what it shows

| Run | Instance | Checks | Shows |
|---|---|---|---|
| `pull_sync` | one pull request, two syncers, metadata-only, detail-only and complete syncs, failing detail fetches, one change, three generations | `TypeOK`, `PersistNeverConflicts`, `DocumentFollowsThread`, `FencesNeverRegress`, `NewestSyncLands` | no order of reads and commits moves a fence back, ties two observations or loses the newest one |
| `pull_complete` | as above, complete syncs only, two changes, rows that carry the draft flag | `FreshRevisionDescribesArchive` | enrichment that consumers accept is about what is stored, and accepted evidence has reached a revision |
| `workflow_sync` | one head with two runs, two syncs of one or two pull requests, three changes, three generations | `TypeOK`, `TombstonesOutlastOlderLists`, `StoredRunsOnlyAdvance`, `CurrentObservationLands` | listing, looking up, merging and replacing in separate steps removes nothing live and restores nothing older |
| `durable_clusters` | three threads, two runners, two runs, two commands | `TypeOK`, `DecisionsHold`, `RepresentativesHold`, `RunsKeepTheirScope` | decisions made between reading and saving are in force afterwards |
| `portable_reader` | one process, three versions of which some may have a wrong manifest, a killed merge, two crashes, one local write, fairness | `TypeOK`, `SettledMirrorIsCurrent`, `ReadsAnswer`, `EventuallyFresh` | repair and the cached checks never hide a newer mirror or fail a reader without need, and readers get the last sound version |
| `portable_shared` | two processes, three versions with their manifests, one killed merge, one local write | `MirrorKnownGood` | no torn or mismatched database becomes the mirror when processes pull, repair and copy at once |
| `cloud_publish` | two publishers, three commands, two versions of the archive (the second with incomplete enrichment), an older and a current remote, one stop, lost answer or rejected batch, fairness | `TypeOK`, `FailureHasCause`, `PublicationKeepsPromise`, `EveryRunEnds` | publishers that reset each other's staging still publish whole images only, and each command ends |
| `embedding_runs` | two threads, two processes, three configurations, four kinds of command, one change, two runs, one fault | `TypeOK`, `MembersAndTargetsAreCurrent`, `NoRowDroppedSilently`, `RetiresOnlyClosedThreads` | hashes, coverage and counts hold while texts and states change under the command |
| `cluster_browser` | two repositories, three clusters, a list limit or none, two keys, one change by a confirmed command or another process, one neighbour load, a replaced store | `TypeOK`, `ShowsOneStore`, `SelectionFollowsUser`, `RefreshIsCurrent`, `ConfirmsWhatItNamed` | no order of keys, timers, ticks, answers and replacements mixes stores or acts on something else |
| `archive_schema` | two processes, six archives (new, versions 7, 10, 12, current, later), three commands, one kill | `TypeOK`, `GenerationsAreUnique`, `UndisturbedOpenSucceeds`, `ConvergedNeedsNoRepair`, `FencesOnlyAdvance` | opens, syncs and prunes interleaved statement by statement lose no fence and reuse no generation |
| `pull_fill` | two processes, two pull requests, batches of one, a reserve of two, windows that end, other programs, one fault, fairness | `FillTypeOK`, `ReserveKept`, `EventuallyFilled` | clients that share a token keep the reserve together, and refused or discarded batches are made up for |
| `prune_twice` | one process, a current archive, four commands | `TruncationRemembered` (violated) | [below](#where-the-code-and-its-documents-disagree) |

Every property of a passing run has a mutant (marked "Mutant" in its module): a
definition changed the way a plausible bug in its code would change it, under
which TLC finds that property violated in the same configuration.

**Why the bounds are enough.** The hazards need two actors and one crossing.

- *Syncs*: two syncs with one change of GitHub between their reads, two
  generations taken in the opposite order of the commits, one more sync to see
  the effect. Two syncers, a clock that can stand still or advance once, one or
  two changes and three generations reach every such crossing for one thread.
  Threads do not interact inside a transaction except by failing it together,
  which `PersistNeverConflicts` excludes for every thread, so one thread stands
  for all.
- *Workflow runs*: a head needs two runs to have one missing and one present,
  and two sibling payloads for the merge. `MaxListed = 2` bounds the lists all
  syncs hold at a time: one sync with two siblings, or two syncs with one each;
  the other sync may persist between a sync's two lists, not while it holds both.
- *Clusters*: three threads, two to be together and one to move.
- *Mirror*: two versions to be mismatched and three for a pull to be overtaken
  by the next publication, or a reclone to move the directory away under a
  running merge; a second process for the interleavings; one killed merge to
  leave an `index.lock` and a torn file. The runs have a manifest
  (`WithManifest`), as `portable prune` writes one; the theorems also cover
  stores without.
- *Publication*: two data sets, one whose row fills a request and one that puts
  two rows in one, so that batches are cut by bytes and by rows and a reset takes
  two calls; three commands, so that a third meets what two left behind; a
  status that lags once less than the reader is willing to wait.
- *Embeddings*: a change of text or state between any two steps of a command of
  two stages, a second command that embeds the same threads, and batches of one
  or two rows, so that a failed batch is queued behind another.
- *Browser*: a cluster of two, for a member to move or vanish, and one to be
  hidden by limit or replacement. Three keys were checked too (2.2 million
  states, all properties hold); the configuration keeps two for time.
- *Schema*: the archives hold each shape a table had, negative and duplicate
  reservations among them; a third command lets a sync and a prune come between
  the other process's look at a table and its rebuild.
- *Token*: a reserve of two and core quota of six leave room for one batch above
  the reserve but not for both processes' at once; `graphql` has its own window.

**Symmetry** permutes syncers, runners, runs, processes and models, which the
specifications treat alike, and is used only in runs without liveness.

**Deadlock** is checked for `PortableRuntime`, `ClusterBrowser` and `DetailFill`:
some process can always go on, be called again, or a tick arrive. The other
models stop when a bound on changes, generations or commands is used up, so
their configurations turn the check off.

## Fairness

Safety runs use `Spec` without fairness. Three models state liveness, under a
`FairSpec` that assumes what their environment gives:

- **`PortableRuntime`** (`EventuallyFresh`): a process that was not killed goes on
  (`WF` of its steps); read-only commands keep being run (`SF` of `Call`); the
  refresh interval passes and a lock left behind grows old (`SF` of looking at
  the lock, both outcomes); the remote is not away at every attempt and git has
  an outcome (`SF` of `StartMerge` and `RefreshOutcome`); a repair whose reset is
  possible again and again is not interrupted forever (`SF` of `RepairReset`).
  Nothing is assumed of the publisher, of write commands, of crashes or of
  killed merges.
- **`CloudPublish`** (`EveryRunEnds`): `WF` of the steps of each publisher that has
  begun a command. Starting one, a stop, a rejected batch or a change of the
  contract is never forced. That publishers who keep resetting each other end
  all the same is what the property is about.
- **`DetailFill`** (`EventuallyFilled`): `WF` of each process's progress, of
  starting the command again by some process (it is made to be run on a
  schedule), and of the end of each rate-limit window. Errors are bounded: a pull
  request that GitHub answers with an error every time stops each run at its
  batch (`app.go:3045`) and everything after it waits; the property assumes that
  errors pass. It also needs one process that goes on (`Repeaters`): two fills of
  one archive on a nearly empty token can discard each other's fetched batches
  for ever, as a failed fetch is recorded with a later generation.

`EmbeddingRuns` has no liveness property: its loops are bounded by
`MaxBatchAttempts` in the code.

## Proofs

A theorem holds for every value of the constants that satisfies the assumptions
of its module, so for any number of processes, threads, faults and changes.
Where one needs a hypothesis of its own, it is named below.

Each proof follows the same plan. The property is strengthened to an inductive
invariant, which TLC checked first where it can evaluate it; the
initial states satisfy it, and there is one lemma per action that the action
preserves it. Definitions that loop over data are recursive functions or folds;
what they compute is proved by induction over the length of the data, in the
form "a set of naturals with 0 and all successors is `Nat`" (`NatSetInduction`,
from the well-foundedness of `<`).

| Property | Theorem | Hypothesis |
|---|---|---|
| `ThreadObservation`: `TypeOK`, `DocumentFollowsThread`, `PersistNeverConflicts`, `FencesNeverRegress`, `NewestSyncLands` | `TypeCorrect`, `DocumentsFollowThreads`, `NeverConflicts`, `FencesHold`, `NewestSyncsLand` | |
| `FreshRevisionDescribesArchive` | `FreshRevisionsDescribeArchive` | `CompleteSyncs` |
| `WorkflowSnapshots`: `TypeOK`, `TombstonesOutlastOlderLists`, `StoredRunsOnlyAdvance`, `CurrentObservationLands` | `WorkflowTypes`, `TombstonesAlwaysOutlast`, `StoredRunsAlwaysAdvance`, `CurrentObservationsLand` | |
| `DurableClusters`: `TypeOK`, `DecisionsHold`, `RepresentativesHold`, `RunsKeepTheirScope` | `ClusterTypes`, `DecisionsAlwaysHold`, `RepresentativesAlwaysHold`, `RunsAlwaysKeepTheirScope` | |
| `PortableRuntime`: `TypeOK`, `MirrorKnownGood` | `RuntimeTypes`, `MirrorAlwaysKnownGood` | something was published |
| `SettledMirrorIsCurrent` | `SettledMirrorsAreCurrent` | something was published, `Solo` |
| `ReadsAnswer` | `ReadsAreAnswered` | something was published, `Alone` |
| `CloudPublish`: `TypeOK`, `PublicationKeepsPromise` | `CloudTypes`, `PublicationRefines` | |
| `FailureHasCause` | `FailuresHaveCause` | `MaxLag < Attempts` |
| `ArchiveSchema`: `TypeOK`, `GenerationsAreUnique`, `UndisturbedOpenSucceeds`, `ConvergedNeedsNoRepair`, `FencesOnlyAdvance` | `SchemaTypes`, `GenerationsNeverRepeat`, `UndisturbedOpensSucceed`, `MarksVouch`, `FencesAlwaysAdvance` | |
| `EmbeddingRuns`: `TypeOK`, `MembersAndTargetsAreCurrent`, `NoRowDroppedSilently`, `RetiresOnlyClosedThreads` | `EmbeddingTypes`, `MembersAndTargets`, `NoRowIsDropped`, `OpenThreadsAreNotRetired` | |
| `DetailFill`: `ReserveKept`, `FillTypeOK` | `ReserveIsKept`, `FillUsesToken`, `FillKeepsReserve`, `FillTypes` | |
| `ClusterBrowser`: `TypeOK`, `ShowsOneStore`, `SelectionFollowsUser`, `RefreshIsCurrent`, `ConfirmsWhatItNamed` | `BrowserTypes`, `OneStoreIsShown`, `SelectionIsTheUsers`, `RefreshesAreCurrent`, `ConfirmsWhatMenusNamed` | |

### SyncProofs: the order of observations

- `TypeCorrect`: `Spec => []TypeOK`.
- `FencesHold`: `Spec => FencesNeverRegress`. The thread row, the evidence fence
  and every child reservation only move forward. The argument is local to a
  step: each upsert either leaves a fence or replaces it after
  `compareObservationOrder` said the new order is not older; the lemmas about the
  order operators carry it.
- `DocumentsFollowThreads`: the document is the thread's row unless a failed
  fetch is open in the ledger.
- `GenerationsUnique`, `NeverConflicts`: no two revisions share a generation
  (`RevisionGenerationsUnique`, proved and not among the runs' properties), and
  no transaction meets the "conflicting observations share sequence" errors.
  Neither is inductive as it stands: that a generation is free when a
  transaction commits depends on where generations come from. The invariant
  `GenerationInv` adds that no stored generation exceeds the counter, and that the
  generation of a sync in flight is unused by every thread, revision and other
  sync. It survives taking a generation (the counter moves past all), committing
  one (it stops being in flight) and recording a failure (which takes its own).
- `NewestSyncsLand`: a complete sync that read GitHub's current row and holds the
  newest generation always lands, and so does the revision it makes. `SeenInv`
  says that no fence is ahead of GitHub's clock, and that none carries a
  generation a sync still holds. A revision could still be too new for its
  children: `DatedInv` says there is one assignment of clocks to the versions of
  every child, GitHub's, which everything fetched or stored respects. It is an
  existential in the invariant, as nothing in the archive records it.
- `FreshRevisionsDescribeArchive`: the revision that enrichment takes for current
  describes the stored rows. The hypothesis `CompleteSyncs` (every sync hydrates
  all families, no detail fetch fails) is the run's: an incomplete sync stores
  newer rows under an older revision by design and marks the revision as not
  fresh through the evidence fence. `FreshInv` says that the row, its evidence and
  its reservations then share one fence, and that a revision at that fence holds
  the stored row and children.

### WorkflowSnapshotsProofs

All four properties of the run, without a hypothesis. `Persist` applies the
payloads of all siblings of a head one after the other (`Applied`, a recursive
function). The lemma the rest stands on is `PersistEffect`: of all those
payloads, the ones that compared with the stored snapshot replace it together,
or nothing does. `WorkflowInv` says what a list held by a sync knows: its rows
were shown by GitHub by now and lie under its clock (`RowSound`); a fresh payload
keeps what it compared with or has verified a deletion (`Compared`); a live run is
never behind a list (`Behind`); siblings that compared with one snapshot agree on
what they both list, and drop only what is deleted (`Consolidated`,
`SiblingsSound`); a verified deletion is below the stored clock and below any row
that returned (`TombstonesSound`); a generation in flight is nobody else's, nor
that of a baseline (`OwnGeneration`).

### DurableClustersProofs

All four properties of the run. A save is a fold over the clusters that the run
computed, and no property holds at every point of it: `FoldInv` says what holds
after any number of inputs, `SavedInv` what holds after pruning and retirement.
`ClusterInv` says of the archive that an exclusion is the only override of its
member and a cluster has one pin at most (`OverridesSound`), that the decisions
hold (`Decided`), that the clusters of a complete run in flight are disjoint, and
that saved clusters are represented. The module assumes that there are finitely
many threads, without which a fold over their clusters means nothing.

### PortableRuntimeProofs

Given that something was published (`MaxPublishes >= 1`, which `Init` needs):

- `RuntimeTypes`: `Spec => []TypeOK`.
- `MirrorAlwaysKnownGood`: `Spec => []MirrorKnownGood`.
- `SettledMirrorsAreCurrent`: `[]SettledMirrorIsCurrent`, when the publisher
  writes a manifest and commands run one after the other (`Solo`, what the
  `portable_reader` run instantiates).
- `ReadsAreAnswered`: `ReadsAnswer`, when commands run one after the other
  (`Alone`), with or without manifests.

`MirrorKnownGood` says nothing of a copy on its way into the mirror, so it is not
inductive. `MirrorInv` adds: every manifest ever published was made for its
version or repeats one that was (`ManifestsSound`); the checkout's manifest is
one that was published, whatever half of a pull happened (`CheckoutSound`); a
copy is any database of the checkout before validation and a sound version after
it, and a process between `CachedHealth` and its return has a mirror to open
(`ProcessesSound`). The proof has one case per action. What it shows beyond the
runs: the argument does not rest on the locks at all. No lemma mentions who
holds them; validating the *copy* is what protects the mirror.

`SettledInv` adds that a mirror which is younger than the source and was never
written to is a copy of it, that a stamp is only held for such a mirror, and what
a process between reading and renaming holds. The hypothesis is necessary: of
two processes, one may copy the old database and stamp it after the other pulled,
so that the stamp names the new manifest and the file is younger than it. Nothing
torn or mismatched is read then, but an older version is, until the next pull.

`AnswerInv` follows a command to its answer: which parts of the checkout git has
rewritten at each step of a merge, that a pull in a repair starts from the files
of a commit, that what is copied is valid, and that a reclone was started only
after an unsound commit was pushed, which no later push takes back. The checkout
is away only in a reclone, or after a crash in one. Of two processes one may fail:
the other pulls between its copy of the database and the check of that copy.

### CloudPublishProofs

- `CloudTypes`: `Spec => []TypeOK`.
- `PublicationRefines`: `Spec => PublicationKeepsPromise`, the refinement of
  `SnapshotArchive` under the mapping `Catalog`, `Reports`, `serving.version`. Each
  action is a step of the promise or a stutter (`NextShows`). `PublishInv` carries
  what a mutation token means: as long as the staging area holds a publisher's
  token, its rows are exactly what the publisher has sent (`RowsSent`), however
  many resets came between. Hence whoever completes a snapshot has sent all of
  it, and nothing else is there (`Whole`).
- `FailuresHaveCause`: a command that failed was disturbed, met a fault, or found
  its image staged under other capabilities. `Relies` says what an undisturbed run
  may count on. The hypothesis `MaxLag < Attempts` says that the reader's
  projection lags less often than `VerifyReader` asks; without it a slow
  projection is a cause of its own.

### EmbeddingRunsProofs

All four properties of the run, for any finite set of threads, any batch sizes
and any number of commands. Threads are finite because coverage is decided by
counting them. `EmbedInv` is a conjunction per command (`CommandInv`), which
other commands can only disturb by storing vectors; the parts that speak of
stored vectors therefore only speak of commands that run alone (`CommandMoves`).

- `EmbeddingTypes`: the counts of a run stay below its rows. What makes this hold
  is not in the counts: batches are disjoint spans of rows (`QueueSound`,
  `BatchSound`), the rows of the batch at hand and of those that wait are `Open`,
  and stored, failed and open rows together are no more than all (`Accounted`). A
  batch queued again is open again and nothing else.
- `NoRowIsDropped`: `Queue` cuts any number of rows into batches that cover all
  of them (`QueueCovers`). In a run that nothing disturbed each row has its
  vector, counts as failed or is still open (`RowsCounted`), and each selected
  thread is a row or needed none (`AllPicked`).
- `OpenThreadsAreNotRetired`: there is one vector per thread, so as many current
  vectors as there are threads are of all threads (`OneVectorEach`). That the
  vectors, the threads and their texts were read at three moments does not
  matter as long as no thread was seen closed. `VectorsSound` carries this
  through the fallback.
- `MembersAndTargets` joins two lemmas. `ClustersAreCurrent`: every vector that
  clusters are made of was compared with a text at some moment of the run
  (`FreshSeen`), and a hash tells its text (`Hashed`). `TargetsAreCurrent`: a
  search that embedded its target anew finds a vector of a text it saw
  (`Refreshed`). What it is ranked against may be of old texts; of those vectors
  the lemma says what `Hashed` gives, that none passes for a vector of its
  thread's text.

### ArchiveSchemaProofs

All five properties of the run, for every archive that satisfies
`ArchivesAssumption`: tables hold what their `CHECK`s and keys let them hold
(`Sound`), an archive that was ever marked holds what an inspection demands, and
one whose mark is in force shows no drift. The releases leave such archives, and
TLC evaluates the assumption on the six it starts from.

- `SchemaTypes`, `GenerationsNeverRepeat` from `SafeInv`: tables stay sound, what
  an archive marked by anyone needs stays there, a table that was brought to its
  current shape keeps it unless a prune drops columns (`Settled`), and a
  generation in flight exceeds everything stored (`Fresh`), once the floor of the
  allocator has been restored.
- `UndisturbedOpensSucceed` from `PassInv`: of a pass that nobody meddled with,
  each place in the sequence of steps says what the earlier steps have settled
  and no later one undoes (`Reached`), and that what a step saw when it looked is
  still so (`Looked`). Termination of the pass in one round is exactly this.
- `MarksVouch` from `MarkInv`: `Converged => ~Drift` but for two histories, which
  the property names: a rebuild that two processes did one after the other, and a
  sync that committed while the trigger on threads was dropped for a rebuild, so
  that its change withdrew no mark. The latter takes four processes and came out
  of the attempt to prove the property without it.
- `FencesAlwaysAdvance` from `RecallInv`: what a process saw of a table of
  reservations without clocks still covers what is stored (`Recalls`), and legacy
  workflow reservations are recovered no lower than they were.

### SyncProofs: the token

- `ReserveIsKept`: guarded clients that ask for anything, in any order, keep
  `ReserveKept`: a resource is taken below the reserve by less than one request
  per client, beside what other programs spend. This is the precise sense in
  which the reserve is "best effort" (`docs/commands.md`).
- `FillUsesToken`: every step of `fill-pr-details` is a step of guarded clients
  or leaves the token alone, a refinement with the identity as mapping.
- `FillKeepsReserve`: hence every fill keeps the reserve.
- `FillTypes`: `FillSpec => []FillTypeOK`. That the pull request whose
  failure is recorded is one of the batch is not local to `AbortBatch`: `Asking` says
  that a process with a request under way has requests of its batch left.

`ReserveKept` is not inductive: two clients that read the same quota may both
spend it. `ReserveInv` counts them. Once what others used is added back, the
requests below the reserve and the clients that still hold a reading from before
are together fewer than the clients. A request turns one of the latter into one
of the former; a new reading is granted only when it leaves the reserve; the end
of a window takes the room of every reading in flight away.

### ClusterBrowserProofs

All five properties of the run, in three layers.

*Lists.* `ArrangedIs` says of a finite set and a strict total order that the
arrangement lists every element once, each behind exactly those before it: the
number of those is a one-to-one map into `0..n-1`, hence onto. `ChosenIs` says
that the chosen places are those that fit, in their order. `SortedIs`,
`MergeIs`, `CutIs` and `ListedIs` carry this to the lists the browser makes.

*The view.* One lemma per operator (`LoadIs`, `FilterIs`, `RefreshIs`, `SortIs`,
`JumpIs`, …) says which of these hold of its result: the list is of loaded
clusters of one repository (`Lists`), details are cached under a loaded cluster
(`Caches`), the detail that shows is the one cached (`Shows`), the selection is
in the list (`Placed`), the member among those shown (`Held`), the detail that of
the selected cluster (`Loaded`) and read from the archive as it is (`Fresh`); and
that the operator leaves the selected cluster and member where they are while
they are listed (`KeepsPlace`), from which `SelectionIsTheUsers` follows.

*The loop.* `BrowserInv` joins `StoreInv`, `ViewInv`, `MenuInv` and `LoadInv`.
`ShowsOneStore` is not inductive: a cached detail shows again when its cluster is
selected, and an answer arrives when its load was begun long before. So the cache
may hold loaded clusters only, although the list shows fewer of them; a load still
wanted is of the repository and the file shown, and not older than the last local
action on its thread. Whatever changes the repository or the file gives up the
loads in flight, which is what the code's request numbers are for.

`ConfirmsWhatMenusNamed` needs another invariant. The command acts on what is
selected when it is confirmed, so the selection must not have moved while the
menu was open. `NamedInv` says of a menu opened after the wheel had settled that
the wheel stays settled, and that either what it names is still selected or the
browser has changed to a file it cannot write. Its lemmas are all of one form,
that an operator leaves the open file alone (`SameFile`).

The attempt to prove `SelectionFollowsUser` failed at a jump to a cluster that is
loaded with a count of zero, and TLC then found the history
[below](#where-the-code-and-its-documents-disagree). The property names it with
`Counted`.

### Only model-checked

`EventuallyFresh`, `EveryRunEnds` and `EventuallyFilled`: liveness under fairness
is outside the prover's reach. Every other property of a passing run is also a
theorem.

## Where the code and its documents disagree

`prune_twice` is a run of its own, with one process. A portable store keeps
excerpts of long bodies; an `Open` that finds the `body` column missing restores
it from the excerpts, and the next prune records the excerpt's length as the
body's (`portable.go:69`). The trace is that story: a whole prune
(`PrunePortablePayloads`, `DropColumns`, the stamp), an `Open` that restores the
bodies and converges, a second `PrunePortablePayloads`. `TruncationRemembered` is violated; `CHANGELOG.md:61` promises
that opening converges the schema "preserving … portable truncation metadata".

The models show more behaviour that a reader of the documents would not expect.
It bounds what the passing runs claim, which is why each property below names
its exception or its configuration.

*Syncs and workflow runs.*

- **A stale child** (`syncer.go:211`, `CHANGELOG.md:45`). The generation that orders
  child snapshots is taken after every fetch, so a slow sync that fetched a child
  earlier gets the later generation and, under a tied source clock, replaces
  the newer child. `FencesNeverRegress` is about the order, not about what GitHub
  showed last.
- **Evidence without a revision** (`thread_enrichment.go:308`). A sync accepted by
  clock although its generation is older, and whose content a stored revision
  already has, refreshes only that revision's blob: no revision carries the
  accepted generation. Hence `FreshRevisionDescribesArchive` says "at least as
  new".
- **A failed fetch claims evidence** (`syncer.go:496`).
  `recordPullRequestSyncFailure` upserts with the default options, that is as
  complete: the evidence fence moves to a generation without a revision. The next
  `Open` takes the claim back to the latest revision's generation, as
  `ArchiveSchema` has it. Hence `pull_complete` has no failing fetches.
- **Partial hydration** (`syncer.go:311`, `docs/sync.md:38`). A sync of details
  without comments rewrites checks under a revision that stays fresh. Hence
  `FreshRevisionDescribesArchive` is checked for complete syncs.
- **A resurrected workflow run** (`pull_details.go:199`, `CHANGELOG.md:60`). A run
  absent from the stored snapshot is looked up only when its clock is not later
  than the reservation's: a run deleted after it had moved on is stored again by
  an older list that shows its later clock. Hence `TombstonesOutlastOlderLists`
  compares with the clock the run was deleted at.

*Clusters and embeddings.*

- **Decisions and identity** (`app.go:4522`, `docs/governance.md:55`). A cluster's
  stable key comes from the representative a run picked. A run that picks another
  one files the same threads under a new cluster, without the old one's
  exclusion. Hence `DecisionsHold` is about each cluster by its key.
- **Pinning a closed thread** (`clusters.go:1037`, `CHANGELOG.md:168`). Setting the
  canonical member makes a closed thread the representative until the next run.
  Hence `RepresentativesHold` is about clusters just saved.
- **Limited embedding** (`docs/refresh-and-embed.md:81`). `embed --limit` cuts the
  list in SQL before threads with a current vector are left out, so repeated
  limited runs never reach older threads. Hence `NoRowDroppedSilently` is about
  runs without a limit. The document's "bounded concurrency" (line 74) is a
  sequential loop, and `docs/concepts.md:64` names other bases than the code.
- **Coverage counted in three statements** (`docs/clustering.md:55`). A thread that
  closes and reopens between them makes coverage complete for the moment in which
  another one without a vector is retired. `RetiresOnlyClosedThreads` names the
  exception.

- **Unchecked candidates** (`app.go:956`, `docs/clustering.md:131`). A search for
  neighbors embeds its target again when its text changed, but ranks it against
  every stored vector of the same model and basis: a thread that changed since it
  was embedded is ranked by its old text until the next `embed`. Hence
  `SearchesFromCurrentTarget` is about the target.

*Portable stores.*

- **Local writes** (`runtime.go:267`, `docs/portable-stores.md:63`). Behind a manifest,
  the command after a local write takes the changed mirror for a damaged one and
  copies the source over it. Prunes work on the mirror, not on the checkout
  (`docs/portable-stores.md:104`).
- **A killed merge** (`runtime.go:123`). Only the repair removes a stale
  `index.lock`; while the source is sound no repair runs, and no later refresh
  succeeds. Hence `EventuallyFresh` excepts killed merges.
- **A killed reclone** (`runtime.go:192`). Killed between the rename of the checkout
  and the clone, gitcrawl leaves no checkout. Hence it excepts that as well.
- **A late stamp** (`runtime.go:308`). The manifest's stamp is taken after the
  rename: when another process pulls in between, the older copy is recorded as
  verified. Hence `SettledMirrorIsCurrent` is checked for one process.
- **A copy during a pull** (`runtime.go:769`). A database read before another
  process's pull is checked against the manifest after it, and the command fails
  although it has a sound mirror. Hence `ReadsAnswer` is checked for one process.

*Publication.* An image staged under one capability profile cannot be published
under another until the archive changes (`FailureHasCause` names it). Cutovers
have no order: of two publishers that saw different archives, the older one may
move readers back.

*Browser.*

- **Ticks** (`tui.go:3342`, `docs/tui.md:122`). "The TUI reflects new data on the next
  15s tick", but a tick refreshes only when ids, member counts or update times
  differ: another process's close or exclusion stays unseen. Hence
  `RefreshIsCurrent` is about refreshes on demand.
- **Kept rows**. Without a limit (the code's default; `docs/tui.md` says 500) a
  shorter answer is merged with the old list, so a cluster that was closed
  locally, or is gone after a new run, stays with its old summary.
  `RefreshIsCurrent` names the exception. The neighbour cache survives refreshes.
- **A row that counts no member** (`tui.go:3245`, `docs/tui.md:58`). A jump to a
  thread whose cluster is not loaded adds the cluster's row with the count of the
  moment, which is zero while its members are excluded. The row stays until the
  list is read again; no minimum size lets it through, so a later jump finds it
  and does not show it, although a member is included again by then. Hence
  `SelectionFollowsUser` is about clusters that count members (`Counted`).
- **The settle window**. A menu opened in the 90 ms after the wheel moved may name
  a member of the cluster it came from, and acts on the one it is on now:
  `ConfirmsWhatItNamed` excepts it. After a portable store was replaced the
  browser is read-only, and an action confirmed between the copy and its message
  goes to the file that was replaced.

*Schema.* `ConvergedNeedsNoRepair` and `FencesOnlyAdvance` name two exceptions. A
process that looked at a table and was suspended before its rebuild rebuilds from
the old look after another one's, which blanks the clocks of reservations and drops
the triggers (`stale`). A mark set after a sync committed between the inspection
and the mark hides the drift until the next allocation (`raced`). Besides, two
processes that add the same column make one `Open` fail (`UndisturbedOpenSucceeds`
says "undisturbed"), and one killed between adding `body` and filling it leaves
bodies null until a sync (`store.go:389`).

## Abstractions

**Everywhere.** A transaction is one step, which SQLite's single writer gives;
the retry of a busy transaction runs its closure again from the start and the
modelled attempt is the one that commits.

**Sync.** The list read is one step (pages may see different moments; a row's
clock is what matters). The five pull-request families that are always reserved
together are one family. Merging comments is replacing a version. Run records and the
repositories row are written only. Fingerprints travel with their revision.
Rows of a legacy database (no generation, blank clock) are handled by the
operators of `ObservationOrder` and started from in `ArchiveSchema` only. The
clamp of the smallest integer is unreachable by a sync and left out there.

**Workflow runs.** One head. They are persisted whether or not the thread's row
was fresh, hence the separate module. Lookups are shared within a sync; a
payload that lost to the stored snapshot becomes the canonical empty one. The
legacy cache path and clients without exact lookups are left out.

**Clusters.** Scores become a choice of the first representative, roles are
canonical or related, a thread is open when it is open on GitHub and not closed
locally. A pair is represented by its lower number, as edge counts tie there.
Legacy similarity clusters and `SaveDurableClusters`, which no command
calls, are left out.

**Portable runtime.** File times are the answers the code takes from them. The
time between refreshes is a nondeterministic skip once one was attempted. A
manifest is written in one step, `git reset --hard` is one step, a copy is an
open and a close (git replaces files, so an open file does not change). A killed
gitcrawl does not kill git, which has a process group of its own. Only marked
checkouts repair themselves and only those are modelled. The mirror is not
damaged by the file system. The rename of a copy and the removal of the old
mirror's `-wal` and `-shm` files after it (`runtime.go:772`–`777`) are one step: a
process that opens the mirror between the two finds the new file beside an old
log, which the model does not have. What a command writes to the configured path
while the checkout is away is not followed. The copies kept as evidence of a
repair are left out.

**Publication.** The remote is outside the repository, and what is assumed of it
is what the code relies on: a first request without a token takes the staging
over and deletes what an earlier attempt left, chunk by chunk; a stale token is
refused; a complete snapshot is immutable; a status may lag behind a cutover, at
most `MaxLag` times per run. A digest is the version it was taken from. A row
larger than the request limit is assumed away. The text of exports, source sync
times and malformed answers are left out.

**Embeddings.** A hash is its text (dimensions are not part of it, in the code
either). Cluster shapes and cosine search are a function of the vectors read and
left out; a cluster is the set of threads it was made from. An HTTP client
timeout is an interruption, as in the code.

**Browser.** Layout, rendering, scrolling within a pane, links and help are left
out, and so is the order `oldest` of the list; one thread's neighbors stand for
all that a load stores. With one change in the run (`MaxEdits`), TLC does not see
another process's change followed by a confirmed action, only ticks that sorting
or a limit makes matter; the theorem `ConfirmsWhatMenusNamed` has no such bound.

**Schema.** One pull request with one head. The columns of a step have one shape,
the two statements of the child backfill are one step, the convergence row stays
once it was made, and payloads always differ. An error because the database was
busy is a `Kill`. The scrub of the failure ledger in a prune (`portable.go:169`)
and failures of `foreign_key_check` are left out. `OpenReadOnly` never migrates.

**Token and fill.** The requests for the rows of a batch are one and so are those
for a pull request's details. Core and `graphql` are separate windows. A window
that ends while a client reads again counts as a fault. Redirects of a guarded
request are not followed by the client. The shared rate-limit file of the
gh-compatible commands and progress events are left out.

## Not modelled

- **Key summaries**: a worker pool with unbuffered channels and one consumer that
  drains it. Tasks are chosen by the latest fresh revision and the hash of their
  input, and stored against the immutable revision read at the start, so a newer
  revision simply has no summary yet. `main.go` runs with a context that is never
  cancelled; after a failed store the consumer cancels the workers and goes on
  draining. Its hazard, workers that wait for a consumer that stopped, is listed
  without a property.
- **Remote reader**: queries against the service; no local state but its
  configuration.
- **gh-compatible search**: reads the archive, after a sync when it is stale; its
  rate-limit file is replaced atomically.
- **Archive coverage, documents and search, code index, configuration, command
  line, diagnostics and doctor**: reports, parsing and presentation, or one
  transaction that replaces one snapshot.
- **Generated queries** (`storedb`), scripts and `.agents`: generated code and
  tools that are not part of the program.

## Plan

Done: the modules above with their runs, and the proofs of every safety property
the runs check. What is left:

1. The summary pool, as a module of its own, if cancellation becomes reachable.
2. The three liveness properties, should a prover for fairness become available.

## Running

In this directory, with the TLA+ tools and TLAPS 1.4.5:

    tlc -workers 2 -config MCPortableReader.cfg MCPortableRuntime.tla
    tlapm PortableRuntimeProofs.tla

`PROJECT.json` lists each run's module and configuration. No run takes more than
four minutes with two workers, nor more than four million distinct states.
