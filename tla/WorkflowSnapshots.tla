------------------------- MODULE WorkflowSnapshots -------------------------
(***************************************************************************)
(* The workflow runs of one pull-request head: concurrent syncs list them,  *)
(* compare the list with the stored snapshot, look up the runs that went    *)
(* missing or reappeared, merge the observations of sibling pull requests   *)
(* and replace the snapshot if it is still the one they compared with       *)
(* (internal/syncer/pull_details.go, internal/store/workflow_snapshots.go,  *)
(* thread_observation.go).                                                  *)
(*                                                                         *)
(* A run is its updated_at second and a version standing for the rest of    *)
(* its JSON; at = 0 where there is no run.  Stale and fresh threads persist *)
(* their workflow runs alike, so nothing here depends on the thread's row.  *)
(***************************************************************************)
EXTENDS ObservationOrder, FiniteSets, SequencesExt

CONSTANTS
  Runs,         \* workflow run ids of the head
  Syncers,      \* processes that may run a sync at the same time
  MaxSiblings,  \* bound on the pull requests of the head one sync hydrates
  MaxListed,    \* bound on the lists that all syncs hold at once
  MaxClock,     \* bound on GitHub's clock
  MaxChanges,   \* bound on the changes made on GitHub
  MaxSequence   \* bound on the generations allocated

ASSUME WorkflowAssumption ==
  /\ MaxSiblings \in Nat \ {0} /\ MaxListed \in Nat
  /\ MaxClock \in Nat /\ MaxChanges \in Nat /\ MaxSequence \in Nat

VARIABLES
  now,        \* GitHub's clock, in seconds
  github,     \* the runs on GitHub
  changes,    \* changes made on GitHub so far, for the bound
  counter,    \* thread_observation_sequence.value
  snapshot,   \* the head's reservation and its rows in github_workflow_runs
  sync,       \* the state of each syncer
  tombstones  \* per run, the clock it was verified as deleted at; read by properties only

vars == <<now, github, changes, counter, snapshot, sync, tombstones>>

-----------------------------------------------------------------------------

Run   == [at : Nat, v : Nat]
NoRun == [at |-> 0, v |-> 0]

Source == Nat \cup {Blank}

(* WorkflowRunSnapshotState                                                 *)
Snapshot == [found : BOOLEAN, source : Source, seq : Nat, runs : [Runs -> Run]]

NoSnapshot == [found |-> FALSE, source |-> Blank, seq |-> 0, runs |-> [r \in Runs |-> NoRun]]

(* pullRequestDetailRows, as far as workflow runs go.                       *)
Payload == [rows : [Runs -> Run], baseline : Snapshot, source : Source, fresh : BOOLEAN,
            deleted : SUBSET Runs, verified : SUBSET Runs]

(* A sync: its payloads in the order they were observed, and the exact      *)
(* lookups of the runs that later siblings missed.                          *)
Attempt == [phase : {"listed", "verifying", "sequenced"}, payloads : Seq(Payload),
            exact : [Runs -> Run \cup {"none", "deleted"}], seq : Nat]

Idle == [phase |-> "idle"]

Live(r)  == github[r].state = "live"
LiveRuns == [r \in Runs |-> IF Live(r) THEN github[r].run ELSE NoRun]

Present(rows) == {r \in Runs : rows[r] # NoRun}

(* latestWorkflowTimestamp *)
LatestSource(sources) ==
  IF sources \subseteq {Blank} THEN Blank
  ELSE CHOOSE c \in sources \ {Blank} : \A d \in sources \ {Blank} : d <= c

RowsSource(rows) == LatestSource({rows[r].at : r \in Present(rows)})

(* workflowTimestampBefore: a blank clock is neither before nor after.      *)
Before(a, b) == a # Blank /\ b # Blank /\ a < b

-----------------------------------------------------------------------------
(* GitHub *)

Tick ==
  /\ now < MaxClock
  /\ now' = now + 1
  /\ UNCHANGED <<github, changes, counter, snapshot, sync, tombstones>>

(* A run starts, moves on, or is deleted; a run id is never used again.     *)
ChangeRun(r) ==
  /\ changes < MaxChanges
  /\ changes' = changes + 1
  /\ \/ /\ github[r].state # "deleted"
        /\ github' = [github EXCEPT ![r] =
                        [state |-> "live", run |-> [at |-> now, v |-> github[r].run.v + 1]]]
     \/ /\ Live(r)
        /\ github' = [github EXCEPT ![r] = [state |-> "deleted", run |-> NoRun]]
  /\ UNCHANGED <<now, counter, snapshot, sync, tombstones>>

-----------------------------------------------------------------------------
(* Syncer.fetchPullRequestDetails and workflowSnapshotObservation *)

Count(s)    == Len(sync[s].payloads)
Payloads(s) == sync[s].payloads

(* The runs whose stored row is newer than the list's.                      *)
Regressed(rows, base) ==
  {r \in Present(rows) \cap Present(base.runs) : Before(rows[r].at, base.runs[r].at)}

Missing(rows, base) == Present(base.runs) \ Present(rows)

Reappearing(rows, base) ==
  IF base.found
  THEN {r \in Present(rows) \ Present(base.runs) : ~Before(base.source, rows[r].at)}
  ELSE {}

(* Mutants: missing, or reappearing, runs are not looked up.                *)
OnlyReappearing(p) == Reappearing(p.rows, p.baseline) \ p.verified
OnlyMissing(p)     == Missing(p.rows, p.baseline) \ p.verified

(* The runs an observation still has to look up one by one.                 *)
PendingLookups(p) ==
  (Missing(p.rows, p.baseline) \cup Reappearing(p.rows, p.baseline)) \ p.verified

Observed(p) == ~p.fresh \/ PendingLookups(p) = {}

NewPayload(rows) ==
  [rows |-> rows, baseline |-> NoSnapshot, source |-> RowsSource(rows), fresh |-> TRUE,
   deleted |-> {}, verified |-> {}]

(* Nothing of a stale payload is read again.                                *)
Settled(p) ==
  IF p.fresh THEN p ELSE [NewPayload([r \in Runs |-> NoRun]) EXCEPT !.fresh = FALSE]

(* The lists that syncs hold and have not persisted yet.                    *)
Listed == MapThenSumSet(LAMBDA s : IF sync[s] = Idle THEN 0 ELSE Count(s), Syncers)

(* The list of runs of the head, of the sync's first or next sibling.       *)
ListWorkflowRuns(s) ==
  LET p == NewPayload(LiveRuns)
  IN /\ Listed < MaxListed
     /\ \/ /\ sync[s] = Idle
           /\ sync' = [sync EXCEPT ![s] =
                [phase |-> "listed", payloads |-> <<p>>,
                 exact |-> [r \in Runs |-> "none"], seq |-> 0]]
        \/ /\ sync[s].phase = "verifying"
           /\ Observed(Last(Payloads(s)))
           /\ Count(s) < MaxSiblings
           /\ sync' = [sync EXCEPT ![s].phase = "listed", ![s].payloads = Append(@, p)]
     /\ UNCHANGED <<now, github, changes, counter, snapshot, tombstones>>

(* The clock of a snapshot never falls behind the one it replaces.          *)
SnapshotSource(p, base) ==
  IF base.found THEN LatestSource({p.source, base.source}) ELSE p.source

(* ReadWorkflowRunSnapshotState, after the list.                            *)
ReadBaseline(s) ==
  LET p == Last(Payloads(s))
  IN /\ sync[s].phase = "listed"
     /\ sync' = [sync EXCEPT ![s].phase = "verifying",
          ![s].payloads[Count(s)] =
             Settled([p EXCEPT !.baseline = snapshot, !.source = SnapshotSource(p, snapshot),
                               !.fresh = Regressed(p.rows, snapshot) = {}])]
     /\ UNCHANGED <<now, github, changes, counter, snapshot, tombstones>>

(* GetWorkflowRun for one missing or reappearing run.                       *)
LookUpRun(s, r) ==
  LET p == Last(Payloads(s))
      missing == r \in Missing(p.rows, p.baseline)
      fresh == IF missing THEN ~Live(r)
               ELSE Live(r) /\ ~Before(p.rows[r].at, github[r].run.at)
      deletion == missing /\ fresh
  IN /\ sync[s].phase = "verifying"
     /\ p.fresh
     /\ r \in PendingLookups(p)
     /\ missing \/ Missing(p.rows, p.baseline) \subseteq p.verified
     /\ sync' = [sync EXCEPT ![s].payloads[Count(s)] =
          Settled([p EXCEPT
            !.fresh = fresh, !.verified = @ \cup {r},
            !.deleted = IF deletion THEN @ \cup {r} ELSE @,
            !.source = IF deletion THEN LatestSource({@, p.baseline.runs[r].at}) ELSE @])]
     /\ UNCHANGED <<now, github, changes, counter, snapshot, tombstones>>

-----------------------------------------------------------------------------
(* Syncer.consolidateWorkflowSnapshots *)

(* The payloads that are merged with payload i: fresh ones that compared    *)
(* with the same baseline.                                                  *)
Group(s, i) ==
  {j \in 1..Count(s) : Payloads(s)[j].fresh /\ Payloads(s)[j].baseline = Payloads(s)[i].baseline}

(* The runs one sibling listed and a later one did not.                     *)
LaterAbsent(s, i) ==
  {r \in Runs : \E j, k \in Group(s, i) :
     j < k /\ r \in Present(Payloads(s)[j].rows) \ Present(Payloads(s)[k].rows)}

GroupDeleted(s, i) == UNION {Payloads(s)[j].deleted : j \in Group(s, i)}

ToLookUp(s) ==
  {r \in UNION {LaterAbsent(s, i) \ GroupDeleted(s, i) :
                  i \in {j \in 1..Count(s) : Payloads(s)[j].fresh}} : sync[s].exact[r] = "none"}

AllObserved(s) == sync[s].phase = "verifying" /\ Observed(Last(Payloads(s)))

(* verifySiblingWorkflowRunDeletion *)
LookUpSiblingRun(s, r) ==
  /\ AllObserved(s)
  /\ r \in ToLookUp(s)
  /\ sync' = [sync EXCEPT ![s].exact[r] = IF Live(r) THEN github[r].run ELSE "deleted"]
  /\ UNCHANGED <<now, github, changes, counter, snapshot, tombstones>>

GroupRows(s, i, r) == {Payloads(s)[j].rows[r] : j \in Group(s, i)} \ {NoRun}

(* "conflicting workflow run observations share one sync generation"        *)
SiblingsConflict(s) ==
  \E i \in 1..Count(s), r \in Runs :
    Payloads(s)[i].fresh /\ \E a, b \in GroupRows(s, i, r) : a.at = b.at /\ a # b

Exact(s, i, r) ==
  IF r \in LaterAbsent(s, i) \ GroupDeleted(s, i) THEN sync[s].exact[r] ELSE "none"

LatestRow(rows) == CHOOSE a \in rows : \A b \in rows : b.at <= a.at

(* Mutant: a run that an earlier sibling listed is kept unverified.         *)
UnionOfSiblings(s, i) ==
  [r \in Runs |-> IF GroupRows(s, i, r) = {} \/ r \in GroupDeleted(s, i) THEN NoRun
                  ELSE LatestRow(GroupRows(s, i, r))]

(* The rows of the group of payload i, once they are merged.                *)
ConsolidatedRows(s, i) ==
  [r \in Runs |->
     LET exact == Exact(s, i, r)
         rows  == GroupRows(s, i, r)
     IN IF rows = {} \/ r \in GroupDeleted(s, i) \/ exact = "deleted" THEN NoRun
        ELSE IF exact # "none" /\ Before(LatestRow(rows).at, exact.at) THEN exact
        ELSE LatestRow(rows)]

ConsolidatedSource(s, i) ==
  LatestSource({Payloads(s)[j].source : j \in Group(s, i)} \cup
    {Exact(s, i, r).at : r \in {q \in Runs : Exact(s, i, q) \notin {"none", "deleted"}}})

Tombstones(s, i) ==
  GroupDeleted(s, i) \cup {r \in Runs : Exact(s, i, r) = "deleted"}

(* The newest clock the sync knows of a run it verified as deleted.         *)
DeletedAt(s, i, r) ==
  Max({Payloads(s)[i].baseline.runs[r].at} \cup {a.at : a \in GroupRows(s, i, r)})

(* Consolidation succeeds and NextThreadObservationSequence is called.      *)
Sequence(s) ==
  /\ AllObserved(s)
  /\ ToLookUp(s) = {}
  /\ ~SiblingsConflict(s)
  /\ counter < MaxSequence
  /\ counter' = counter + 1
  /\ sync' = [sync EXCEPT ![s].phase = "sequenced", ![s].seq = counter + 1]
  /\ UNCHANGED <<now, github, changes, snapshot, tombstones>>

(* An error or a crash before the transaction; a sibling conflict is one.   *)
Abort(s) ==
  /\ sync[s] # Idle
  /\ sync' = [sync EXCEPT ![s] = Idle]
  /\ UNCHANGED <<now, github, changes, counter, snapshot, tombstones>>

-----------------------------------------------------------------------------
(* Store.ApplyWorkflowRunSnapshot *)

(* mergeEqualWorkflowRunSnapshot, and its error on rows of one tuple that    *)
(* differ under one clock.                                                  *)
Merge(current, rows) ==
  [current EXCEPT !.runs = [r \in Runs |->
     IF rows[r] # NoRun /\ (current.runs[r] = NoRun \/ Before(current.runs[r].at, rows[r].at))
     THEN rows[r] ELSE current.runs[r]]]

MergeConflict(current, rows) ==
  \E r \in Present(rows) : current.runs[r].at = rows[r].at /\ current.runs[r] # rows[r]

SnapshotOrder(current, in) ==
  IF current.found
  THEN compareWorkflowObservationOrder([source |-> in.source, seq |-> in.seq],
                                       [source |-> current.source, seq |-> current.seq])
  ELSE Newer

(* Only the snapshot the sync compared with is replaced; a sibling of the   *)
(* same generation is merged.                                               *)
ApplyWorkflowRunSnapshot(current, expected, in) ==
  IF SnapshotOrder(current, in) = Tied THEN Merge(current, in.runs)
  ELSE IF SnapshotOrder(current, in) = Newer /\ expected = current THEN in
  ELSE current

(* Mutant: the generation is stored negated, as rows of threads store it.   *)
IncomingNegated(s, i) ==
  [found |-> TRUE, source |-> ConsolidatedSource(s, i), seq |-> -sync[s].seq,
   runs |-> ConsolidatedRows(s, i)]

Incoming(s, i) ==
  [found |-> TRUE, source |-> ConsolidatedSource(s, i), seq |-> sync[s].seq,
   runs |-> ConsolidatedRows(s, i)]

(* The sync's transaction applies its fresh payloads in turn; an error      *)
(* rolls it back.                                                           *)
ApplyPayload(done, s, i) ==
  LET in == Incoming(s, i)
  IN IF ~Payloads(s)[i].fresh THEN done
     ELSE [current |-> ApplyWorkflowRunSnapshot(done.current, Payloads(s)[i].baseline, in),
           failed  |-> \/ done.failed
                       \/ /\ SnapshotOrder(done.current, in) = Tied
                          /\ MergeConflict(done.current, in.runs)]

Applied(s) ==
  LET done[n \in 0..Count(s)] ==
        IF n = 0 THEN [current |-> snapshot, failed |-> FALSE]
        ELSE ApplyPayload(done[n - 1], s, n)
  IN done[Count(s)]

(* The payloads whose rows are in the snapshot then, for the tombstones.    *)
Landed(s) ==
  {i \in 1..Count(s) : /\ Payloads(s)[i].fresh /\ Payloads(s)[i].baseline = snapshot
                       /\ ~Applied(s).failed /\ Applied(s).current.seq = sync[s].seq}

Persist(s) ==
  /\ sync[s].phase = "sequenced"
  /\ snapshot' = IF Applied(s).failed THEN snapshot ELSE Applied(s).current
  /\ tombstones' = [r \in Runs |->
       Max({tombstones[r]} \cup
           {DeletedAt(s, i, r) : i \in {j \in Landed(s) : r \in Tombstones(s, j)}})]
  /\ sync' = [sync EXCEPT ![s] = Idle]
  /\ UNCHANGED <<now, github, changes, counter>>

-----------------------------------------------------------------------------

Init ==
  /\ now = 1
  /\ github = [r \in Runs |-> [state |-> "none", run |-> NoRun]]
  /\ changes = 0
  /\ counter = 0
  /\ snapshot = NoSnapshot
  /\ sync = [s \in Syncers |-> Idle]
  /\ tombstones = [r \in Runs |-> 0]

Next ==
  \/ Tick
  \/ \E r \in Runs : ChangeRun(r)
  \/ \E s \in Syncers :
       \/ ListWorkflowRuns(s)
       \/ ReadBaseline(s)
       \/ \E r \in Runs : LookUpRun(s, r) \/ LookUpSiblingRun(s, r)
       \/ Sequence(s)
       \/ Persist(s)
       \/ Abort(s)

Spec == Init /\ [][Next]_vars

-----------------------------------------------------------------------------
(* Properties *)

(* Runs, snapshots, payloads and generations hold values of their type.     *)
TypeOK ==
  /\ now \in Nat /\ changes \in Nat /\ counter \in Nat
  /\ github \in [Runs -> [state : {"none", "live", "deleted"}, run : Run]]
  /\ snapshot \in Snapshot
  /\ \A s \in Syncers : sync[s] = Idle \/
       /\ DOMAIN sync[s] = {"phase", "payloads", "exact", "seq"}
       /\ sync[s].phase \in {"listed", "verifying", "sequenced"}
       /\ \A i \in 1..Count(s) : Payloads(s)[i] \in Payload
       /\ \A r \in Runs : sync[s].exact[r] \in {"none", "deleted"} \/ sync[s].exact[r] \in Run
       /\ sync[s].seq \in Nat
  /\ tombstones \in [Runs -> Nat]

(* A deleted run comes back, if at all, only with a clock                   *)
(* later than any it was verified as deleted at, never from a list that is  *)
(* no newer than the reservation of the deletion.                           *)
TombstonesOutlastOlderLists ==
  \A r \in Runs : tombstones[r] # 0 /\ snapshot.runs[r] # NoRun
                 => snapshot.runs[r].at > tombstones[r]

(* A stored run is only replaced by a later state of it, and leaves the     *)
(* archive only when GitHub has deleted it: a list that was taken before    *)
(* the run started never removes it.                                        *)
StoredRunsOnlyAdvance ==
  [][\A r \in Present(snapshot.runs) :
       IF snapshot'.runs[r] = NoRun THEN ~Live(r)
       ELSE snapshot'.runs[r].at >= snapshot.runs[r].at]_vars

(* A fresh observation of what GitHub still shows, made against the         *)
(* snapshot still stored, always lands.                                     *)
CurrentPayload(s, i) ==
  /\ Payloads(s)[i].fresh
  /\ Payloads(s)[i].baseline = snapshot
  /\ Payloads(s)[i].rows = LiveRuns

CurrentObservationLands ==
  [][\A s \in Syncers :
       sync[s].phase = "sequenced" /\ CurrentPayload(s, Count(s)) /\ Persist(s)
         => snapshot'.runs = Last(Payloads(s)).rows]_vars

=============================================================================
