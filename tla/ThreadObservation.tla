------------------------- MODULE ThreadObservation -------------------------
(***************************************************************************)
(* gitcrawl's sync: concurrent syncers read issue and pull-request rows     *)
(* and their children from GitHub while GitHub keeps changing, take a       *)
(* generation from the archive and persist everything in one transaction    *)
(* (internal/syncer/syncer.go, internal/store/threads.go,                   *)
(* thread_observation.go, thread_enrichment.go, sync_failures.go).          *)
(*                                                                         *)
(* Data is abstracted to what the guards compare.  An issue row is its      *)
(* updated_at second and a token for the rest of its JSON; a child family   *)
(* is a version number and the clock of its last change.  The five          *)
(* pull-request families the sync always reserves together (details, files, *)
(* commits, checks, review threads) are one family, "details".              *)
(***************************************************************************)
EXTENDS ObservationOrder, FiniteSets

CONSTANTS
  Threads,          \* threads of the repository
  PullRequests,     \* those that are pull requests
  Syncers,          \* processes that may run a sync at the same time
  Rows,             \* tokens for the content of an issue row
  NoRow,            \* no row
  DraftRows,        \* the tokens of a draft pull request
  RowsCarryDraft,   \* whether the issues API rows carry the draft flag
  SyncOptions,      \* the hydration options syncs are started with
  DetailsMayFail,   \* whether a pull-request fetch may fail
  MaxClock,         \* bound on GitHub's clock
  MaxEdits,         \* bound on the changes made on GitHub
  MaxSequence       \* bound on the generations allocated

Families == {"comments", "details"}

ASSUME ThreadAssumption ==
  /\ PullRequests \subseteq Threads
  /\ DraftRows \subseteq Rows
  /\ NoRow \notin Rows
  /\ RowsCarryDraft \in BOOLEAN
  /\ DetailsMayFail \in BOOLEAN
  /\ SyncOptions \subseteq SUBSET Families
  /\ MaxClock \in Nat /\ MaxEdits \in Nat /\ MaxSequence \in Nat

VARIABLES
  now,          \* GitHub's clock, in seconds
  github,       \* what GitHub serves for each thread
  edits,        \* changes made on GitHub so far, for the bound
  counter,      \* thread_observation_sequence.value
  thread,       \* the threads table; seq = 0 where there is no row
  evidence,     \* threads.evidence_source_updated_at, _observation_sequence
  reservation,  \* thread_child_observation_reservations
  children,     \* the child tables
  revisions,    \* thread_revisions, each with its fingerprint
  document,     \* documents: the row each was built from
  failure,      \* sync_attempt_failures of the thread: none, open, resolved
  sync          \* the state of each syncer

archive == <<thread, evidence, reservation, children, revisions, document, failure>>
vars == <<now, github, edits, counter, archive, sync>>

-----------------------------------------------------------------------------
(* Records *)

Row   == [at : Nat, row : Rows]
Child == [v : Nat, at : Nat]

NoChild == [v |-> 0, at |-> 0]
NoOrder == [source |-> 0, seq |-> 0]
NoThread == [at |-> 0, row |-> NoRow, draft |-> FALSE, seq |-> 0]

ThreadRow == [at : Nat, row : Rows \cup {NoRow}, draft : BOOLEAN, seq : Int]

Order == [source : Nat, seq : Nat]

Content  == [row : Rows, draft : BOOLEAN, child : [Families -> Nat]]
Revision == [source : Nat, seq : Nat, content : Content]

(* A sync between its list call and its transaction.                        *)
Attempt == [phase : {"fetching", "sequenced"}, options : SUBSET Families,
            scope : SUBSET Threads, rows : [Threads -> Row],
            fetched : [Threads -> [Families -> Child]],
            pullDraft : [Threads -> BOOLEAN], seq : Nat]

Idle == [phase |-> "idle"]

(* The families a sync hydrates for a thread.                               *)
Hydrated(options, t) ==
  IF t \in PullRequests THEN options ELSE options \cap {"comments"}

(* syncer.hasFreshThreadEvidence *)
hasFreshThreadEvidence(options, t) ==
  /\ "comments" \in options
  /\ t \in PullRequests => "details" \in options

FetchedAll(s) ==
  \A t \in sync[s].scope : \A f \in Hydrated(sync[s].options, t) :
    sync[s].fetched[t][f] # NoChild

RowDraft(t, row) == t \in PullRequests /\ RowsCarryDraft /\ row \in DraftRows

ThreadOrder(row) == [source |-> row.at, seq |-> observationSequenceOrderValue(row.seq)]

-----------------------------------------------------------------------------
(* Store.upsertThreadObservation.  "in" is the mapped row, seq its          *)
(* generation; the result carries the row and the evidence fence after it.  *)

SamePayload(cur, in, draft) ==
  /\ cur.seq # 0
  /\ cur.at = in.at /\ cur.row = in.row /\ cur.draft = draft

LargerOf(a, b) == IF a > b THEN a ELSE b

(* A metadata-only observation is stored negated, unless it only repeats a  *)
(* payload that complete evidence already described.                        *)
StoredSequence(cur, seq, same, incomplete) ==
  LET high == LargerOf(seq, observationSequenceOrderValue(cur.seq))
  IN IF incomplete
     THEN IF ~same THEN -seq ELSE IF cur.seq < 0 THEN -high ELSE high
     ELSE IF same /\ cur.seq < 0 THEN high ELSE seq

reserveThreadEvidenceObservation(ev, incoming) ==
  ev.seq = 0 \/ compareObservationOrder(incoming, ev) = Newer

upsertThreadObservation(cur, ev, in, seq, incomplete, preserveDraft) ==
  LET draft  == IF preserveDraft /\ cur.seq # 0 THEN cur.draft ELSE in.draft
      same   == SamePayload(cur, in, draft)
      stored == [at |-> in.at, row |-> in.row, draft |-> draft,
                 seq |-> StoredSequence(cur, seq, same, incomplete)]
      order  == IF cur.seq = 0 \/ (same /\ ~incomplete /\ cur.seq < 0)
                THEN Newer
                ELSE compareObservationOrder(ThreadOrder(stored), ThreadOrder(cur))
      applied == order = Newer \/ (order = Tied /\ same /\ incomplete)
      accepted == /\ ~incomplete
                  /\ applied \/ same
                  /\ reserveThreadEvidenceObservation(ev, [source |-> in.at, seq |-> seq])
  IN [thread   |-> IF applied THEN stored ELSE cur,
      evidence |-> IF accepted THEN [source |-> in.at, seq |-> seq] ELSE ev,
      applied  |-> applied,
      evidenceApplied |-> accepted,
      conflict |-> order = Tied /\ ~same]

-----------------------------------------------------------------------------
(* Store.upsertThreadRevisionAndFingerprint, with the generation given.     *)
(* Generations are unique, so the latest revision is the one of the largest.*)

LatestRevision(revs) == CHOOSE r \in revs : \A q \in revs : q.seq <= r.seq

RevisionConflict(revs, in) ==
  /\ revs # {}
  /\ LatestRevision(revs).content # in.content
  /\ compareRevisionObservationOrder(in, LatestRevision(revs)) = Tied

upsertThreadRevision(revs, in) ==
  LET latest   == LatestRevision(revs)
      observed == {r \in revs : r.content = in.content /\ r.source = in.source}
  IN IF revs = {} THEN {in}
     ELSE IF /\ compareRevisionObservationOrder(in, latest) = Older
             /\ observed # {}
     THEN revs   \* only the evidence blob of the historical revision
     ELSE IF latest.content = in.content
     THEN IF compareObservationOrder(in, latest) = Newer
          THEN (revs \ {latest}) \cup {in} ELSE revs
     ELSE revs \cup {in}

(* threadRevisionFreshnessPredicate: the revisions that the consumers of    *)
(* enrichment (summaries, embeddings, clusters) accept for a thread.        *)
FreshRevisions(t) ==
  {r \in revisions[t] :
     /\ evidence[t].seq > 0
     /\ r.seq = evidence[t].seq
     /\ evidence[t].source = thread[t].at
     /\ r.source >= evidence[t].source}

-----------------------------------------------------------------------------
(* GitHub and its clock *)

Tick ==
  /\ now < MaxClock
  /\ now' = now + 1
  /\ UNCHANGED <<github, edits, counter, archive, sync>>

(* An edit of the issue row (title, body, labels, state, draft).            *)
EditRow(t) ==
  /\ edits < MaxEdits
  /\ edits' = edits + 1
  /\ \E row \in Rows \ {github[t].row} :
       github' = [github EXCEPT ![t].row = row, ![t].at = now]
  /\ UNCHANGED <<now, counter, archive, sync>>

(* A change of a child.  A comment moves the updated_at of its thread, a    *)
(* check transition does not.                                               *)
EditChild(t, f) ==
  /\ f = "details" => t \in PullRequests
  /\ edits < MaxEdits
  /\ edits' = edits + 1
  /\ \E at \in {github[t].at, now} :
       github' = [github EXCEPT ![t].at = at,
                    ![t].child[f] = [v |-> github[t].child[f].v + 1, at |-> now]]
  /\ UNCHANGED <<now, counter, archive, sync>>

-----------------------------------------------------------------------------
(* Syncer.Sync *)

ListIssues(s, scope, options) ==
  /\ sync[s] = Idle
  /\ sync' = [sync EXCEPT ![s] =
       [phase |-> "fetching", options |-> options, scope |-> scope,
        rows |-> [t \in Threads |-> [at |-> github[t].at, row |-> github[t].row]],
        fetched |-> [t \in Threads |-> [f \in Families |-> NoChild]],
        pullDraft |-> [t \in Threads |-> FALSE], seq |-> 0]]
  /\ UNCHANGED <<now, github, edits, counter, archive>>

(* The fetch of t's family f is the next one: comments come first.          *)
FetchPending(s, t, f) ==
  /\ sync[s].phase = "fetching"
  /\ t \in sync[s].scope
  /\ f \in Hydrated(sync[s].options, t)
  /\ sync[s].fetched[t][f] = NoChild
  /\ f = "details" /\ "comments" \in sync[s].options
       => sync[s].fetched[t]["comments"] # NoChild

FetchChild(s, t, f) ==
  /\ FetchPending(s, t, f)
  /\ sync' = [sync EXCEPT ![s].fetched[t][f] = github[t].child[f],
       ![s].pullDraft[t] = IF f = "details" THEN github[t].row \in DraftRows ELSE @]
  /\ UNCHANGED <<now, github, edits, counter, archive>>

(* recordPullRequestSyncFailure: in a transaction of its own the row is     *)
(* upserted with the default options and the failure goes to the ledger;    *)
(* then the sync returns the error.                                         *)
FailedUpsert(s, t) ==
  LET row == sync[s].rows[t]
  IN upsertThreadObservation(thread[t], evidence[t],
       [at |-> row.at, row |-> row.row, draft |-> RowDraft(t, row.row)],
       counter + 1, FALSE, FALSE)

RecordSyncFailure(s, t) ==
  /\ DetailsMayFail
  /\ FetchPending(s, t, "details")
  /\ counter < MaxSequence
  /\ counter' = counter + 1
  /\ thread' = [thread EXCEPT ![t] = FailedUpsert(s, t).thread]
  /\ evidence' = [evidence EXCEPT ![t] = FailedUpsert(s, t).evidence]
  /\ failure' = [failure EXCEPT ![t] = "open"]
  /\ sync' = [sync EXCEPT ![s] = Idle]
  /\ UNCHANGED <<now, github, edits, reservation, children, revisions, document>>

(* Mutant: the generation is read and not advanced.                         *)
SharedObservationSequence(s) ==
  /\ sync[s].phase = "fetching"
  /\ FetchedAll(s)
  /\ sync' = [sync EXCEPT ![s].phase = "sequenced", ![s].seq = counter + 1]
  /\ UNCHANGED <<now, github, edits, counter, archive>>

(* NextThreadObservationSequence, after every fetch and before the          *)
(* transaction that persists them.                                          *)
NextThreadObservationSequence(s) ==
  /\ sync[s].phase = "fetching"
  /\ FetchedAll(s)
  /\ counter < MaxSequence
  /\ counter' = counter + 1
  /\ sync' = [sync EXCEPT ![s].phase = "sequenced", ![s].seq = counter + 1]
  /\ UNCHANGED <<now, github, edits, archive>>

(* A fetch error, a canceled context, a crash: nothing was written.         *)
Abort(s) ==
  /\ sync[s] # Idle
  /\ sync' = [sync EXCEPT ![s] = Idle]
  /\ UNCHANGED <<now, github, edits, counter, archive>>

-----------------------------------------------------------------------------
(* The persist transaction of Syncer.Sync, thread by thread.                *)

HasPullDetails(s, t) == t \in PullRequests /\ "details" \in sync[s].options

IncomingThread(s, t) ==
  LET row == sync[s].rows[t]
  IN [at |-> row.at, row |-> row.row,
      draft |-> IF HasPullDetails(s, t) THEN sync[s].pullDraft[t]
                ELSE RowDraft(t, row.row)]

Upsert(s, t) ==
  upsertThreadObservation(thread[t], evidence[t], IncomingThread(s, t), sync[s].seq,
    ~hasFreshThreadEvidence(sync[s].options, t),
    t \in PullRequests /\ ~HasPullDetails(s, t) /\ ~RowsCarryDraft)

(* Mutant: a row applied without complete evidence counts as stale.         *)
SkippedIncomplete(s, t) == ~Upsert(s, t).evidenceApplied

SkippedStale(s, t) == ~Upsert(s, t).applied /\ ~Upsert(s, t).evidenceApplied

(* Mutant: children are rewritten without comparing reservations.           *)
ReservesChildAlways(s, t, f) ==
  f \in Hydrated(sync[s].options, t) /\ ~SkippedStale(s, t)

(* Mutant: a tie of source clocks is not broken by the generation.          *)
ReservesChildBySource(s, t, f) ==
  /\ f \in Hydrated(sync[s].options, t)
  /\ ~SkippedStale(s, t)
  /\ hasFreshThreadEvidence(sync[s].options, t) => Upsert(s, t).evidenceApplied
  /\ \/ reservation[t][f].seq = 0
     \/ sync[s].rows[t].at > reservation[t][f].source

(* The child families of t that the transaction reserves and rewrites.      *)
ReservesChild(s, t, f) ==
  /\ f \in Hydrated(sync[s].options, t)
  /\ ~SkippedStale(s, t)
  /\ hasFreshThreadEvidence(sync[s].options, t) => Upsert(s, t).evidenceApplied
  /\ \/ reservation[t][f].seq = 0
     \/ compareReservationObservationOrder(
          [source |-> sync[s].rows[t].at, seq |-> sync[s].seq],
          reservation[t][f]) = Newer

ChildrenAfter(s, t) ==
  [f \in Families |->
     IF ReservesChild(s, t, f) THEN sync[s].fetched[t][f] ELSE children[t][f]]

(* Mutant: the revision is built from the children before they are written. *)
RevisionOfOldChildren(s, t) ==
  LET row == IncomingThread(s, t)
  IN [source  |-> row.at, seq |-> sync[s].seq,
      content |-> [row |-> row.row, draft |-> row.draft,
                   child |-> [f \in Families |-> children[t][f].v]]]

(* Mutant: the revision takes the generation stored with the thread's row.  *)
RevisionOfStoredSequence(s, t) ==
  LET row == IncomingThread(s, t)
  IN [source  |-> row.at, seq |-> thread[t].seq,
      content |-> [row |-> row.row, draft |-> row.draft,
                   child |-> [f \in Families |-> ChildrenAfter(s, t)[f].v]]]

(* buildThreadEnrichment: the revision's clock includes its children's.     *)
IncomingRevision(s, t) ==
  LET row  == IncomingThread(s, t)
      kids == ChildrenAfter(s, t)
  IN [source  |-> LargerOf(row.at, LargerOf(kids["comments"].at, kids["details"].at)),
      seq     |-> sync[s].seq,
      content |-> [row |-> row.row, draft |-> row.draft,
                   child |-> [f \in Families |-> kids[f].v]]]

(* An error on any thread rolls the whole transaction back.                 *)
PersistConflict(s) ==
  \E t \in sync[s].scope :
    \/ Upsert(s, t).conflict
    \/ /\ Upsert(s, t).evidenceApplied
       /\ RevisionConflict(revisions[t], IncomingRevision(s, t))

Persist(s) ==
  LET committed == IF PersistConflict(s) THEN {} ELSE sync[s].scope
      written   == {t \in committed : ~SkippedStale(s, t)}
  IN /\ sync[s].phase = "sequenced"
     /\ thread' = [t \in Threads |->
          IF t \in committed THEN Upsert(s, t).thread ELSE thread[t]]
     /\ evidence' = [t \in Threads |->
          IF t \in committed THEN Upsert(s, t).evidence ELSE evidence[t]]
     /\ reservation' = [t \in Threads |-> [f \in Families |->
          IF t \in committed /\ ReservesChild(s, t, f)
          THEN [source |-> sync[s].rows[t].at, seq |-> sync[s].seq]
          ELSE reservation[t][f]]]
     /\ children' = [t \in Threads |->
          IF t \in committed THEN ChildrenAfter(s, t) ELSE children[t]]
     /\ document' = [t \in Threads |->
          IF t \in written THEN sync[s].rows[t] ELSE document[t]]
     /\ revisions' = [t \in Threads |->
          IF t \in committed /\ Upsert(s, t).evidenceApplied
          THEN upsertThreadRevision(revisions[t], IncomingRevision(s, t))
          ELSE revisions[t]]
     /\ failure' = [t \in Threads |->
          IF t \in written /\ HasPullDetails(s, t) /\ failure[t] = "open"
          THEN "resolved" ELSE failure[t]]
     /\ sync' = [sync EXCEPT ![s] = Idle]
     /\ UNCHANGED <<now, github, edits, counter>>

-----------------------------------------------------------------------------

Init ==
  /\ now = 1
  /\ github \in [Threads -> {[at |-> 1, row |-> r,
                  child |-> [f \in Families |-> [v |-> 1, at |-> 1]]] : r \in Rows}]
  /\ edits = 0
  /\ counter = 0
  /\ thread = [t \in Threads |-> NoThread]
  /\ evidence = [t \in Threads |-> NoOrder]
  /\ reservation = [t \in Threads |-> [f \in Families |-> NoOrder]]
  /\ children = [t \in Threads |-> [f \in Families |-> NoChild]]
  /\ revisions = [t \in Threads |-> {}]
  /\ document = [t \in Threads |-> [at |-> 0, row |-> NoRow]]
  /\ failure = [t \in Threads |-> "none"]
  /\ sync = [s \in Syncers |-> Idle]

GitHub ==
  \/ Tick
  \/ \E t \in Threads : EditRow(t) \/ \E f \in Families : EditChild(t, f)

Sync(s) ==
  \/ \E scope \in SUBSET Threads \ {{}}, options \in SyncOptions :
       ListIssues(s, scope, options)
  \/ \E t \in Threads : \/ \E f \in Families : FetchChild(s, t, f)
                          \/ RecordSyncFailure(s, t)
  \/ NextThreadObservationSequence(s)
  \/ Persist(s)
  \/ Abort(s)

Next == GitHub \/ \E s \in Syncers : Sync(s)

Spec == Init /\ [][Next]_vars

-----------------------------------------------------------------------------
(* Properties *)

(* Every table, fence and in-flight sync holds values of its type.          *)
TypeOK ==
  /\ now \in Nat /\ edits \in Nat /\ counter \in Nat
  /\ github \in [Threads -> [at : Nat, row : Rows, child : [Families -> Child]]]
  /\ thread \in [Threads -> ThreadRow]
  /\ evidence \in [Threads -> Order]
  /\ reservation \in [Threads -> [Families -> Order]]
  /\ children \in [Threads -> [Families -> Child]]
  /\ revisions \in [Threads -> SUBSET Revision]
  /\ document \in [Threads -> [at : Nat, row : Rows \cup {NoRow}]]
  /\ failure \in [Threads -> {"none", "open", "resolved"}]
  /\ sync \in [Syncers -> Attempt \cup {Idle}]

(* A sync's transaction never meets the "conflicting observations share     *)
(* sequence" errors of threads.go and thread_enrichment.go: whatever order  *)
(* the syncers and the failure records commit in, no sync loses all the     *)
(* threads it fetched to a tie on one of them.                              *)
PersistNeverConflicts ==
  \A s \in Syncers : sync[s] # Idle /\ sync[s].phase = "sequenced" => ~PersistConflict(s)

(* The document of a thread is built from its current row, except while a   *)
(* failed pull-request fetch, which moves the row and not the document, is  *)
(* open in the ledger.                                                      *)
DocumentFollowsThread ==
  \A t \in Threads :
    \/ document[t].at = thread[t].at /\ document[t].row = thread[t].row
    \/ failure[t] = "open"

(* When syncs are complete, accepted evidence has reached a revision at     *)
(* least as new, and one the consumers accept as fresh describes what the   *)
(* archive now holds: the thread's row, draft flag and children.            *)
FreshRevisionDescribesArchive ==
  \A t \in Threads :
    /\ evidence[t].seq > 0 => \E r \in revisions[t] : r.seq >= evidence[t].seq
    /\ \A r \in FreshRevisions(t) :
         r.content = [row |-> thread[t].row, draft |-> thread[t].draft,
                      child |-> [f \in Families |-> children[t][f].v]]

(* No generation labels two revisions of a thread.                          *)
RevisionGenerationsUnique ==
  \A t \in Threads : \A q, r \in revisions[t] : q.seq = r.seq => q = r

(* A stale, partial or reordered observation never moves the thread, the    *)
(* evidence fence or a child reservation back: source clock first, then     *)
(* generation.                                                              *)
NotOlder(after, before) ==
  before.seq = 0 \/ compareObservationOrder(after, before) \in {Tied, Newer}

FencesForward ==
  \A t \in Threads :
    /\ NotOlder(ThreadOrder(thread'[t]), ThreadOrder(thread[t]))
    /\ NotOlder(evidence'[t], evidence[t])
    /\ \A f \in Families : NotOlder(reservation'[t][f], reservation[t][f])

FencesNeverRegress == [][FencesForward]_vars

(* A complete sync that saw GitHub's current row and took the newest        *)
(* generation always lands: its row, its children and a fresh revision of   *)
(* them are in the archive when its transaction commits.                    *)
NewestSync(s, t) ==
  /\ sync[s].phase = "sequenced"
  /\ t \in sync[s].scope
  /\ hasFreshThreadEvidence(sync[s].options, t)
  /\ sync[s].seq = counter
  /\ sync[s].rows[t] = [at |-> github[t].at, row |-> github[t].row]

NewestSyncLands ==
  [][\A s \in Syncers, t \in Threads :
       NewestSync(s, t) /\ Persist(s) =>
         /\ thread'[t].row = github[t].row /\ thread'[t].seq = counter
         /\ \A f \in Hydrated(sync[s].options, t) :
              children'[t][f] = sync[s].fetched[t][f]
         /\ FreshRevisions(t)' # {}]_vars

=============================================================================
