--------------------------- MODULE ArchiveSchema ---------------------------
(***************************************************************************)
(* Opening an archive: store.Open brings a database of any earlier version, *)
(* or one that a killed command left half converted, to the current schema  *)
(* and repairs the clocks that order observations, one statement or         *)
(* transaction at a time, while other processes open, sync or prune the     *)
(* same file (internal/store/store.go, schema_observation.go,               *)
(* schema_convergence.go, tombstone_schema.go, portable.go).                *)
(*                                                                         *)
(* The archive holds one pull request with one head commit: the order of    *)
(* its row, of the evidence accepted for it, of its revisions, of the       *)
(* reservations of its child families and of the fence of its workflow      *)
(* runs, and the allocator those generations come from.                     *)
(***************************************************************************)
EXTENDS ObservationOrder, FiniteSets, FiniteSetsExt, Sequences

CONSTANTS
  Procs,       \* processes
  Families,    \* the child families of a pull request, as comments and files
  Archives,    \* the archives to begin with
  MaxSource,   \* bound on GitHub's clock
  MaxSequence, \* bound on generations
  MaxCommands, \* bound on calls of Open and portable prunes
  MaxKills     \* bound on processes killed, or statements that fail

ASSUME SchemaAssumption ==
  /\ MaxSource \in Nat /\ MaxSequence \in Nat
  /\ MaxCommands \in Nat /\ MaxKills \in Nat

VARIABLES
  db,      \* the database file
  pc,      \* what each process does next
  seen,    \* the shape of a table as a process found it before its rebuild
  fetch,   \* the observation a sync has fetched and not persisted
  meddled, \* another process wrote since this one opened or last inspected
  raced,   \* the mark in force was set in spite of such a write, or outlived one
  stale,   \* a table was rebuilt that another process had rebuilt already
  commands, kills

vars == <<db, pc, seen, fetch, meddled, raced, stale, commands, kills>>
history == <<meddled, raced, stale>>
bounds == <<commands, kills>>

-----------------------------------------------------------------------------
(* The archive *)

(* schemaVersion, portableSchemaVersion                                     *)
Supported == 13
Portable == 4

(* What the migration rebuilds: the thread columns a portable store lacks,  *)
(* the family tables and their tombstones, threads and thread_revisions,    *)
(* the reservations and the allocator, and the keys of vectors and files.   *)
Tables == {"columns", "families", "rows", "workflows", "children", "allocator",
           "keys"}

(* An "unsourced" table of reservations has no source_updated_at.           *)
Shapes == {"missing", "unsourced", "old", "current"}

(* The tables whose triggers withdraw the convergence mark.                 *)
Watched == {"rows", "details", "children", "workflows", "allocator"}

(* -9223372036854775808, the one integer that has no absolute value.        *)
Lowest == -1000

NoOrder == [source |-> Blank, seq |-> 0]
NoValue == -1

Orders == [source : {Blank} \cup 1..MaxSource, seq : {Lowest} \cup -MaxSequence..MaxSequence]

Archive == [
  version   : {0, Portable, Supported} \cup Nat,
  shape     : [Tables -> Shapes],
  triggers  : SUBSET Watched,
  row       : Orders,                      \* threads; sequence 0 in old archives
  evidence  : Orders,                      \* evidence_source_updated_at, ..._sequence
  revisions : SUBSET Orders,
  details   : BOOLEAN,                     \* pull_request_details holds the head
  reserved  : [Families -> SUBSET Orders], \* reservations; an old table may repeat keys
  runs      : Nat,                         \* a legacy 'workflow_runs' reservation
  fence     : SUBSET Orders,               \* workflow_run_observation_reservations
  allocator : Nat \cup {NoValue},          \* thread_observation_sequence
  checked   : Nat \cup {NoValue},          \* checked_observation_sequence
  body      : {"full", "excerpt", "dropped", "null"},
  length    : {"unknown", "full", "excerpt"}]  \* what body_length measures

Value(order) == observationSequenceOrderValue(order.seq)

Sequences == UNION {{Value(db.row), db.evidence.seq},
                    {r.seq : r \in db.revisions},
                    {r.seq : r \in UNION {db.reserved[f] : f \in Families}},
                    {r.seq : r \in db.fence}}

(* Mutant: no trigger withdraws the mark.                                   *)
NeverWithdrawn(a, tables) == a

(* Writes to watched tables, by their triggers: a mark that equals the      *)
(* allocator no longer holds.                                               *)
Wrote(a, tables) ==
  IF tables \cap a.triggers # {} /\ a.checked = a.allocator
  THEN [a EXCEPT !.checked = NoValue] ELSE a

(* The first of a set of orders, by observationOrderSQL.                    *)
First(orders) ==
  CHOOSE r \in orders : \A q \in orders \ {r} : compareObservationOrder(r, q) = Newer

(* workflowObservationOrderSQL: by generation when a source is unknown.     *)
FirstRun(orders) ==
  IF \E r \in orders : r.source = Blank
  THEN CHOOSE r \in orders : \A q \in orders \ {r} :
         \/ r.seq > q.seq
         \/ r.seq = q.seq /\ r.source = Blank
  ELSE First(orders)

-----------------------------------------------------------------------------
(* What an inspection finds *)

(* threadEvidenceRevisionOrderSQL: a revision of the row's own clock first. *)
EvidenceRevision(a) ==
  LET sequenced == {r \in a.revisions : r.seq > 0}
      own == {r \in sequenced : r.source = a.row.source}
  IN First(IF own # {} THEN own ELSE sequenced)

HasRevision(a) == \E r \in a.revisions : r.seq > 0

(* threadEvidenceTupleExistsSQL *)
TupleExists(a) == \E r \in a.revisions : r.seq = a.evidence.seq

EffectiveEvidence(a) ==
  IF a.evidence.seq > 0 THEN a.evidence.seq
  ELSE IF HasRevision(a) THEN EvidenceRevision(a).seq ELSE 0

threadObservationSequenceValuesNeedRepair(a) == a.row.seq = Lowest

threadEvidenceObservationSequenceNeedsRepair(a) ==
  (a.evidence.seq = 0 \/ ~TupleExists(a)) /\ HasRevision(a)

threadChildObservationReservationsNeedRepair(a) ==
  EffectiveEvidence(a) > 0 /\ \E f \in Families : a.reserved[f] = {}

workflowRunObservationReservationsNeedRepair(a) ==
  /\ a.details /\ EffectiveEvidence(a) > 0
  /\ \A r \in a.fence : r.source = Blank /\ r.seq < EffectiveEvidence(a)

(* Mutant: reservations and fences are not counted.                         *)
FloorOfThreads(a) ==
  Max({0, Value(a.row), a.evidence.seq} \cup {r.seq : r \in a.revisions})

Floor(a) ==
  Max({0, Value(a.row), a.evidence.seq} \cup {r.seq : r \in a.revisions}
      \cup {r.seq : r \in a.fence}
      \cup {r.seq : r \in UNION {a.reserved[f] : f \in Families}})

threadObservationSequenceNeedsRepair(a) == a.allocator < Floor(a)

inspectStructuralCompatibilityMigrations(a) ==
  \/ a.version < Supported
  \/ \E t \in Tables : a.shape[t] # "current"
  \/ a.triggers # Watched

Drift(a) ==
  \/ threadObservationSequenceValuesNeedRepair(a)
  \/ threadEvidenceObservationSequenceNeedsRepair(a)
  \/ threadChildObservationReservationsNeedRepair(a)
  \/ workflowRunObservationReservationsNeedRepair(a)
  \/ threadObservationSequenceNeedsRepair(a)

inspectCompatibilityMigrations(a) ==
  inspectStructuralCompatibilityMigrations(a) \/ Drift(a)

(* observationSchemaConvergenceIsCurrent, with a row on either side.        *)
Converged(a) == a.checked = a.allocator /\ a.allocator # NoValue

-----------------------------------------------------------------------------
(* The statements of the migration, each from an archive to an archive.     *)

Rebuilt(a, t) == [a EXCEPT !.shape[t] = "current"]

(* "create table if not exists": what is missing is made as it is today.    *)
schemaSQL(a) ==
  [a EXCEPT !.shape = [t \in Tables |->
     IF a.shape[t] = "missing" /\ (t # "columns" \/ a.version = 0)
     THEN "current" ELSE a.shape[t]]]

ensureLegacyPortableColumns(a) ==
  Rebuilt([a EXCEPT !.body = IF @ = "dropped" THEN "null" ELSE @], "columns")

(* A dropped body comes back as the excerpt, in a statement of its own that *)
(* runs only when this process found no column.                             *)
BackfillBodies(a, found) ==
  IF found = "missing" /\ a.body = "null"
  THEN Wrote([a EXCEPT !.body = "excerpt"], {"rows"}) ELSE a

ensureFamilyTombstoneSchema(a) == Rebuilt(a, "families")

(* The tables are made anew, without their triggers; a sequence that the    *)
(* new table does not accept becomes 0.                                     *)
ensureCanonicalObservationTables(a) ==
  Rebuilt([a EXCEPT !.row.seq = IF @ = Lowest THEN 0 ELSE @,
                    !.evidence.seq = IF @ < 0 THEN 0 ELSE @,
                    !.revisions = {[r EXCEPT !.seq = IF @ < 0 THEN 0 ELSE @] :
                                     r \in a.revisions},
                    !.triggers = @ \ {"rows"}], "rows")

ensureThreadObservationSequenceValues(a) ==
  IF a.row.seq = Lowest THEN Wrote([a EXCEPT !.row.seq = 0], {"rows"}) ELSE a

ensureThreadEvidenceObservationSequence(a) ==
  IF threadEvidenceObservationSequenceNeedsRepair(a)
  THEN Wrote([a EXCEPT !.evidence = [source |-> a.row.source,
                                     seq |-> EvidenceRevision(a).seq]], {"rows"})
  ELSE a

(* The source clock of a table that had none when it was looked at.         *)
Clocks(orders, shape) ==
  IF shape = "unsourced" THEN {[r EXCEPT !.source = Blank] : r \in orders} ELSE orders

(* Mutant: rows that became duplicates are copied too.                      *)
EveryRowCopied(a, shape) ==
  Rebuilt([a EXCEPT !.fence = Clocks(@, shape), !.triggers = @ \ {"workflows"}],
          "workflows")

ensureWorkflowRunObservationReservationsSchema(a, shape) ==
  Rebuilt([a EXCEPT !.fence = IF @ = {} THEN {} ELSE {FirstRun(Clocks(@, shape))},
                    !.triggers = @ \ {"workflows"}], "workflows")

RaiseFence(a, seq) ==
  Wrote([a EXCEPT !.fence = {[source |-> Blank, seq |-> seq]}], {"workflows"})

(* ensureWorkflowRunObservationReservations is three statements: the fence  *)
(* of the evidence, the fence of a legacy reservation, and its removal.     *)
BackfillFence(a) ==
  IF /\ a.details /\ a.evidence.seq > 0
     /\ \A r \in a.fence : r.source = Blank /\ r.seq < a.evidence.seq
  THEN RaiseFence(a, a.evidence.seq) ELSE a

RecoverLegacyRuns(a) ==
  IF /\ a.details /\ a.runs > 0
     /\ \A r \in a.fence : r.seq < a.runs
  THEN RaiseFence(a, a.runs) ELSE a

RemoveLegacyRuns(a) ==
  IF a.runs > 0 THEN Wrote([a EXCEPT !.runs = 0], {"children"}) ELSE a

(* Rows of a family the new table does not have are not copied.             *)
ensureThreadChildObservationReservationsSchema(a, shape) ==
  Rebuilt([a EXCEPT !.reserved = [f \in Families |->
                      IF @[f] = {} THEN {} ELSE {First(Clocks(@[f], shape))}],
                    !.runs = 0,
                    !.triggers = @ \ {"children"}], "children")

ensureThreadChildObservationReservations(a) ==
  IF a.evidence.seq > 0 /\ \E f \in Families : a.reserved[f] = {}
  THEN Wrote([a EXCEPT !.reserved = [f \in Families |->
                IF @[f] = {} THEN {a.evidence} ELSE @[f]]], {"children"})
  ELSE a

ensureThreadObservationSequenceSchema(a) ==
  Rebuilt([a EXCEPT !.allocator = Max({0, @}), !.triggers = @ \ {"allocator"}],
          "allocator")

ensureThreadObservationSequenceRow(a) ==
  IF a.allocator = NoValue THEN Wrote([a EXCEPT !.allocator = 0], {"allocator"}) ELSE a

ensureThreadObservationSequenceFloor(a) ==
  Wrote([a EXCEPT !.allocator = Max({@, Floor(a)})], {"allocator"})

(* ensureThreadVectorsCompositeKey, ensurePullRequestFilesPositionKey       *)
ensureKeys(a) == Rebuilt(a, "keys")

(* The mark survives; a table made now has none.                            *)
ensureObservationSchemaConvergence(a) == [a EXCEPT !.triggers = Watched]

markObservationSchemaConverged(a) ==
  IF a.allocator = NoValue THEN a ELSE [a EXCEPT !.checked = a.allocator]

-----------------------------------------------------------------------------
(* Store.migrate *)

Steps == <<"columns", "bodies", "families", "rows", "values", "evidence", "workflows",
           "fence", "recover", "remove", "children", "reservations",
           "allocator", "floor", "keys", "triggers", "version", "verify">>

(* Mutant: child reservations are rebuilt before the legacy fences they     *)
(* hold are recovered.                                                      *)
ChildrenFirst(step) ==
  CASE step = "evidence" -> "children"
    [] step = "children" -> "workflows"
    [] step = "remove" -> "reservations"
    [] OTHER -> LET n == CHOOSE i \in DOMAIN Steps : Steps[i] = step
                IN Steps[n + 1]

(* Mutant: the fences of workflow runs are backfilled before the evidence   *)
(* they are backfilled from.                                                *)
FenceBeforeEvidence(step) ==
  CASE step = "values" -> "workflows"
    [] step = "remove" -> "evidence"
    [] step = "evidence" -> "children"
    [] OTHER -> LET n == CHOOSE i \in DOMAIN Steps : Steps[i] = step
                IN Steps[n + 1]

After(step) == LET n == CHOOSE i \in DOMAIN Steps : Steps[i] = step IN Steps[n + 1]

Migrating(p) == pc[p] \notin {"closed", "failed", "open"}

(* A write by p is seen by every process that is opening the archive.       *)
Writes(p, a) ==
  /\ db' = a
  /\ meddled' = [q \in Procs |-> meddled[q] \/ (q # p /\ a # db)]

Goto(p, step) == pc' = [pc EXCEPT ![p] = step]

Open(p) ==
  /\ pc[p] = "closed"
  /\ commands < MaxCommands
  /\ commands' = commands + 1
  /\ IF db.version > Supported
     THEN UNCHANGED pc
     ELSE Goto(p, IF db.version = Supported THEN "applyCurrent" ELSE "apply")
  /\ meddled' = [meddled EXCEPT ![p] = FALSE]
  /\ UNCHANGED <<db, seen, fetch, raced, stale, kills>>

ApplySchema(p) ==
  /\ pc[p] \in {"apply", "applyCurrent"}
  /\ Writes(p, schemaSQL(db))
  /\ Goto(p, IF pc[p] = "apply" THEN "columns" ELSE "structure")
  /\ UNCHANGED <<seen, fetch, raced, stale, bounds>>

InspectStructure(p) ==
  /\ pc[p] = "structure"
  /\ Goto(p, IF inspectStructuralCompatibilityMigrations(db)
             THEN "columns" ELSE "converged")
  /\ UNCHANGED <<db, seen, fetch, history, bounds>>

CheckConverged(p) ==
  /\ pc[p] = "converged"
  /\ Goto(p, IF Converged(db) THEN "open" ELSE "inspect")
  /\ UNCHANGED <<db, seen, fetch, history, bounds>>

Inspect(p) ==
  /\ pc[p] = "inspect"
  /\ Goto(p, IF inspectCompatibilityMigrations(db) THEN "columns" ELSE "mark")
  /\ meddled' = [meddled EXCEPT ![p] = FALSE]
  /\ UNCHANGED <<db, seen, fetch, raced, stale, bounds>>

(* A rebuild looks at the table first, outside its transaction.             *)
Look(p) ==
  /\ pc[p] \in Tables \cup {"triggers"}
  /\ seen[p] = "unseen"
  /\ LET shape == IF pc[p] # "triggers" THEN db.shape[pc[p]]
                  ELSE IF db.triggers = Watched THEN "current" ELSE "old"
     IN IF shape # "current"
        THEN /\ seen' = [seen EXCEPT ![p] = shape]
             /\ UNCHANGED <<db, pc, meddled>>
        ELSE /\ Goto(p, After(pc[p]))
             /\ Writes(p, IF pc[p] = "allocator"
                          THEN ensureThreadObservationSequenceRow(db) ELSE db)
             /\ UNCHANGED seen
  /\ UNCHANGED <<fetch, raced, stale, bounds>>

(* Adding a column that another process has added is an error.              *)
Duplicate(p) == pc[p] \in {"columns", "families"} /\ db.shape[pc[p]] = "current"

Rebuild(p) ==
  /\ pc[p] \in Tables \cup {"triggers"}
  /\ seen[p] # "unseen"
  /\ seen' = [seen EXCEPT ![p] = IF pc[p] = "columns" /\ ~Duplicate(p)
                             THEN @ ELSE "unseen"]
  /\ IF Duplicate(p)
     THEN Goto(p, "failed") /\ UNCHANGED <<db, meddled, stale>>
     ELSE /\ Goto(p, After(pc[p]))
          /\ stale' = (stale \/ (pc[p] \in Tables /\ db.shape[pc[p]] = "current"))
          /\ Writes(p,
               CASE pc[p] = "columns"   -> ensureLegacyPortableColumns(db)
                 [] pc[p] = "families"  -> ensureFamilyTombstoneSchema(db)
                 [] pc[p] = "rows"      -> ensureCanonicalObservationTables(db)
                 [] pc[p] = "workflows" ->
                      ensureWorkflowRunObservationReservationsSchema(db, seen[p])
                 [] pc[p] = "children"  ->
                      ensureThreadChildObservationReservationsSchema(db, seen[p])
                 [] pc[p] = "allocator" -> ensureThreadObservationSequenceSchema(db)
                 [] pc[p] = "keys"      -> ensureKeys(db)
                 [] pc[p] = "triggers"  -> ensureObservationSchemaConvergence(db))
  /\ UNCHANGED <<fetch, raced, bounds>>

Repair(p) ==
  /\ pc[p] \in {"bodies", "values", "evidence", "fence", "recover", "remove", "reservations",
                "floor", "version"}
  /\ Goto(p, After(pc[p]))
  /\ Writes(p,
       CASE pc[p] = "bodies"       -> BackfillBodies(db, seen[p])
         [] pc[p] = "values"       -> ensureThreadObservationSequenceValues(db)
         [] pc[p] = "evidence"     -> ensureThreadEvidenceObservationSequence(db)
         [] pc[p] = "fence"        -> BackfillFence(db)
         [] pc[p] = "recover"      -> RecoverLegacyRuns(db)
         [] pc[p] = "remove"       -> RemoveLegacyRuns(db)
         [] pc[p] = "reservations" -> ensureThreadChildObservationReservations(db)
         [] pc[p] = "floor"        -> ensureThreadObservationSequenceFloor(db)
         [] pc[p] = "version"      -> [db EXCEPT !.version = Supported])
  /\ seen' = [seen EXCEPT ![p] = "unseen"]
  /\ UNCHANGED <<fetch, raced, stale, bounds>>

(* "schema migration left pending convergence"                              *)
Verify(p) ==
  /\ pc[p] = "verify"
  /\ IF inspectCompatibilityMigrations(db)
     THEN Goto(p, "failed") /\ UNCHANGED meddled
     ELSE Goto(p, "mark") /\ meddled' = [meddled EXCEPT ![p] = FALSE]
  /\ UNCHANGED <<db, seen, fetch, raced, stale, bounds>>

Mark(p) ==
  /\ pc[p] = "mark"
  /\ Writes(p, markObservationSchemaConverged(db))
  /\ raced' = meddled[p]
  /\ Goto(p, "open")
  /\ UNCHANGED <<seen, fetch, stale, bounds>>

-----------------------------------------------------------------------------
(* Syncs of a process that has the archive open *)

(* The statements of a sync need every column, and the clocks of the        *)
(* reservations.                                                            *)
Usable(a) ==
  /\ a.shape["columns"] = "current"
  /\ "unsourced" \notin {a.shape[t] : t \in Tables}

NextThreadObservationSequence(a) ==
  Wrote([a EXCEPT !.allocator = Max({0, @}) + 1], {"allocator"})

(* UpsertThreadObservation of a payload the archive does not hold yet:      *)
(* metadata without children is stored with its generation negated.         *)
Applies(a, o) ==
  \/ a.row = NoOrder
  \/ compareObservationOrder(o, [source |-> a.row.source, seq |-> Value(a.row)]) = Newer

Accepts(a, o) ==
  Applies(a, o) /\ (a.evidence.seq = 0 \/ compareObservationOrder(o, a.evidence) = Newer)

Upserted(a, o, complete) ==
  IF ~Applies(a, o) THEN a
  ELSE Wrote([a EXCEPT !.row = [o EXCEPT !.seq = IF complete THEN @ ELSE -@],
                       !.evidence = IF complete /\ Accepts(a, o) THEN o ELSE @,
                       !.body = "full"], {"rows"})

ReserveThreadChildObservation(rows, o) ==
  IF \A r \in rows : compareReservationObservationOrder(o, r) = Newer THEN {o} ELSE rows

ReserveWorkflowRunObservation(rows, o) ==
  IF \A r \in rows : compareWorkflowObservationOrder(o, r) = Newer THEN {o} ELSE rows

(* The transaction of Syncer.Sync, with comments, details and workflow runs.*)
Persisted(a, o) ==
  LET b == Upserted(a, o, TRUE)
      c == IF ~Accepts(a, o) THEN b
           ELSE [b EXCEPT !.reserved = [f \in Families |->
                            ReserveThreadChildObservation(@[f], o)],
                          !.revisions = @ \cup {o},
                          !.details = TRUE]
  IN Wrote([c EXCEPT !.fence = ReserveWorkflowRunObservation(@, o)], Watched)

Allocate(p) ==
  /\ pc[p] = "open"
  /\ fetch[p] = NoOrder
  /\ db.allocator < MaxSequence
  /\ Usable(db)
  /\ \E source \in 1..MaxSource :
       fetch' = [fetch EXCEPT ![p] =
         [source |-> source, seq |-> NextThreadObservationSequence(db).allocator]]
  /\ Writes(p, NextThreadObservationSequence(db))
  /\ UNCHANGED <<pc, seen, raced, stale, bounds>>

(* The three ways a fetch is persisted: complete, metadata alone, or the    *)
(* row of a fetch that failed (recordPullRequestSyncFailure), which claims  *)
(* the evidence without its children.  A statement that meets a column that *)
(* is not there fails, and the fetch is lost.                               *)
Persist(p) ==
  /\ pc[p] = "open"
  /\ fetch[p] # NoOrder
  /\ fetch' = [fetch EXCEPT ![p] = NoOrder]
  /\ IF ~Usable(db)
     THEN UNCHANGED <<db, meddled, raced>>
     ELSE /\ \/ Writes(p, Persisted(db, fetch[p]))
             \/ Writes(p, Upserted(db, fetch[p], FALSE))
             \/ Writes(p, Upserted(db, fetch[p], TRUE))
          /\ raced' = (raced \/ "rows" \notin db.triggers)
  /\ UNCHANGED <<pc, seen, stale, bounds>>

-----------------------------------------------------------------------------
(* gitcrawl portable prune *)

(* The body becomes an excerpt, and body_length what the body measured.     *)
Excerpts(a) ==
  Wrote([a EXCEPT !.length = IF a.body = "null" THEN @ ELSE a.body,
                  !.body = "excerpt",
                  !.shape["rows"] = IF a.length = "unknown" THEN "old" ELSE @],
        {"rows"})

(* Columns are dropped, then the tables a portable store leaves out.        *)
canonicalizePortableSchema(a) ==
  [a EXCEPT !.shape["columns"] = "missing", !.shape["rows"] = "old",
            !.shape["keys"] = "missing", !.body = "dropped"]

PrunePortablePayloads(p) ==
  /\ pc[p] = "open" /\ fetch[p] = NoOrder
  /\ commands < MaxCommands
  /\ db.shape["columns"] = "current" /\ db.row # NoOrder
  /\ commands' = commands + 1
  /\ Writes(p, Excerpts(db))
  /\ Goto(p, "drop")
  /\ UNCHANGED <<seen, fetch, raced, stale, kills>>

DropColumns(p) ==
  /\ pc[p] = "drop"
  /\ Writes(p, canonicalizePortableSchema(db))
  /\ Goto(p, "stamp")
  /\ UNCHANGED <<seen, fetch, raced, stale, bounds>>

StampPortable(p) ==
  /\ pc[p] = "stamp"
  /\ Writes(p, [db EXCEPT !.version = Portable])
  /\ Goto(p, "closed")
  /\ UNCHANGED <<seen, fetch, raced, stale, bounds>>

Close(p) ==
  /\ pc[p] \in {"open", "failed"} /\ fetch[p] = NoOrder
  /\ Goto(p, "closed")
  /\ UNCHANGED <<db, seen, fetch, history, bounds>>

(* Killed, or a statement fails: what was committed stays.                  *)
Kill(p) ==
  /\ pc[p] \notin {"closed", "failed"}
  /\ kills < MaxKills
  /\ kills' = kills + 1
  /\ Goto(p, "closed")
  /\ seen' = [seen EXCEPT ![p] = "unseen"]
  /\ fetch' = [fetch EXCEPT ![p] = NoOrder]
  /\ UNCHANGED <<db, history, commands>>

-----------------------------------------------------------------------------
(* What the releases that wrote the archives to begin with have kept: the   *)
(* CHECK and key constraints of their tables, what their prune dropped, no  *)
(* clock on a fence beside the legacy reservation of the same head, and     *)
(* what an inspection found before the archive was marked.                  *)
Unequal(orders) == \A r, q \in orders : r.seq = q.seq => r = q

Single(orders) == \A r, q \in orders : r = q

Sound(a) ==
  /\ a \in Archive /\ a.runs <= MaxSequence /\ a.checked <= a.allocator
  /\ a.shape["rows"] \in {"missing", "current"} => a.evidence.seq >= 0
  /\ a.body = "dropped" => a.shape["columns"] = "missing" /\ a.version # 0
  /\ Unequal(a.fence)
  /\ a.shape["workflows"] \in {"missing", "current"} => Single(a.fence)
  /\ a.shape["workflows"] = "unsourced" => \A r \in a.fence : r.source = Blank
  /\ a.shape["children"] \in {"missing", "current"}
       => a.runs = 0 /\ \A f \in Families : Single(a.reserved[f])
  /\ a.shape["children"] = "unsourced"
       => \A f \in Families : \A r \in a.reserved[f] : r.source = Blank
  /\ a.runs > 0 => \A r \in a.fence : r.source = Blank

Inspected(a) ==
  /\ a.version # 0 /\ a.runs = 0 /\ a.evidence.seq >= 0
  /\ \A t \in {"workflows", "children", "allocator"} : a.shape[t] = "current"
  /\ a.allocator # NoValue /\ a.allocator >= Floor(a)

ASSUME ArchivesAssumption ==
  \A a \in Archives :
    /\ Sound(a)
    /\ a.checked # NoValue => Inspected(a)
    /\ Converged(a) => ~Drift(a)

Init ==
  /\ db \in Archives
  /\ pc = [p \in Procs |-> "closed"]
  /\ seen = [p \in Procs |-> "unseen"]
  /\ fetch = [p \in Procs |-> NoOrder]
  /\ meddled = [p \in Procs |-> FALSE]
  /\ raced = FALSE /\ stale = FALSE
  /\ commands = 0 /\ kills = 0

Migrate(p) ==
  \/ ApplySchema(p) \/ InspectStructure(p) \/ CheckConverged(p) \/ Inspect(p)
  \/ Look(p) \/ Rebuild(p) \/ Repair(p) \/ Verify(p) \/ Mark(p)

Next == \E p \in Procs :
  \/ Open(p) \/ Migrate(p) \/ Close(p) \/ Kill(p)
  \/ Allocate(p) \/ Persist(p)
  \/ PrunePortablePayloads(p) \/ DropColumns(p) \/ StampPortable(p)

Spec == Init /\ [][Next]_vars

-----------------------------------------------------------------------------
(* Properties *)

(* The archive keeps its shape; a rebuilt table of reservations has one row *)
(* for each key.                                                            *)
TypeOK ==
  /\ db \in Archive
  /\ fetch \in [Procs -> Orders]
  /\ db.shape["workflows"] = "current" => Cardinality(db.fence) <= 1
  /\ db.shape["children"] = "current"
       => \A f \in Families : Cardinality(db.reserved[f]) <= 1

(* No generation is given out twice: what a sync has allocated is neither   *)
(* stored already, whatever table of an old archive held it, nor allocated  *)
(* to another process (Store.ensureThreadObservationSequenceFloor).         *)
GenerationsAreUnique ==
  \A p \in Procs : fetch[p] # NoOrder =>
    /\ fetch[p].seq \notin Sequences
    /\ \A q \in Procs \ {p} : fetch[q].seq # fetch[p].seq

(* An Open that no other process disturbs succeeds, whatever old version it *)
(* finds and wherever an earlier one, a sync or a prune was killed: one     *)
(* pass of the steps leaves nothing pending (Store.migrate).                *)
UndisturbedOpenSucceeds == \A p \in Procs : pc[p] = "failed" => meddled[p]

(* An archive whose mark lets Open skip the inspection needs no repair,     *)
(* unless a sync committed between the last inspection and the mark         *)
(* (Store.markObservationSchemaConverged), or while a rebuild had dropped   *)
(* the trigger on threads, or a rebuild decided before another process's    *)
(* dropped the triggers once more.                                          *)
ConvergedNeedsNoRepair ==
  /\ ~inspectStructuralCompatibilityMigrations(db)
  /\ Converged(db)
  => ~Drift(db) \/ raced \/ stale

Advances(before, after, Compare(_, _)) ==
  before = after \/ Compare(after, before) = Newer

(* A fence, and the legacy reservation it is recovered from, only advance:  *)
(* no migration, repair or crash forgets an observation that older ones are *)
(* compared with, or the clock it had.  The exception is a rebuild decided  *)
(* before another process's (schema_observation.go, CHANGELOG.md:61).       *)
FencesOnlyAdvance ==
  [][stale' \/
     /\ \A f \in Families : db.reserved[f] # {} =>
          /\ db'.reserved[f] # {}
          /\ Advances(First(db.reserved[f]), First(db'.reserved[f]),
                      compareReservationObservationOrder)
     /\ db.fence # {} =>
          /\ db'.fence # {}
          /\ Advances(FirstRun(db.fence), FirstRun(db'.fence),
                      compareWorkflowObservationOrder)
     /\ db.details /\ db'.runs < db.runs =>
          \E r \in db'.fence : r.seq >= db.runs]_vars

(* What a portable store says of a body it has cut short is the length the  *)
(* body had (portable.go, CHANGELOG.md:61).                                 *)
TruncationRemembered == db.length # "excerpt"
=============================================================================
