----------------------------- MODULE SyncProofs -----------------------------
(***************************************************************************)
(* What TLAPS proves of the syncs: of ThreadObservation, for any number of  *)
(* threads, syncers, rows and changes on GitHub; and of the command that    *)
(* syncs pull requests in batches (DetailFill) and of the token it spends   *)
(* (TokenReserve), for any number of clients, resources and other programs, *)
(* any limits and any reserve below them.  The two share no variable.       *)
(***************************************************************************)
EXTENDS ThreadObservation, DetailFill, FiniteSetTheorems, SequenceTheorems,
        WellFoundedInduction, TLAPS

-----------------------------------------------------------------------------
(* The orders *)

(* A clock that is a number parses, and is not the blank clock.             *)
LEMMA NumbersAreValid ==
  ASSUME NEW n \in Nat
  PROVE  Valid(n) /\ n # Blank
BY MalformedAssumption DEF Valid

(* Between observations whose clocks parse: source clock, then generation.  *)
LEMMA CompareOrder ==
  ASSUME NEW a \in Order, NEW b \in Order
  PROVE  compareObservationOrder(a, b) =
           IF a.source = b.source THEN CompareNumbers(a.seq, b.seq)
           ELSE CompareNumbers(a.source, b.source)
<1>1. a.source \in Nat /\ b.source \in Nat
  BY DEF Order
<1>2. Valid(a.source) /\ Valid(b.source)
  BY <1>1, NumbersAreValid
<1>3. CASE a.source = b.source
  BY <1>2, <1>3 DEF compareObservationOrder
<1>4. CASE a.source # b.source
  BY <1>2, <1>4 DEF compareObservationOrder
<1>5. QED
  BY <1>3, <1>4

(* Numbers compare as Newer, Tied or Older when greater, equal or less.     *)
LEMMA CompareNumbersIs ==
  ASSUME NEW m \in Int, NEW n \in Int
  PROVE  /\ CompareNumbers(m, n) = Newer <=> m > n
         /\ CompareNumbers(m, n) = Tied  <=> m = n
         /\ CompareNumbers(m, n) = Older <=> m < n
BY DEF CompareNumbers, Newer, Tied, Older

(* NotOlder is the lexicographic order of source clock and generation.      *)
LEMMA NotOlderIs ==
  ASSUME NEW a \in Order, NEW b \in Order
  PROVE  NotOlder(a, b) <=> \/ b.seq = 0
                            \/ a.source > b.source
                            \/ a.source = b.source /\ a.seq >= b.seq
<1>1. /\ a.source \in Int /\ b.source \in Int
      /\ a.seq \in Int /\ b.seq \in Int
  BY DEF Order
<1>2. CASE a.source = b.source
  BY <1>1, <1>2, CompareOrder, CompareNumbersIs DEF NotOlder, CompareNumbers, Newer, Tied, Older
<1>3. CASE a.source # b.source
  BY <1>1, <1>3, CompareOrder, CompareNumbersIs DEF NotOlder, CompareNumbers, Newer, Tied, Older
<1>4. QED
  BY <1>2, <1>3

(* Staying where it is never moves a fence back.                            *)
LEMMA NotOlderReflexive ==
  ASSUME NEW a \in Order
  PROVE  NotOlder(a, a)
BY NotOlderIs DEF Order

(* A newer observation is not an older one.                                 *)
LEMMA NewerIsNotOlder ==
  ASSUME NEW a \in Order, NEW b \in Order, compareObservationOrder(a, b) \in {Tied, Newer}
  PROVE  NotOlder(a, b)
BY DEF NotOlder

(* The order value of a generation is a natural number, itself if positive. *)
LEMMA OrderValue ==
  ASSUME NEW n \in Int
  PROVE  /\ observationSequenceOrderValue(n) \in Nat
         /\ n \in Nat => observationSequenceOrderValue(n) = n
         /\ observationSequenceOrderValue(n) = 0 <=> n = 0
         /\ observationSequenceOrderValue(-n) = observationSequenceOrderValue(n)
BY DEF observationSequenceOrderValue

-----------------------------------------------------------------------------
(* Store.upsertThreadObservation *)

IncomingRow == [at : Nat, row : Rows, draft : BOOLEAN]

(* The generation a row is stored with is, negated or not, the one of the   *)
(* observation or the one the row had, and never a smaller one when the     *)
(* payload is the same and the row was metadata only.                       *)
LEMMA StoredSequenceIs ==
  ASSUME NEW cur \in ThreadRow, NEW seq \in Nat,
         NEW same \in BOOLEAN, NEW incomplete \in BOOLEAN
  PROVE  LET stored == StoredSequence(cur, seq, same, incomplete)
             value  == observationSequenceOrderValue(stored)
         IN /\ stored \in Int
            /\ value \in {seq, observationSequenceOrderValue(cur.seq)}
            /\ ~same => value = seq
            /\ same /\ ~incomplete /\ cur.seq < 0
                 => value >= observationSequenceOrderValue(cur.seq)
<1>1. cur.seq \in Int
  BY DEF ThreadRow
<1>2. QED
  BY <1>1 DEF StoredSequence, LargerOf, observationSequenceOrderValue

(* The result of an upsert is well typed.                                   *)
LEMMA UpsertType ==
  ASSUME NEW cur \in ThreadRow, NEW ev \in Order, NEW in \in IncomingRow, NEW seq \in Nat,
         NEW incomplete \in BOOLEAN, NEW preserve \in BOOLEAN
  PROVE  LET u == upsertThreadObservation(cur, ev, in, seq, incomplete, preserve)
         IN u.thread \in ThreadRow /\ u.evidence \in Order
<1> DEFINE draft == IF preserve /\ cur.seq # 0 THEN cur.draft ELSE in.draft
           same == SamePayload(cur, in, draft)
           number == StoredSequence(cur, seq, same, incomplete)
           stored == [at |-> in.at, row |-> in.row, draft |-> draft, seq |-> number]
<1>1. draft \in BOOLEAN
  BY DEF ThreadRow, IncomingRow
<1>2. same \in BOOLEAN
  BY DEF SamePayload
<1>3. number \in Int
  BY <1>2, StoredSequenceIs
<1>4. stored \in ThreadRow
  BY <1>1, <1>3 DEF ThreadRow, IncomingRow
<1>5. [source |-> in.at, seq |-> seq] \in Order
  BY DEF Order, IncomingRow
<1>6. QED
  BY <1>4, <1>5 DEF upsertThreadObservation

(* An accepted order never moves the evidence fence back.                   *)
LEMMA ReserveMovesForward ==
  ASSUME NEW ev \in Order, NEW o \in Order, reserveThreadEvidenceObservation(ev, o)
  PROVE  NotOlder(o, ev)
BY DEF reserveThreadEvidenceObservation, NotOlder

(* An upsert moves neither the row nor the evidence fence back.             *)
LEMMA UpsertMovesForward ==
  ASSUME NEW cur \in ThreadRow, NEW ev \in Order, NEW in \in IncomingRow, NEW seq \in Nat,
         NEW incomplete \in BOOLEAN, NEW preserve \in BOOLEAN
  PROVE  LET u == upsertThreadObservation(cur, ev, in, seq, incomplete, preserve)
         IN /\ NotOlder(ThreadOrder(u.thread), ThreadOrder(cur))
            /\ NotOlder(u.evidence, ev)
<1> DEFINE draft == IF preserve /\ cur.seq # 0 THEN cur.draft ELSE in.draft
           same == SamePayload(cur, in, draft)
           number == StoredSequence(cur, seq, same, incomplete)
           stored == [at |-> in.at, row |-> in.row, draft |-> draft, seq |-> number]
           forced == cur.seq = 0 \/ (same /\ ~incomplete /\ cur.seq < 0)
           order == IF forced THEN Newer
                    ELSE compareObservationOrder(ThreadOrder(stored), ThreadOrder(cur))
           applied == order = Newer \/ (order = Tied /\ same /\ incomplete)
           u == upsertThreadObservation(cur, ev, in, seq, incomplete, preserve)
<1>1. same \in BOOLEAN
  BY DEF SamePayload
<1>2. /\ number \in Int
      /\ same /\ ~incomplete /\ cur.seq < 0
           => observationSequenceOrderValue(number) >= observationSequenceOrderValue(cur.seq)
  BY <1>1, StoredSequenceIs
<1>3. ThreadOrder(cur) \in Order
  BY OrderValue DEF ThreadOrder, ThreadRow, Order
<1>4. ThreadOrder(stored) \in Order
  BY <1>2, OrderValue DEF ThreadOrder, IncomingRow, Order
<1>5. ASSUME applied PROVE NotOlder(ThreadOrder(stored), ThreadOrder(cur))
  <2>1. CASE cur.seq = 0
    BY <2>1, OrderValue DEF NotOlder, ThreadOrder
  <2>2. CASE same /\ ~incomplete /\ cur.seq < 0
    <3>1. in.at = cur.at
      BY <2>2 DEF SamePayload
    <3>2. QED
      BY <1>2, <1>3, <1>4, <2>2, <3>1, NotOlderIs DEF ThreadOrder
  <2>3. CASE ~forced
    BY <1>3, <1>4, <1>5, <2>3, NewerIsNotOlder DEF Newer, Tied
  <2>4. QED
    BY <2>1, <2>2, <2>3
<1>6. u.thread = IF applied THEN stored ELSE cur
  BY DEF upsertThreadObservation
<1>7. NotOlder(ThreadOrder(u.thread), ThreadOrder(cur))
  BY <1>3, <1>5, <1>6, NotOlderReflexive
<1>8. [source |-> in.at, seq |-> seq] \in Order
  BY DEF IncomingRow, Order
<1>9. NotOlder(u.evidence, ev)
  <2>1. \/ u.evidence = ev
        \/ /\ u.evidence = [source |-> in.at, seq |-> seq]
           /\ reserveThreadEvidenceObservation(ev, [source |-> in.at, seq |-> seq])
    BY DEF upsertThreadObservation
  <2>2. QED
    BY <1>8, <2>1, NotOlderReflexive, ReserveMovesForward
<1>10. QED
  BY <1>7, <1>9

(* A row that was applied, or whose evidence was, is the row now stored.    *)
LEMMA UpsertStoresRow ==
  ASSUME NEW cur, NEW ev, NEW in, NEW seq, NEW incomplete, NEW preserve
  PROVE  LET u == upsertThreadObservation(cur, ev, in, seq, incomplete, preserve)
         IN /\ u.applied \/ u.evidenceApplied
                 => u.thread.at = in.at /\ u.thread.row = in.row
            /\ ~u.applied => u.thread = cur
            /\ ~u.evidenceApplied => u.evidence = ev
BY DEF upsertThreadObservation, SamePayload

(* The generations after an upsert are the observation's or those before,   *)
(* and a conflict needs the observation's to be the row's already.          *)
LEMMA UpsertSequences ==
  ASSUME NEW cur \in ThreadRow, NEW ev \in Order, NEW in \in IncomingRow, NEW seq \in Nat,
         NEW incomplete \in BOOLEAN, NEW preserve \in BOOLEAN
  PROVE  LET u == upsertThreadObservation(cur, ev, in, seq, incomplete, preserve)
         IN /\ observationSequenceOrderValue(u.thread.seq)
                 \in {seq, observationSequenceOrderValue(cur.seq)}
            /\ u.evidence.seq \in {seq, ev.seq}
            /\ u.conflict => observationSequenceOrderValue(cur.seq) = seq
<1> DEFINE draft == IF preserve /\ cur.seq # 0 THEN cur.draft ELSE in.draft
           same == SamePayload(cur, in, draft)
           number == StoredSequence(cur, seq, same, incomplete)
           stored == [at |-> in.at, row |-> in.row, draft |-> draft, seq |-> number]
           forced == cur.seq = 0 \/ (same /\ ~incomplete /\ cur.seq < 0)
           order == IF forced THEN Newer
                    ELSE compareObservationOrder(ThreadOrder(stored), ThreadOrder(cur))
           u == upsertThreadObservation(cur, ev, in, seq, incomplete, preserve)
<1>1. same \in BOOLEAN
  BY DEF SamePayload
<1>2. /\ number \in Int
      /\ observationSequenceOrderValue(number) \in {seq, observationSequenceOrderValue(cur.seq)}
      /\ ~same => observationSequenceOrderValue(number) = seq
  <2> HIDE DEF same
  <2>1. QED
    BY <1>1, StoredSequenceIs
<1>3. u.thread = stored \/ u.thread = cur
  BY DEF upsertThreadObservation
<1>4. u.evidence = ev \/ u.evidence = [source |-> in.at, seq |-> seq]
  BY DEF upsertThreadObservation
<1>5. ASSUME u.conflict PROVE observationSequenceOrderValue(cur.seq) = seq
  <2>1. order = Tied /\ ~same
    BY <1>5 DEF upsertThreadObservation
  <2>2. compareObservationOrder(ThreadOrder(stored), ThreadOrder(cur)) = Tied
    BY <2>1 DEF Newer, Tied
  <2>3. ThreadOrder(cur) \in Order /\ ThreadOrder(stored) \in Order
    BY <1>2, OrderValue DEF ThreadOrder, ThreadRow, IncomingRow, Order
  <2>4. ThreadOrder(stored).seq = ThreadOrder(cur).seq
    BY <2>2, <2>3, CompareOrder, CompareNumbersIs DEF Order
  <2>5. QED
    BY <1>2, <2>1, <2>4 DEF ThreadOrder
<1>6. QED
  BY <1>2, <1>3, <1>4, <1>5

-----------------------------------------------------------------------------
(* Type correctness *)

(* A sync that is not idle is an attempt.                                   *)
LEMMA ActiveSync ==
  ASSUME TypeOK, NEW s \in Syncers, sync[s] # Idle
  PROVE  sync[s] \in Attempt
BY DEF TypeOK

(* What a sync passes to the upsert of a thread, and what it gets back.     *)
LEMMA SyncUpsertType ==
  ASSUME TypeOK, NEW s \in Syncers, sync[s] \in Attempt, NEW t \in Threads
  PROVE  /\ IncomingThread(s, t) \in IncomingRow
         /\ Upsert(s, t).thread \in ThreadRow
         /\ Upsert(s, t).evidence \in Order
<1>1. RowDraft(t, sync[s].rows[t].row) \in BOOLEAN
  BY DEF RowDraft
<1>2. IncomingThread(s, t) \in IncomingRow
  BY <1>1 DEF IncomingThread, IncomingRow, Attempt, Row
<1>3. thread[t] \in ThreadRow /\ evidence[t] \in Order /\ sync[s].seq \in Nat
  BY DEF TypeOK, Attempt
<1>4. /\ (~hasFreshThreadEvidence(sync[s].options, t)) \in BOOLEAN
      /\ (t \in PullRequests /\ ~HasPullDetails(s, t) /\ ~RowsCarryDraft) \in BOOLEAN
  OBVIOUS
<1>5. QED
  BY <1>2, <1>3, <1>4, UpsertType DEF Upsert

(* The same for the upsert that accompanies a failure record.               *)
LEMMA FailedUpsertType ==
  ASSUME TypeOK, NEW s \in Syncers, sync[s] \in Attempt, NEW t \in Threads
  PROVE  /\ FailedUpsert(s, t).thread \in ThreadRow
         /\ FailedUpsert(s, t).evidence \in Order
<1> DEFINE in == [at |-> sync[s].rows[t].at, row |-> sync[s].rows[t].row,
                  draft |-> RowDraft(t, sync[s].rows[t].row)]
<1>1. in \in IncomingRow
  BY DEF RowDraft, IncomingRow, Attempt, Row
<1>2. thread[t] \in ThreadRow /\ evidence[t] \in Order /\ counter + 1 \in Nat
  BY DEF TypeOK
<1>3. QED
  BY <1>1, <1>2, UpsertType DEF FailedUpsert

(* The children and the revision a sync writes are well typed.              *)
LEMMA SyncWritesType ==
  ASSUME TypeOK, NEW s \in Syncers, sync[s] \in Attempt, NEW t \in Threads
  PROVE  /\ ChildrenAfter(s, t) \in [Families -> Child]
         /\ IncomingRevision(s, t) \in Revision
<1>1. ChildrenAfter(s, t) \in [Families -> Child]
  BY DEF ChildrenAfter, TypeOK, Attempt
<1>2. /\ ChildrenAfter(s, t)["comments"] \in Child
      /\ ChildrenAfter(s, t)["details"] \in Child
  BY <1>1 DEF Families
<1>3. IncomingThread(s, t) \in IncomingRow
  BY SyncUpsertType
<1>4. IncomingRevision(s, t).source \in Nat
  BY <1>2, <1>3 DEF IncomingRevision, IncomingRow, LargerOf, Child
<1>5. IncomingRevision(s, t).content \in Content
  BY <1>1, <1>3 DEF IncomingRevision, IncomingRow, Content, Child
<1>6. IncomingRevision(s, t).seq \in Nat
  BY DEF IncomingRevision, Attempt
<1>7. IncomingRevision(s, t)
        = [source |-> IncomingRevision(s, t).source, seq |-> IncomingRevision(s, t).seq,
           content |-> IncomingRevision(s, t).content]
  BY DEF IncomingRevision
<1>8. QED
  BY <1>1, <1>4, <1>5, <1>6, <1>7 DEF Revision

(* An upsert of a revision keeps revisions that were there, and adds at     *)
(* most the incoming one.                                                   *)
LEMMA UpsertRevisionAdds ==
  ASSUME NEW revs, NEW in
  PROVE  upsertThreadRevision(revs, in) \subseteq revs \cup {in}
BY DEF upsertThreadRevision

LEMMA InitType == Init => TypeOK
<1> SUFFICES ASSUME Init PROVE TypeOK
  OBVIOUS
<1>1. github \in [Threads -> [at : Nat, row : Rows, child : [Families -> Child]]]
  BY DEF Init, Child
<1>2. thread \in [Threads -> ThreadRow] /\ evidence \in [Threads -> Order]
  BY DEF Init, NoThread, NoOrder, ThreadRow, Order
<1>3. /\ reservation \in [Threads -> [Families -> Order]]
      /\ children \in [Threads -> [Families -> Child]]
  BY DEF Init, NoOrder, NoChild, Order, Child
<1>4. /\ revisions \in [Threads -> SUBSET Revision]
      /\ document \in [Threads -> [at : Nat, row : Rows \cup {NoRow}]]
      /\ failure \in [Threads -> {"none", "open", "resolved"}]
      /\ sync \in [Syncers -> Attempt \cup {Idle}]
      /\ now \in Nat /\ edits \in Nat /\ counter \in Nat
  BY DEF Init
<1>5. QED
  BY <1>1, <1>2, <1>3, <1>4 DEF TypeOK

(* Each step keeps the types.                                               *)
LEMMA StepType == TypeOK /\ [Next]_vars => TypeOK'
<1> SUFFICES ASSUME TypeOK, [Next]_vars PROVE TypeOK'
  OBVIOUS
<1> USE DEF archive
<1>1. CASE Tick
  BY <1>1 DEF Tick, TypeOK
<1>2. ASSUME NEW t \in Threads, EditRow(t) PROVE TypeOK'
  <2>1. PICK row \in Rows : github' = [github EXCEPT ![t].row = row, ![t].at = now]
    BY <1>2 DEF EditRow
  <2>2. [github[t] EXCEPT !.row = row, !.at = now]
          \in [at : Nat, row : Rows, child : [Families -> Child]]
    <3>1. github[t] \in [at : Nat, row : Rows, child : [Families -> Child]] /\ now \in Nat
      BY DEF TypeOK
    <3>2. QED
      BY <3>1
  <2>3. github' \in [Threads -> [at : Nat, row : Rows, child : [Families -> Child]]]
    BY <2>1, <2>2 DEF TypeOK
  <2>4. QED
    BY <1>2, <2>3 DEF EditRow, TypeOK
<1>3. ASSUME NEW t \in Threads, NEW f \in Families, EditChild(t, f) PROVE TypeOK'
  <2>1. PICK at \in {github[t].at, now} :
          github' = [github EXCEPT ![t].at = at,
            ![t].child[f] = [v |-> github[t].child[f].v + 1, at |-> now]]
    BY <1>3 DEF EditChild
  <2>2. at \in Nat /\ [v |-> github[t].child[f].v + 1, at |-> now] \in Child
    BY DEF TypeOK, Child
  <2>3. [github[t] EXCEPT !.at = at,
           !.child[f] = [v |-> github[t].child[f].v + 1, at |-> now]]
          \in [at : Nat, row : Rows, child : [Families -> Child]]
    <3>1. github[t] \in [at : Nat, row : Rows, child : [Families -> Child]]
      BY DEF TypeOK
    <3>2. [github[t].child EXCEPT ![f] = [v |-> github[t].child[f].v + 1, at |-> now]]
            \in [Families -> Child]
      BY <2>2, <3>1
    <3>3. QED
      BY <2>2, <3>1, <3>2
  <2>4. github' \in [Threads -> [at : Nat, row : Rows, child : [Families -> Child]]]
    BY <2>1, <2>3 DEF TypeOK
  <2>5. QED
    BY <1>3, <2>4 DEF EditChild, TypeOK
<1>4. ASSUME NEW s \in Syncers, NEW scope \in SUBSET Threads \ {{}}, NEW options \in SyncOptions,
             ListIssues(s, scope, options)
      PROVE  TypeOK'
  <2> DEFINE attempt ==
        [phase |-> "fetching", options |-> options, scope |-> scope,
         rows |-> [t \in Threads |-> [at |-> github[t].at, row |-> github[t].row]],
         fetched |-> [t \in Threads |-> [f \in Families |-> NoChild]],
         pullDraft |-> [t \in Threads |-> FALSE], seq |-> 0]
  <2>1. attempt.rows \in [Threads -> Row]
    BY DEF TypeOK, Row
  <2>2. attempt.fetched \in [Threads -> [Families -> Child]]
    BY DEF NoChild, Child
  <2>3. attempt \in Attempt
    BY <2>1, <2>2, ThreadAssumption DEF Attempt
  <2>4. sync' = [sync EXCEPT ![s] = attempt]
    BY <1>4 DEF ListIssues
  <2>5. QED
    BY <1>4, <2>3, <2>4 DEF ListIssues, TypeOK
<1>5. ASSUME NEW s \in Syncers, NEW t \in Threads, NEW f \in Families, FetchChild(s, t, f)
      PROVE  TypeOK'
  <2>1. sync[s] \in Attempt
    BY <1>5, ActiveSync DEF FetchChild, FetchPending, Idle
  <2>2. sync' \in [Syncers -> Attempt \cup {Idle}]
    <3>1. github[t].child[f] \in Child
      BY DEF TypeOK
    <3>2. (IF f = "details" THEN github[t].row \in DraftRows ELSE sync[s].pullDraft[t]) \in BOOLEAN
      <4>1. sync[s].pullDraft[t] \in BOOLEAN
        BY <2>1 DEF Attempt
      <4>2. (github[t].row \in DraftRows) \in BOOLEAN
        OBVIOUS
      <4>3. QED
        BY <4>1, <4>2
    <3>3. [sync[s] EXCEPT !.fetched[t][f] = github[t].child[f],
             !.pullDraft[t] = IF f = "details" THEN github[t].row \in DraftRows ELSE @] \in Attempt
      BY <2>1, <3>1, <3>2 DEF Attempt
    <3>4. QED
      BY <1>5, <3>3 DEF FetchChild, TypeOK
  <2>3. QED
    BY <1>5, <2>2 DEF FetchChild, TypeOK
<1>6. ASSUME NEW s \in Syncers, NEW t \in Threads, RecordSyncFailure(s, t) PROVE TypeOK'
  <2>1. sync[s] \in Attempt
    BY <1>6, ActiveSync DEF RecordSyncFailure, FetchPending, Idle
  <2>2. FailedUpsert(s, t).thread \in ThreadRow /\ FailedUpsert(s, t).evidence \in Order
    BY <2>1, FailedUpsertType
  <2>3. thread' \in [Threads -> ThreadRow] /\ evidence' \in [Threads -> Order]
    BY <1>6, <2>2 DEF RecordSyncFailure, TypeOK
  <2>4. QED
    BY <1>6, <2>3 DEF RecordSyncFailure, TypeOK
<1>7. ASSUME NEW s \in Syncers, NextThreadObservationSequence(s) PROVE TypeOK'
  <2>1. sync[s] \in Attempt
    BY <1>7, ActiveSync DEF NextThreadObservationSequence, Idle
  <2>2. counter + 1 \in Nat
    BY DEF TypeOK
  <2>3. [sync[s] EXCEPT !.phase = "sequenced", !.seq = counter + 1] \in Attempt
    BY <2>1, <2>2 DEF Attempt
  <2>4. sync' \in [Syncers -> Attempt \cup {Idle}]
    BY <1>7, <2>3 DEF NextThreadObservationSequence, TypeOK
  <2>5. counter' \in Nat
    BY <1>7, <2>2 DEF NextThreadObservationSequence
  <2>6. QED
    BY <1>7, <2>4, <2>5 DEF NextThreadObservationSequence, TypeOK
<1>8. ASSUME NEW s \in Syncers, Persist(s) PROVE TypeOK'
  <2>1. sync[s] \in Attempt
    BY <1>8, ActiveSync DEF Persist, Idle
  <2>2. ASSUME NEW t \in Threads
        PROVE  /\ Upsert(s, t).thread \in ThreadRow
               /\ Upsert(s, t).evidence \in Order
               /\ ChildrenAfter(s, t) \in [Families -> Child]
               /\ IncomingRevision(s, t) \in Revision
               /\ sync[s].rows[t] \in Row
               /\ [source |-> sync[s].rows[t].at, seq |-> sync[s].seq] \in Order
    BY <2>1, SyncUpsertType, SyncWritesType DEF Attempt, Row, Order
  <2>3. thread' \in [Threads -> ThreadRow] /\ evidence' \in [Threads -> Order]
    BY <1>8, <2>2 DEF Persist, TypeOK
  <2>4. reservation' \in [Threads -> [Families -> Order]]
    BY <1>8, <2>2 DEF Persist, TypeOK
  <2>5. children' \in [Threads -> [Families -> Child]]
    BY <1>8, <2>2 DEF Persist, TypeOK
  <2>6. revisions' \in [Threads -> SUBSET Revision]
    <3>1. ASSUME NEW t \in Threads
          PROVE  upsertThreadRevision(revisions[t], IncomingRevision(s, t)) \in SUBSET Revision
      <4>1. revisions[t] \cup {IncomingRevision(s, t)} \in SUBSET Revision
        BY <2>2 DEF TypeOK
      <4>2. QED
        BY <4>1, UpsertRevisionAdds
    <3>2. \A t \in Threads : revisions[t] \in SUBSET Revision
      BY DEF TypeOK
    <3>3. QED
      BY <1>8, <3>1, <3>2 DEF Persist
  <2>7. document' \in [Threads -> [at : Nat, row : Rows \cup {NoRow}]]
    BY <1>8, <2>2 DEF Persist, TypeOK, Row
  <2>8. /\ failure' \in [Threads -> {"none", "open", "resolved"}]
        /\ sync' \in [Syncers -> Attempt \cup {Idle}]
        /\ UNCHANGED <<now, github, edits, counter>>
    BY <1>8 DEF Persist, TypeOK
  <2>9. QED
    BY <2>3, <2>4, <2>5, <2>6, <2>7, <2>8 DEF TypeOK
<1>9. ASSUME NEW s \in Syncers, Abort(s) PROVE TypeOK'
  BY <1>9 DEF Abort, TypeOK
<1>10. CASE UNCHANGED vars
  BY <1>10 DEF vars, TypeOK
<1>11. QED
  BY <1>1, <1>2, <1>3, <1>4, <1>5, <1>6, <1>7, <1>8, <1>9, <1>10 DEF Next, GitHub, Sync

(* Every table, fence and in-flight sync always holds values of its type.   *)
THEOREM TypeCorrect == Spec => []TypeOK
<1>1. Init => TypeOK
  BY InitType
<1>2. TypeOK /\ [Next]_vars => TypeOK'
  BY StepType
<1>3. QED
  BY <1>1, <1>2, PTL DEF Spec

-----------------------------------------------------------------------------
(* The fences *)

(* An accepted reservation never moves its fence back.                      *)
LEMMA ReservationMovesForward ==
  ASSUME NEW a \in Order, NEW b \in Order, compareReservationObservationOrder(a, b) = Newer
  PROVE  NotOlder(a, b)
<1>1. b.source # Blank
  BY NumbersAreValid DEF Order
<1>2. compareObservationOrder(a, b) = Newer
  BY <1>1 DEF compareReservationObservationOrder
<1>3. QED
  BY <1>2, NewerIsNotOlder

LEMMA ThreadOrderType ==
  ASSUME NEW row \in ThreadRow
  PROVE  ThreadOrder(row) \in Order
BY OrderValue DEF ThreadOrder, ThreadRow, Order

LEMMA FencesStutter == TypeOK /\ UNCHANGED <<thread, evidence, reservation>> => FencesForward
BY ThreadOrderType, NotOlderReflexive DEF TypeOK, FencesForward

LEMMA FencesStep == TypeOK /\ [Next]_vars => FencesForward
<1> SUFFICES ASSUME TypeOK, [Next]_vars PROVE FencesForward
  OBVIOUS
<1>1. ASSUME NEW s \in Syncers, NEW t \in Threads, RecordSyncFailure(s, t) PROVE FencesForward
  <2> DEFINE in == [at |-> sync[s].rows[t].at, row |-> sync[s].rows[t].row,
                    draft |-> RowDraft(t, sync[s].rows[t].row)]
  <2>1. sync[s] \in Attempt
    BY <1>1, ActiveSync DEF RecordSyncFailure, FetchPending, Idle
  <2>2. in \in IncomingRow
    BY <2>1 DEF RowDraft, IncomingRow, Attempt, Row
  <2>3. thread[t] \in ThreadRow /\ evidence[t] \in Order /\ counter + 1 \in Nat
    BY DEF TypeOK
  <2>4. /\ NotOlder(ThreadOrder(FailedUpsert(s, t).thread), ThreadOrder(thread[t]))
        /\ NotOlder(FailedUpsert(s, t).evidence, evidence[t])
    BY <2>2, <2>3, UpsertMovesForward DEF FailedUpsert
  <2>5. ASSUME NEW u \in Threads
        PROVE  /\ NotOlder(ThreadOrder(thread'[u]), ThreadOrder(thread[u]))
               /\ NotOlder(evidence'[u], evidence[u])
    <3>1. CASE u = t
      BY <1>1, <2>4, <3>1 DEF RecordSyncFailure, TypeOK
    <3>2. CASE u # t
      <4>1. thread'[u] = thread[u] /\ evidence'[u] = evidence[u]
        BY <1>1, <3>2 DEF RecordSyncFailure, TypeOK
      <4>2. thread[u] \in ThreadRow /\ evidence[u] \in Order
        BY DEF TypeOK
      <4>3. QED
        BY <4>1, <4>2, ThreadOrderType, NotOlderReflexive
    <3>3. QED
      BY <3>1, <3>2
  <2>6. ASSUME NEW u \in Threads, NEW f \in Families
        PROVE  NotOlder(reservation'[u][f], reservation[u][f])
    BY <1>1, NotOlderReflexive DEF RecordSyncFailure, TypeOK
  <2>7. QED
    BY <2>5, <2>6 DEF FencesForward
<1>2. ASSUME NEW s \in Syncers, Persist(s) PROVE FencesForward
  <2>1. sync[s] \in Attempt
    BY <1>2, ActiveSync DEF Persist, Idle
  <2>2. SUFFICES ASSUME NEW t \in Threads
                 PROVE  /\ NotOlder(ThreadOrder(thread'[t]), ThreadOrder(thread[t]))
                        /\ NotOlder(evidence'[t], evidence[t])
                        /\ \A f \in Families : NotOlder(reservation'[t][f], reservation[t][f])
    BY DEF FencesForward
  <2>3. thread[t] \in ThreadRow /\ evidence[t] \in Order /\ sync[s].seq \in Nat
    BY <2>1 DEF TypeOK, Attempt
  <2>4. /\ (~hasFreshThreadEvidence(sync[s].options, t)) \in BOOLEAN
        /\ (t \in PullRequests /\ ~HasPullDetails(s, t) /\ ~RowsCarryDraft) \in BOOLEAN
    OBVIOUS
  <2>5. /\ NotOlder(ThreadOrder(Upsert(s, t).thread), ThreadOrder(thread[t]))
        /\ NotOlder(Upsert(s, t).evidence, evidence[t])
    BY <2>1, <2>3, <2>4, SyncUpsertType, UpsertMovesForward DEF Upsert
  <2>6. /\ thread'[t] \in {thread[t], Upsert(s, t).thread}
        /\ evidence'[t] \in {evidence[t], Upsert(s, t).evidence}
    BY <1>2 DEF Persist
  <2>7. /\ NotOlder(ThreadOrder(thread'[t]), ThreadOrder(thread[t]))
        /\ NotOlder(evidence'[t], evidence[t])
    BY <2>3, <2>5, <2>6, ThreadOrderType, NotOlderReflexive
  <2>8. ASSUME NEW f \in Families PROVE NotOlder(reservation'[t][f], reservation[t][f])
    <3> DEFINE o == [source |-> sync[s].rows[t].at, seq |-> sync[s].seq]
    <3>1. o \in Order /\ reservation[t][f] \in Order
      BY <2>1 DEF Attempt, Row, Order, TypeOK
    <3>2. \/ reservation'[t][f] = reservation[t][f]
          \/ reservation'[t][f] = o /\ ReservesChild(s, t, f)
      BY <1>2 DEF Persist
    <3>3. ASSUME ReservesChild(s, t, f) PROVE NotOlder(o, reservation[t][f])
      <4>1. \/ reservation[t][f].seq = 0
            \/ compareReservationObservationOrder(o, reservation[t][f]) = Newer
        BY <3>3 DEF ReservesChild
      <4>2. QED
        BY <3>1, <4>1, ReservationMovesForward DEF NotOlder
    <3>4. QED
      BY <3>1, <3>2, <3>3, NotOlderReflexive
  <2>9. QED
    BY <2>7, <2>8
<1>3. CASE GitHub
  BY <1>3, FencesStutter DEF GitHub, Tick, EditRow, EditChild, archive
<1>4. ASSUME NEW s \in Syncers,
             \/ \E scope \in SUBSET Threads \ {{}}, options \in SyncOptions :
                  ListIssues(s, scope, options)
             \/ \E t \in Threads, f \in Families : FetchChild(s, t, f)
             \/ NextThreadObservationSequence(s)
             \/ Abort(s)
      PROVE  FencesForward
  BY <1>4, FencesStutter DEF ListIssues, FetchChild, NextThreadObservationSequence, Abort, archive
<1>5. CASE UNCHANGED vars
  BY <1>5, FencesStutter DEF vars, archive
<1>6. QED
  BY <1>1, <1>2, <1>3, <1>4, <1>5 DEF Next, Sync

(* A stale, partial or reordered observation never moves the thread, the    *)
(* evidence fence or a child reservation back.                              *)
THEOREM FencesHold == Spec => FencesNeverRegress
<1>1. TypeOK /\ [Next]_vars => FencesForward
  BY FencesStep
<1>2. QED
  BY <1>1, TypeCorrect, PTL DEF Spec, FencesNeverRegress

-----------------------------------------------------------------------------
(* Documents *)

LEMMA DocumentStep == TypeOK /\ DocumentFollowsThread /\ [Next]_vars => DocumentFollowsThread'
<1> SUFFICES ASSUME TypeOK, DocumentFollowsThread, [Next]_vars PROVE DocumentFollowsThread'
  OBVIOUS
<1>1. ASSUME NEW s \in Syncers, NEW t \in Threads, RecordSyncFailure(s, t)
      PROVE  DocumentFollowsThread'
  BY <1>1 DEF RecordSyncFailure, DocumentFollowsThread, TypeOK
<1>2. ASSUME NEW s \in Syncers, Persist(s) PROVE DocumentFollowsThread'
  <2>1. SUFFICES ASSUME NEW t \in Threads
                 PROVE  \/ document'[t].at = thread'[t].at /\ document'[t].row = thread'[t].row
                        \/ failure'[t] = "open"
    BY DEF DocumentFollowsThread
  <2> DEFINE in == IncomingThread(s, t)
             u == Upsert(s, t)
             committed == ~PersistConflict(s) /\ t \in sync[s].scope
  <2>2. in.at = sync[s].rows[t].at /\ in.row = sync[s].rows[t].row
    BY DEF IncomingThread
  <2>3. /\ u.applied \/ u.evidenceApplied => u.thread.at = in.at /\ u.thread.row = in.row
        /\ ~u.applied => u.thread = thread[t]
    BY UpsertStoresRow DEF Upsert
  <2>4. CASE committed /\ ~SkippedStale(s, t)
    <3>1. thread'[t] = u.thread /\ document'[t] = sync[s].rows[t]
      BY <1>2, <2>4 DEF Persist
    <3>2. QED
      BY <2>2, <2>3, <2>4, <3>1 DEF SkippedStale
  <2>5. CASE ~committed \/ SkippedStale(s, t)
    <3>1. thread'[t] = thread[t]
      BY <1>2, <2>3, <2>5 DEF Persist, SkippedStale
    <3>2. document'[t] = document[t] /\ failure'[t] = failure[t]
      BY <1>2, <2>5 DEF Persist
    <3>3. QED
      BY <3>1, <3>2 DEF DocumentFollowsThread
  <2>6. QED
    BY <2>4, <2>5
<1>3. CASE UNCHANGED archive
  BY <1>3 DEF archive, DocumentFollowsThread
<1>4. QED
  BY ZenonT(60), <1>1, <1>2, <1>3 DEF Next, GitHub, Sync, Tick, EditRow, EditChild, ListIssues, FetchChild,
     NextThreadObservationSequence, Abort, vars

(* The document of a thread is built from its current row, except while a   *)
(* failed pull-request fetch is open in the ledger.                         *)
THEOREM DocumentsFollowThreads == Spec => []DocumentFollowsThread
<1>1. Init => DocumentFollowsThread
  BY DEF Init, NoThread, DocumentFollowsThread
<1>2. TypeOK /\ DocumentFollowsThread /\ [Next]_vars => DocumentFollowsThread'
  BY DocumentStep
<1>3. QED
  BY <1>1, <1>2, TypeCorrect, PTL DEF Spec

-----------------------------------------------------------------------------
(* Generations *)

LessThan == {p \in Nat \X Nat : p[1] < p[2]}

LEMMA LessThanIsWellFounded == IsWellFoundedOn(LessThan, Nat)
BY NatLessThanWellFounded DEF LessThan, OpToRel

LEMMA LeastNumber ==
  ASSUME NEW S \in SUBSET Nat, S # {}
  PROVE  \E n \in S : \A m \in S : n <= m
<1>1. PICK n \in S : \A m \in S : <<m, n>> \notin LessThan
  BY LessThanIsWellFounded, WFMin
<1>2. SUFFICES ASSUME NEW m \in S PROVE n <= m
  OBVIOUS
<1>3. n \in Nat /\ m \in Nat
  OBVIOUS
<1>4. ~(m < n)
  BY <1>1, <1>3 DEF LessThan
<1>5. QED
  BY <1>3, <1>4

(* The latest of revisions whose generations are bounded is one of them.    *)
LEMMA LatestRevisionExists ==
  ASSUME NEW revs \in SUBSET Revision, revs # {},
         NEW bound \in Nat, \A r \in revs : r.seq <= bound
  PROVE  LatestRevision(revs) \in revs
<1> DEFINE gaps == {bound - r.seq : r \in revs}
<1>1. \A r \in revs : r.seq \in Nat
  BY DEF Revision
<1>2. gaps \in SUBSET Nat /\ gaps # {}
  BY <1>1
<1>3. PICK n \in gaps : \A m \in gaps : n <= m
  BY <1>2, LeastNumber
<1>4. PICK r \in revs : n = bound - r.seq
  BY <1>3
<1>5. ASSUME NEW q \in revs PROVE q.seq <= r.seq
  <2>1. bound - q.seq \in gaps
    OBVIOUS
  <2>2. bound - r.seq <= bound - q.seq
    BY <1>3, <1>4, <2>1
  <2>3. QED
    BY <1>1, <2>2
<1>6. QED
  BY <1>5 DEF LatestRevision

InFlight(s) == sync[s] # Idle /\ sync[s].phase = "sequenced"

(* A generation taken by a sync is not stored anywhere until the sync       *)
(* persists, and no other sync holds it.                                    *)
GenerationUnused(s) ==
  /\ sync[s].seq <= counter
  /\ \A t \in Threads : observationSequenceOrderValue(thread[t].seq) # sync[s].seq
  /\ \A t \in Threads : \A r \in revisions[t] : r.seq # sync[s].seq
  /\ \A q \in Syncers : q # s /\ InFlight(q) => sync[q].seq # sync[s].seq

GenerationInv ==
  /\ \A t \in Threads : observationSequenceOrderValue(thread[t].seq) <= counter
  /\ \A t \in Threads : \A r \in revisions[t] : r.seq <= counter
  /\ \A s \in Syncers : InFlight(s) => GenerationUnused(s)
  /\ RevisionGenerationsUnique

LEMMA GenerationStep == TypeOK /\ GenerationInv /\ [Next]_vars => GenerationInv'
<1> SUFFICES ASSUME TypeOK, GenerationInv, [Next]_vars PROVE GenerationInv'
  OBVIOUS
<1>1. \A t \in Threads : observationSequenceOrderValue(thread[t].seq) \in Nat
  BY OrderValue DEF TypeOK, ThreadRow
<1>2. counter \in Nat /\ \A t \in Threads : \A r \in revisions[t] : r.seq \in Nat
  BY DEF TypeOK, Revision
<1>3. ASSUME NEW s \in Syncers, NEW t \in Threads, RecordSyncFailure(s, t)
      PROVE  GenerationInv'
  <2> DEFINE in == [at |-> sync[s].rows[t].at, row |-> sync[s].rows[t].row,
                    draft |-> RowDraft(t, sync[s].rows[t].row)]
  <2>1. sync[s] \in Attempt
    BY <1>3, ActiveSync DEF RecordSyncFailure, FetchPending, Idle
  <2>2. in \in IncomingRow
    BY <2>1 DEF RowDraft, IncomingRow, Attempt, Row
  <2>3. thread[t] \in ThreadRow /\ evidence[t] \in Order /\ counter + 1 \in Nat
    BY DEF TypeOK
  <2>4. observationSequenceOrderValue(FailedUpsert(s, t).thread.seq)
          \in {counter + 1, observationSequenceOrderValue(thread[t].seq)}
    BY <2>2, <2>3, UpsertSequences DEF FailedUpsert
  <2>5. \A u \in Threads :
          observationSequenceOrderValue(thread'[u].seq)
            \in {counter + 1, observationSequenceOrderValue(thread[u].seq)}
    BY <1>3, <2>4 DEF RecordSyncFailure, TypeOK
  <2>6. counter' = counter + 1 /\ revisions' = revisions
    BY <1>3 DEF RecordSyncFailure
  <2>7. \A q \in Syncers : InFlight(q)' => InFlight(q) /\ sync'[q] = sync[q]
    BY <1>3 DEF RecordSyncFailure, InFlight, TypeOK
  <2>8. \A q \in Syncers : InFlight(q)' => GenerationUnused(q)'
    <3> SUFFICES ASSUME NEW q \in Syncers, InFlight(q)' PROVE GenerationUnused(q)'
      OBVIOUS
    <3>1. InFlight(q) /\ GenerationUnused(q) /\ sync'[q] = sync[q] /\ sync[q].seq \in Nat
      BY <2>7, ActiveSync DEF GenerationInv, InFlight, Attempt
    <3>2. \A u \in Threads : observationSequenceOrderValue(thread'[u].seq) # sync[q].seq
      BY <1>2, <2>5, <3>1 DEF GenerationUnused
    <3>3. QED
      BY <1>2, <2>6, <2>7, <3>1, <3>2 DEF GenerationUnused
  <2>9. QED
    BY <1>1, <1>2, <2>5, <2>6, <2>8 DEF GenerationInv, RevisionGenerationsUnique
<1>4. ASSUME NEW s \in Syncers, NextThreadObservationSequence(s) PROVE GenerationInv'
  <2>1. /\ counter' = counter + 1
        /\ thread' = thread /\ revisions' = revisions
        /\ sync'[s].seq = counter + 1
        /\ \A q \in Syncers \ {s} : sync'[q] = sync[q]
    <3>1. sync[s] \in Attempt
      BY <1>4, ActiveSync DEF NextThreadObservationSequence, Idle
    <3>2. QED
      BY <1>4, <3>1 DEF NextThreadObservationSequence, archive, TypeOK, Attempt
  <2>2. \A q \in Syncers \ {s} : InFlight(q)' => InFlight(q) /\ sync'[q] = sync[q]
    BY <2>1 DEF InFlight
  <2>3. \A q \in Syncers \ {s} : InFlight(q) => sync[q].seq \in Nat /\ sync[q].seq <= counter
    BY ActiveSync DEF GenerationInv, GenerationUnused, InFlight, Attempt
  <2>4. GenerationUnused(s)'
    BY <1>1, <1>2, <2>1, <2>2, <2>3 DEF GenerationInv, GenerationUnused
  <2>5. ASSUME NEW q \in Syncers \ {s}, InFlight(q)' PROVE GenerationUnused(q)'
    <3>1. GenerationUnused(q) /\ InFlight(q) /\ sync'[q] = sync[q]
      BY <2>2, <2>5 DEF GenerationInv
    <3>2. \A p \in Syncers : p # q /\ InFlight(p)' => sync'[p].seq # sync[q].seq
      BY <1>2, <2>1, <2>2, <2>3, <3>1 DEF GenerationUnused
    <3>3. QED
      BY <1>2, <2>1, <2>3, <3>1, <3>2 DEF GenerationUnused
  <2>6. QED
    BY <1>1, <1>2, <2>1, <2>4, <2>5 DEF GenerationInv, RevisionGenerationsUnique
<1>5. ASSUME NEW s \in Syncers, Persist(s) PROVE GenerationInv'
  <2>1. sync[s] \in Attempt /\ InFlight(s)
    BY <1>5, ActiveSync DEF Persist, Idle, InFlight
  <2>2. GenerationUnused(s) /\ sync[s].seq \in Nat
    BY <2>1 DEF GenerationInv, Attempt
  <2>3. counter' = counter /\ ~InFlight(s)'
    BY <1>5 DEF Persist, InFlight, TypeOK, Idle
  <2>4. \A q \in Syncers : InFlight(q)' => q # s /\ InFlight(q) /\ sync'[q] = sync[q]
    BY <1>5, <2>3 DEF Persist, InFlight, TypeOK
  <2>5. ASSUME NEW t \in Threads
        PROVE  observationSequenceOrderValue(thread'[t].seq)
                 \in {sync[s].seq, observationSequenceOrderValue(thread[t].seq)}
    <3>1. thread[t] \in ThreadRow /\ evidence[t] \in Order
      BY DEF TypeOK
    <3>2. /\ (~hasFreshThreadEvidence(sync[s].options, t)) \in BOOLEAN
          /\ (t \in PullRequests /\ ~HasPullDetails(s, t) /\ ~RowsCarryDraft) \in BOOLEAN
      OBVIOUS
    <3>3. observationSequenceOrderValue(Upsert(s, t).thread.seq)
            \in {sync[s].seq, observationSequenceOrderValue(thread[t].seq)}
      BY <2>1, <2>2, <3>1, <3>2, SyncUpsertType, UpsertSequences DEF Upsert
    <3>4. thread'[t] \in {thread[t], Upsert(s, t).thread}
      BY <1>5 DEF Persist
    <3>5. QED
      BY <3>3, <3>4
  <2>6. ASSUME NEW t \in Threads
        PROVE  revisions'[t] \subseteq revisions[t] \cup {IncomingRevision(s, t)}
    <3>1. \/ revisions'[t] = revisions[t]
          \/ revisions'[t] = upsertThreadRevision(revisions[t], IncomingRevision(s, t))
      BY <1>5 DEF Persist
    <3>2. QED
      BY <3>1, UpsertRevisionAdds
  <2>7. \A t \in Threads : IncomingRevision(s, t).seq = sync[s].seq
    BY DEF IncomingRevision
  <2>8. ASSUME NEW q \in Syncers, InFlight(q)' PROVE GenerationUnused(q)'
    <3>1. /\ q # s /\ InFlight(q) /\ sync'[q] = sync[q] /\ GenerationUnused(q)
          /\ sync[s].seq # sync[q].seq
      BY <2>1, <2>4, <2>8 DEF GenerationInv, GenerationUnused
    <3>2. \A t \in Threads : observationSequenceOrderValue(thread'[t].seq) # sync[q].seq
      BY <2>5, <3>1 DEF GenerationUnused
    <3>3. \A t \in Threads : \A r \in revisions'[t] : r.seq # sync[q].seq
      BY <2>6, <2>7, <3>1 DEF GenerationUnused
    <3>4. \A p \in Syncers : p # q /\ InFlight(p)' => sync'[p].seq # sync[q].seq
      BY <2>4, <3>1 DEF GenerationUnused
    <3>5. QED
      BY <2>3, <3>1, <3>2, <3>3, <3>4 DEF GenerationUnused
  <2>9. \A t \in Threads : observationSequenceOrderValue(thread'[t].seq) <= counter
    BY <2>2, <2>5 DEF GenerationInv, GenerationUnused
  <2>10. \A t \in Threads : \A r \in revisions'[t] : r.seq <= counter
    BY <2>2, <2>6, <2>7 DEF GenerationInv, GenerationUnused
  <2>11. RevisionGenerationsUnique'
    <3> SUFFICES ASSUME NEW t \in Threads, NEW q \in revisions'[t], NEW r \in revisions'[t],
                        q.seq = r.seq
                 PROVE  q = r
      BY DEF RevisionGenerationsUnique
    <3>1. /\ q \in revisions[t] \/ q = IncomingRevision(s, t)
          /\ r \in revisions[t] \/ r = IncomingRevision(s, t)
      BY <2>6
    <3>2. QED
      BY <2>2, <2>7, <3>1 DEF GenerationInv, GenerationUnused, RevisionGenerationsUnique
  <2>12. QED
    BY <2>3, <2>8, <2>9, <2>10, <2>11 DEF GenerationInv
<1>6. ASSUME NEW s \in Syncers, counter' = counter, thread' = thread, revisions' = revisions,
             \A q \in Syncers : InFlight(q)' => InFlight(q) /\ sync'[q].seq = sync[q].seq
      PROVE  GenerationInv'
  BY <1>6 DEF GenerationInv, GenerationUnused, RevisionGenerationsUnique
<1>7. ASSUME NEW s \in Syncers,
             \/ \E scope \in SUBSET Threads \ {{}}, options \in SyncOptions :
                  ListIssues(s, scope, options)
             \/ \E t \in Threads, f \in Families : FetchChild(s, t, f)
             \/ Abort(s)
      PROVE  GenerationInv'
  <2>1. \A q \in Syncers : InFlight(q)' => InFlight(q) /\ sync'[q].seq = sync[q].seq
    <3>1. CASE \E scope \in SUBSET Threads \ {{}}, options \in SyncOptions :
                 ListIssues(s, scope, options)
      BY <3>1 DEF ListIssues, InFlight, TypeOK
    <3>2. CASE Abort(s)
      BY <3>2 DEF Abort, InFlight, TypeOK
    <3>3. ASSUME NEW t \in Threads, NEW f \in Families, FetchChild(s, t, f)
          PROVE  \A q \in Syncers : InFlight(q)' => InFlight(q) /\ sync'[q].seq = sync[q].seq
      <4>1. sync[s] \in Attempt /\ sync[s].phase = "fetching"
        BY <3>3, ActiveSync DEF FetchChild, FetchPending, Idle
      <4>2. sync'[s].phase = "fetching" /\ \A q \in Syncers \ {s} : sync'[q] = sync[q]
        BY <3>3, <4>1 DEF FetchChild, TypeOK, Attempt
      <4>3. QED
        BY <4>2 DEF InFlight
    <3>4. QED
      BY <1>7, <3>1, <3>2, <3>3
  <2>2. counter' = counter /\ thread' = thread /\ revisions' = revisions
    BY <1>7 DEF ListIssues, FetchChild, Abort, archive
  <2>3. QED
    BY <1>6, <2>1, <2>2
<1>8. CASE UNCHANGED <<counter, thread, revisions, sync>>
  BY <1>8 DEF GenerationInv, GenerationUnused, RevisionGenerationsUnique, InFlight
<1>9. QED
  BY <1>3, <1>4, <1>5, <1>7, <1>8
  DEF Next, GitHub, Sync, Tick, EditRow, EditChild, vars, archive

LEMMA GenerationsHold == Spec => [](TypeOK /\ GenerationInv)
<1>1. Init => GenerationInv
  BY DEF Init, NoThread, Idle, GenerationInv, InFlight, RevisionGenerationsUnique,
         observationSequenceOrderValue
<1>2. TypeOK /\ GenerationInv /\ [Next]_vars => GenerationInv'
  BY GenerationStep
<1>3. QED
  BY <1>1, <1>2, TypeCorrect, PTL DEF Spec

(* No generation labels two revisions of a thread.                          *)
THEOREM GenerationsUnique == Spec => []RevisionGenerationsUnique
<1>1. TypeOK /\ GenerationInv => RevisionGenerationsUnique
  BY DEF GenerationInv
<1>2. QED
  BY <1>1, GenerationsHold, PTL

(* Revisions of different generations are ordered.                          *)
LEMMA RevisionsOrdered ==
  ASSUME NEW a \in Revision, NEW b \in Revision, a.seq # b.seq
  PROVE  compareRevisionObservationOrder(a, b) # Tied
<1>1. Valid(a.source) /\ a.seq \in Int /\ b.seq \in Int
  BY NumbersAreValid DEF Revision
<1>2. QED
  BY <1>1, CompareNumbersIs DEF compareRevisionObservationOrder

(* What holds of the generations leaves no tie to conflict on.              *)
LEMMA SyncsNeverConflict ==
  ASSUME TypeOK, GenerationInv
  PROVE  PersistNeverConflicts
<1> SUFFICES ASSUME NEW s \in Syncers, InFlight(s), PersistConflict(s)
             PROVE  FALSE
  BY DEF PersistNeverConflicts, InFlight
<1>1. sync[s] \in Attempt
  BY ActiveSync DEF InFlight
<1>2. GenerationUnused(s) /\ sync[s].seq \in Nat /\ sync[s].scope \subseteq Threads
  BY <1>1 DEF GenerationInv, Attempt
<1>3. PICK t \in sync[s].scope :
        \/ Upsert(s, t).conflict
        \/ RevisionConflict(revisions[t], IncomingRevision(s, t))
  BY DEF PersistConflict
<1>4. t \in Threads
  BY <1>2
<1>5. ~Upsert(s, t).conflict
  <2>1. thread[t] \in ThreadRow /\ evidence[t] \in Order
    BY <1>4 DEF TypeOK
  <2>2. /\ (~hasFreshThreadEvidence(sync[s].options, t)) \in BOOLEAN
        /\ (t \in PullRequests /\ ~HasPullDetails(s, t) /\ ~RowsCarryDraft) \in BOOLEAN
    OBVIOUS
  <2>3. Upsert(s, t).conflict => observationSequenceOrderValue(thread[t].seq) = sync[s].seq
    BY <1>1, <1>2, <1>4, <2>1, <2>2, SyncUpsertType, UpsertSequences DEF Upsert
  <2>4. QED
    BY <1>2, <1>4, <2>3 DEF GenerationUnused
<1>6. RevisionConflict(revisions[t], IncomingRevision(s, t))
  BY <1>3, <1>5
<1>7. LatestRevision(revisions[t]) \in revisions[t]
  BY <1>4, <1>6, LatestRevisionExists DEF TypeOK, GenerationInv, RevisionConflict
<1>8. LatestRevision(revisions[t]).seq # IncomingRevision(s, t).seq
  BY <1>2, <1>4, <1>7 DEF GenerationUnused, IncomingRevision
<1>9. LatestRevision(revisions[t]) \in Revision /\ IncomingRevision(s, t) \in Revision
  BY <1>1, <1>4, <1>7, SyncWritesType DEF TypeOK
<1>10. QED
  BY <1>6, <1>8, <1>9, RevisionsOrdered DEF RevisionConflict

(* A sync's transaction never meets the errors on tied observations.        *)
THEOREM NeverConflicts == Spec => []PersistNeverConflicts
BY SyncsNeverConflict, GenerationsHold, PTL

-----------------------------------------------------------------------------
(* The clocks of revisions                                                  *)

\* A version of a child has one clock, here clock[t][f][version]: GitHub serves
\* it with no other, so nobody can have read or stored it with another.
Clocks == [Threads -> [Families -> [Nat -> Nat]]]

DatedChild(clock, t, f, kid) ==
  kid.v <= github[t].child[f].v /\ kid.at = clock[t][f][kid.v]

\* A revision is no newer than the accepted evidence and its own children.
DatedRevision(clock, t, r) ==
  /\ \A f \in Families : r.content.child[f] <= github[t].child[f].v
  /\ r.source <= LargerOf(evidence[t].source,
                   LargerOf(clock[t]["comments"][r.content.child["comments"]],
                            clock[t]["details"][r.content.child["details"]]))

Dated(clock) ==
  \A t \in Threads :
    /\ \A f \in Families :
         /\ clock[t][f][0] = 0
         /\ DatedChild(clock, t, f, github[t].child[f])
         /\ DatedChild(clock, t, f, children[t][f])
         /\ \A s \in Syncers : sync[s] # Idle => DatedChild(clock, t, f, sync[s].fetched[t][f])
    /\ \A r \in revisions[t] : DatedRevision(clock, t, r)

DatedInv ==
  /\ \A t \in Threads : evidence[t].seq = 0 => revisions[t] = {}
  /\ \A s \in Syncers : InFlight(s) => sync[s].seq > 0
  /\ \E clock \in Clocks : Dated(clock)

(* Evidence that is accepted is at the observation, not before the fence.   *)
LEMMA AcceptedEvidence ==
  ASSUME TypeOK, NEW s \in Syncers, sync[s] \in Attempt, NEW t \in Threads
  PROVE  /\ Upsert(s, t).evidenceApplied => Upsert(s, t).evidence =
              [source |-> IncomingThread(s, t).at, seq |-> sync[s].seq]
         /\ ~Upsert(s, t).evidenceApplied => Upsert(s, t).evidence = evidence[t]
         /\ NotOlder(Upsert(s, t).evidence, evidence[t])
         /\ Upsert(s, t).evidence \in Order
<1>1. /\ IncomingThread(s, t) \in IncomingRow /\ Upsert(s, t).evidence \in Order
      /\ thread[t] \in ThreadRow /\ evidence[t] \in Order /\ sync[s].seq \in Nat
  BY SyncUpsertType DEF TypeOK, Attempt
<1>2. /\ (~hasFreshThreadEvidence(sync[s].options, t)) \in BOOLEAN
      /\ (t \in PullRequests /\ ~HasPullDetails(s, t) /\ ~RowsCarryDraft) \in BOOLEAN
  OBVIOUS
<1>3. NotOlder(Upsert(s, t).evidence, evidence[t])
  BY <1>1, <1>2, UpsertMovesForward DEF Upsert
<1>4. /\ Upsert(s, t).evidenceApplied => Upsert(s, t).evidence =
           [source |-> IncomingThread(s, t).at, seq |-> sync[s].seq]
      /\ ~Upsert(s, t).evidenceApplied => Upsert(s, t).evidence = evidence[t]
  BY DEF Upsert, upsertThreadObservation
<1>5. QED
  BY <1>1, <1>3, <1>4

(* The children a sync would write are dated.                               *)
LEMMA WrittenChildren ==
  ASSUME TypeOK, NEW s \in Syncers, sync[s] \in Attempt, sync[s] # Idle, NEW t \in Threads,
         NEW clock \in Clocks, Dated(clock), NEW f \in Families
  PROVE  /\ ChildrenAfter(s, t)[f] \in Child
         /\ DatedChild(clock, t, f, ChildrenAfter(s, t)[f])
         /\ IncomingRevision(s, t).content.child[f] = ChildrenAfter(s, t)[f].v
<1>1. ChildrenAfter(s, t)[f] \in {children[t][f], sync[s].fetched[t][f]}
  BY DEF ChildrenAfter
<1>2. /\ DatedChild(clock, t, f, children[t][f])
      /\ DatedChild(clock, t, f, sync[s].fetched[t][f])
  BY DEF Dated
<1>3. ChildrenAfter(s, t) \in [Families -> Child]
  BY SyncWritesType
<1>4. IncomingRevision(s, t).content.child[f] = ChildrenAfter(s, t)[f].v
  BY DEF IncomingRevision
<1>5. QED
  BY <1>1, <1>2, <1>3, <1>4

LEMMA LargerIs ==
  /\ \A a, b \in Nat : LargerOf(a, b) \in Nat
  /\ \A a, b, n, x \in Nat : a <= b /\ x <= LargerOf(a, n) => x <= LargerOf(b, n)
BY DEF LargerOf

(* A revision stays dated while its evidence only gets later.               *)
LEMMA RevisionStaysDated ==
  ASSUME NEW clock \in Clocks, NEW t \in Threads, NEW r \in Revision,
         DatedRevision(clock, t, r), github' = github,
         evidence[t].source \in Nat, evidence'[t].source \in Nat,
         evidence[t].source <= evidence'[t].source
  PROVE  DatedRevision(clock, t, r)'
<1> DEFINE c == clock[t]["comments"][r.content.child["comments"]]
           d == clock[t]["details"][r.content.child["details"]]
<1>1. r.source \in Nat /\ c \in Nat /\ d \in Nat
  <2>1. r.source \in Nat /\ r.content \in Content
    BY DEF Revision
  <2>2. "comments" \in Families /\ "details" \in Families
    BY DEF Families
  <2>3. r.content.child["comments"] \in Nat /\ r.content.child["details"] \in Nat
    BY <2>1, <2>2 DEF Content
  <2>4. QED
    BY <2>1, <2>2, <2>3 DEF Clocks
<1>2. /\ r.source <= LargerOf(evidence[t].source, LargerOf(c, d))
      /\ \A f \in Families : r.content.child[f] <= github[t].child[f].v
  BY DEF DatedRevision
<1>3. r.source <= LargerOf(evidence'[t].source, LargerOf(c, d))
  <2> HIDE DEF c, d
  <2>1. QED
    BY <1>1, <1>2, LargerIs
<1>4. QED
  BY <1>2, <1>3 DEF DatedRevision

(* Of two revisions with one content the one of later evidence is not older.*)
LEMMA RevisionClocksGrow ==
  ASSUME TypeOK, DatedInv, NEW s \in Syncers, sync[s] \in Attempt, sync[s] # Idle,
         NEW t \in Threads, Upsert(s, t).evidenceApplied,
         NEW clock \in Clocks, Dated(clock), NEW r \in revisions[t]
  PROVE  /\ evidence[t].source <= IncomingThread(s, t).at
         /\ r.content = IncomingRevision(s, t).content => r.source <= IncomingRevision(s, t).source
<1> DEFINE in   == IncomingThread(s, t)
           kids == ChildrenAfter(s, t)
           rev  == IncomingRevision(s, t)
           at   == [source |-> in.at, seq |-> sync[s].seq]
<1>1. in.at \in Nat /\ sync[s].seq \in Nat /\ at \in Order /\ evidence[t] \in Order
      /\ r \in Revision
  BY SyncUpsertType DEF IncomingRow, Order, Attempt, TypeOK
<1>2. evidence[t].source <= in.at
  <2>1. evidence[t].seq # 0 /\ NotOlder(at, evidence[t])
    BY AcceptedEvidence DEF DatedInv
  <2>2. QED
    BY <1>1, <2>1, NotOlderIs DEF Order
<1>3. rev.source = LargerOf(in.at, LargerOf(kids["comments"].at, kids["details"].at))
  BY DEF IncomingRevision
<1>4. /\ kids["comments"].at = clock[t]["comments"][rev.content.child["comments"]]
      /\ kids["details"].at = clock[t]["details"][rev.content.child["details"]]
      /\ kids["comments"].at \in Nat /\ kids["details"].at \in Nat
  <2>1. "comments" \in Families /\ "details" \in Families
    BY DEF Families
  <2>2. QED
    BY <2>1, WrittenChildren DEF DatedChild, Child
<1>5. /\ r.source \in Nat /\ evidence[t].source \in Nat
      /\ r.source <= LargerOf(evidence[t].source,
                       LargerOf(clock[t]["comments"][r.content.child["comments"]],
                                clock[t]["details"][r.content.child["details"]]))
  <2>1. DatedRevision(clock, t, r)
    BY DEF Dated
  <2>2. QED
    BY <1>1, <2>1 DEF DatedRevision, Revision, Order
<1> HIDE DEF in, kids, rev
<1>6. ASSUME r.content = rev.content PROVE r.source <= rev.source
  <2> DEFINE high == LargerOf(kids["comments"].at, kids["details"].at)
  <2>1. r.source <= LargerOf(evidence[t].source, high)
    BY <1>4, <1>5, <1>6
  <2>2. high \in Nat
    BY <1>4, LargerIs
  <2>3. rev.source = LargerOf(in.at, high)
    BY <1>3
  <2>4. in.at \in Nat /\ r.source \in Nat /\ evidence[t].source \in Nat
    BY <1>1, <1>5
  <2> HIDE DEF high
  <2>5. r.source <= LargerOf(in.at, high)
    BY <1>2, <2>1, <2>2, <2>4, LargerIs
  <2>6. QED
    BY <2>3, <2>5
<1>7. QED
  BY <1>2, <1>6 DEF in, rev

(* What a transaction makes of the revisions of a thread stays dated.       *)
LEMMA PersistDated ==
  ASSUME TypeOK, DatedInv, NEW s \in Syncers, Persist(s), NEW t \in Threads,
         NEW clock \in Clocks, Dated(clock)
  PROVE  /\ \A f \in Families : children'[t][f] \in {children[t][f], sync[s].fetched[t][f]}
         /\ evidence'[t].seq = 0 => revisions'[t] = {}
         /\ \A r \in revisions'[t] : DatedRevision(clock, t, r)'
<1> DEFINE u    == Upsert(s, t)
           in   == IncomingThread(s, t)
           kids == ChildrenAfter(s, t)
           rev  == IncomingRevision(s, t)
<1>1. sync[s] \in Attempt /\ sync[s] # Idle /\ InFlight(s) /\ sync[s].seq > 0
  BY ActiveSync DEF Persist, Idle, InFlight, DatedInv
<1>2. github' = github /\ \A r \in revisions[t] : DatedRevision(clock, t, r)
  BY DEF Persist, Dated
<1>3. \A f \in Families : kids[f] \in {children[t][f], sync[s].fetched[t][f]}
  BY DEF ChildrenAfter
<1>4. CASE u.evidenceApplied /\ t \in sync[s].scope /\ ~PersistConflict(s)
  <2>1. /\ evidence'[t] = [source |-> in.at, seq |-> sync[s].seq]
        /\ children'[t] = kids
        /\ revisions'[t] = upsertThreadRevision(revisions[t], rev)
    BY <1>1, <1>4, AcceptedEvidence DEF Persist
  <2>2. in.at \in Nat /\ evidence[t] \in Order /\ rev \in Revision
    BY <1>1, SyncUpsertType, SyncWritesType DEF IncomingRow, TypeOK
  <2>3. ASSUME NEW r \in revisions[t] PROVE DatedRevision(clock, t, r)'
    <3>1. evidence[t].source <= in.at /\ evidence[t].source \in Nat
      BY <1>1, <1>4, <2>2, RevisionClocksGrow DEF Order
    <3>2. r \in Revision
      BY DEF TypeOK
    <3> HIDE DEF u, in, kids, rev
    <3>3. evidence'[t].source = in.at
      BY <2>1
    <3>4. QED
      BY <1>2, <2>2, <3>1, <3>2, <3>3, RevisionStaysDated
  <2>4. ASSUME NEW r, r = rev PROVE DatedRevision(clock, t, r)'
    <3>1. /\ rev.source = LargerOf(in.at, LargerOf(kids["comments"].at, kids["details"].at))
          /\ "comments" \in Families /\ "details" \in Families
      BY DEF IncomingRevision, Families
    <3>2. \A f \in Families : /\ kids[f].at = clock[t][f][kids[f].v]
                              /\ rev.content.child[f] = kids[f].v
                              /\ kids[f].v <= github[t].child[f].v
      BY <1>1, WrittenChildren DEF DatedChild
    <3>3. rev.source \in Nat
      BY <2>2 DEF Revision
    <3> HIDE DEF u, in, kids, rev
    <3>4. evidence'[t].source = in.at
      BY <2>1
    <3>5. QED
      BY <1>2, <2>4, <3>1, <3>2, <3>3, <3>4 DEF DatedRevision
  <2>5. revisions'[t] \subseteq revisions[t] \cup {rev}
    BY <2>1, UpsertRevisionAdds
  <2>6. evidence'[t].seq # 0
    BY <1>1, <2>1
  <2> HIDE DEF u, in, kids, rev
  <2>7. QED
    BY <1>3, <2>1, <2>3, <2>4, <2>5, <2>6
<1>5. CASE ~(u.evidenceApplied /\ t \in sync[s].scope /\ ~PersistConflict(s))
  <2>1. evidence'[t] = evidence[t] /\ revisions'[t] = revisions[t]
    BY <1>1, <1>5, AcceptedEvidence DEF Persist
  <2>2. \A f \in Families : children'[t][f] \in {children[t][f], sync[s].fetched[t][f]}
    BY <1>3 DEF Persist
  <2>3. \A r \in revisions[t] : DatedRevision(clock, t, r)'
    BY <1>2, <2>1 DEF DatedRevision
  <2>4. QED
    BY <2>1, <2>2, <2>3 DEF DatedInv
<1>6. QED
  BY <1>4, <1>5

(* What the syncs have read of GitHub, after a step of them.                *)
LEMMA DatedReads ==
  ASSUME TypeOK, DatedInv, github' = github, children' = children, revisions' = revisions,
         \A t \in Threads : /\ NotOlder(evidence'[t], evidence[t])
                            /\ evidence'[t] \in Order
                            /\ evidence'[t].seq = 0 => evidence[t].seq = 0,
         \A s \in Syncers : sync'[s] # Idle =>
           /\ InFlight(s)' => sync'[s].seq > 0
           /\ \A t \in Threads, f \in Families :
                \/ sync'[s].fetched[t][f] \in {NoChild, github[t].child[f]}
                \/ sync[s] # Idle /\ sync'[s].fetched[t][f] = sync[s].fetched[t][f]
  PROVE  DatedInv'
<1>1. PICK clock \in Clocks : Dated(clock)
  BY DEF DatedInv
<1>2. \A t \in Threads, f \in Families : DatedChild(clock, t, f, NoChild)
  <2>1. \A t \in Threads, f \in Families : clock[t][f][0] = 0 /\ github[t].child[f].v \in Nat
    BY <1>1 DEF Dated, TypeOK, Child
  <2>2. QED
    BY <2>1 DEF DatedChild, NoChild
<1>3. \A s \in Syncers, t \in Threads, f \in Families :
        sync'[s] # Idle => DatedChild(clock, t, f, sync'[s].fetched[t][f])
  BY <1>1, <1>2 DEF Dated
<1>4. ASSUME NEW t \in Threads, NEW r \in revisions[t] PROVE DatedRevision(clock, t, r)'
  <2>1. DatedRevision(clock, t, r) /\ evidence[t].seq # 0
    BY <1>1 DEF Dated, DatedInv
  <2>2. evidence[t].source <= evidence'[t].source
    <3>1. evidence[t] \in Order /\ evidence'[t] \in Order
      BY DEF TypeOK
    <3>2. NotOlder(evidence'[t], evidence[t])
      BY <2>1
    <3>3. QED
      BY <2>1, <3>1, <3>2, NotOlderIs DEF Order
  <2>3. /\ evidence[t].source \in Nat /\ evidence'[t].source \in Nat /\ r \in Revision
    <3>1. r \in Revision /\ evidence[t] \in Order /\ evidence'[t] \in Order
      BY DEF TypeOK
    <3>2. QED
      BY <3>1 DEF Order
  <2>4. QED
    BY <2>1, <2>2, <2>3, RevisionStaysDated
<1>5. Dated(clock)'
  <2>1. \A t \in Threads, f \in Families :
          /\ clock[t][f][0] = 0
          /\ DatedChild(clock, t, f, github[t].child[f])
          /\ DatedChild(clock, t, f, children[t][f])
    BY <1>1 DEF Dated
  <2>2. \A t \in Threads, f \in Families :
          /\ clock[t][f][0] = 0
          /\ DatedChild(clock, t, f, github[t].child[f])'
          /\ DatedChild(clock, t, f, children[t][f])'
    BY <2>1 DEF DatedChild
  <2>3. \A s \in Syncers, t \in Threads, f \in Families :
          sync'[s] # Idle => DatedChild(clock, t, f, sync[s].fetched[t][f])'
    BY <1>3 DEF DatedChild
  <2>4. \A t \in Threads : \A r \in revisions'[t] : DatedRevision(clock, t, r)'
    BY <1>4
  <2>5. QED
    BY <2>2, <2>3, <2>4 DEF Dated
<1>6. QED
  BY <1>5 DEF DatedInv, InFlight

(* GitHub changes: a version that nobody has yet gets its clock.            *)
LEMMA DatedGitHub ==
  ASSUME TypeOK, DatedInv, UNCHANGED <<archive, sync>>,
         NEW t \in Threads, NEW f \in Families, NEW kid \in Child,
         \/ kid = github[t].child[f]
         \/ kid.v = github[t].child[f].v + 1,
         \A x \in Threads, g \in Families :
           github'[x].child[g] = IF x = t /\ g = f THEN kid ELSE github[x].child[g]
  PROVE  DatedInv'
<1>1. PICK clock \in Clocks : Dated(clock)
  BY DEF DatedInv
<1>2. UNCHANGED <<thread, evidence, reservation, children, revisions, sync>>
  BY DEF archive
<1> DEFINE newer == [clock EXCEPT ![t][f][kid.v] = kid.at]
<1>3. kid.v \in Nat /\ kid.at \in Nat /\ github[t].child[f].v \in Nat
  BY DEF Child, TypeOK
<1>4. newer \in Clocks
  BY <1>3 DEF Clocks
<1>5. \A x \in Threads, g \in Families, n \in Nat :
        newer[x][g][n] = IF x = t /\ g = f /\ n = kid.v THEN kid.at ELSE clock[x][g][n]
  BY <1>3 DEF Clocks
<1> HIDE DEF newer
<1>6. github[t].child[f].v <= kid.v
  BY <1>3
<1>7. \A n \in Nat : n <= github[t].child[f].v => newer[t][f][n] = clock[t][f][n]
  <2>1. CASE kid = github[t].child[f]
    <3>1. clock[t][f][kid.v] = kid.at
      BY <1>1, <2>1 DEF Dated, DatedChild
    <3>2. QED
      BY <1>3, <1>5, <3>1
  <2>2. CASE kid.v = github[t].child[f].v + 1
    BY <1>3, <1>5, <2>2
  <2>3. QED
    BY <2>1, <2>2
<1>8. \A x \in Threads, g \in Families :
        /\ github[x].child[g].v \in Nat /\ github'[x].child[g].v \in Nat
        /\ github[x].child[g].v <= github'[x].child[g].v
        /\ \A n \in Nat : n <= github[x].child[g].v => newer[x][g][n] = clock[x][g][n]
  <2>1. SUFFICES ASSUME NEW x \in Threads, NEW g \in Families
                 PROVE  /\ github[x].child[g].v \in Nat /\ github'[x].child[g].v \in Nat
                        /\ github[x].child[g].v <= github'[x].child[g].v
                        /\ \A n \in Nat : n <= github[x].child[g].v => newer[x][g][n] = clock[x][g][n]
    OBVIOUS
  <2>2. github[x].child[g].v \in Nat
    BY DEF TypeOK, Child
  <2>3. CASE x = t /\ g = f
    BY <1>3, <1>6, <1>7, <2>3
  <2>4. CASE ~(x = t /\ g = f)
    BY <1>5, <2>2, <2>4
  <2>5. QED
    BY <2>3, <2>4
<1>9. ASSUME NEW x \in Threads, NEW g \in Families, NEW k \in Child, DatedChild(clock, x, g, k)
      PROVE  DatedChild(newer, x, g, k)'
  <2>1. k.v \in Nat /\ k.v <= github[x].child[g].v /\ k.at = clock[x][g][k.v]
    BY <1>9 DEF DatedChild, Child
  <2>2. k.v <= github'[x].child[g].v /\ k.at = newer[x][g][k.v]
    BY <1>8, <2>1
  <2>3. QED
    BY <2>2 DEF DatedChild
<1>10. ASSUME NEW x \in Threads, NEW g \in Families
       PROVE  /\ newer[x][g][0] = 0
              /\ DatedChild(newer, x, g, github[x].child[g])'
              /\ DatedChild(newer, x, g, children[x][g])'
              /\ \A s \in Syncers : sync[s] # Idle =>
                   DatedChild(newer, x, g, sync[s].fetched[x][g])'
  <2>1. newer[x][g][0] = 0
    <3>1. clock[x][g][0] = 0 /\ 0 <= github[x].child[g].v
      BY <1>1, <1>8 DEF Dated
    <3>2. QED
      BY <1>8, <3>1
  <2>2. DatedChild(newer, x, g, github[x].child[g])'
    <3>1. CASE x = t /\ g = f
      <4>1. github'[x].child[g] = kid /\ newer[t][f][kid.v] = kid.at
        BY <1>3, <1>5, <3>1
      <4>2. QED
        BY <1>3, <3>1, <4>1 DEF DatedChild
    <3>2. CASE ~(x = t /\ g = f)
      <4>1. github'[x].child[g] = github[x].child[g]
        BY <3>2
      <4>2. github[x].child[g] \in Child /\ DatedChild(clock, x, g, github[x].child[g])
        BY <1>1 DEF Dated, TypeOK
      <4>3. /\ github[x].child[g].v <= github'[x].child[g].v
            /\ github[x].child[g].at = newer[x][g][github[x].child[g].v]
        BY <1>9, <4>2 DEF DatedChild
      <4>4. QED
        BY <4>1, <4>3 DEF DatedChild
    <3>3. QED
      BY <3>1, <3>2
  <2>3. children[x][g] \in Child /\ DatedChild(clock, x, g, children[x][g])
    BY <1>1 DEF Dated, TypeOK
  <2>4. DatedChild(newer, x, g, children[x][g])'
    <3>1. children'[x][g].v <= github'[x].child[g].v
          /\ children'[x][g].at = newer[x][g][children'[x][g].v]
      BY <1>2, <1>9, <2>3 DEF DatedChild
    <3>2. QED
      BY <3>1 DEF DatedChild
  <2>5. ASSUME NEW s \in Syncers, sync[s] # Idle
        PROVE  DatedChild(newer, x, g, sync[s].fetched[x][g])'
    <3>1. sync[s].fetched[x][g] \in Child /\ DatedChild(clock, x, g, sync[s].fetched[x][g])
      BY <1>1, <2>5, ActiveSync DEF Dated, Attempt
    <3>2. PICK k \in Child : k = sync[s].fetched[x][g] /\ DatedChild(clock, x, g, k)
      BY <3>1
    <3>3. DatedChild(newer, x, g, k)'
      BY <1>9, <3>2
    <3>4. k = sync'[s].fetched[x][g]
      BY <1>2, <3>2
    <3>5. QED
      BY <3>3, <3>4 DEF DatedChild
  <2>6. QED
    BY <2>1, <2>2, <2>4, <2>5
<1>11. ASSUME NEW x \in Threads, NEW r \in revisions[x]
       PROVE  DatedRevision(newer, x, r)'
  <2>1. DatedRevision(clock, x, r) /\ \A g \in Families : r.content.child[g] \in Nat
    BY <1>1 DEF Dated, TypeOK, Revision, Content
  <2>2. \A g \in Families : /\ r.content.child[g] <= github'[x].child[g].v
                            /\ newer[x][g][r.content.child[g]] = clock[x][g][r.content.child[g]]
    BY <1>8, <2>1 DEF DatedRevision
  <2>3. QED
    BY <1>2, <2>1, <2>2 DEF DatedRevision, Families
<1>12. Dated(newer)'
  BY <1>2, <1>10, <1>11 DEF Dated
<1>13. QED
  BY <1>2, <1>4, <1>12 DEF DatedInv, InFlight

LEMMA DatedStep ==
  ASSUME TypeOK, DatedInv, [Next]_vars
  PROVE  DatedInv'
<1>1. ASSUME UNCHANGED <<github, children, revisions, evidence>>,
             \A s \in Syncers : sync'[s] # Idle =>
               /\ InFlight(s)' => sync'[s].seq > 0
               /\ \A t \in Threads, f \in Families :
                    \/ sync'[s].fetched[t][f] \in {NoChild, github[t].child[f]}
                    \/ sync[s] # Idle /\ sync'[s].fetched[t][f] = sync[s].fetched[t][f]
      PROVE  DatedInv'
  <2>1. \A t \in Threads : /\ NotOlder(evidence'[t], evidence[t])
                           /\ evidence'[t] \in Order
                           /\ evidence'[t].seq = 0 => evidence[t].seq = 0
    BY <1>1, NotOlderReflexive DEF TypeOK
  <2>2. QED
    BY <1>1, <2>1, DatedReads
<1>2. ASSUME NEW t \in Threads, EditRow(t) PROVE DatedInv'
  <2>1. PICK row \in Rows : github' = [github EXCEPT ![t].row = row, ![t].at = now]
    BY <1>2 DEF EditRow
  <2>2. \A x \in Threads : github'[x].child = github[x].child
    BY <2>1 DEF TypeOK
  <2>3. github[t].child["comments"] \in Child /\ "comments" \in Families
    BY DEF TypeOK, Families
  <2>4. \A x \in Threads, g \in Families :
          github'[x].child[g] = IF x = t /\ g = "comments" THEN github[t].child["comments"]
                                ELSE github[x].child[g]
    BY <2>2
  <2>5. UNCHANGED <<archive, sync>>
    BY <1>2 DEF EditRow
  <2>6. QED
    BY <2>3, <2>4, <2>5, DatedGitHub
<1>3. ASSUME NEW t \in Threads, NEW f \in Families, EditChild(t, f) PROVE DatedInv'
  <2> DEFINE kid == [v |-> github[t].child[f].v + 1, at |-> now]
  <2>1. PICK at \in {github[t].at, now} :
          github' = [github EXCEPT ![t].at = at, ![t].child[f] = kid]
    BY <1>3 DEF EditChild
  <2>2. kid \in Child /\ kid.v = github[t].child[f].v + 1
    BY DEF TypeOK, Child
  <2> HIDE DEF kid
  <2>3. \A x \in Threads, g \in Families :
          github'[x].child[g] = IF x = t /\ g = f THEN kid ELSE github[x].child[g]
    BY <2>1 DEF TypeOK
  <2>4. QED
    BY ZenonT(60), <1>3, <2>2, <2>3, DatedGitHub DEF EditChild
<1>4. ASSUME NEW s \in Syncers, NEW scope \in SUBSET Threads \ {{}}, NEW options \in SyncOptions,
             ListIssues(s, scope, options)
      PROVE  DatedInv'
  <2>1. /\ \A q \in Syncers \ {s} : sync'[q] = sync[q]
        /\ sync'[s].phase = "fetching"
        /\ \A t \in Threads, f \in Families : sync'[s].fetched[t][f] = NoChild
    BY <1>4 DEF ListIssues, TypeOK
  <2>2. QED
    BY <1>1, <1>4, <2>1 DEF ListIssues, DatedInv, InFlight, archive
<1>5. ASSUME NEW s \in Syncers, NEW t \in Threads, NEW f \in Families, FetchChild(s, t, f)
      PROVE  DatedInv'
  <2>1. sync[s] \in Attempt /\ sync[s] # Idle /\ sync[s].phase = "fetching"
    BY <1>5, ActiveSync DEF FetchChild, FetchPending, Idle
  <2>2. /\ \A q \in Syncers \ {s} : sync'[q] = sync[q]
        /\ sync'[s].phase = "fetching"
        /\ \A x \in Threads, g \in Families :
             sync'[s].fetched[x][g] \in {sync[s].fetched[x][g], github[x].child[g]}
    BY <1>5, <2>1 DEF FetchChild, TypeOK, Attempt
  <2>3. QED
    BY ZenonT(60), <1>1, <1>5, <2>1, <2>2 DEF FetchChild, DatedInv, InFlight, archive
<1>6. ASSUME NEW s \in Syncers, NEW t \in Threads, RecordSyncFailure(s, t) PROVE DatedInv'
  <2> DEFINE in == [at |-> sync[s].rows[t].at, row |-> sync[s].rows[t].row,
                    draft |-> RowDraft(t, sync[s].rows[t].row)]
  <2>1. sync[s] \in Attempt
    BY <1>6, ActiveSync DEF RecordSyncFailure, FetchPending, Idle
  <2>2. in \in IncomingRow
    BY <2>1 DEF RowDraft, IncomingRow, Attempt, Row
  <2>3. thread[t] \in ThreadRow /\ evidence[t] \in Order /\ counter + 1 \in Nat /\ counter \in Nat
    BY DEF TypeOK
  <2>4. /\ NotOlder(FailedUpsert(s, t).evidence, evidence[t])
        /\ FailedUpsert(s, t).evidence \in Order
        /\ FailedUpsert(s, t).evidence.seq \in {counter + 1, evidence[t].seq}
    BY <2>1, <2>2, <2>3, UpsertMovesForward, FailedUpsertType, UpsertSequences DEF FailedUpsert
  <2>5. /\ evidence' = [evidence EXCEPT ![t] = FailedUpsert(s, t).evidence]
        /\ UNCHANGED <<github, children, revisions>>
        /\ sync' = [sync EXCEPT ![s] = Idle]
    BY <1>6 DEF RecordSyncFailure
  <2>6. ASSUME NEW x \in Threads
        PROVE  /\ NotOlder(evidence'[x], evidence[x])
               /\ evidence'[x] \in Order
               /\ evidence'[x].seq = 0 => evidence[x].seq = 0
    <3>1. CASE x = t
      BY <2>3, <2>4, <2>5, <3>1 DEF TypeOK
    <3>2. CASE x # t
      BY <2>5, <3>2, NotOlderReflexive DEF TypeOK
    <3>3. QED
      BY <3>1, <3>2
  <2>7. \A q \in Syncers : sync'[q] # Idle => sync'[q] = sync[q]
    BY <2>5 DEF TypeOK
  <2>8. QED
    BY <2>5, <2>6, <2>7, DatedReads DEF DatedInv, InFlight
<1>7. ASSUME NEW s \in Syncers, NextThreadObservationSequence(s) PROVE DatedInv'
  <2>1. sync[s] \in Attempt /\ sync[s] # Idle
    BY <1>7, ActiveSync DEF NextThreadObservationSequence, Idle
  <2>2. /\ \A q \in Syncers \ {s} : sync'[q] = sync[q]
        /\ sync'[s].seq > 0 /\ sync'[s].fetched = sync[s].fetched
    BY <1>7, <2>1 DEF NextThreadObservationSequence, TypeOK, Attempt
  <2>3. QED
    BY <1>1, <1>7, <2>1, <2>2 DEF NextThreadObservationSequence, DatedInv, InFlight, archive
<1>8. ASSUME NEW s \in Syncers, Abort(s) PROVE DatedInv'
  <2>1. \A q \in Syncers : sync'[q] # Idle => sync'[q] = sync[q]
    BY <1>8 DEF Abort, TypeOK
  <2>2. QED
    BY <1>1, <1>8, <2>1 DEF Abort, DatedInv, InFlight, archive
<1>9. ASSUME NEW s \in Syncers, Persist(s) PROVE DatedInv'
  <2>1. PICK clock \in Clocks : Dated(clock)
    BY DEF DatedInv
  <2>2. \A t \in Threads :
          /\ \A f \in Families : children'[t][f] \in {children[t][f], sync[s].fetched[t][f]}
          /\ evidence'[t].seq = 0 => revisions'[t] = {}
          /\ \A r \in revisions'[t] : DatedRevision(clock, t, r)'
    BY <1>9, <2>1, PersistDated
  <2>3. /\ github' = github /\ sync[s] # Idle
        /\ \A q \in Syncers : sync'[q] # Idle => sync'[q] = sync[q]
    <3>1. sync[s] # Idle
      BY <1>9 DEF Persist, Idle
    <3>2. QED
      BY <1>9, <3>1 DEF Persist, TypeOK
  <2>4. ASSUME NEW t \in Threads, NEW f \in Families
        PROVE  /\ clock[t][f][0] = 0
               /\ DatedChild(clock, t, f, github[t].child[f])'
               /\ DatedChild(clock, t, f, children[t][f])'
               /\ (\A q \in Syncers : sync[q] # Idle => DatedChild(clock, t, f, sync[q].fetched[t][f]))'
    <3>1. /\ clock[t][f][0] = 0
          /\ DatedChild(clock, t, f, github[t].child[f])
          /\ DatedChild(clock, t, f, children[t][f])
          /\ \A q \in Syncers : sync[q] # Idle => DatedChild(clock, t, f, sync[q].fetched[t][f])
      BY <2>1 DEF Dated
    <3>2. children'[t][f] \in {children[t][f], sync[s].fetched[t][f]}
      BY <2>2
    <3>3. DatedChild(clock, t, f, children[t][f])'
      BY <2>3, <3>1, <3>2 DEF DatedChild
    <3>4. QED
      BY <2>3, <3>1, <3>3 DEF DatedChild
  <2>5. Dated(clock)'
    BY <2>2, <2>4 DEF Dated
  <2>6. (\A q \in Syncers : InFlight(q) => sync[q].seq > 0)'
    <3>1. \A q \in Syncers : sync'[q] # Idle => (sync'[q].phase = "sequenced" => sync'[q].seq > 0)
      BY <2>3 DEF DatedInv, InFlight
    <3>2. QED
      BY <3>1 DEF InFlight
  <2>7. QED
    BY <2>2, <2>5, <2>6 DEF DatedInv
<1>10. CASE Tick \/ UNCHANGED vars
  BY <1>1, <1>10 DEF Tick, vars, archive, DatedInv, InFlight
<1>11. QED
  BY <1>2, <1>3, <1>4, <1>5, <1>6, <1>7, <1>8, <1>9, <1>10 DEF Next, GitHub, Sync

LEMMA DatedHolds == Spec => [](TypeOK /\ GenerationInv /\ DatedInv)
<1>1. Init => DatedInv
  <2> SUFFICES ASSUME Init PROVE DatedInv
    OBVIOUS
  <2> DEFINE clock == [t \in Threads |-> [f \in Families |-> [n \in Nat |-> IF n = 0 THEN 0 ELSE 1]]]
  <2>1. clock \in Clocks
    BY DEF Clocks
  <2>2. Dated(clock)
    BY DEF Init, Dated, DatedChild, NoChild, Idle
  <2>3. QED
    BY <2>1, <2>2 DEF Init, DatedInv, InFlight, Idle
<1>2. TypeOK /\ DatedInv /\ [Next]_vars => DatedInv'
  BY DatedStep
<1>3. QED
  BY <1>1, <1>2, GenerationsHold, PTL DEF Spec

(* What an upsert of a revision at least as new in its clocks leaves.       *)
LEMMA UpsertRevisionKeeps ==
  ASSUME NEW revs \in SUBSET Revision, NEW in \in Revision,
         NEW bound \in Nat, \A r \in revs : r.seq <= bound,
         \A r \in revs : r.content = in.content => r.source <= in.source
  PROVE  \E r \in upsertThreadRevision(revs, in) : r.seq >= in.seq
<1> DEFINE latest == LatestRevision(revs)
<1>1. CASE revs = {}
  BY <1>1 DEF upsertThreadRevision, Revision
<1>2. CASE revs # {}
  <2>1. latest \in revs /\ latest \in Revision
    BY <1>2, LatestRevisionExists
  <2>2. /\ in.source \in Nat /\ in.seq \in Nat /\ latest.source \in Nat /\ latest.seq \in Nat
        /\ in \in [source : Nat, seq : Nat, content : Content]
    BY <2>1 DEF Revision
  <2> HIDE DEF latest
  <2>3. CASE compareRevisionObservationOrder(in, latest) = Older
             /\ {r \in revs : r.content = in.content /\ r.source = in.source} # {}
    <3>1. in.seq <= latest.seq
      <4>1. Valid(in.source) /\ Valid(latest.source)
        BY <2>2, NumbersAreValid
      <4>2. QED
        BY <2>2, <2>3, <4>1, CompareNumbersIs DEF compareRevisionObservationOrder
    <3>2. upsertThreadRevision(revs, in) = revs
      BY <1>2, <2>3 DEF upsertThreadRevision, latest
    <3>3. QED
      BY <2>1, <2>2, <3>1, <3>2
  <2>4. CASE latest.content = in.content /\ compareObservationOrder(in, latest) # Newer
    <3>1. latest.source <= in.source
      BY <2>1, <2>4
    <3>2. compareObservationOrder(in, latest)
            = IF in.source = latest.source THEN CompareNumbers(in.seq, latest.seq)
              ELSE CompareNumbers(in.source, latest.source)
      <4>1. Valid(in.source) /\ Valid(latest.source)
        BY <2>2, NumbersAreValid
      <4>2. CASE in.source = latest.source
        BY <4>1, <4>2 DEF compareObservationOrder
      <4>3. CASE in.source # latest.source
        BY <4>1, <4>3 DEF compareObservationOrder
      <4>4. QED
        BY <4>2, <4>3
    <3>3. in.seq <= latest.seq
      BY <2>2, <2>4, <3>1, <3>2, CompareNumbersIs
    <3>4. upsertThreadRevision(revs, in) = revs
      BY <1>2, <2>4 DEF upsertThreadRevision, latest
    <3>5. QED
      BY <2>1, <2>2, <3>3, <3>4
  <2>5. CASE ~(compareRevisionObservationOrder(in, latest) = Older
               /\ {r \in revs : r.content = in.content /\ r.source = in.source} # {})
             /\ ~(latest.content = in.content /\ compareObservationOrder(in, latest) # Newer)
    <3>1. in \in upsertThreadRevision(revs, in)
      BY <1>2, <2>5 DEF upsertThreadRevision, latest
    <3>2. QED
      BY <2>2, <3>1
  <2>6. QED
    BY <2>3, <2>4, <2>5
<1>3. QED
  BY <1>1, <1>2

-----------------------------------------------------------------------------
(* Fresh revisions, when syncs are complete                                 *)

CompleteSyncs == DetailsMayFail = FALSE /\ \A options \in SyncOptions : options = Families

\* A complete observation moves the row, its fence and the reservations of its
\* children together, so the three never differ.
OneFence(t) ==
  /\ thread[t].seq >= 0
  /\ evidence[t] = ThreadOrder(thread[t])
  /\ \A f \in Hydrated(Families, t) : reservation[t][f] = evidence[t]

\* What holds of the revisions when the row is at a fence.
Described(t) ==
  /\ evidence[t].seq > 0 => \E r \in revisions[t] : r.seq >= evidence[t].seq
  /\ \A r \in revisions[t] : r.seq = evidence[t].seq =>
       r.content = [row |-> thread[t].row, draft |-> thread[t].draft,
                    child |-> [f \in Families |-> children[t][f].v]]

FreshInv ==
  /\ \A t \in Threads : OneFence(t) /\ Described(t)
  /\ \A s \in Syncers : sync[s] # Idle => sync[s].options = Families

(* A complete observation of a row whose fence is its own order is applied  *)
(* if and only if its evidence is, when it is newer.                        *)
LEMMA CompleteUpsert ==
  ASSUME NEW cur \in ThreadRow, cur.seq >= 0, NEW in \in IncomingRow, NEW seq \in Nat
  PROVE  LET u  == upsertThreadObservation(cur, ThreadOrder(cur), in, seq, FALSE, FALSE)
             at == [source |-> in.at, seq |-> seq]
         IN \/ /\ u.applied /\ u.evidenceApplied
               /\ u.thread = [at |-> in.at, row |-> in.row, draft |-> in.draft, seq |-> seq]
               /\ u.evidence = at
               /\ cur.seq = 0 \/ compareObservationOrder(at, ThreadOrder(cur)) = Newer
            \/ /\ ~u.applied /\ ~u.evidenceApplied
               /\ u.thread = cur /\ u.evidence = ThreadOrder(cur)
<1> DEFINE same   == SamePayload(cur, in, in.draft)
           stored == [at |-> in.at, row |-> in.row, draft |-> in.draft, seq |-> seq]
           at     == [source |-> in.at, seq |-> seq]
           order  == IF cur.seq = 0 THEN Newer
                     ELSE compareObservationOrder(at, ThreadOrder(cur))
           u      == upsertThreadObservation(cur, ThreadOrder(cur), in, seq, FALSE, FALSE)
<1>1. cur.seq \in Int /\ ~(cur.seq < 0)
  BY DEF ThreadRow
<1>2. StoredSequence(cur, seq, same, FALSE) = seq
  BY <1>1 DEF StoredSequence
<1>3. ThreadOrder(stored) = at
  BY DEF ThreadOrder, observationSequenceOrderValue
<1>4. ThreadOrder(cur).seq = cur.seq
  BY <1>1 DEF ThreadOrder, observationSequenceOrderValue
<1>5. reserveThreadEvidenceObservation(ThreadOrder(cur), at) <=> order = Newer
  BY <1>4 DEF reserveThreadEvidenceObservation
<1>6. u = [thread |-> IF order = Newer THEN stored ELSE cur,
           evidence |-> IF order = Newer THEN at ELSE ThreadOrder(cur),
           applied |-> order = Newer, evidenceApplied |-> order = Newer,
           conflict |-> order = Tied /\ ~same]
  BY <1>1, <1>2, <1>3, <1>5 DEF upsertThreadObservation
<1> HIDE DEF u, stored
<1>7. CASE order = Newer
  <2>1. u.applied /\ u.evidenceApplied /\ u.thread = stored /\ u.evidence = at
    BY <1>6, <1>7
  <2>2. cur.seq = 0 \/ compareObservationOrder(at, ThreadOrder(cur)) = Newer
    BY <1>7
  <2>3. QED
    BY <2>1, <2>2 DEF u, stored
<1>8. CASE order # Newer
  <2>1. ~u.applied /\ ~u.evidenceApplied /\ u.thread = cur /\ u.evidence = ThreadOrder(cur)
    BY <1>6, <1>8
  <2>2. QED
    BY <2>1 DEF u
<1>9. QED
  BY <1>7, <1>8

(* What a complete sync writes of a thread: all of it, or nothing.          *)
LEMMA CompletePersist ==
  ASSUME TypeOK, NEW s \in Syncers, sync[s] \in Attempt, sync[s].options = Families,
         NEW t \in Threads, OneFence(t)
  PROVE  LET u  == Upsert(s, t)
             in == IncomingThread(s, t)
             at == [source |-> in.at, seq |-> sync[s].seq]
         IN \/ /\ u.applied /\ u.evidenceApplied /\ ~SkippedStale(s, t)
               /\ u.thread = [at |-> in.at, row |-> in.row, draft |-> in.draft,
                              seq |-> sync[s].seq]
               /\ u.evidence = at
               /\ evidence[t].seq = 0 \/ compareObservationOrder(at, evidence[t]) = Newer
               /\ \A f \in Families : ReservesChild(s, t, f) <=> f \in Hydrated(Families, t)
            \/ /\ ~u.evidenceApplied
               /\ u.thread = thread[t] /\ u.evidence = evidence[t]
               /\ \A f \in Families : ~ReservesChild(s, t, f)
<1> DEFINE u  == Upsert(s, t)
           in == IncomingThread(s, t)
           at == [source |-> in.at, seq |-> sync[s].seq]
<1>1. thread[t] \in ThreadRow /\ in \in IncomingRow /\ sync[s].seq \in Nat
  BY SyncUpsertType DEF TypeOK, Attempt
<1>2. hasFreshThreadEvidence(sync[s].options, t)
  BY DEF hasFreshThreadEvidence, Families
<1>3. (t \in PullRequests /\ ~HasPullDetails(s, t) /\ ~RowsCarryDraft) = FALSE
  BY DEF HasPullDetails, Families
<1>4. u = upsertThreadObservation(thread[t], ThreadOrder(thread[t]), in, sync[s].seq, FALSE, FALSE)
  BY <1>2, <1>3 DEF Upsert, OneFence
<1>5. ThreadOrder(thread[t]).seq = thread[t].seq
  BY <1>1 DEF ThreadOrder, observationSequenceOrderValue, OneFence, ThreadRow
<1>6. in.at = sync[s].rows[t].at
  BY DEF IncomingThread
<1>7. ASSUME NEW f \in Hydrated(Families, t)
      PROVE  compareReservationObservationOrder(at, reservation[t][f])
               = compareObservationOrder(at, evidence[t])
  <2>1. reservation[t][f] = evidence[t] /\ evidence[t].source \in Nat
    BY DEF OneFence, TypeOK, Order
  <2>2. evidence[t].source # Blank
    BY <2>1, NumbersAreValid
  <2>3. QED
    BY <2>1, <2>2 DEF compareReservationObservationOrder
<1> HIDE DEF u, in
<1>8. CASE u.applied /\ u.evidenceApplied
  <2>1. /\ u.thread = [at |-> in.at, row |-> in.row, draft |-> in.draft, seq |-> sync[s].seq]
        /\ u.evidence = at
        /\ evidence[t].seq = 0 \/ compareObservationOrder(at, evidence[t]) = Newer
    <3>1. evidence[t] = ThreadOrder(thread[t]) /\ thread[t].seq >= 0
      BY DEF OneFence
    <3>2. QED
      BY ZenonT(60), <1>1, <1>4, <1>5, <1>8, <3>1, CompleteUpsert
  <2>2. ASSUME NEW f \in Families
        PROVE  ReservesChild(s, t, f) <=> f \in Hydrated(Families, t)
    <3>1. CASE f \in Hydrated(Families, t)
      <4>1. reservation[t][f].seq = 0 \/ compareReservationObservationOrder(at, reservation[t][f]) = Newer
        BY <2>1, <3>1, <1>7 DEF OneFence
      <4>2. QED
        BY <1>6, <1>8, <3>1, <4>1 DEF ReservesChild, SkippedStale, u
    <3>2. CASE f \notin Hydrated(Families, t)
      BY <3>2 DEF ReservesChild
    <3>3. QED
      BY <3>1, <3>2
  <2>3. QED
    BY <1>8, <2>1, <2>2 DEF SkippedStale, u, in
<1>9. CASE ~(u.applied /\ u.evidenceApplied)
  <2>1. ~u.applied /\ ~u.evidenceApplied /\ u.thread = thread[t] /\ u.evidence = evidence[t]
    <3>1. evidence[t] = ThreadOrder(thread[t]) /\ thread[t].seq >= 0
      BY DEF OneFence
    <3>2. QED
      BY <1>1, <1>4, <1>9, <3>1, CompleteUpsert
  <2>2. \A f \in Families : ~ReservesChild(s, t, f)
    BY <1>2, <2>1 DEF ReservesChild, u
  <2>3. QED
    BY <2>1, <2>2 DEF u, in
<1>10. QED
  BY <1>8, <1>9

(* The transaction of a complete sync, on one thread.                       *)
LEMMA FreshPersistThread ==
  ASSUME TypeOK, GenerationInv, DatedInv, FreshInv, NEW s \in Syncers, Persist(s), NEW t \in Threads
  PROVE  OneFence(t)' /\ Described(t)'
<1> DEFINE u    == Upsert(s, t)
           in   == IncomingThread(s, t)
           kids == ChildrenAfter(s, t)
           rev  == IncomingRevision(s, t)
           at   == [source |-> in.at, seq |-> sync[s].seq]
<1>1. sync[s] \in Attempt /\ sync[s] # Idle /\ sync[s].options = Families /\ InFlight(s)
  BY ActiveSync DEF Persist, Idle, FreshInv, InFlight
<1>2. OneFence(t) /\ Described(t)
  BY DEF FreshInv
<1>3. \/ /\ u.evidenceApplied
         /\ u.thread = [at |-> in.at, row |-> in.row, draft |-> in.draft, seq |-> sync[s].seq]
         /\ u.evidence = at
         /\ \A f \in Families : ReservesChild(s, t, f) <=> f \in Hydrated(Families, t)
      \/ /\ ~u.evidenceApplied
         /\ u.thread = thread[t] /\ u.evidence = evidence[t]
         /\ \A f \in Families : ~ReservesChild(s, t, f)
  BY <1>1, <1>2, CompletePersist
<1>4. /\ in \in IncomingRow /\ sync[s].seq \in Nat /\ rev \in Revision
      /\ children[t] \in [Families -> Child] /\ revisions[t] \in SUBSET Revision
  <2>1. in \in IncomingRow /\ sync[s].seq \in Nat /\ rev \in Revision
    BY <1>1, SyncUpsertType, SyncWritesType DEF Attempt
  <2>2. QED
    BY <2>1 DEF TypeOK
<1>5. /\ rev.seq = sync[s].seq
      /\ rev.content = [row |-> in.row, draft |-> in.draft, child |-> [f \in Families |-> kids[f].v]]
  BY DEF IncomingRevision
<1>6. in.at = sync[s].rows[t].at
  BY DEF IncomingThread
<1>7. CASE u.evidenceApplied /\ t \in sync[s].scope /\ ~PersistConflict(s)
  <2>1. /\ thread'[t] = [at |-> in.at, row |-> in.row, draft |-> in.draft, seq |-> sync[s].seq]
        /\ evidence'[t] = at
        /\ children'[t] = kids
        /\ revisions'[t] = upsertThreadRevision(revisions[t], rev)
        /\ \A f \in Hydrated(Families, t) : reservation'[t][f] = at
    <3>1. \A f \in Hydrated(Families, t) : f \in Families /\ ReservesChild(s, t, f)
      BY <1>3, <1>7 DEF Hydrated
    <3>2. /\ thread'[t] = u.thread /\ evidence'[t] = u.evidence
          /\ children'[t] = kids
          /\ revisions'[t] = upsertThreadRevision(revisions[t], rev)
      BY <1>7 DEF Persist
    <3>3. \A f \in Families : ReservesChild(s, t, f) =>
            reservation'[t][f] = [source |-> sync[s].rows[t].at, seq |-> sync[s].seq]
      BY <1>7 DEF Persist
    <3>4. QED
      BY <1>3, <1>6, <1>7, <3>1, <3>2, <3>3
  <2>2. PICK clock \in Clocks : Dated(clock)
    BY DEF DatedInv
  <2>3. \A r \in revisions[t] : r.content = rev.content => r.source <= rev.source
    BY <1>1, <1>7, <2>2, RevisionClocksGrow
  <2>4. \A r \in revisions[t] : r.seq <= counter /\ r.seq # rev.seq
    BY <1>1, <1>5 DEF GenerationInv, GenerationUnused
  <2> HIDE DEF u, in, kids, rev
  <2>5. OneFence(t)'
    BY <1>4, <2>1 DEF OneFence, ThreadOrder, observationSequenceOrderValue, IncomingRow
  <2>6. \E r \in revisions'[t] : r.seq >= evidence'[t].seq
    <3>1. counter \in Nat
      BY DEF TypeOK
    <3>2. \E r \in upsertThreadRevision(revisions[t], rev) : r.seq >= rev.seq
      BY <1>4, <2>3, <2>4, <3>1, UpsertRevisionKeeps
    <3>3. QED
      BY <1>5, <2>1, <3>2
  <2>7. \A r \in revisions'[t] : r.seq = evidence'[t].seq => r = rev
    BY <1>5, <2>1, <2>4, UpsertRevisionAdds
  <2>8. rev.content = [row |-> thread'[t].row, draft |-> thread'[t].draft,
                       child |-> [f \in Families |-> children'[t][f].v]]
    BY <1>5, <2>1
  <2>9. Described(t)'
    BY <2>6, <2>7, <2>8 DEF Described
  <2>10. QED
    BY <2>5, <2>9
<1>8. CASE ~(u.evidenceApplied /\ t \in sync[s].scope /\ ~PersistConflict(s))
  <2>1. /\ thread'[t] = thread[t] /\ evidence'[t] = evidence[t]
        /\ revisions'[t] = revisions[t]
        /\ \A f \in Families : children'[t][f] = children[t][f]
        /\ \A f \in Families : reservation'[t][f] = reservation[t][f]
    BY <1>3, <1>8 DEF Persist, ChildrenAfter
  <2>2. \A f \in Hydrated(Families, t) : f \in Families
    BY DEF Hydrated, Families
  <2>3. OneFence(t)'
    BY <1>2, <2>1, <2>2 DEF OneFence, ThreadOrder
  <2>4. [f \in Families |-> children'[t][f].v] = [f \in Families |-> children[t][f].v]
    BY <2>1
  <2>5. Described(t)'
    BY <1>2, <2>1, <2>4 DEF Described
  <2>6. QED
    BY <2>3, <2>5
<1>9. QED
  BY <1>7, <1>8

LEMMA FreshStep ==
  ASSUME CompleteSyncs, TypeOK, GenerationInv, DatedInv, FreshInv, [Next]_vars
  PROVE  FreshInv'
<1>1. ASSUME UNCHANGED archive,
             \A s \in Syncers : sync'[s] # Idle => sync'[s].options = Families
      PROVE  FreshInv'
  <2>1. UNCHANGED <<thread, evidence, reservation, children, revisions>>
    BY <1>1 DEF archive
  <2>2. QED
    BY <1>1, <2>1 DEF FreshInv, OneFence, Described
<1>2. ASSUME NEW s \in Syncers, NEW scope \in SUBSET Threads \ {{}}, NEW options \in SyncOptions,
             ListIssues(s, scope, options)
      PROVE  FreshInv'
  BY <1>1, <1>2 DEF ListIssues, FreshInv, TypeOK, CompleteSyncs
<1>3. ASSUME NEW s \in Syncers, NEW t \in Threads, NEW f \in Families, FetchChild(s, t, f)
      PROVE  FreshInv'
  <2>1. sync[s] \in Attempt /\ sync[s] # Idle
    BY <1>3, ActiveSync DEF FetchChild, FetchPending, Idle
  <2>2. (\A q \in Syncers \ {s} : sync'[q] = sync[q]) /\ sync'[s].options = sync[s].options
    BY <1>3, <2>1 DEF FetchChild, TypeOK, Attempt
  <2>3. QED
    BY <1>1, <1>3, <2>1, <2>2 DEF FetchChild, FreshInv
<1>4. ASSUME NEW s \in Syncers, NEW t \in Threads, RecordSyncFailure(s, t) PROVE FALSE
  BY <1>4 DEF RecordSyncFailure, CompleteSyncs
<1>5. ASSUME NEW s \in Syncers, NextThreadObservationSequence(s) PROVE FreshInv'
  <2>1. sync[s] \in Attempt /\ sync[s] # Idle
    BY <1>5, ActiveSync DEF NextThreadObservationSequence, Idle
  <2>2. (\A q \in Syncers \ {s} : sync'[q] = sync[q]) /\ sync'[s].options = sync[s].options
    BY <1>5, <2>1 DEF NextThreadObservationSequence, TypeOK, Attempt
  <2>3. QED
    BY <1>1, <1>5, <2>1, <2>2 DEF NextThreadObservationSequence, FreshInv
<1>6. ASSUME NEW s \in Syncers, Abort(s) PROVE FreshInv'
  BY <1>1, <1>6 DEF Abort, FreshInv, TypeOK
<1>7. ASSUME NEW s \in Syncers, Persist(s) PROVE FreshInv'
  <2>1. \A t \in Threads : OneFence(t)' /\ Described(t)'
    BY <1>7, FreshPersistThread
  <2>2. \A q \in Syncers : sync'[q] # Idle => sync'[q] = sync[q]
    BY <1>7 DEF Persist, TypeOK
  <2>3. QED
    BY <2>1, <2>2 DEF FreshInv
<1>8. CASE GitHub \/ UNCHANGED vars
  BY <1>1, <1>8 DEF GitHub, Tick, EditRow, EditChild, vars, FreshInv
<1>9. QED
  BY <1>2, <1>3, <1>4, <1>5, <1>6, <1>7, <1>8 DEF Next, Sync

(* FreshRevisionDescribesArchive: when every sync hydrates every family and *)
(* no fetch fails, what the consumers of enrichment take for the current    *)
(* revision of a thread is what the archive holds of it, in whatever order  *)
(* syncs read, take their generations and commit.                           *)
THEOREM FreshRevisionsDescribeArchive ==
  ASSUME CompleteSyncs
  PROVE  Spec => []FreshRevisionDescribesArchive
<1>1. TypeOK /\ FreshInv => FreshRevisionDescribesArchive
  BY DEF FreshInv, Described, FreshRevisionDescribesArchive, FreshRevisions
<1>2. TypeOK /\ GenerationInv /\ DatedInv /\ FreshInv /\ [Next]_vars => FreshInv'
  BY FreshStep
<1>3. Init => FreshInv
  BY DEF Init, OneFence, Described, NoThread, NoOrder, ThreadOrder, observationSequenceOrderValue,
         Hydrated, FreshInv
<1>4. QED
  BY <1>1, <1>2, <1>3, DatedHolds, PTL DEF Spec

-----------------------------------------------------------------------------
(* The newest sync lands                                                    *)

\* The orders an observation of a thread is compared with.
Fences(t) == {ThreadOrder(thread[t]), evidence[t]} \cup {reservation[t][f] : f \in Families}

\* No fence is ahead of GitHub, or at a generation that a sync still holds.
Behind(order, t) ==
  /\ order.source <= github[t].at
  /\ order.seq <= counter
  /\ \A s \in Syncers : InFlight(s) => order.seq # sync[s].seq

SeenInv ==
  /\ \A t \in Threads : github[t].at <= now
  /\ \A s \in Syncers : sync[s] # Idle => \A t \in Threads : sync[s].rows[t].at <= github[t].at
  /\ \A t \in Threads : \A order \in Fences(t) : Behind(order, t)

LEMMA FenceType ==
  ASSUME TypeOK, NEW t \in Threads
  PROVE  \A order \in Fences(t) : order \in Order
<1>1. ThreadOrder(thread[t]) \in Order
  BY OrderValue DEF TypeOK, ThreadOrder, ThreadRow, Order
<1>2. QED
  BY <1>1 DEF TypeOK, Fences

(* Fences that a step moves take their clock from a row GitHub served and   *)
(* their generation from the step's, which no sync holds after it.          *)
LEMMA SeenMoves ==
  ASSUME TypeOK, SeenInv, counter' \in Nat, counter <= counter',
         \A t \in Threads : /\ github'[t].at \in Nat
                            /\ github[t].at <= github'[t].at /\ github'[t].at <= now',
         \A s \in Syncers : sync'[s] # Idle =>
           \A t \in Threads : sync'[s].rows[t].at <= github'[t].at,
         \A s \in Syncers : InFlight(s)' =>
           \/ InFlight(s) /\ sync'[s].seq = sync[s].seq
           \/ sync'[s].seq \in Nat /\ sync'[s].seq > counter,
         NEW new \in Int, new <= counter',
         \A s \in Syncers : InFlight(s)' => sync'[s].seq # new,
         \A t \in Threads : \A order \in Fences(t)' :
           /\ order.source <= github'[t].at \/ \E old \in Fences(t) : order.source = old.source
           /\ order.seq = new \/ \E old \in Fences(t) : order.seq = old.seq
  PROVE  SeenInv'
<1>1. counter \in Nat /\ \A t \in Threads : github[t].at \in Nat
  BY DEF TypeOK
<1>2. ASSUME NEW t \in Threads, NEW order \in Fences(t)'
      PROVE  /\ order.source <= github'[t].at
             /\ order.seq <= counter'
             /\ \A s \in Syncers : InFlight(s)' => order.seq # sync'[s].seq
  <2>1. \A old \in Fences(t) : old \in Order /\ Behind(old, t)
    BY FenceType DEF SeenInv
  <2>2. order.source <= github'[t].at
    BY <1>1, <2>1 DEF Behind, Order
  <2>3. CASE order.seq = new
    BY <2>2, <2>3
  <2>4. ASSUME NEW old \in Fences(t), order.seq = old.seq
        PROVE  /\ order.seq <= counter'
               /\ \A s \in Syncers : InFlight(s)' => order.seq # sync'[s].seq
    <3>1. old.seq \in Nat /\ old.seq <= counter
          /\ \A s \in Syncers : InFlight(s) => old.seq # sync[s].seq
      BY <2>1 DEF Behind, Order
    <3>2. QED
      BY <1>1, <2>4, <3>1
  <2>5. QED
    BY <2>2, <2>3, <2>4
<1>3. (\A t \in Threads : \A order \in Fences(t) : Behind(order, t))'
  BY <1>2 DEF Behind
<1>4. QED
  BY <1>3 DEF SeenInv

(* An upsert leaves the clocks and generations it was given, or those before.*)
LEMMA UpsertFences ==
  ASSUME NEW cur \in ThreadRow, NEW ev \in Order, NEW in \in IncomingRow, NEW seq \in Nat,
         NEW incomplete \in BOOLEAN, NEW preserve \in BOOLEAN
  PROVE  LET u == upsertThreadObservation(cur, ev, in, seq, incomplete, preserve)
         IN /\ ThreadOrder(u.thread).source \in {in.at, ThreadOrder(cur).source}
            /\ ThreadOrder(u.thread).seq \in {seq, ThreadOrder(cur).seq}
            /\ u.evidence.source \in {in.at, ev.source}
            /\ u.evidence.seq \in {seq, ev.seq}
<1> DEFINE u == upsertThreadObservation(cur, ev, in, seq, incomplete, preserve)
<1>1. /\ observationSequenceOrderValue(u.thread.seq)
           \in {seq, observationSequenceOrderValue(cur.seq)}
      /\ u.evidence.seq \in {seq, ev.seq}
  BY UpsertSequences
<1>2. u.thread.at \in {in.at, cur.at} /\ u.evidence.source \in {in.at, ev.source}
  BY DEF upsertThreadObservation
<1> HIDE DEF u
<1>3. QED
  BY <1>1, <1>2 DEF ThreadOrder, u

LEMMA SeenStep ==
  ASSUME TypeOK, TypeOK', GenerationInv, SeenInv, [Next]_vars
  PROVE  SeenInv'
<1>1. counter \in Nat /\ now \in Nat /\ \A t \in Threads : github[t].at \in Nat
  BY DEF TypeOK
<1>2. ASSUME UNCHANGED archive, counter' \in Nat, counter <= counter',
             \A t \in Threads : /\ github'[t].at \in Nat
                                /\ github[t].at <= github'[t].at /\ github'[t].at <= now',
             \A s \in Syncers : sync'[s] # Idle =>
               \A t \in Threads : sync'[s].rows[t].at <= github'[t].at,
             \A s \in Syncers : InFlight(s)' =>
               \/ InFlight(s) /\ sync'[s].seq = sync[s].seq
               \/ sync'[s].seq \in Nat /\ sync'[s].seq > counter
      PROVE  SeenInv'
  <2>1. \A t \in Threads : Fences(t)' = Fences(t)
    BY <1>2 DEF archive, Fences
  <2>2. -1 \in Int /\ -1 <= counter'
    BY <1>2
  <2>3. \A s \in Syncers : InFlight(s)' => sync'[s].seq # -1
    <3>1. \A s \in Syncers : InFlight(s) => sync[s].seq \in Nat
      BY ActiveSync DEF InFlight, Attempt
    <3>2. QED
      BY <1>2, <3>1
  <2>4. QED
    BY <1>2, <2>1, <2>2, <2>3, SeenMoves
<1>3. CASE Tick
  <2>1. UNCHANGED <<github, counter, sync, archive>> /\ now' = now + 1
    BY <1>3 DEF Tick
  <2>2. \A s \in Syncers : InFlight(s)' = InFlight(s)
    BY <2>1 DEF InFlight
  <2>3. QED
    BY <1>1, <1>2, <2>1, <2>2 DEF SeenInv
<1>4. ASSUME NEW x \in Threads, EditRow(x) \/ \E f \in Families : EditChild(x, f)
      PROVE  SeenInv'
  <2>1. UNCHANGED <<now, counter, sync, archive>>
    BY <1>4 DEF EditRow, EditChild
  <2>2. \A t \in Threads : github'[t].at \in {github[t].at, now}
    <3>1. CASE EditRow(x)
      BY <3>1 DEF EditRow, TypeOK
    <3>2. CASE \E f \in Families : EditChild(x, f)
      BY <3>2 DEF EditChild, TypeOK
    <3>3. QED
      BY <1>4, <3>1, <3>2
  <2>3. \A s \in Syncers : InFlight(s)' = InFlight(s)
    BY <2>1 DEF InFlight
  <2>4. \A t \in Threads : github[t].at <= github'[t].at /\ github'[t].at <= now
    BY <1>1, <2>2 DEF SeenInv
  <2>5. \A s \in Syncers : sync[s] # Idle =>
          \A t \in Threads : sync[s].rows[t].at \in Nat /\ sync[s].rows[t].at <= github[t].at
    BY ActiveSync DEF SeenInv, Attempt, Row
  <2>6. \A t \in Threads : github'[t].at \in Nat
    BY <1>1, <2>2
  <2>7. \A s \in Syncers : sync'[s] # Idle =>
          \A t \in Threads : sync'[s].rows[t].at <= github'[t].at
    BY <1>1, <2>1, <2>4, <2>5, <2>6
  <2>8. QED
    BY <1>1, <1>2, <2>1, <2>3, <2>4, <2>6, <2>7
<1>5. ASSUME NEW s \in Syncers, NEW scope \in SUBSET Threads \ {{}}, NEW options \in SyncOptions,
             ListIssues(s, scope, options)
      PROVE  SeenInv'
  <2>1. /\ UNCHANGED <<now, github, counter, archive>>
        /\ \A q \in Syncers \ {s} : sync'[q] = sync[q]
        /\ sync'[s].phase = "fetching"
        /\ \A t \in Threads : sync'[s].rows[t].at = github[t].at
    BY <1>5 DEF ListIssues, TypeOK
  <2>2. QED
    BY <1>1, <1>2, <2>1 DEF SeenInv, InFlight
<1>6. ASSUME NEW s \in Syncers, NEW x \in Threads, NEW f \in Families, FetchChild(s, x, f)
      PROVE  SeenInv'
  <2>1. sync[s] \in Attempt /\ sync[s] # Idle /\ sync[s].phase = "fetching"
    BY <1>6, ActiveSync DEF FetchChild, FetchPending, Idle
  <2>2. /\ UNCHANGED <<now, github, counter, archive>>
        /\ \A q \in Syncers \ {s} : sync'[q] = sync[q]
        /\ sync'[s].phase = "fetching"
        /\ sync'[s].rows = sync[s].rows
    BY <1>6, <2>1 DEF FetchChild, TypeOK, Attempt
  <2>3. QED
    BY <1>1, <1>2, <2>1, <2>2 DEF SeenInv, InFlight
<1>7. ASSUME NEW s \in Syncers, NextThreadObservationSequence(s) PROVE SeenInv'
  <2>1. sync[s] \in Attempt /\ sync[s] # Idle
    BY <1>7, ActiveSync DEF NextThreadObservationSequence, Idle
  <2>2. /\ UNCHANGED <<now, github, archive>> /\ counter' = counter + 1
        /\ \A q \in Syncers \ {s} : sync'[q] = sync[q]
        /\ sync'[s].seq = counter + 1 /\ sync'[s].rows = sync[s].rows
    BY <1>7, <2>1 DEF NextThreadObservationSequence, TypeOK, Attempt
  <2>3. \A q \in Syncers : InFlight(q)' =>
          \/ InFlight(q) /\ sync'[q].seq = sync[q].seq
          \/ sync'[q].seq \in Nat /\ sync'[q].seq > counter
    BY <1>1, <2>2 DEF InFlight
  <2>4. QED
    BY <1>1, <1>2, <2>1, <2>2, <2>3 DEF SeenInv
<1>8. ASSUME NEW s \in Syncers, Abort(s) PROVE SeenInv'
  <2>1. /\ UNCHANGED <<now, github, counter, archive>>
        /\ \A q \in Syncers : sync'[q] # Idle => sync'[q] = sync[q]
    BY <1>8 DEF Abort, TypeOK
  <2>2. QED
    BY <1>1, <1>2, <2>1 DEF SeenInv, InFlight
<1>9. ASSUME NEW s \in Syncers, NEW x \in Threads, RecordSyncFailure(s, x) PROVE SeenInv'
  <2> DEFINE in == [at |-> sync[s].rows[x].at, row |-> sync[s].rows[x].row,
                    draft |-> RowDraft(x, sync[s].rows[x].row)]
             u  == FailedUpsert(s, x)
  <2>1. sync[s] \in Attempt /\ sync[s] # Idle
    BY <1>9, ActiveSync DEF RecordSyncFailure, FetchPending, Idle
  <2>2. in \in IncomingRow
    BY <2>1 DEF RowDraft, IncomingRow, Attempt, Row
  <2>3. thread[x] \in ThreadRow /\ evidence[x] \in Order /\ counter + 1 \in Nat
    BY DEF TypeOK
  <2>4. /\ ThreadOrder(u.thread).source \in {in.at, ThreadOrder(thread[x]).source}
        /\ ThreadOrder(u.thread).seq \in {counter + 1, ThreadOrder(thread[x]).seq}
        /\ u.evidence.source \in {in.at, evidence[x].source}
        /\ u.evidence.seq \in {counter + 1, evidence[x].seq}
    BY <2>2, <2>3, UpsertFences DEF FailedUpsert
  <2>5. in.at <= github[x].at
    BY <2>1 DEF SeenInv
  <2> HIDE DEF in, u
  <2>6. /\ UNCHANGED <<now, github, reservation>> /\ counter' = counter + 1
        /\ \A q \in Syncers : sync'[q] # Idle => sync'[q] = sync[q]
        /\ \A t \in Threads : /\ thread'[t] = IF t = x THEN u.thread ELSE thread[t]
                              /\ evidence'[t] = IF t = x THEN u.evidence ELSE evidence[t]
    BY <1>9 DEF RecordSyncFailure, TypeOK, u
  <2>7. ASSUME NEW t \in Threads, NEW order \in Fences(t)'
        PROVE  /\ order.source <= github'[t].at \/ \E old \in Fences(t) : order.source = old.source
               /\ order.seq = counter + 1 \/ \E old \in Fences(t) : order.seq = old.seq
    <3>1. \/ order = ThreadOrder(thread'[t])
          \/ order = evidence'[t]
          \/ \E f \in Families : order = reservation[t][f]
      BY <2>6 DEF Fences, ThreadOrder
    <3>2. /\ ThreadOrder(thread[t]) \in Fences(t) /\ evidence[t] \in Fences(t)
          /\ \A f \in Families : reservation[t][f] \in Fences(t)
      BY DEF Fences
    <3>3. CASE order \in Fences(t)
      BY <3>3
    <3>4. CASE t = x /\ order = ThreadOrder(u.thread)
      BY <2>4, <2>5, <2>6, <3>2, <3>4
    <3>5. CASE t = x /\ order = u.evidence
      BY <2>4, <2>5, <2>6, <3>2, <3>5
    <3>6. QED
      BY <2>6, <3>1, <3>2, <3>3, <3>4, <3>5
  <2>8. \A q \in Syncers : InFlight(q)' =>
          InFlight(q) /\ sync'[q].seq = sync[q].seq /\ sync'[q].seq # counter + 1
    <3>1. \A q \in Syncers : InFlight(q) => sync[q].seq \in Nat /\ sync[q].seq <= counter
      BY ActiveSync DEF GenerationInv, GenerationUnused, InFlight, Attempt
    <3>2. QED
      BY <1>1, <2>6, <3>1 DEF InFlight
  <2>9. \A t \in Threads : /\ github'[t].at \in Nat
                           /\ github[t].at <= github'[t].at /\ github'[t].at <= now'
    BY <1>1, <2>6 DEF SeenInv
  <2>10. \A q \in Syncers : sync'[q] # Idle =>
           \A t \in Threads : sync'[q].rows[t].at <= github'[t].at
    BY <2>6 DEF SeenInv
  <2>11. counter' \in Nat /\ counter <= counter' /\ counter + 1 \in Int /\ counter + 1 <= counter'
    BY <1>1, <2>6
  <2>12. QED
    BY <2>7, <2>8, <2>9, <2>10, <2>11, SeenMoves
<1>10. ASSUME NEW s \in Syncers, Persist(s) PROVE SeenInv'
  <2>1. sync[s] \in Attempt /\ sync[s] # Idle /\ InFlight(s) /\ GenerationUnused(s)
    BY <1>10, ActiveSync DEF Persist, Idle, InFlight, GenerationInv
  <2>2. /\ UNCHANGED <<now, github, counter>>
        /\ \A q \in Syncers : sync'[q] # Idle => q # s /\ sync'[q] = sync[q]
    BY <1>10 DEF Persist, TypeOK
  <2>3. sync[s].seq \in Nat /\ sync[s].seq <= counter
    BY <2>1 DEF GenerationUnused, Attempt
  <2>4. ASSUME NEW t \in Threads, NEW order \in Fences(t)'
        PROVE  /\ order.source <= github'[t].at \/ \E old \in Fences(t) : order.source = old.source
               /\ order.seq = sync[s].seq \/ \E old \in Fences(t) : order.seq = old.seq
    <3> DEFINE in == IncomingThread(s, t)
               u  == Upsert(s, t)
    <3>1. thread[t] \in ThreadRow /\ evidence[t] \in Order /\ in \in IncomingRow
      BY <2>1, SyncUpsertType DEF TypeOK
    <3>3. /\ ThreadOrder(u.thread).source \in {in.at, ThreadOrder(thread[t]).source}
          /\ ThreadOrder(u.thread).seq \in {sync[s].seq, ThreadOrder(thread[t]).seq}
          /\ u.evidence.source \in {in.at, evidence[t].source}
          /\ u.evidence.seq \in {sync[s].seq, evidence[t].seq}
      <4> DEFINE preserve == t \in PullRequests /\ ~HasPullDetails(s, t) /\ ~RowsCarryDraft
                 incomplete == ~hasFreshThreadEvidence(sync[s].options, t)
      <4>1. u = upsertThreadObservation(thread[t], evidence[t], in, sync[s].seq, incomplete, preserve)
        BY DEF Upsert
      <4>2. incomplete \in BOOLEAN /\ preserve \in BOOLEAN
        OBVIOUS
      <4> HIDE DEF u, in, incomplete, preserve
      <4>3. QED
        BY <2>3, <3>1, <4>1, <4>2, UpsertFences
    <3>4. in.at = sync[s].rows[t].at /\ in.at <= github'[t].at
      BY <2>1, <2>2 DEF SeenInv, IncomingThread
    <3> HIDE DEF in, u
    <3>5. /\ thread'[t] \in {thread[t], u.thread}
          /\ evidence'[t] \in {evidence[t], u.evidence}
          /\ \A f \in Families :
               reservation'[t][f] \in {reservation[t][f],
                                       [source |-> sync[s].rows[t].at, seq |-> sync[s].seq]}
      BY <1>10 DEF Persist, u
    <3>6. \/ order = ThreadOrder(thread'[t])
          \/ order = evidence'[t]
          \/ \E f \in Families : order = reservation'[t][f]
      BY DEF Fences, ThreadOrder
    <3>7. /\ ThreadOrder(thread[t]) \in Fences(t) /\ evidence[t] \in Fences(t)
          /\ \A f \in Families : reservation[t][f] \in Fences(t)
      BY DEF Fences
    <3>8. \/ order \in Fences(t)
          \/ order = ThreadOrder(u.thread)
          \/ order = u.evidence
          \/ order = [source |-> sync[s].rows[t].at, seq |-> sync[s].seq]
      BY <3>5, <3>6, <3>7
    <3>9. QED
      BY <3>3, <3>4, <3>7, <3>8
  <2>5. \A q \in Syncers : InFlight(q)' =>
          InFlight(q) /\ sync'[q].seq = sync[q].seq /\ sync'[q].seq # sync[s].seq
    BY <2>1, <2>2 DEF GenerationUnused, InFlight
  <2>6. \A t \in Threads : /\ github'[t].at \in Nat
                           /\ github[t].at <= github'[t].at /\ github'[t].at <= now'
    BY <1>1, <2>2 DEF SeenInv
  <2>7. \A q \in Syncers : sync'[q] # Idle =>
          \A t \in Threads : sync'[q].rows[t].at <= github'[t].at
    BY <2>2 DEF SeenInv
  <2>8. counter' \in Nat /\ counter <= counter' /\ sync[s].seq \in Int /\ sync[s].seq <= counter'
    BY <1>1, <2>2, <2>3
  <2>9. QED
    BY <2>4, <2>5, <2>6, <2>7, <2>8, SeenMoves
<1>11. CASE UNCHANGED vars
  <2>1. UNCHANGED <<now, github, counter, sync, archive>>
    BY <1>11 DEF vars
  <2>2. QED
    BY <1>1, <1>2, <2>1 DEF SeenInv, InFlight
<1>12. QED
  BY <1>3, <1>4, <1>5, <1>6, <1>7, <1>8, <1>9, <1>10, <1>11 DEF Next, GitHub, Sync

LEMMA SeenHolds == Spec => [](TypeOK /\ GenerationInv /\ DatedInv /\ SeenInv)
<1>1. Init => SeenInv
  <2> SUFFICES ASSUME Init PROVE SeenInv
    OBVIOUS
  <2>1. \A t \in Threads : \A order \in Fences(t) : order = NoOrder
    BY DEF Init, Fences, NoThread, NoOrder, ThreadOrder, observationSequenceOrderValue
  <2>2. QED
    BY <2>1 DEF Init, SeenInv, Behind, NoOrder, InFlight, Idle
<1>2. TypeOK /\ GenerationInv /\ SeenInv /\ [Next]_vars => SeenInv'
  BY SeenStep, StepType
<1>3. QED
  BY <1>1, <1>2, DatedHolds, PTL DEF Spec

\* Behind in both: the source clock and the generation.
Precedes(order, at) == order.source <= at.source /\ order.seq < at.seq

(* An order behind GitHub's row and the newest generation is older.         *)
LEMMA NewestIsNewer ==
  ASSUME NEW at \in Order, NEW order \in Order, Precedes(order, at)
  PROVE  /\ compareObservationOrder(at, order) = Newer
         /\ compareReservationObservationOrder(at, order) = Newer
<1>1. /\ at.source \in Nat /\ order.source \in Nat /\ at.seq \in Nat /\ order.seq \in Nat
      /\ Valid(at.source) /\ Valid(order.source) /\ order.source # Blank
  BY NumbersAreValid DEF Order
<1>2. compareObservationOrder(at, order) = Newer
  BY <1>1, CompareOrder, CompareNumbersIs DEF Precedes
<1>3. QED
  BY <1>1, <1>2 DEF compareReservationObservationOrder

\* What an upsert returns whose row and evidence are both accepted.
Lands(u, in, seq) ==
  /\ u.applied /\ u.evidenceApplied
  /\ u.thread.at = in.at /\ u.thread.row = in.row /\ u.thread.seq = seq
  /\ u.evidence = [source |-> in.at, seq |-> seq]

(* The upsert of a complete observation newer than the row and the fence.   *)
LEMMA NewestUpsert ==
  ASSUME NEW cur \in ThreadRow, NEW ev \in Order, NEW in \in IncomingRow, NEW seq \in Nat,
         NEW preserve \in BOOLEAN,
         Precedes(ThreadOrder(cur), [source |-> in.at, seq |-> seq]),
         Precedes(ev, [source |-> in.at, seq |-> seq])
  PROVE  Lands(upsertThreadObservation(cur, ev, in, seq, FALSE, preserve), in, seq)
<1> DEFINE draft == IF preserve /\ cur.seq # 0 THEN cur.draft ELSE in.draft
           same == SamePayload(cur, in, draft)
           number == StoredSequence(cur, seq, same, FALSE)
           stored == [at |-> in.at, row |-> in.row, draft |-> draft, seq |-> number]
           forced == cur.seq = 0 \/ (same /\ ~FALSE /\ cur.seq < 0)
           order == IF forced THEN Newer
                    ELSE compareObservationOrder(ThreadOrder(stored), ThreadOrder(cur))
           applied == order = Newer \/ (order = Tied /\ same /\ FALSE)
           at == [source |-> in.at, seq |-> seq]
           u == upsertThreadObservation(cur, ev, in, seq, FALSE, preserve)
<1>1. /\ cur.seq \in Int /\ cur.at \in Nat /\ in.at \in Nat /\ at \in Order
      /\ observationSequenceOrderValue(cur.seq) \in Nat
  BY OrderValue DEF ThreadRow, IncomingRow, Order
<1>2. number = seq
  BY <1>1 DEF StoredSequence, LargerOf, ThreadOrder, Precedes
<1>3. ThreadOrder(stored) = at
  <2>1. ThreadOrder(stored) = [source |-> in.at, seq |-> observationSequenceOrderValue(number)]
    BY DEF ThreadOrder
  <2> HIDE DEF stored, number
  <2>2. observationSequenceOrderValue(number) = seq
    BY <1>2, OrderValue
  <2>3. QED
    BY <2>1, <2>2
<1>4. /\ ThreadOrder(cur) \in Order /\ Precedes(ThreadOrder(cur), at)
      /\ observationSequenceOrderValue(cur.seq) < seq
  BY <1>1 DEF ThreadOrder, Order, Precedes
<1>5. order = Newer
  BY <1>1, <1>3, <1>4, NewestIsNewer
<1>6. reserveThreadEvidenceObservation(ev, at)
  BY <1>1, NewestIsNewer DEF reserveThreadEvidenceObservation
<1>7. /\ u.applied = applied
      /\ u.thread = IF applied THEN stored ELSE cur
      /\ u.evidenceApplied = (/\ ~FALSE
                              /\ applied \/ same
                              /\ reserveThreadEvidenceObservation(ev, at))
      /\ u.evidence = IF /\ ~FALSE
                         /\ applied \/ same
                         /\ reserveThreadEvidenceObservation(ev, at)
                      THEN at ELSE ev
  BY DEF upsertThreadObservation
<1>8. stored.at = in.at /\ stored.row = in.row /\ stored.seq = number
  OBVIOUS
<1> HIDE DEF u, order, stored, number, same
<1>9. Lands(u, in, seq)
  BY <1>2, <1>5, <1>6, <1>7, <1>8 DEF Lands
<1>10. QED
  BY <1>9 DEF u

(* A revision of the newest generation, no older in its clocks than those   *)
(* of its content, is stored.                                               *)
LEMMA NewestRevisionIsStored ==
  ASSUME NEW revs \in SUBSET Revision, NEW in \in Revision, \A r \in revs : r.seq < in.seq,
         \A r \in revs : r.content = in.content => r.source <= in.source
  PROVE  in \in upsertThreadRevision(revs, in)
<1>1. CASE revs = {}
  BY <1>1 DEF upsertThreadRevision
<1>2. CASE revs # {}
  <2> DEFINE latest == LatestRevision(revs)
  <2>1. in.source \in Nat /\ in.seq \in Nat /\ \A r \in revs : r.seq \in Nat
    BY DEF Revision
  <2>2. latest \in revs
    <3>1. \A r \in revs : r.seq <= in.seq
      BY <2>1
    <3>2. QED
      BY <1>2, <2>1, <3>1, LatestRevisionExists
  <2>3. latest.source \in Nat /\ latest.seq \in Nat /\ latest.seq < in.seq
    BY <2>2 DEF Revision
  <2> HIDE DEF latest
  <2>4. Valid(in.source) /\ Valid(latest.source)
    BY <2>1, <2>3, NumbersAreValid
  <2>5. compareRevisionObservationOrder(in, latest) # Older
    BY <2>1, <2>3, <2>4, CompareNumbersIs DEF compareRevisionObservationOrder
  <2>6. ASSUME latest.content = in.content PROVE compareObservationOrder(in, latest) = Newer
    <3>1. latest.source <= in.source
      BY <2>2, <2>6
    <3>2. CASE latest.source = in.source
      BY <2>1, <2>3, <2>4, <3>2, CompareNumbersIs DEF compareObservationOrder
    <3>3. CASE latest.source # in.source
      <4>1. CompareNumbers(in.source, latest.source) = Newer
        BY <2>1, <2>3, <3>1, <3>3 DEF CompareNumbers
      <4>2. QED
        BY <2>4, <3>3, <4>1 DEF compareObservationOrder
    <3>4. QED
      BY <3>2, <3>3
  <2>7. QED
    BY <1>2, <2>5, <2>6 DEF upsertThreadRevision, latest
<1>3. QED
  BY <1>1, <1>2

LEMMA NewestLands ==
  ASSUME TypeOK, GenerationInv, DatedInv, SeenInv, NEW s \in Syncers, NEW t \in Threads,
         NewestSync(s, t), Persist(s)
  PROVE  /\ thread'[t].row = github[t].row /\ thread'[t].seq = counter
         /\ \A f \in Hydrated(sync[s].options, t) : children'[t][f] = sync[s].fetched[t][f]
         /\ FreshRevisions(t)' # {}
<1> DEFINE u   == Upsert(s, t)
           in  == IncomingThread(s, t)
           rev == IncomingRevision(s, t)
           at  == [source |-> in.at, seq |-> sync[s].seq]
<1>1. sync[s] \in Attempt /\ sync[s] # Idle /\ InFlight(s) /\ GenerationUnused(s)
  BY ActiveSync DEF Persist, Idle, InFlight, GenerationInv
<1>2. /\ sync[s].seq \in Nat /\ sync[s].seq = counter /\ t \in sync[s].scope
      /\ hasFreshThreadEvidence(sync[s].options, t)
      /\ in.at = github[t].at /\ in.row = github[t].row /\ in.at = sync[s].rows[t].at
  BY <1>1 DEF NewestSync, IncomingThread, Attempt
<1>3. in \in IncomingRow /\ in.at \in Nat /\ at \in Order /\ rev \in Revision
      /\ thread[t] \in ThreadRow /\ evidence[t] \in Order
  BY <1>1, SyncUpsertType, SyncWritesType DEF IncomingRow, Order, Attempt, TypeOK
<1>4. \A order \in Fences(t) : /\ order \in Order
                               /\ Precedes(order, at)
  <2>1. \A order \in Fences(t) : order \in Order /\ Behind(order, t)
    BY FenceType DEF SeenInv
  <2>2. QED
    BY <1>1, <1>2, <2>1 DEF Behind, Order, Precedes
<1>5. /\ ThreadOrder(thread[t]) \in Fences(t) /\ evidence[t] \in Fences(t)
      /\ \A f \in Families : reservation[t][f] \in Fences(t)
  BY DEF Fences
<1>6. /\ u.applied /\ u.evidenceApplied
      /\ u.thread.at = in.at /\ u.thread.row = in.row /\ u.thread.seq = sync[s].seq
      /\ u.evidence = at
  <2>1. Precedes(ThreadOrder(thread[t]), at)
    BY <1>4, <1>5
  <2> DEFINE preserve == t \in PullRequests /\ ~HasPullDetails(s, t) /\ ~RowsCarryDraft
  <2>2. preserve \in BOOLEAN
    OBVIOUS
  <2>3. u = upsertThreadObservation(thread[t], evidence[t], in, sync[s].seq, FALSE, preserve)
    BY <1>2 DEF Upsert
  <2>4. Precedes(evidence[t], at)
    BY <1>4, <1>5
  <2> HIDE DEF u, in, preserve
  <2>5. Lands(u, in, sync[s].seq)
    BY <1>2, <1>3, <2>1, <2>2, <2>3, <2>4, NewestUpsert
  <2>6. QED
    BY <2>5 DEF Lands
<1>7. ~PersistConflict(s)
  BY <1>1, SyncsNeverConflict DEF PersistNeverConflicts, InFlight
<1>8. \A f \in Hydrated(sync[s].options, t) : f \in Families /\ ReservesChild(s, t, f)
  <2> SUFFICES ASSUME NEW f \in Hydrated(sync[s].options, t)
               PROVE  f \in Families /\ ReservesChild(s, t, f)
    OBVIOUS
  <2>1. f \in Families
    BY <1>1 DEF Hydrated, Attempt
  <2>2. compareReservationObservationOrder(at, reservation[t][f]) = Newer
    BY <1>3, <1>4, <1>5, <2>1, NewestIsNewer
  <2>3. QED
    BY <1>2, <1>6, <2>1, <2>2 DEF ReservesChild, SkippedStale
<1>9. /\ thread'[t] = u.thread /\ evidence'[t] = u.evidence
      /\ revisions'[t] = upsertThreadRevision(revisions[t], rev)
      /\ children'[t] = ChildrenAfter(s, t)
  BY <1>2, <1>6, <1>7 DEF Persist
<1>10. \A f \in Hydrated(sync[s].options, t) : children'[t][f] = sync[s].fetched[t][f]
  BY <1>8, <1>9 DEF ChildrenAfter
<1>11. rev \in revisions'[t]
  <2>1. PICK clock \in Clocks : Dated(clock)
    BY DEF DatedInv
  <2>2. \A r \in revisions[t] : r.content = rev.content => r.source <= rev.source
    BY <1>1, <1>6, <2>1, RevisionClocksGrow
  <2>3. rev.seq = sync[s].seq
    BY DEF IncomingRevision
  <2>4. \A r \in revisions[t] : r.seq \in Nat /\ r.seq < sync[s].seq
    <3>1. \A r \in revisions[t] : r.seq \in Nat /\ r.seq <= counter /\ r.seq # sync[s].seq
      BY <1>1 DEF GenerationInv, GenerationUnused, TypeOK, Revision
    <3>2. QED
      BY <1>2, <3>1
  <2>5. revisions[t] \in SUBSET Revision
    BY DEF TypeOK
  <2> HIDE DEF rev
  <2>6. QED
    BY <1>3, <1>9, <2>2, <2>3, <2>4, <2>5, NewestRevisionIsStored
<1>12. rev.seq = sync[s].seq /\ rev.source >= in.at
  <2>1. rev.source = LargerOf(in.at, LargerOf(ChildrenAfter(s, t)["comments"].at,
                                              ChildrenAfter(s, t)["details"].at))
        /\ rev.seq = sync[s].seq
    BY DEF IncomingRevision
  <2>2. rev.source \in Nat
    BY <1>3 DEF Revision
  <2> HIDE DEF rev, in
  <2>3. QED
    BY <1>3, <2>1, <2>2 DEF LargerOf
<1>13. sync[s].seq > 0
  BY <1>1 DEF DatedInv
<1> HIDE DEF u, in, rev
<1>14. rev \in FreshRevisions(t)'
  BY <1>6, <1>9, <1>11, <1>12, <1>13 DEF FreshRevisions
<1>15. QED
  BY <1>2, <1>6, <1>9, <1>10, <1>14

(* NewestSyncLands: a complete sync that saw GitHub's current row and took  *)
(* the newest generation always lands, whatever the other syncs committed   *)
(* before it.                                                               *)
THEOREM NewestSyncsLand == Spec => NewestSyncLands
<1>1. TypeOK /\ GenerationInv /\ DatedInv /\ SeenInv /\ [Next]_vars =>
        [\A s \in Syncers, t \in Threads :
           NewestSync(s, t) /\ Persist(s) =>
             /\ thread'[t].row = github[t].row /\ thread'[t].seq = counter
             /\ \A f \in Hydrated(sync[s].options, t) : children'[t][f] = sync[s].fetched[t][f]
             /\ FreshRevisions(t)' # {}]_vars
  BY NewestLands
<1>2. QED
  BY <1>1, SeenHolds, PTL DEF Spec, NewestSyncLands

-----------------------------------------------------------------------------
(* The token and the fill of details *)

\* The clients that will make a request of r if nothing stops them: what they
\* read left room for it, in a window that may since have lost that room.
Holding(r) ==
    {c \in Clients : /\ request[c].resource = r
                     /\ \/ request[c].step = "check" /\ request[c].room
                        \/ request[c].step = "granted"}

\* Once a resource is at the reserve, the clients that hold a reading of before
\* and the requests made below the reserve are together fewer than the clients.
ReserveInv ==
    /\ TokenTypeOK
    /\ \A r \in Resources :
         quota[r] + others[r] <= Reserve =>
           Reserve + Cardinality(Holding(r))
             < quota[r] + others[r] + Cardinality(Clients)

-----------------------------------------------------------------------------
(* Counting the clients that hold a reading.                                *)
LEMMA HoldingCounted ==
    ASSUME NEW r
    PROVE  /\ Cardinality(Clients) \in Nat
           /\ IsFiniteSet(Holding(r)) /\ IsFiniteSet(Holding(r)')
           /\ Cardinality(Holding(r)) \in Nat /\ Cardinality(Holding(r)') \in Nat
           /\ Holding(r)' \subseteq Holding(r) =>
                Cardinality(Holding(r)') <= Cardinality(Holding(r))
<1>1. IsFiniteSet(Clients)
  BY ReserveAssumption
<1>2. Holding(r) \in SUBSET Clients /\ Holding(r)' \in SUBSET Clients
  BY DEF Holding
<1>3. IsFiniteSet(Holding(r)) /\ IsFiniteSet(Holding(r)')
  BY <1>1, <1>2, FS_Subset
<1>4. Holding(r)' \subseteq Holding(r) =>
        Cardinality(Holding(r)') <= Cardinality(Holding(r))
  BY <1>3, FS_Subset
<1>5. QED
  BY <1>1, <1>3, <1>4, FS_CardinalityType

(* A step that leaves the counts and lets nobody hold a reading of a        *)
(* resource that is at the reserve.                                         *)
LEMMA NobodyStartsHolding ==
    ASSUME ReserveInv, TokenTypeOK', UNCHANGED <<quota, others>>,
           \A r \in Resources :
             quota[r] <= Reserve => Holding(r)' \subseteq Holding(r)
    PROVE  ReserveInv'
<1>1. SUFFICES ASSUME NEW r \in Resources, quota'[r] + others'[r] <= Reserve
               PROVE  Reserve + Cardinality(Holding(r)')
                        < quota'[r] + others'[r] + Cardinality(Clients)
  BY DEF ReserveInv
<1>2. quota[r] \in Nat /\ others[r] \in Nat /\ Reserve \in Nat
  BY ReserveAssumption DEF ReserveInv, TokenTypeOK
<1>3. Holding(r)' \subseteq Holding(r)
  BY <1>1, <1>2
<1>4. Reserve + Cardinality(Holding(r)) < quota[r] + others[r] + Cardinality(Clients)
  BY <1>1 DEF ReserveInv
<1>5. QED
  BY <1>2, <1>3, <1>4, HoldingCounted

(* A client makes the request it was granted.                               *)
LEMMA HolderSpends ==
    ASSUME ReserveInv, TokenTypeOK', NEW c \in Clients, request[c].step = "granted",
           quota' = [quota EXCEPT ![request[c].resource] = @ - 1],
           quota[request[c].resource] >= 1, UNCHANGED others,
           \A r \in Resources : Holding(r)' \subseteq Holding(r) \ {c}
    PROVE  ReserveInv'
<1>1. SUFFICES ASSUME NEW r \in Resources, quota'[r] + others'[r] <= Reserve
               PROVE  Reserve + Cardinality(Holding(r)')
                        < quota'[r] + others'[r] + Cardinality(Clients)
  BY DEF ReserveInv
<1>2. quota \in [Resources -> Nat] /\ others[r] \in Nat /\ Reserve \in Nat
  BY ReserveAssumption DEF ReserveInv, TokenTypeOK
<1>3. Cardinality(Clients) \in Nat /\ Cardinality(Holding(r)) \in Nat
      /\ Cardinality(Holding(r)') \in Nat /\ IsFiniteSet(Holding(r))
  BY HoldingCounted
<1>4. CASE r # request[c].resource
  <2>1. quota'[r] = quota[r]
    BY <1>2, <1>4
  <2>2. Reserve + Cardinality(Holding(r)) < quota[r] + others[r] + Cardinality(Clients)
    BY <1>1, <2>1 DEF ReserveInv
  <2>3. Cardinality(Holding(r)') <= Cardinality(Holding(r))
    BY HoldingCounted
  <2>4. QED
    BY <1>2, <1>3, <2>1, <2>2, <2>3
<1>5. CASE r = request[c].resource
  <2>1. quota'[r] = quota[r] - 1 /\ quota[r] >= 1 /\ quota[r] \in Nat
    BY <1>2, <1>5
  <2>2. c \in Holding(r)
    BY <1>5 DEF Holding
  <2>3. CASE quota[r] + others[r] <= Reserve
    <3>1. Reserve + Cardinality(Holding(r)) < quota[r] + others[r] + Cardinality(Clients)
      BY <2>3 DEF ReserveInv
    <3>2. /\ IsFiniteSet(Holding(r) \ {c})
          /\ Cardinality(Holding(r) \ {c}) = Cardinality(Holding(r)) - 1
      BY <1>3, <2>2, FS_RemoveElement
    <3>3. Cardinality(Holding(r)') <= Cardinality(Holding(r) \ {c})
      BY <3>2, FS_Subset
    <3>4. QED
      BY <1>2, <1>3, <2>1, <3>1, <3>2, <3>3
  <2>4. CASE quota[r] + others[r] > Reserve
    <3>1. quota'[r] + others'[r] = Reserve
      BY <1>1, <1>2, <2>1, <2>4
    <3>2. Holding(r)' \in SUBSET (Clients \ {c})
      BY DEF Holding
    <3>3. /\ IsFiniteSet(Clients \ {c})
          /\ Cardinality(Clients \ {c}) = Cardinality(Clients) - 1
      BY ReserveAssumption, FS_RemoveElement
    <3>4. Cardinality(Holding(r)') <= Cardinality(Clients \ {c})
      BY <3>2, <3>3, FS_Subset
    <3>5. QED
      BY <1>2, <1>3, <3>1, <3>3, <3>4
  <2>5. QED
    BY <1>2, <2>1, <2>3, <2>4
<1>6. QED
  BY <1>4, <1>5

(* What a client's request becomes keeps its type.                          *)
LEMMA NoRequestType == NoRequest \in Request
<1>1. (CHOOSE r \in Resources : TRUE) \in Resources
  BY ReserveAssumption
<1>2. QED
  BY <1>1 DEF NoRequest, Request, MaxAttempts

(* The token starts above the reserve.                                      *)
LEMMA ReserveInitially == TokenInit => ReserveInv
<1>1. SUFFICES ASSUME TokenInit PROVE ReserveInv
  OBVIOUS
<1>2. TokenTypeOK
  BY <1>1, NoRequestType, ReserveAssumption DEF TokenInit, TokenTypeOK
<1>3. \A r \in Resources : ~(quota[r] + others[r] <= Reserve)
  BY <1>1, ReserveAssumption DEF TokenInit
<1>4. QED
  BY <1>2, <1>3 DEF ReserveInv

-----------------------------------------------------------------------------
(* The fields a request keeps while it waits, is granted or is made again.  *)
LEMMA RequestFields ==
    ASSUME TokenTypeOK, NEW c \in Clients
    PROVE  /\ request[c].resource \in Resources /\ request[c].attempt \in 1..2
           /\ request[c].room \in BOOLEAN /\ request[c].again \in BOOLEAN
           /\ request[c].current \in BOOLEAN
           /\ quota[request[c].resource] \in Nat
BY DEF TokenTypeOK, Request, MaxAttempts

(* A client reads /rate_limit: it holds room only above the reserve.        *)
LEMMA ReadKeepsReserve ==
    ASSUME ReserveInv, NEW c \in Clients, NEW r \in Resources,
           NEW n \in 1..MaxAttempts, NEW b \in BOOLEAN, Read(c, r, n, b)
    PROVE  ReserveInv'
<1>1. TokenTypeOK'
  BY DEF ReserveInv, TokenTypeOK, Read, Request, Spares
<1>2. ASSUME NEW s \in Resources, quota[s] <= Reserve
      PROVE  Holding(s)' \subseteq Holding(s)
  <2>1. quota[s] \in Nat /\ Reserve \in Nat
    BY ReserveAssumption DEF ReserveInv, TokenTypeOK
  <2>2. ~Spares(quota[s])
    BY <1>2, <2>1 DEF Spares, Cost
  <2>3. request \in [Clients -> Request]
    BY DEF ReserveInv, TokenTypeOK
  <2>4. QED
    BY <2>2, <2>3 DEF Holding, Read
<1>3. QED
  BY <1>1, <1>2, NobodyStartsHolding DEF Read

(* A request moves on, or ends, without the room it had not before.         *)
LEMMA MoveKeepsReserve ==
    ASSUME ReserveInv, NEW c \in Clients, NEW q \in Request,
           request' = [request EXCEPT ![c] = q], UNCHANGED <<quota, others>>,
           q.step # "check",
           q.step = "granted" =>
             request[c].step = "check" /\ request[c].room
               /\ q.resource = request[c].resource
    PROVE  ReserveInv'
<1>1. request \in [Clients -> Request]
  BY DEF ReserveInv, TokenTypeOK
<1>2. TokenTypeOK'
  BY <1>1 DEF ReserveInv, TokenTypeOK
<1>3. \A r \in Resources : Holding(r)' \subseteq Holding(r)
  BY <1>1 DEF Holding
<1>4. QED
  BY <1>2, <1>3, NobodyStartsHolding

(* A granted request is made, and counted.                                  *)
LEMMA SpendKeepsReserve ==
    ASSUME ReserveInv, NEW c \in Clients, NEW q \in Request,
           request' = [request EXCEPT ![c] = q], UNCHANGED others,
           request[c].step = "granted", quota[request[c].resource] >= Cost,
           quota' = [quota EXCEPT ![request[c].resource] = @ - Cost],
           q.step \notin {"check", "granted"}
    PROVE  ReserveInv'
<1>1. request \in [Clients -> Request] /\ quota \in [Resources -> Nat]
  BY DEF ReserveInv, TokenTypeOK
<1>2. /\ \A r \in Resources : quota[r] <= Limit[r] /\ Limit[r] \in Nat
      /\ request[c].resource \in Resources
  BY RequestFields, ReserveAssumption DEF ReserveInv, TokenTypeOK
<1>3. quota' \in [Resources -> Nat] /\ \A r \in Resources : quota'[r] <= Limit[r]
  BY <1>1, <1>2 DEF Cost
<1>4. TokenTypeOK'
  BY <1>1, <1>3 DEF ReserveInv, TokenTypeOK
<1>5. \A r \in Resources : Holding(r)' \subseteq Holding(r) \ {c}
  BY <1>1 DEF Holding
<1>6. QED
  BY <1>4, <1>5, HolderSpends DEF Cost

(* Every step of a client keeps the invariant.                              *)
LEMMA ClientKeepsReserve ==
    ASSUME ReserveInv, NEW c \in Clients, ClientNext(c)
    PROVE  ReserveInv'
<1> USE RequestFields DEF ReserveInv
<1>1. \A step \in {"none", "refused", "failed"} :
        [NoRequest EXCEPT !.step = step] \in Request
        /\ [NoRequest EXCEPT !.step = step].step = step
  BY NoRequestType DEF Request, NoRequest
<1>2. request \in [Clients -> Request] /\ request[c] \in Request
  BY DEF TokenTypeOK
<1>3. CASE \E r \in Resources : Ask(c, r)
  <2>1. PICK r \in Resources : Read(c, r, 1, FALSE)
    BY <1>3 DEF Ask
  <2>2. 1 \in 1..MaxAttempts
    BY DEF MaxAttempts
  <2>3. QED
    BY <2>1, <2>2, ReadKeepsReserve
<1>4. CASE Expired(c)
  <2>1. CASE Read(c, request[c].resource, request[c].attempt, TRUE)
    BY <2>1, ReadKeepsReserve DEF MaxAttempts
  <2>2. CASE Ends(c, "failed") /\ UNCHANGED <<quota, others>>
    BY <2>2, <1>1, MoveKeepsReserve DEF Ends
  <2>3. QED
    BY <1>4, <2>1, <2>2 DEF Expired
<1>5. CASE Grant(c)
  <2> DEFINE q == [request[c] EXCEPT !.step = "granted", !.again = FALSE]
  <2>1. q \in Request /\ q.step = "granted" /\ q.resource = request[c].resource
    BY <1>2 DEF Request
  <2>2. request' = [request EXCEPT ![c] = q]
    BY <1>2, <1>5 DEF Grant
  <2>3. QED
    BY <1>5, <2>1, <2>2, MoveKeepsReserve DEF Grant
<1>6. CASE Refuse(c)
  BY <1>6, <1>1, MoveKeepsReserve DEF Refuse, Ends
<1>7. CASE Answer(c, "none") \/ Answer(c, "failed")
  BY <1>7, <1>1, SpendKeepsReserve DEF Answer, Ends
<1>8. CASE Exhausted(c) \/ Delayed(c)
  <2>1. PICK step \in {"afterReset", "afterDelay"} : Waits(c, step)
    BY <1>8 DEF Exhausted, Delayed
  <2>2. PICK q \in Request : /\ request' = [request EXCEPT ![c] = q]
                             /\ q.step \notin {"check", "granted"}
    <3>1. CASE /\ request[c].attempt < MaxAttempts
               /\ request' = [request EXCEPT ![c].step = step, ![c].current = TRUE]
      <4>1. [request[c] EXCEPT !.step = step, !.current = TRUE] \in Request
        BY <1>2, <3>1 DEF Request
      <4>2. [request[c] EXCEPT !.step = step, !.current = TRUE].step = step
        BY <1>2 DEF Request
      <4>3. request' = [request EXCEPT ![c] =
                          [request[c] EXCEPT !.step = step, !.current = TRUE]]
        BY <1>2, <3>1
      <4>4. QED
        BY <4>1, <4>2, <4>3
    <3>2. CASE Ends(c, "failed")
      BY <3>2, <1>1 DEF Ends
    <3>3. QED
      BY <2>1, <3>1, <3>2 DEF Waits
  <2>3. CASE Exhausted(c)
    BY <2>2, <2>3, MoveKeepsReserve DEF Exhausted
  <2>4. CASE Delayed(c)
    BY <2>2, <2>4, SpendKeepsReserve DEF Delayed
  <2>5. QED
    BY <1>8, <2>3, <2>4
<1>9. CASE Retry(c)
  <2>1. request[c].attempt + 1 \in 1..MaxAttempts
    BY <1>2, <1>9 DEF Retry, Request, MaxAttempts
  <2>2. QED
    BY <1>9, <2>1, ReadKeepsReserve DEF Retry
<1>10. CASE Breaks(c)
  BY <1>10, <1>1, MoveKeepsReserve DEF Breaks, Ends
<1>11. CASE Drop(c)
  BY <1>11, <1>1, MoveKeepsReserve DEF Drop, Ends
<1>12. QED
  BY <1>3, <1>4, <1>5, <1>6, <1>7, <1>8, <1>9, <1>10, <1>11 DEF ClientNext

(* Another program makes a request, or a window ends.                       *)
LEMMA TokenKeepsReserve ==
    ASSUME ReserveInv, NEW s \in Resources, OtherSpends(s) \/ Reset(s)
    PROVE  ReserveInv'
<1>1. /\ quota \in [Resources -> Nat] /\ others \in [Resources -> Nat]
      /\ \A r \in Resources : quota[r] <= Limit[r] /\ others[r] <= MaxOthers[r]
      /\ request \in [Clients -> Request]
  BY DEF ReserveInv, TokenTypeOK
<1>2. \A r \in Resources : Limit[r] \in Nat /\ MaxOthers[r] \in Nat /\ Reserve < Limit[r]
  BY ReserveAssumption
<1>3. CASE OtherSpends(s)
  <2>1. TokenTypeOK'
    BY <1>1, <1>2, <1>3 DEF OtherSpends, TokenTypeOK, Cost
  <2>2. \A r \in Resources : quota'[r] + others'[r] = quota[r] + others[r]
    BY <1>1, <1>3 DEF OtherSpends, Cost
  <2>3. \A r \in Resources : Holding(r)' = Holding(r)
    BY <1>3 DEF OtherSpends, Holding
  <2>4. QED
    BY <2>1, <2>2, <2>3 DEF ReserveInv
<1>4. CASE Reset(s)
  <2>1. ASSUME NEW c \in Clients
        PROVE  /\ [request[c] EXCEPT !.current = FALSE, !.room = FALSE] \in Request
               /\ request'[c] \in {request[c],
                    [request[c] EXCEPT !.current = FALSE, !.room = FALSE]}
    <3>1. request[c] \in Request
      BY <1>1
    <3>2. [request[c] EXCEPT !.current = FALSE, !.room = FALSE] \in Request
      BY <3>1 DEF Request
    <3>3. \/ request'[c] = request[c]
          \/ request'[c] = [request[c] EXCEPT !.current = FALSE, !.room = FALSE]
      BY <1>4 DEF Reset
    <3>4. QED
      BY <3>2, <3>3
  <2>2. request' \in [Clients -> Request]
    <3>1. DOMAIN request' = Clients /\ request' = [c \in Clients |-> request'[c]]
      BY <1>4 DEF Reset
    <3>2. \A c \in Clients : request'[c] \in Request
      BY <1>1, <2>1
    <3>3. QED
      BY <3>1, <3>2
  <2>8. /\ quota' = [quota EXCEPT ![s] = Limit[s]]
        /\ others' = [others EXCEPT ![s] = 0]
    BY <1>4 DEF Reset
  <2>3. TokenTypeOK'
    BY <1>1, <1>2, <2>2, <2>8 DEF TokenTypeOK
  <2>4. ASSUME NEW r \in Resources PROVE Holding(r)' \subseteq Holding(r)
    <3>1. ASSUME NEW c \in Clients
          PROVE  /\ request'[c].resource = request[c].resource
                 /\ request'[c].step = request[c].step
                 /\ request'[c].room => request[c].room
      BY <1>1, <2>1 DEF Request
    <3>2. QED
      BY <3>1 DEF Holding
  <2>5. ASSUME NEW r \in Resources, quota'[r] + others'[r] <= Reserve
        PROVE  Reserve + Cardinality(Holding(r)')
                 < quota'[r] + others'[r] + Cardinality(Clients)
    <3>1. r # s
      <4>1. CASE r = s
        <5>1. quota'[r] = Limit[r] /\ others'[r] = 0
          BY <1>1, <2>8, <4>1
        <5>2. QED
          BY <1>2, <2>5, <5>1, ReserveAssumption
      <4>2. QED
        BY <4>1
    <3>2. quota'[r] = quota[r] /\ others'[r] = others[r]
      BY <1>1, <2>8, <3>1
    <3>3. Reserve + Cardinality(Holding(r)) < quota[r] + others[r] + Cardinality(Clients)
      BY <2>5, <3>2 DEF ReserveInv
    <3>4. QED
      BY <1>1, <2>4, <3>2, <3>3, HoldingCounted, ReserveAssumption
  <2>6. QED
    BY <2>3, <2>5 DEF ReserveInv
<1>5. QED
  BY <1>3, <1>4

LEMMA ReserveStep == ReserveInv /\ [TokenNext]_tokenVars => ReserveInv'
<1>1. SUFFICES ASSUME ReserveInv, [TokenNext]_tokenVars PROVE ReserveInv'
  OBVIOUS
<1>2. CASE UNCHANGED tokenVars
  BY <1>1, <1>2 DEF ReserveInv, TokenTypeOK, Holding, tokenVars
<1>3. ASSUME NEW c \in Clients, ClientNext(c) PROVE ReserveInv'
  BY <1>1, <1>3, ClientKeepsReserve
<1>4. ASSUME NEW r \in Resources, OtherSpends(r) \/ Reset(r) PROVE ReserveInv'
  BY <1>1, <1>4, TokenKeepsReserve
<1>5. QED
  BY <1>1, <1>2, <1>3, <1>4 DEF TokenNext

LEMMA InvKeepsReserve == ReserveInv => ReserveKept
<1>1. SUFFICES ASSUME ReserveInv, NEW r \in Resources
               PROVE  quota[r] + others[r] + Cardinality(Clients) > Reserve
  BY DEF ReserveKept
<1>2. quota[r] \in Nat /\ others[r] \in Nat /\ Reserve \in Nat
  BY <1>1, ReserveAssumption DEF ReserveInv, TokenTypeOK
<1>3. Cardinality(Clients) \in Nat /\ Cardinality(Holding(r)) \in Nat
  BY HoldingCounted
<1>4. \/ quota[r] + others[r] > Reserve
      \/ Reserve + Cardinality(Holding(r)) < quota[r] + others[r] + Cardinality(Clients)
  BY <1>1, <1>2 DEF ReserveInv
<1>5. Cardinality(Clients) # 0 \/ quota[r] + others[r] > Reserve
  BY <1>2, <1>3, <1>4
<1>6. QED
  BY <1>2, <1>3, <1>4

-----------------------------------------------------------------------------
(* Whatever clients that keep a reserve use a token for (client.go), they   *)
(* take no resource further below it than one request for every client but  *)
(* one, beside what other programs spend.                                   *)
THEOREM ReserveIsKept == TokenSpec => []ReserveKept
<1>1. QED
  BY ReserveInitially, ReserveStep, InvKeepsReserve, PTL DEF TokenSpec

LEMMA FillStep == [FillNext]_systemVars => [TokenNext]_tokenVars
<1>1. SUFFICES ASSUME [FillNext]_systemVars PROVE [TokenNext]_tokenVars
  OBVIOUS
<1>2. ASSUME NEW c \in Clients, Start(c) \/ Progress(c) \/ Troubled(c) \/ Kill(c)
      PROVE  [TokenNext]_tokenVars
  <2>1. CASE Fetch(c)
    <3>1. ResourceOf(run[c].done) \in Resources
      BY FillAssumption DEF ResourceOf
    <3>2. QED
      BY <2>1, <3>1 DEF Fetch, ClientNext, TokenNext
  <2>2. CASE Fetched(c) \/ Waiting(c) \/ Troubled(c)
    BY <2>2 DEF Fetched, Waiting, Troubled, ClientNext, TokenNext
  <2>3. CASE AbortBatch(c) \/ Kill(c)
    BY <2>3 DEF AbortBatch, Kill, ClientNext, TokenNext
  <2>4. CASE Start(c) \/ Allocate(c) \/ PersistBatch(c) \/ Finish(c)
    BY <2>4 DEF Start, Allocate, PersistBatch, Finish
  <2>5. QED
    BY <1>2, <2>1, <2>2, <2>3, <2>4 DEF Progress
<1>3. ASSUME NEW r \in Resources, Window(r) \/ ShortWindow(r)
      PROVE  [TokenNext]_tokenVars
  BY <1>3 DEF Window, ShortWindow, TokenNext
<1>4. CASE Others
  BY <1>4 DEF Others, TokenNext
<1>5. CASE UNCHANGED systemVars
  BY <1>5 DEF systemVars
<1>6. QED
  BY <1>1, <1>2, <1>3, <1>4, <1>5 DEF FillNext

(* Each step of a fill is a step of a guarded client, of the token, or does *)
(* not touch the token (app.go's fill-pr-details over client.go).           *)
THEOREM FillUsesToken == FillSpec => TokenSpec
<1>1. FillInit => TokenInit
  BY DEF FillInit
<1>2. QED
  BY <1>1, FillStep, PTL DEF FillSpec, TokenSpec

(* Fills of any number of processes keep the reserve of the token.          *)
THEOREM FillKeepsReserve == FillSpec => []ReserveKept
BY ReserveIsKept, FillUsesToken, PTL

-----------------------------------------------------------------------------
(* The types of a fill *)

\* A command that has requests of its batch to make.
Busy(r) == r.phase = "fetch" /\ r.at < Len(r.numbers) /\ r.done < Requests(BatchOf(r))

\* A process asks GitHub for a request of its batch only.
Asking == \A c \in Clients : request[c].step # "none" => Busy(run[c])

FillTyped ==
  /\ details \subseteq PRs /\ once \subseteq Clients
  /\ run \in [Clients -> Run]
  /\ later \in [Clients -> SUBSET PRs]
  /\ faults \in 0..MaxFaults

FillInv == ReserveInv /\ FillTyped /\ Asking

LEMMA BatchTyped == ASSUME NEW r \in Run PROVE BatchOf(r) \in Seq(PRs)
<1>1. /\ r.numbers \in Seq(PRs) /\ r.at \in Nat /\ Len(r.numbers) \in Nat
      /\ \A i \in 1 .. Len(r.numbers) : r.numbers[i] \in PRs
  BY DEF Run
<1>. DEFINE m == r.at + 1
            n == IF r.at + Batch < Len(r.numbers) THEN r.at + Batch ELSE Len(r.numbers)
<1>2. m \in Int /\ n \in Int /\ m >= 1 /\ n <= Len(r.numbers)
  BY <1>1, FillAssumption
<1>3. \A i \in m .. n : r.numbers[i] \in PRs
  BY <1>1, <1>2
<1>. HIDE DEF m, n
<1>4. SubSeq(r.numbers, m, n) \in Seq(PRs)
  BY <1>2, <1>3, SubSeqProperties
<1>5. QED
  BY <1>4 DEF BatchOf, m, n

LEMMA BatchWithin == ASSUME NEW r \in Run PROVE ToSet(BatchOf(r)) \subseteq PRs
BY BatchTyped DEF ToSet

(* The failure that is recorded is that of a pull request of the batch.     *)
LEMMA SubjectWithin ==
  ASSUME NEW r \in Run, r.done < Requests(BatchOf(r))
  PROVE  SubjectOf(BatchOf(r), r.done) \subseteq PRs
<1>. DEFINE b == BatchOf(r)
            i == (r.done + 1) \div 2
<1>1. b \in Seq(PRs) /\ Len(b) \in Nat /\ r.done \in Nat
  BY BatchTyped DEF Run
<1>2. r.done < 1 + 2 * Len(b)
  BY DEF Requests
<1>. HIDE DEF b
<1>3. r.done # 0 => i \in 1 .. Len(b)
  BY <1>1, <1>2
<1>. HIDE DEF i
<1>4. r.done # 0 => b[i] \in PRs
  BY <1>1, <1>3
<1>5. QED
  BY <1>4 DEF SubjectOf, b, i

LEMMA MissingTyped ==
  ASSUME details \subseteq PRs, NEW limit \in Nat, NEW numbers \in MissingNumbers(limit)
  PROVE  numbers \in Seq(PRs)
<1>. DEFINE missing == PRs \ details
<1>1. IsFiniteSet(missing) /\ Cardinality(missing) \in Nat
  BY FillAssumption, FS_Subset, FS_CardinalityType
<1>2. PICK all \in NewestFirst(missing) : numbers = Limited(limit, all)
  BY DEF MissingNumbers
<1>3. all \in [1 .. Cardinality(missing) -> missing]
  BY <1>2 DEF NewestFirst, SetToSeqs
<1>. HIDE DEF missing
<1>4. all \in Seq(missing)
  BY <1>1, <1>3
<1>5. all \in Seq(PRs)
  BY <1>4 DEF missing
<1>6. CASE limit = 0 \/ limit > Len(all)
  BY <1>2, <1>5, <1>6 DEF Limited
<1>7. CASE ~(limit = 0 \/ limit > Len(all))
  <2>1. \A i \in 1 .. limit : all[i] \in PRs
    BY <1>5, <1>7
  <2>2. SubSeq(all, 1, limit) \in Seq(PRs)
    BY <2>1, SubSeqProperties
  <2>3. QED
    BY <1>2, <1>7, <2>2 DEF Limited
<1>8. QED
  BY <1>6, <1>7

(* That the sequence of a process before is forgotten changes nothing else. *)
LEMMA EarlierForgotten ==
  ASSUME NEW r \in Run, NEW c
  PROVE  /\ [r EXCEPT !.earlier = @ \ {c}] \in Run
         /\ Busy(r) => Busy([r EXCEPT !.earlier = @ \ {c}])
<1>. DEFINE s == [r EXCEPT !.earlier = @ \ {c}]
<1>1. /\ s \in Run /\ s.phase = r.phase /\ s.numbers = r.numbers
      /\ s.at = r.at /\ s.done = r.done
  BY DEF Run
<1>. HIDE DEF s
<1>2. BatchOf(s) = BatchOf(r)
  BY <1>1 DEF BatchOf
<1>3. QED
  BY <1>1, <1>2 DEF Busy, s

LEMMA IdleTyped == NoRun \in Run
<1>1. <<>> \in Seq(PRs)
  OBVIOUS
<1>2. QED
  BY <1>1 DEF NoRun, Run

LEMMA ObservedTyped ==
  ASSUME later \in [Clients -> SUBSET PRs], NEW prs \in SUBSET PRs, NEW by, NEW who,
         Observed(prs, by, who)
  PROVE  later' \in [Clients -> SUBSET PRs]
BY DEF Observed

(* A step at a client's request leaves those of the others alone.           *)
LEMMA OthersAskOn ==
  ASSUME TokenTypeOK, NEW c \in Clients,
         \/ \E r : Ask(c, r)
         \/ Expired(c) \/ Grant(c) \/ Refuse(c) \/ Answer(c, "none") \/ Answer(c, "failed")
         \/ Exhausted(c) \/ Delayed(c) \/ Retry(c) \/ Breaks(c) \/ Drop(c)
  PROVE  \A q \in Clients \ {c} : request'[q] = request[q]
BY DEF TokenTypeOK, Ask, Expired, Grant, Refuse, Answer, Exhausted, Delayed, Waits, Retry,
       Breaks, Drop, Read, Ends

(* What a client does after it asked it does with a request under way.      *)
LEMMA OnlyWhileAsking ==
  ASSUME NEW c \in Clients,
         \/ Expired(c) \/ Grant(c) \/ Refuse(c) \/ Answer(c, "none") \/ Answer(c, "failed")
         \/ Exhausted(c) \/ Delayed(c) \/ Retry(c) \/ Breaks(c)
  PROVE  request[c].step # "none"
BY DEF Expired, Grant, Refuse, Answer, Exhausted, Delayed, Retry, Breaks

LEMMA NoneLeft ==
  ASSUME TokenTypeOK, NEW c \in Clients, Answer(c, "none") \/ Drop(c)
  PROVE  request'[c].step = "none"
BY DEF TokenTypeOK, Answer, Drop, Ends, NoRequest

LEMMA ResetKeepsSteps ==
  ASSUME TokenTypeOK, NEW r, Reset(r), NEW c \in Clients
  PROVE  request'[c].step = request[c].step
<1>1. request[c] \in Request
  BY DEF TokenTypeOK
<1>2. \/ request'[c] = request[c]
      \/ request'[c] = [request[c] EXCEPT !.current = FALSE, !.room = FALSE]
  BY DEF Reset
<1>3. QED
  BY <1>1, <1>2 DEF Request

(* One case for each step of a process.                                     *)
LEMMA ProcessKeepsTypes ==
  ASSUME FillInv, NEW c \in Clients, Start(c) \/ Progress(c) \/ Troubled(c) \/ Kill(c)
  PROVE  FillTyped' /\ Asking'
<1>1. /\ TokenTypeOK /\ FillTyped /\ Asking
      /\ run \in [Clients -> Run] /\ later \in [Clients -> SUBSET PRs] /\ details \subseteq PRs
      /\ once \subseteq Clients /\ faults \in 0..MaxFaults /\ MaxFaults \in Nat
      /\ run[c] \in Run /\ Batch \in Nat
  BY FillAssumption DEF FillInv, ReserveInv, FillTyped
<1>2. request[c].step # "none" => Busy(run[c])
  BY <1>1 DEF Asking
<1>3. ASSUME UNCHANGED request, NEW r \in Run, run' = [run EXCEPT ![c] = r],
             ~Busy(run[c])
      PROVE  run' \in [Clients -> Run] /\ Asking'
  <2>1. request'[c].step = "none"
    BY <1>2, <1>3
  <2>2. \A q \in Clients \ {c} : run'[q] = run[q] /\ request'[q] = request[q]
    BY <1>1, <1>3
  <2>3. \A q \in Clients \ {c} : request'[q].step # "none" => Busy(run'[q])
    BY <1>1, <2>2 DEF Asking
  <2>4. run' \in [Clients -> Run]
    BY <1>1, <1>3
  <2>5. QED
    BY <2>1, <2>3, <2>4 DEF Asking, Busy, BatchOf, Requests
<1>4. CASE Start(c)
  <2>1. PICK numbers \in MissingNumbers(LimitOf[c]) :
          run' = [run EXCEPT ![c] = [NoRun EXCEPT !.phase = "fetch", !.numbers = numbers]]
    BY <1>4 DEF Start
  <2>2. numbers \in Seq(PRs)
    BY <1>1, FillAssumption, MissingTyped
  <2>3. [NoRun EXCEPT !.phase = "fetch", !.numbers = numbers] \in Run
    BY <2>2, IdleTyped DEF NoRun, Run
  <2>4. ~Busy(run[c])
    BY <1>4 DEF Start, Busy
  <2>5. UNCHANGED request
    BY <1>4 DEF Start, tokenVars
  <2>6. run' \in [Clients -> Run] /\ Asking'
    BY <1>3, <2>1, <2>3, <2>4, <2>5
  <2>7. QED
    BY <1>1, <1>4, <2>6 DEF Start, FillTyped
<1>5. CASE Fetch(c)
  <2>1. Busy(run[c]) /\ Ask(c, ResourceOf(run[c].done)) /\ UNCHANGED fillVars
    BY <1>5 DEF Fetch, Fetching, Busy
  <2>2. \A q \in Clients \ {c} : request'[q] = request[q]
    BY <1>1, <2>1, OthersAskOn
  <2>3. FillTyped'
    BY <1>1, <2>1 DEF FillTyped, fillVars
  <2>4. \A q \in Clients : run'[q] = run[q]
    BY <2>1 DEF fillVars
  <2>5. \A q \in Clients : request'[q].step # "none" => Busy(run'[q])
    BY <1>1, <2>1, <2>2, <2>4 DEF Asking
  <2>6. QED
    BY <2>3, <2>5 DEF Asking, Busy, BatchOf, Requests
<1>6. CASE Fetched(c)
  <2>1. /\ Answer(c, "none") /\ run' = [run EXCEPT ![c].done = @ + 1]
        /\ UNCHANGED <<details, later, once, faults>>
    BY <1>6 DEF Fetched
  <2>2. \A q \in Clients \ {c} : request'[q] = request[q] /\ run'[q] = run[q]
    BY <1>1, <2>1, OthersAskOn
  <2>3. request'[c].step = "none"
    BY <1>1, <2>1, NoneLeft
  <2>4. [run[c] EXCEPT !.done = @ + 1] \in Run
    <3>1. \A r \in Run : [r EXCEPT !.done = @ + 1] \in Run
      BY DEF Run
    <3>2. QED
      BY <1>1, <3>1
  <2>5. run' \in [Clients -> Run]
    BY <1>1, <2>1, <2>4
  <2>6. \A q \in Clients : request'[q].step # "none" => Busy(run'[q])
    BY <1>1, <2>2, <2>3 DEF Asking
  <2>7. QED
    BY <1>1, <2>1, <2>5, <2>6 DEF Asking, FillTyped, Busy, BatchOf, Requests
<1>7. CASE Waiting(c) \/ Troubled(c)
  <2>1. UNCHANGED <<details, run, later, once>> /\ faults' \in 0..MaxFaults
    BY <1>1, <1>7 DEF Waiting, Troubled, Faulty, fillVars
  <2>2. /\ request[c].step # "none"
        /\ \A q \in Clients \ {c} : request'[q] = request[q]
    BY <1>1, <1>7, OnlyWhileAsking, OthersAskOn DEF Waiting, Troubled
  <2>3. \A q \in Clients : request'[q].step # "none" => Busy(run'[q])
    BY <1>1, <1>2, <2>1, <2>2 DEF Asking
  <2>4. QED
    BY <1>1, <2>1, <2>3 DEF Asking, FillTyped, Busy, BatchOf, Requests
<1>8. CASE AbortBatch(c)
  <2>1. /\ request[c].step # "none" /\ Drop(c)
        /\ run' = [run EXCEPT ![c] = NoRun] /\ UNCHANGED <<details, once, faults>>
        /\ Observed(SubjectOf(BatchOf(run[c]), run[c].done), c,
                    {q \in Clients : run[q].phase = "persist"})
    BY <1>8 DEF AbortBatch
  <2>2. SubjectOf(BatchOf(run[c]), run[c].done) \subseteq PRs
    BY <1>1, <1>2, <2>1, SubjectWithin DEF Busy
  <2>3. later' \in [Clients -> SUBSET PRs]
    BY <1>1, <2>1, <2>2, ObservedTyped
  <2>4. run' \in [Clients -> Run]
    BY <1>1, <2>1, IdleTyped
  <2>5. \A q \in Clients \ {c} : request'[q] = request[q] /\ run'[q] = run[q]
    BY <1>1, <2>1, OthersAskOn
  <2>6. request'[c].step = "none"
    BY <1>1, <2>1, NoneLeft
  <2>7. \A q \in Clients : request'[q].step # "none" => Busy(run'[q])
    BY <1>1, <2>5, <2>6 DEF Asking
  <2>8. QED
    BY <1>1, <2>1, <2>3, <2>4, <2>7 DEF Asking, FillTyped, Busy, BatchOf, Requests
<1>9. CASE Allocate(c)
  <2>. DEFINE r == [run[c] EXCEPT !.phase = "persist", !.done = 0,
                      !.earlier = {q \in Clients \ {c} : run[q].phase = "persist"}]
  <2>1. run' = [run EXCEPT ![c] = r]
    BY <1>1, <1>9 DEF Allocate
  <2>2. r \in Run
    <3>1. \A s \in Run, E \in SUBSET Clients :
            [s EXCEPT !.phase = "persist", !.done = 0, !.earlier = E] \in Run
      BY DEF Run
    <3>2. QED
      BY <1>1, <3>1
  <2>3. ~Busy(run[c])
    <3>1. Requests(BatchOf(run[c])) \in Nat
      BY <1>1, BatchTyped DEF Requests
    <3>2. QED
      BY <1>9, <3>1 DEF Allocate, Busy
  <2>4. UNCHANGED <<request, details, later, once, faults>>
    BY <1>9 DEF Allocate, tokenVars
  <2>. HIDE DEF r
  <2>5. run' \in [Clients -> Run] /\ Asking'
    BY <1>3, <2>1, <2>2, <2>3, <2>4
  <2>6. QED
    BY <1>1, <2>4, <2>5 DEF FillTyped
<1>10. CASE PersistBatch(c)
  <2>1. PICK stored \in SUBSET ToSet(BatchOf(run[c])) :
          /\ details' = details \cup stored /\ Observed(stored, c, run[c].earlier)
          /\ run' = [q \in Clients |->
               IF q = c THEN [run[c] EXCEPT !.phase = "fetch", !.at = @ + Batch, !.earlier = {}]
               ELSE [run[q] EXCEPT !.earlier = @ \ {c}]]
    BY <1>10 DEF PersistBatch
  <2>2. run[c].phase = "persist" /\ UNCHANGED <<request, once, faults>>
    BY <1>10 DEF PersistBatch, tokenVars
  <2>3. stored \subseteq PRs
    BY <1>1, <2>1, BatchWithin
  <2>4. later' \in [Clients -> SUBSET PRs]
    BY <1>1, <2>1, <2>3, ObservedTyped
  <2>5. request'[c].step = "none"
    BY <1>2, <2>2 DEF Busy
  <2>6. [run[c] EXCEPT !.phase = "fetch", !.at = @ + Batch, !.earlier = {}] \in Run
    <3>1. \A s \in Run : s.at + Batch \in Nat
      BY <1>1 DEF Run
    <3>2. \A s \in Run, at \in Nat :
            [s EXCEPT !.phase = "fetch", !.at = at, !.earlier = {}] \in Run
      BY DEF Run
    <3>3. QED
      BY <1>1, <3>1, <3>2
  <2>7. ASSUME NEW q \in Clients \ {c}
        PROVE  run'[q] \in Run /\ (Busy(run[q]) => Busy(run'[q]))
    <3>1. run'[q] = [run[q] EXCEPT !.earlier = @ \ {c}] /\ run[q] \in Run
      BY <1>1, <2>1
    <3>2. QED
      BY SMTT(30), <3>1, EarlierForgotten
  <2>8. run' \in [Clients -> Run]
    BY <2>1, <2>6, <2>7
  <2>9. \A q \in Clients : request'[q].step # "none" => Busy(run'[q])
    BY <1>1, <2>2, <2>5, <2>7 DEF Asking
  <2>10. QED
    BY <1>1, <2>1, <2>2, <2>3, <2>4, <2>8, <2>9
    DEF Asking, FillTyped, Busy, BatchOf, Requests
<1>11. CASE Finish(c)
  <2>1. /\ run' = [run EXCEPT ![c] = NoRun]
        /\ UNCHANGED <<request, details, later, once, faults>>
    BY <1>11 DEF Finish, tokenVars
  <2>2. ~Busy(run[c])
    BY <1>1, <1>11 DEF Finish, Busy, Run
  <2>3. run' \in [Clients -> Run] /\ Asking'
    BY <1>3, <2>1, <2>2, IdleTyped
  <2>4. QED
    BY <1>1, <2>1, <2>3 DEF FillTyped
<1>12. CASE Kill(c)
  <2>1. /\ run' = [q \in Clients |-> IF q = c THEN NoRun
                                     ELSE [run[q] EXCEPT !.earlier = @ \ {c}]]
        /\ later' = [later EXCEPT ![c] = {}] /\ Drop(c)
        /\ UNCHANGED <<details, once>> /\ faults' \in 0..MaxFaults
    BY <1>1, <1>12 DEF Kill, Faulty
  <2>2. \A q \in Clients \ {c} : request'[q] = request[q]
    BY <1>1, <2>1, OthersAskOn
  <2>3. request'[c].step = "none"
    BY <1>1, <2>1, NoneLeft
  <2>4. ASSUME NEW q \in Clients \ {c}
        PROVE  run'[q] \in Run /\ (Busy(run[q]) => Busy(run'[q]))
    <3>1. run'[q] = [run[q] EXCEPT !.earlier = @ \ {c}] /\ run[q] \in Run
      BY <1>1, <2>1
    <3>2. QED
      BY <3>1, EarlierForgotten
  <2>5. run' \in [Clients -> Run] /\ later' \in [Clients -> SUBSET PRs]
    BY <1>1, <2>1, <2>4, IdleTyped
  <2>6. \A q \in Clients : request'[q].step # "none" => Busy(run'[q])
    BY <1>1, <2>2, <2>3, <2>4 DEF Asking
  <2>7. QED
    BY <1>1, <2>1, <2>5, <2>6 DEF Asking, FillTyped, Busy, BatchOf, Requests
<1>13. QED
  BY <1>4, <1>5, <1>6, <1>7, <1>8, <1>9, <1>10, <1>11, <1>12 DEF Progress

LEMMA UnchangedFill ==
  ASSUME FillInv, UNCHANGED <<request, details, run, later, once, faults>>
  PROVE  FillTyped' /\ Asking'
<1>1. FillTyped'
  BY DEF FillInv, FillTyped
<1>2. \A q \in Clients : request'[q].step # "none" => Busy(run'[q])
  BY DEF FillInv, Asking
<1>3. QED
  BY <1>1, <1>2 DEF Asking, Busy, BatchOf, Requests

LEMMA FillInvStep == FillInv /\ [FillNext]_systemVars => FillInv'
<1>1. SUFFICES ASSUME FillInv, [FillNext]_systemVars PROVE FillInv'
  OBVIOUS
<1>2. ReserveInv'
  BY <1>1, FillStep, ReserveStep DEF FillInv
<1>. SUFFICES FillTyped' /\ Asking'
  BY <1>2 DEF FillInv
<1>3. ASSUME NEW c \in Clients, Start(c) \/ Progress(c) \/ Troubled(c) \/ Kill(c)
      PROVE  FillTyped' /\ Asking'
  BY <1>1, <1>3, ProcessKeepsTypes
<1>4. ASSUME NEW r \in Resources, Window(r) \/ ShortWindow(r)
      PROVE  FillTyped' /\ Asking'
  <2>1. TokenTypeOK /\ FillTyped /\ Asking /\ MaxFaults \in Nat
    BY <1>1, FillAssumption DEF FillInv, ReserveInv
  <2>2. Reset(r) /\ UNCHANGED <<details, run, later, once>> /\ faults' \in 0..MaxFaults
    BY <1>4, <2>1 DEF Window, ShortWindow, Faulty, fillVars, FillTyped
  <2>3. \A c \in Clients : request'[c].step # "none" => Busy(run'[c])
    BY <2>1, <2>2, ResetKeepsSteps DEF Asking
  <2>4. QED
    BY <2>1, <2>2, <2>3 DEF Asking, FillTyped, Busy, BatchOf, Requests
<1>5. CASE Others
  <2>1. UNCHANGED request /\ UNCHANGED fillVars
    BY <1>5 DEF Others, OtherSpends
  <2>2. QED
    BY <1>1, <2>1, UnchangedFill DEF fillVars
<1>6. CASE UNCHANGED systemVars
  BY <1>1, <1>6, UnchangedFill DEF systemVars, tokenVars
<1>7. QED
  BY <1>1, <1>3, <1>4, <1>5, <1>6 DEF FillNext

(* A fill asks GitHub only for the pull requests it selected, batch by      *)
(* batch, and what it stores, observes and reports stays among those of the *)
(* archive (app.go's fill-pr-details), whatever is refused, lost or killed. *)
THEOREM FillTypes == FillSpec => []FillTypeOK
<1>1. FillInit => FillInv
  <2>1. SUFFICES ASSUME FillInit PROVE FillInv
    OBVIOUS
  <2>2. ReserveInv
    BY <2>1, ReserveInitially DEF FillInit
  <2>3. FillTyped
    BY <2>1, IdleTyped, FillAssumption DEF FillInit, FillTyped
  <2>4. Asking
    BY <2>1 DEF FillInit, TokenInit, NoRequest, Asking
  <2>5. QED
    BY <2>2, <2>3, <2>4 DEF FillInv
<1>2. FillInv => FillTypeOK
  BY DEF FillInv, ReserveInv, FillTyped, FillTypeOK
<1>3. QED
  BY <1>1, <1>2, FillInvStep, PTL DEF FillSpec

=============================================================================
