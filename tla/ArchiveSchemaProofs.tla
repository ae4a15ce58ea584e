------------------------ MODULE ArchiveSchemaProofs ------------------------
(***************************************************************************)
(* What TLAPS proves of ArchiveSchema, for any number of processes that     *)
(* open, sync and prune the same archive, any families of children, any     *)
(* initial archives the releases left sound, and any number of kills.       *)
(***************************************************************************)
EXTENDS ArchiveSchema, FiniteSetTheorems, WellFoundedInduction, TLAPS

-----------------------------------------------------------------------------
(* Numbers and orders                                                       *)

LEMMA LeastNumber ==
  ASSUME NEW S, S \subseteq Nat, S # {}
  PROVE  \E n \in S : \A m \in S : n <= m
<1>1. PICK n \in S : \A m \in S : ~(<<m, n>> \in OpToRel(<, Nat))
  BY NatLessThanWellFounded, WFMin
<1>2. \A m \in S : m < n => <<m, n>> \in OpToRel(<, Nat)
  BY DEF OpToRel
<1>3. \A m \in S : ~(m < n)
  BY <1>1, <1>2
<1>4. QED
  BY <1>3

LEMMA GreatestInteger ==
  ASSUME NEW S, S \subseteq Int, S # {}, NEW n \in Int, \A c \in S : c <= n
  PROVE  \E c \in S : \A d \in S : d <= c
<1> DEFINE gaps == {n - c : c \in S}
<1>1. gaps \subseteq Nat /\ gaps # {}
  OBVIOUS
<1>2. PICK g \in gaps : \A h \in gaps : g <= h
  BY <1>1, LeastNumber
<1>3. PICK c \in S : g = n - c
  BY <1>2
<1>4. ASSUME NEW d \in S PROVE d <= c
  <2>1. n - d \in gaps
    OBVIOUS
  <2>2. n - c <= n - d
    BY <1>2, <1>3, <2>1
  <2>3. QED
    BY <2>2
<1>5. QED
  BY <1>4

LEMMA MaxIs ==
  ASSUME NEW S, S \subseteq Int, S # {}, NEW n \in Int, \A c \in S : c <= n
  PROVE  Max(S) \in S /\ \A d \in S : d <= Max(S)
<1>1. PICK c \in S : \A d \in S : d <= c
  BY GreatestInteger
<1>2. \A d \in S : c >= d
  BY <1>1
<1>3. Max(S) \in S /\ \A d \in S : Max(S) >= d
  BY <1>2 DEF Max
<1>4. QED
  BY <1>3

LEMMA MaxOfTwo ==
  ASSUME NEW m \in Int, NEW n \in Int
  PROVE  Max({m, n}) = IF m <= n THEN n ELSE m
<1>1. PICK k \in Int : m <= k /\ n <= k
  OBVIOUS
<1>2. Max({m, n}) \in {m, n} /\ \A d \in {m, n} : d <= Max({m, n})
  BY <1>1, MaxIs
<1>3. QED
  BY <1>2

(* The clocks of an order.                                                  *)
LEMMA OrderIs ==
  ASSUME NEW o \in Orders
  PROVE  /\ o = [source |-> o.source, seq |-> o.seq]
         /\ o.seq \in Int /\ o.seq <= MaxSequence
         /\ o.source = Blank \/ o.source \in 1..MaxSource
         /\ Valid(o.source) <=> o.source # Blank
         /\ Blank \notin Int \/ Blank \notin Nat
         /\ Value(o) \in Nat /\ Value(o) <= MaxSequence + 1000
BY SchemaAssumption, MalformedAssumption
   DEF Orders, Valid, Value, observationSequenceOrderValue, Lowest

LEMMA NewerIs ==
  ASSUME NEW o \in Orders, NEW q \in Orders
  PROVE  compareObservationOrder(o, q) = Newer
           <=> \/ o.source # Blank /\ q.source = Blank
               \/ o.source # Blank /\ q.source # Blank /\ q.source < o.source
               \/ o.source = q.source /\ q.seq < o.seq
BY OrderIs, SchemaAssumption
   DEF compareObservationOrder, CompareNumbers, Older, Newer, Tied, Ambiguous

LEMMA FirstIs ==
  ASSUME NEW S \in SUBSET Orders, S # {}
  PROVE  /\ First(S) \in S
         /\ \A q \in S \ {First(S)} : compareObservationOrder(First(S), q) = Newer
<1> DEFINE Code(r) == IF r.source = Blank THEN 0 ELSE r.source
           codes == {Code(r) : r \in S}
<1>1. \A r \in S : Code(r) \in 0..MaxSource /\ (Code(r) = 0 <=> r.source = Blank)
  BY OrderIs, SchemaAssumption
<1>2. codes \subseteq Int /\ codes # {} /\ \A c \in codes : c <= MaxSource
  BY <1>1, SchemaAssumption
<1>3. PICK m \in codes : \A c \in codes : c <= m
  <2> HIDE DEF codes
  <2>1. MaxSource \in Int
    BY SchemaAssumption
  <2>2. QED
    BY <1>2, <2>1, GreatestInteger
<1> DEFINE seqs == {r.seq : r \in {r \in S : Code(r) = m}}
<1>4. seqs \subseteq Int /\ seqs # {} /\ \A n \in seqs : n <= MaxSequence
  BY OrderIs
<1>5. PICK top \in seqs : \A n \in seqs : n <= top
  <2> HIDE DEF seqs
  <2>1. MaxSequence \in Int
    BY SchemaAssumption
  <2>2. QED
    BY <1>4, <2>1, GreatestInteger
<1>6. PICK r \in S : Code(r) = m /\ r.seq = top
  BY <1>5
<1>7. ASSUME NEW q \in S \ {r} PROVE compareObservationOrder(r, q) = Newer
  <2>1. Code(q) <= m /\ (Code(q) = m => q.seq <= top)
    BY <1>3, <1>5
  <2>2. q.source # r.source \/ q.seq # r.seq
    BY OrderIs
  <2>3. q.source = r.source => q.seq < r.seq
    BY <1>6, <2>1, <2>2, OrderIs
  <2>4. q.source # r.source => Code(q) < Code(r)
    <3>1. q.source # r.source => Code(q) # Code(r)
      BY <1>1
    <3>2. QED
      BY <1>1, <1>6, <2>1, <3>1
  <2>5. q \in Orders /\ r \in Orders /\ Code(q) \in Int /\ Code(r) \in Int
    BY <1>1
  <2>6. QED
    BY <1>1, <2>3, <2>4, <2>5, NewerIs
<1>8. QED
  BY <1>7 DEF First

LEMMA FirstOfOne ==
  ASSUME NEW o \in Orders
  PROVE  First({o}) = o
BY FirstIs

LEMMA FirstRunIs ==
  ASSUME NEW S \in SUBSET Orders, S # {}, Unequal(S)
  PROVE  /\ FirstRun(S) \in S
         /\ (\E r \in S : r.source = Blank) => \A q \in S : q.seq <= FirstRun(S).seq
<1>1. CASE \E r \in S : r.source = Blank
  <2> DEFINE seqs == {r.seq : r \in S}
  <2>1. seqs \subseteq Int /\ seqs # {} /\ \A n \in seqs : n <= MaxSequence
    BY OrderIs
  <2>2. PICK top \in seqs : \A n \in seqs : n <= top
    <3> HIDE DEF seqs
    <3>1. MaxSequence \in Int
      BY SchemaAssumption
    <3>2. QED
      BY <2>1, <3>1, GreatestInteger
  <2>3. PICK r \in S : r.seq = top
    BY <2>2
  <2>4. \A q \in S \ {r} : r.seq > q.seq
    <3>1. ASSUME NEW q \in S \ {r} PROVE r.seq > q.seq
      <4>1. q.seq <= r.seq /\ q.seq # r.seq
        BY <2>2, <2>3 DEF Unequal
      <4>2. q.seq \in Int /\ r.seq \in Int
        BY OrderIs
      <4>3. QED
        BY <4>1, <4>2
    <3>2. QED
      BY <3>1
  <2>5. FirstRun(S) \in S /\ \A q \in S \ {FirstRun(S)} :
           \/ FirstRun(S).seq > q.seq
           \/ FirstRun(S).seq = q.seq /\ FirstRun(S).source = Blank
    BY <1>1, <2>4 DEF FirstRun
  <2>6. QED
    BY <2>5, OrderIs
<1>2. CASE ~\E r \in S : r.source = Blank
  BY <1>2, FirstIs DEF FirstRun
<1>3. QED
  BY <1>1, <1>2

-----------------------------------------------------------------------------
(* Archives                                                                 *)

\* The generations an archive has stored, in whatever table.
Held(a) == UNION {{Value(a.row), a.evidence.seq},
                  {r.seq : r \in a.revisions},
                  {r.seq : r \in UNION {a.reserved[f] : f \in Families}},
                  {r.seq : r \in a.fence}}

LEMMA HeldIs ==
  /\ Sequences = Held(db)
  /\ \A a : Floor(a) = Max({0} \cup Held(a))
<1>1. Sequences = Held(db)
  BY DEF Sequences, Held
<1>2. ASSUME NEW a PROVE Floor(a) = Max({0} \cup Held(a))
  <2>1. {0, Value(a.row), a.evidence.seq} \cup {r.seq : r \in a.revisions}
          \cup {r.seq : r \in a.fence}
          \cup {r.seq : r \in UNION {a.reserved[f] : f \in Families}}
        = {0} \cup Held(a)
    BY DEF Held
  <2>2. QED
    BY <2>1 DEF Floor
<1>3. QED
  BY <1>1, <1>2

LEMMA HeldMembers ==
  ASSUME NEW a, NEW n
  PROVE  n \in Held(a) <=> \/ n = Value(a.row) \/ n = a.evidence.seq
                           \/ \E r \in a.revisions : n = r.seq
                           \/ \E f \in Families : \E r \in a.reserved[f] : n = r.seq
                           \/ \E r \in a.fence : n = r.seq
BY DEF Held

LEMMA ArchiveParts ==
  ASSUME NEW a \in Archive
  PROVE  /\ a.row \in Orders /\ a.evidence \in Orders
         /\ a.revisions \in SUBSET Orders /\ a.fence \in SUBSET Orders
         /\ a.reserved \in [Families -> SUBSET Orders]
         /\ \A f \in Families : a.reserved[f] \in SUBSET Orders
         /\ a.runs \in Nat /\ a.allocator \in Int /\ a.allocator >= -1
         /\ a.allocator # NoValue => a.allocator \in Nat
         /\ a.checked \in Int /\ a.version \in Nat
         /\ a.shape \in [Tables -> Shapes] /\ a.triggers \in SUBSET Watched
         /\ a.details \in BOOLEAN
BY DEF Archive, NoValue, Portable, Supported

LEMMA FloorIs ==
  ASSUME NEW a \in Archive
  PROVE  /\ Floor(a) \in Nat
         /\ Floor(a) \in {0} \cup Held(a)
         /\ \A n \in Held(a) : n \in Int /\ n <= Floor(a)
<1> DEFINE S == {0} \cup Held(a)
<1>1. ASSUME NEW n \in S PROVE n \in Int /\ n <= MaxSequence + 1000
  <2>1. CASE n = 0
    BY <2>1, SchemaAssumption
  <2>2. CASE n = Value(a.row)
    BY <2>2, ArchiveParts, OrderIs
  <2>3. ASSUME NEW r \in Orders, n = r.seq PROVE n \in Int /\ n <= MaxSequence + 1000
    BY <2>3, OrderIs, SchemaAssumption
  <2>4. QED
    BY <2>1, <2>2, <2>3, HeldMembers, ArchiveParts
<1>2. MaxSequence + 1000 \in Int /\ 0 \in S
  BY SchemaAssumption
<1>3. Floor(a) = Max(S)
  BY HeldIs
<1> HIDE DEF S
<1>4. S \subseteq Int /\ S # {} /\ \A n \in S : n <= MaxSequence + 1000
  BY <1>1, <1>2
<1>5. Max(S) \in S /\ \A n \in S : n <= Max(S)
  BY ZenonT(60), <1>2, <1>4, MaxIs
<1>6. Max(S) \in Int /\ 0 <= Max(S)
  BY ZenonT(60), <1>2, <1>4, <1>5
<1>7. Floor(a) \in Nat /\ Floor(a) \in S /\ \A n \in S : n \in Int /\ n <= Floor(a)
  BY <1>3, <1>4, <1>5, <1>6
<1>8. QED
  BY <1>7 DEF S

LEMMA FloorReached ==
  ASSUME NEW a \in Archive
  PROVE  /\ a.allocator >= Floor(a) <=> (a.allocator >= 0 /\ \A n \in Held(a) : n <= a.allocator)
         /\ threadObservationSequenceNeedsRepair(a) <=> ~(a.allocator >= Floor(a))
BY FloorIs, ArchiveParts DEF threadObservationSequenceNeedsRepair

-----------------------------------------------------------------------------
(* What each statement writes                                               *)

\* An archive b that differs from a in the named fields only.
Kept(a, b, changed) ==
  /\ "version" \notin changed => b.version = a.version
  /\ "shape" \notin changed => b.shape = a.shape
  /\ "triggers" \notin changed => b.triggers = a.triggers
  /\ "row" \notin changed => b.row = a.row
  /\ "evidence" \notin changed => b.evidence = a.evidence
  /\ "revisions" \notin changed => b.revisions = a.revisions
  /\ "details" \notin changed => b.details = a.details
  /\ "reserved" \notin changed => b.reserved = a.reserved
  /\ "runs" \notin changed => b.runs = a.runs
  /\ "fence" \notin changed => b.fence = a.fence
  /\ "allocator" \notin changed => b.allocator = a.allocator
  /\ "checked" \notin changed => b.checked = a.checked
  /\ "body" \notin changed => b.body = a.body
  /\ "length" \notin changed => b.length = a.length

\* The mark of b is that of a, or withdrawn.
Marks(a, b) == b.checked \in {a.checked, NoValue}

LEMMA WroteIs ==
  ASSUME NEW a \in Archive, NEW tables
  PROVE  /\ Wrote(a, tables) \in Archive
         /\ Kept(a, Wrote(a, tables), {"checked"})
         /\ Marks(a, Wrote(a, tables))
         /\ (tables \cap a.triggers # {} /\ a.checked = a.allocator)
              => Wrote(a, tables).checked = NoValue
BY DEF Wrote, Kept, Marks, Archive, NoValue

LEMMA RebuiltIs ==
  ASSUME NEW a \in Archive, NEW t \in Tables
  PROVE  /\ Rebuilt(a, t) \in Archive
         /\ Kept(a, Rebuilt(a, t), {"shape"})
         /\ Rebuilt(a, t).shape = [a.shape EXCEPT ![t] = "current"]
         /\ Rebuilt(a, t).shape[t] = "current"
         /\ \A u \in Tables : u # t => Rebuilt(a, t).shape[u] = a.shape[u]
BY DEF Rebuilt, Kept, Archive, Shapes

LEMMA SchemaIs ==
  ASSUME NEW a \in Archive
  PROVE  LET b == schemaSQL(a)
         IN /\ b \in Archive /\ Kept(a, b, {"shape"})
            /\ \A t \in Tables :
                 b.shape[t] = IF a.shape[t] = "missing" /\ (t # "columns" \/ a.version = 0)
                              THEN "current" ELSE a.shape[t]
BY DEF schemaSQL, Kept, Archive, Shapes

LEMMA ColumnsIs ==
  ASSUME NEW a \in Archive
  PROVE  LET b == ensureLegacyPortableColumns(a)
         IN /\ b \in Archive /\ Kept(a, b, {"shape", "body"})
            /\ b.body # "dropped"
            /\ b.shape["columns"] = "current"
            /\ \A u \in Tables : u # "columns" => b.shape[u] = a.shape[u]
<1> DEFINE c == [a EXCEPT !.body = IF @ = "dropped" THEN "null" ELSE @]
<1>1. c \in Archive /\ Kept(a, c, {"body"}) /\ c.body # "dropped"
  BY DEF Kept, Archive
<1>2. "columns" \in Tables
  BY DEF Tables
<1>3. ensureLegacyPortableColumns(a) = Rebuilt(c, "columns")
  BY DEF ensureLegacyPortableColumns
<1> HIDE DEF c
<1>4. LET b == Rebuilt(c, "columns")
      IN /\ b \in Archive /\ Kept(c, b, {"shape"}) /\ b.shape["columns"] = "current"
         /\ \A u \in Tables : u # "columns" => b.shape[u] = c.shape[u]
  BY <1>1, <1>2, RebuiltIs
<1>5. QED
  BY <1>1, <1>3, <1>4 DEF Kept

LEMMA BodiesIs ==
  ASSUME NEW a \in Archive, NEW found
  PROVE  LET b == BackfillBodies(a, found)
         IN /\ b \in Archive /\ Kept(a, b, {"body", "checked"}) /\ Marks(a, b)
            /\ b.body \in {a.body, "excerpt"}
<1> DEFINE c == [a EXCEPT !.body = "excerpt"]
<1>1. c \in Archive /\ Kept(a, c, {"body"}) /\ c.body = "excerpt"
  BY DEF Kept, Archive
<1>2. BackfillBodies(a, found) \in {a, Wrote(c, {"rows"})}
  BY DEF BackfillBodies
<1> HIDE DEF c
<1>3. QED
  BY <1>1, <1>2, WroteIs DEF Kept, Marks

LEMMA FamiliesIs ==
  ASSUME NEW a \in Archive
  PROVE  LET b == ensureFamilyTombstoneSchema(a)
         IN /\ b \in Archive /\ Kept(a, b, {"shape"})
            /\ b.shape["families"] = "current"
            /\ \A u \in Tables : u # "families" => b.shape[u] = a.shape[u]
BY RebuiltIs DEF ensureFamilyTombstoneSchema, Tables

LEMMA KeysIs ==
  ASSUME NEW a \in Archive
  PROVE  LET b == ensureKeys(a)
         IN /\ b \in Archive /\ Kept(a, b, {"shape"})
            /\ b.shape["keys"] = "current"
            /\ \A u \in Tables : u # "keys" => b.shape[u] = a.shape[u]
BY RebuiltIs DEF ensureKeys, Tables

(* A sequence the new tables do not accept.                                 *)
Accepted(n) == IF n < 0 THEN 0 ELSE n

LEMMA OrderWith ==
  ASSUME NEW o \in Orders, NEW n \in 0..MaxSequence
  PROVE  /\ [o EXCEPT !.seq = n] \in Orders
         /\ [o EXCEPT !.seq = n] = [source |-> o.source, seq |-> n]
         /\ [o EXCEPT !.seq = Accepted(o.seq)] \in Orders
BY SchemaAssumption DEF Orders, Accepted, Lowest

LEMMA RowsIs ==
  ASSUME NEW a \in Archive
  PROVE  LET b == ensureCanonicalObservationTables(a)
         IN /\ b \in Archive
            /\ Kept(a, b, {"row", "evidence", "revisions", "shape", "triggers"})
            /\ b.row = IF a.row.seq = Lowest THEN [a.row EXCEPT !.seq = 0] ELSE a.row
            /\ b.evidence = [a.evidence EXCEPT !.seq = Accepted(a.evidence.seq)]
            /\ b.revisions = {[r EXCEPT !.seq = Accepted(r.seq)] : r \in a.revisions}
            /\ b.triggers = a.triggers \ {"rows"}
            /\ b.shape["rows"] = "current"
            /\ \A u \in Tables : u # "rows" => b.shape[u] = a.shape[u]
<1> DEFINE row == IF a.row.seq = Lowest THEN [a.row EXCEPT !.seq = 0] ELSE a.row
           evidence == [a.evidence EXCEPT !.seq = Accepted(a.evidence.seq)]
           revisions == {[r EXCEPT !.seq = Accepted(r.seq)] : r \in a.revisions}
           triggers == a.triggers \ {"rows"}
           c == [a EXCEPT !.row = row, !.evidence = evidence, !.revisions = revisions,
                          !.triggers = triggers]
<1>1. row \in Orders /\ evidence \in Orders /\ revisions \in SUBSET Orders
      /\ triggers \in SUBSET Watched
  <2>1. 0 \in 0..MaxSequence
    BY SchemaAssumption
  <2>2. row \in Orders /\ evidence \in Orders
    BY <2>1, ArchiveParts, OrderWith
  <2>3. ASSUME NEW r \in a.revisions PROVE [r EXCEPT !.seq = Accepted(r.seq)] \in Orders
    BY <2>1, ArchiveParts, OrderWith
  <2>4. QED
    BY <2>2, <2>3, ArchiveParts
<1>2. ensureCanonicalObservationTables(a) = Rebuilt(c, "rows")
  <2>1. [a EXCEPT !.row.seq = IF @ = Lowest THEN 0 ELSE @,
                  !.evidence.seq = IF @ < 0 THEN 0 ELSE @,
                  !.revisions = {[r EXCEPT !.seq = IF @ < 0 THEN 0 ELSE @] : r \in a.revisions},
                  !.triggers = @ \ {"rows"}] = c
    <3>1. [a.row EXCEPT !.seq = IF @ = Lowest THEN 0 ELSE @] = row
      BY ArchiveParts, OrderIs
    <3>2. [a.evidence EXCEPT !.seq = IF @ < 0 THEN 0 ELSE @] = evidence
      BY DEF Accepted
    <3>3. {[r EXCEPT !.seq = IF @ < 0 THEN 0 ELSE @] : r \in a.revisions} = revisions
      BY DEF Accepted
    <3> HIDE DEF row, evidence, revisions, triggers
    <3>4. QED
      BY <3>1, <3>2, <3>3 DEF triggers
  <2>2. QED
    BY <2>1 DEF ensureCanonicalObservationTables
<1> HIDE DEF row, evidence, revisions, triggers
<1>3. c \in Archive /\ Kept(a, c, {"row", "evidence", "revisions", "triggers"})
      /\ c.row = row /\ c.evidence = evidence /\ c.revisions = revisions
      /\ c.triggers = triggers
  BY <1>1 DEF Kept, Archive
<1>4. "rows" \in Tables
  BY DEF Tables
<1> HIDE DEF c
<1>5. LET b == Rebuilt(c, "rows")
      IN /\ b \in Archive /\ Kept(c, b, {"shape"}) /\ b.shape["rows"] = "current"
         /\ \A u \in Tables : u # "rows" => b.shape[u] = c.shape[u]
  BY <1>3, <1>4, RebuiltIs
<1>6. LET b == ensureCanonicalObservationTables(a)
      IN /\ b \in Archive
         /\ Kept(a, b, {"row", "evidence", "revisions", "shape", "triggers"})
         /\ b.row = row /\ b.evidence = evidence /\ b.revisions = revisions
         /\ b.triggers = triggers /\ b.shape["rows"] = "current"
         /\ \A u \in Tables : u # "rows" => b.shape[u] = a.shape[u]
  BY <1>2, <1>3, <1>5 DEF Kept
<1>7. QED
  BY <1>6 DEF row, evidence, revisions, triggers

LEMMA ValuesIs ==
  ASSUME NEW a \in Archive
  PROVE  LET b == ensureThreadObservationSequenceValues(a)
         IN /\ b \in Archive /\ Kept(a, b, {"row", "checked"}) /\ Marks(a, b)
            /\ b.row = IF a.row.seq = Lowest THEN [a.row EXCEPT !.seq = 0] ELSE a.row
            /\ a.row.seq # Lowest => b = a
<1> DEFINE row == [a.row EXCEPT !.seq = 0]
           c == [a EXCEPT !.row = row]
<1>1. row \in Orders
  <2>1. 0 \in 0..MaxSequence
    BY SchemaAssumption
  <2>2. QED
    BY <2>1, ArchiveParts, OrderWith
<1>2. ensureThreadObservationSequenceValues(a)
        = IF a.row.seq = Lowest THEN Wrote(c, {"rows"}) ELSE a
  BY DEF ensureThreadObservationSequenceValues
<1> HIDE DEF row
<1>3. c \in Archive /\ Kept(a, c, {"row"}) /\ c.row = row
  BY <1>1 DEF Kept, Archive
<1> HIDE DEF c
<1>4. LET b == Wrote(c, {"rows"})
      IN b \in Archive /\ Kept(c, b, {"checked"}) /\ Marks(c, b)
  BY <1>3, WroteIs
<1>5. QED
  BY <1>2, <1>3, <1>4 DEF Kept, Marks, row

\* The generation that stands for the evidence when the row has none.
LEMMA EvidenceRevisionIs ==
  ASSUME NEW a \in Archive, HasRevision(a)
  PROVE  /\ EvidenceRevision(a) \in a.revisions
         /\ EvidenceRevision(a).seq > 0 /\ EvidenceRevision(a).seq <= MaxSequence
<1> DEFINE sequenced == {r \in a.revisions : r.seq > 0}
           own == {r \in sequenced : r.source = a.row.source}
           S == IF own # {} THEN own ELSE sequenced
<1>1. S # {} /\ S \in SUBSET Orders /\ S \subseteq a.revisions /\ \A r \in S : r.seq > 0
  BY ArchiveParts DEF HasRevision
<1>2. EvidenceRevision(a) = First(S)
  BY DEF EvidenceRevision
<1> HIDE DEF S
<1>3. First(S) \in S
  BY <1>1, FirstIs
<1>4. QED
  BY <1>1, <1>2, <1>3, OrderIs

LEMMA EvidenceIs ==
  ASSUME NEW a \in Archive
  PROVE  LET b == ensureThreadEvidenceObservationSequence(a)
         IN /\ b \in Archive /\ Kept(a, b, {"evidence", "checked"}) /\ Marks(a, b)
            /\ threadEvidenceObservationSequenceNeedsRepair(a)
                 => /\ b.evidence.seq > 0
                    /\ \E r \in a.revisions : r.seq = b.evidence.seq
            /\ ~threadEvidenceObservationSequenceNeedsRepair(a) => b = a
<1> DEFINE evidence == [source |-> a.row.source, seq |-> EvidenceRevision(a).seq]
           c == [a EXCEPT !.evidence = evidence]
<1>1. CASE ~threadEvidenceObservationSequenceNeedsRepair(a)
  <2>1. ensureThreadEvidenceObservationSequence(a) = a
    BY <1>1 DEF ensureThreadEvidenceObservationSequence
  <2>2. QED
    BY <1>1, <2>1 DEF Kept, Marks
<1>2. CASE threadEvidenceObservationSequenceNeedsRepair(a)
  <2>1. HasRevision(a)
    BY <1>2 DEF threadEvidenceObservationSequenceNeedsRepair
  <2>2. EvidenceRevision(a) \in a.revisions /\ EvidenceRevision(a).seq > 0
    BY <2>1, EvidenceRevisionIs
  <2>3. evidence \in Orders
    BY <2>2, ArchiveParts DEF Orders
  <2>4. ensureThreadEvidenceObservationSequence(a) = Wrote(c, {"rows"})
    BY <1>2 DEF ensureThreadEvidenceObservationSequence
  <2>5. evidence.seq > 0 /\ \E r \in a.revisions : r.seq = evidence.seq
    BY <2>2
  <2> HIDE DEF evidence
  <2>6. c \in Archive /\ Kept(a, c, {"evidence"}) /\ c.evidence = evidence
    BY <2>3 DEF Kept, Archive
  <2> HIDE DEF c
  <2>7. LET b == Wrote(c, {"rows"})
        IN b \in Archive /\ Kept(c, b, {"checked"}) /\ Marks(c, b)
    BY <2>6, WroteIs
  <2>8. QED
    BY <1>2, <2>4, <2>5, <2>6, <2>7 DEF Kept, Marks
<1>3. QED
  BY <1>1, <1>2

LEMMA ClocksIs ==
  ASSUME NEW S \in SUBSET Orders, NEW shape
  PROVE  /\ Clocks(S, shape) \in SUBSET Orders
         /\ S # {} => Clocks(S, shape) # {}
         /\ \A q \in Clocks(S, shape) : \E r \in S : q.seq = r.seq /\ q.source \in {r.source, Blank}
         /\ \A r \in S : \E q \in Clocks(S, shape) : q.seq = r.seq
         /\ Unequal(S) => Unequal(Clocks(S, shape))
         /\ (\A r \in S : r.source = Blank) => Clocks(S, shape) = S
         /\ shape # "unsourced" => Clocks(S, shape) = S
<1>1. CASE shape # "unsourced"
  BY <1>1 DEF Clocks
<1>2. CASE shape = "unsourced"
  <2> DEFINE B(r) == [r EXCEPT !.source = Blank]
  <2>1. Clocks(S, shape) = {B(r) : r \in S}
    BY <1>2 DEF Clocks
  <2>2. ASSUME NEW r \in S
        PROVE  /\ B(r) = [source |-> Blank, seq |-> r.seq] /\ B(r) \in Orders
               /\ r.source = Blank => B(r) = r
    BY DEF Orders
  <2> HIDE DEF B
  <2>3. \A r \in S : B(r).seq = r.seq /\ B(r).source = Blank /\ B(r) \in Orders
    BY <2>2
  <2>4. Unequal(S) => Unequal({B(r) : r \in S})
    BY <2>3 DEF Unequal
  <2>5. (\A r \in S : r.source = Blank) => {B(r) : r \in S} = S
    BY <2>2
  <2>6. QED
    BY <1>2, <2>1, <2>3, <2>4, <2>5
<1>3. QED
  BY <1>1, <1>2

LEMMA WorkflowsIs ==
  ASSUME NEW a \in Archive, Unequal(a.fence), NEW shape
  PROVE  LET b == ensureWorkflowRunObservationReservationsSchema(a, shape)
         IN /\ b \in Archive /\ Kept(a, b, {"fence", "shape", "triggers"})
            /\ b.triggers = a.triggers \ {"workflows"}
            /\ b.fence = IF a.fence = {} THEN {} ELSE {FirstRun(Clocks(a.fence, shape))}
            /\ a.fence # {} => FirstRun(Clocks(a.fence, shape)) \in Clocks(a.fence, shape)
            /\ b.shape["workflows"] = "current"
            /\ \A u \in Tables : u # "workflows" => b.shape[u] = a.shape[u]
<1> DEFINE fence == IF a.fence = {} THEN {} ELSE {FirstRun(Clocks(a.fence, shape))}
           triggers == a.triggers \ {"workflows"}
           c == [a EXCEPT !.fence = fence, !.triggers = triggers]
<1>1. a.fence # {} => /\ FirstRun(Clocks(a.fence, shape)) \in Clocks(a.fence, shape)
                      /\ Clocks(a.fence, shape) \in SUBSET Orders
  BY ArchiveParts, ClocksIs, FirstRunIs
<1>2. fence \in SUBSET Orders /\ triggers \in SUBSET Watched
  BY <1>1, ArchiveParts
<1>3. ensureWorkflowRunObservationReservationsSchema(a, shape) = Rebuilt(c, "workflows")
  BY DEF ensureWorkflowRunObservationReservationsSchema
<1> HIDE DEF fence, triggers
<1>4. c \in Archive /\ Kept(a, c, {"fence", "triggers"})
      /\ c.fence = fence /\ c.triggers = triggers
  BY <1>2 DEF Kept, Archive
<1>5. "workflows" \in Tables
  BY DEF Tables
<1> HIDE DEF c
<1>6. LET b == Rebuilt(c, "workflows")
      IN /\ b \in Archive /\ Kept(c, b, {"shape"}) /\ b.shape["workflows"] = "current"
         /\ \A u \in Tables : u # "workflows" => b.shape[u] = c.shape[u]
  BY <1>4, <1>5, RebuiltIs
<1>7. LET b == ensureWorkflowRunObservationReservationsSchema(a, shape)
      IN /\ b \in Archive /\ Kept(a, b, {"fence", "shape", "triggers"})
         /\ b.fence = fence /\ b.triggers = triggers /\ b.shape["workflows"] = "current"
         /\ \A u \in Tables : u # "workflows" => b.shape[u] = a.shape[u]
  BY <1>3, <1>4, <1>6 DEF Kept
<1>8. QED
  BY <1>1, <1>7 DEF fence, triggers

LEMMA RaiseFenceIs ==
  ASSUME NEW a \in Archive, NEW n \in 0..MaxSequence
  PROVE  LET b == RaiseFence(a, n)
         IN /\ b \in Archive /\ Kept(a, b, {"fence", "checked"}) /\ Marks(a, b)
            /\ b.fence = {[source |-> Blank, seq |-> n]}
<1> DEFINE fence == {[source |-> Blank, seq |-> n]}
           c == [a EXCEPT !.fence = fence]
<1>1. fence \in SUBSET Orders
  BY SchemaAssumption DEF Orders
<1>2. RaiseFence(a, n) = Wrote(c, {"workflows"})
  BY DEF RaiseFence
<1> HIDE DEF fence
<1>3. c \in Archive /\ Kept(a, c, {"fence"}) /\ c.fence = fence
  BY <1>1 DEF Kept, Archive
<1> HIDE DEF c
<1>4. LET b == Wrote(c, {"workflows"})
      IN b \in Archive /\ Kept(c, b, {"checked"}) /\ Marks(c, b)
  BY <1>3, WroteIs
<1>5. QED
  BY <1>2, <1>3, <1>4 DEF Kept, Marks, fence

\* What a step that may raise the fence to n leaves.
Raises(a, b, n) ==
  /\ b \in Archive /\ Kept(a, b, {"fence", "checked"}) /\ Marks(a, b)
  /\ \/ b = a
     \/ /\ n \in 0..MaxSequence
        /\ b.fence = {[source |-> Blank, seq |-> n]}
        /\ \A r \in a.fence : r.seq < n

LEMMA BackfillFenceIs ==
  ASSUME NEW a \in Archive
  PROVE  LET b == BackfillFence(a)
             pending == /\ a.details /\ a.evidence.seq > 0
                        /\ \A r \in a.fence : r.source = Blank /\ r.seq < a.evidence.seq
         IN /\ Raises(a, b, a.evidence.seq)
            /\ pending => b.fence = {[source |-> Blank, seq |-> a.evidence.seq]}
            /\ b # a => \A r \in a.fence : r.source = Blank
            /\ ~pending => b = a
<1>1. a.evidence.seq > 0 => a.evidence.seq \in 0..MaxSequence
  BY ArchiveParts, OrderIs, SchemaAssumption
<1>2. a.evidence.seq > 0 =>
        LET b == RaiseFence(a, a.evidence.seq)
        IN /\ b \in Archive /\ Kept(a, b, {"fence", "checked"}) /\ Marks(a, b)
           /\ b.fence = {[source |-> Blank, seq |-> a.evidence.seq]}
  BY <1>1, RaiseFenceIs
<1>3. Kept(a, a, {"fence", "checked"}) /\ Marks(a, a)
  BY DEF Kept, Marks
<1>4. QED
  BY <1>1, <1>2, <1>3 DEF BackfillFence, Raises

LEMMA RecoverIs ==
  ASSUME NEW a \in Archive, a.runs <= MaxSequence
  PROVE  LET b == RecoverLegacyRuns(a)
         IN /\ Raises(a, b, a.runs)
            /\ b # a => a.runs > 0
            /\ a.details /\ a.runs > 0 => \E r \in b.fence : r.seq >= a.runs
<1>1. a.runs \in 0..MaxSequence
  BY ArchiveParts, SchemaAssumption
<1>2. LET b == RaiseFence(a, a.runs)
      IN /\ b \in Archive /\ Kept(a, b, {"fence", "checked"}) /\ Marks(a, b)
         /\ b.fence = {[source |-> Blank, seq |-> a.runs]}
  BY <1>1, RaiseFenceIs
<1>3. Kept(a, a, {"fence", "checked"}) /\ Marks(a, a)
  BY DEF Kept, Marks
<1>4. \A r \in a.fence : r.seq \in Int /\ (~(r.seq < a.runs) => r.seq >= a.runs)
  BY <1>1, ArchiveParts, OrderIs
<1> DEFINE pending == a.details /\ a.runs > 0 /\ \A r \in a.fence : r.seq < a.runs
<1>5. CASE pending
  <2>1. RecoverLegacyRuns(a) = RaiseFence(a, a.runs)
    BY <1>5 DEF RecoverLegacyRuns
  <2>2. \E r \in RaiseFence(a, a.runs).fence : r.seq >= a.runs
    <3>1. [source |-> Blank, seq |-> a.runs] \in RaiseFence(a, a.runs).fence
      BY <1>2
    <3>2. a.runs >= a.runs
      BY <1>1
    <3>3. QED
      BY <3>1, <3>2
  <2>3. QED
    BY <1>1, <1>2, <1>5, <2>1, <2>2 DEF Raises
<1>6. CASE ~pending
  <2>1. RecoverLegacyRuns(a) = a
    BY <1>6 DEF RecoverLegacyRuns
  <2>2. a.details /\ a.runs > 0 => \E r \in a.fence : r.seq >= a.runs
    BY <1>4, <1>6
  <2>3. QED
    BY <1>3, <2>1, <2>2 DEF Raises
<1>7. QED
  BY <1>5, <1>6

LEMMA RemoveIs ==
  ASSUME NEW a \in Archive
  PROVE  LET b == RemoveLegacyRuns(a)
         IN /\ b \in Archive /\ Kept(a, b, {"runs", "checked"}) /\ Marks(a, b)
            /\ b.runs = 0
            /\ a.runs = 0 => b = a
<1> DEFINE c == [a EXCEPT !.runs = 0]
<1>1. c \in Archive /\ Kept(a, c, {"runs"}) /\ c.runs = 0
  BY DEF Kept, Archive
<1>2. RemoveLegacyRuns(a) = IF a.runs > 0 THEN Wrote(c, {"children"}) ELSE a
  BY DEF RemoveLegacyRuns
<1> HIDE DEF c
<1>3. LET b == Wrote(c, {"children"})
      IN b \in Archive /\ Kept(c, b, {"checked"}) /\ Marks(c, b)
  BY <1>1, WroteIs
<1>4. a.runs \in Nat
  BY ArchiveParts
<1>5. QED
  BY <1>1, <1>2, <1>3, <1>4 DEF Kept, Marks

LEMMA ChildrenIs ==
  ASSUME NEW a \in Archive, NEW shape
  PROVE  LET b == ensureThreadChildObservationReservationsSchema(a, shape)
         IN /\ b \in Archive /\ Kept(a, b, {"reserved", "runs", "shape", "triggers"})
            /\ b.triggers = a.triggers \ {"children"} /\ b.runs = 0
            /\ \A f \in Families :
                 /\ b.reserved[f] = IF a.reserved[f] = {} THEN {}
                                    ELSE {First(Clocks(a.reserved[f], shape))}
                 /\ a.reserved[f] # {} =>
                      First(Clocks(a.reserved[f], shape)) \in Clocks(a.reserved[f], shape)
            /\ b.shape["children"] = "current"
            /\ \A u \in Tables : u # "children" => b.shape[u] = a.shape[u]
<1> DEFINE reserved == [f \in Families |-> IF a.reserved[f] = {} THEN {}
                                           ELSE {First(Clocks(a.reserved[f], shape))}]
           triggers == a.triggers \ {"children"}
           c == [a EXCEPT !.reserved = reserved, !.runs = 0, !.triggers = triggers]
<1>1. \A f \in Families : a.reserved[f] # {} =>
        /\ First(Clocks(a.reserved[f], shape)) \in Clocks(a.reserved[f], shape)
        /\ Clocks(a.reserved[f], shape) \in SUBSET Orders
  BY ArchiveParts, ClocksIs, FirstIs
<1>2. reserved \in [Families -> SUBSET Orders] /\ triggers \in SUBSET Watched
  BY <1>1, ArchiveParts
<1>3. ensureThreadChildObservationReservationsSchema(a, shape) = Rebuilt(c, "children")
  BY DEF ensureThreadChildObservationReservationsSchema
<1>4. \A f \in Families : reserved[f] = IF a.reserved[f] = {} THEN {}
                                        ELSE {First(Clocks(a.reserved[f], shape))}
  OBVIOUS
<1> HIDE DEF reserved, triggers
<1>5. c \in Archive /\ Kept(a, c, {"reserved", "runs", "triggers"})
      /\ c.reserved = reserved /\ c.triggers = triggers /\ c.runs = 0
  BY <1>2 DEF Kept, Archive
<1>6. "children" \in Tables
  BY DEF Tables
<1> HIDE DEF c
<1>7. LET b == Rebuilt(c, "children")
      IN /\ b \in Archive /\ Kept(c, b, {"shape"}) /\ b.shape["children"] = "current"
         /\ \A u \in Tables : u # "children" => b.shape[u] = c.shape[u]
  BY <1>5, <1>6, RebuiltIs
<1>8. LET b == ensureThreadChildObservationReservationsSchema(a, shape)
      IN /\ b \in Archive /\ Kept(a, b, {"reserved", "runs", "shape", "triggers"})
         /\ b.reserved = reserved /\ b.triggers = triggers /\ b.runs = 0
         /\ b.shape["children"] = "current"
         /\ \A u \in Tables : u # "children" => b.shape[u] = a.shape[u]
  BY <1>3, <1>5, <1>7 DEF Kept
<1>9. QED
  BY <1>1, <1>4, <1>8 DEF triggers

LEMMA ReservationsIs ==
  ASSUME NEW a \in Archive
  PROVE  LET b == ensureThreadChildObservationReservations(a)
         IN /\ b \in Archive /\ Kept(a, b, {"reserved", "checked"}) /\ Marks(a, b)
            /\ \A f \in Families :
                 \/ b.reserved[f] = a.reserved[f]
                 \/ a.reserved[f] = {} /\ b.reserved[f] = {a.evidence}
            /\ a.evidence.seq > 0 => \A f \in Families : b.reserved[f] # {}
            /\ (a.evidence.seq <= 0 \/ \A f \in Families : a.reserved[f] # {}) => b = a
<1> DEFINE reserved == [f \in Families |-> IF a.reserved[f] = {} THEN {a.evidence}
                                           ELSE a.reserved[f]]
           c == [a EXCEPT !.reserved = reserved]
<1>1. reserved \in [Families -> SUBSET Orders]
  BY ArchiveParts
<1>2. ensureThreadChildObservationReservations(a)
        = IF a.evidence.seq > 0 /\ \E f \in Families : a.reserved[f] = {}
          THEN Wrote(c, {"children"}) ELSE a
  BY DEF ensureThreadChildObservationReservations
<1>3. \A f \in Families : reserved[f] = IF a.reserved[f] = {} THEN {a.evidence}
                                        ELSE a.reserved[f]
  OBVIOUS
<1> HIDE DEF reserved
<1>4. c \in Archive /\ Kept(a, c, {"reserved"}) /\ c.reserved = reserved
  BY <1>1 DEF Kept, Archive
<1> HIDE DEF c
<1>5. LET b == Wrote(c, {"children"})
      IN b \in Archive /\ Kept(c, b, {"checked"}) /\ Marks(c, b)
  BY <1>4, WroteIs
<1>6. a.evidence.seq \in Int
  BY ArchiveParts, OrderIs
<1>7. CASE a.evidence.seq > 0 /\ \E f \in Families : a.reserved[f] = {}
  BY <1>2, <1>3, <1>4, <1>5, <1>6, <1>7 DEF Kept, Marks
<1>8. CASE ~(a.evidence.seq > 0 /\ \E f \in Families : a.reserved[f] = {})
  BY <1>2, <1>6, <1>8 DEF Kept, Marks
<1>9. QED
  BY <1>7, <1>8

LEMMA AllocatorIs ==
  ASSUME NEW a \in Archive
  PROVE  LET b == ensureThreadObservationSequenceSchema(a)
         IN /\ b \in Archive /\ Kept(a, b, {"allocator", "shape", "triggers"})
            /\ b.triggers = a.triggers \ {"allocator"}
            /\ b.allocator >= a.allocator /\ b.allocator >= 0
            /\ b.shape["allocator"] = "current"
            /\ \A u \in Tables : u # "allocator" => b.shape[u] = a.shape[u]
<1> DEFINE allocator == Max({0, a.allocator})
           triggers == a.triggers \ {"allocator"}
           c == [a EXCEPT !.allocator = allocator, !.triggers = triggers]
<1>1. allocator \in Nat /\ allocator >= a.allocator /\ triggers \in SUBSET Watched
  <2>1. a.allocator \in Int /\ a.allocator >= -1 /\ 0 \in Int
    BY ArchiveParts
  <2>2. Max({0, a.allocator}) = IF 0 <= a.allocator THEN a.allocator ELSE 0
    BY <2>1, MaxOfTwo
  <2>3. allocator \in Nat /\ allocator >= a.allocator
    BY <2>1, <2>2
  <2>4. QED
    BY <2>3, ArchiveParts
<1>2. ensureThreadObservationSequenceSchema(a) = Rebuilt(c, "allocator")
  BY DEF ensureThreadObservationSequenceSchema
<1> HIDE DEF allocator, triggers
<1>3. c \in Archive /\ Kept(a, c, {"allocator", "triggers"})
      /\ c.allocator = allocator /\ c.triggers = triggers
  BY <1>1 DEF Kept, Archive
<1>4. "allocator" \in Tables
  BY DEF Tables
<1> HIDE DEF c
<1>5. LET b == Rebuilt(c, "allocator")
      IN /\ b \in Archive /\ Kept(c, b, {"shape"}) /\ b.shape["allocator"] = "current"
         /\ \A u \in Tables : u # "allocator" => b.shape[u] = c.shape[u]
  BY <1>3, <1>4, RebuiltIs
<1>6. LET b == ensureThreadObservationSequenceSchema(a)
      IN /\ b \in Archive /\ Kept(a, b, {"allocator", "shape", "triggers"})
         /\ b.allocator = allocator /\ b.triggers = triggers
         /\ b.shape["allocator"] = "current"
         /\ \A u \in Tables : u # "allocator" => b.shape[u] = a.shape[u]
  BY <1>2, <1>3, <1>5 DEF Kept
<1>7. QED
  BY <1>1, <1>6 DEF triggers

\* A write of the allocator alone.
LEMMA AllocatedIs ==
  ASSUME NEW a \in Archive, NEW n \in Nat
  PROVE  LET b == Wrote([a EXCEPT !.allocator = n], {"allocator"})
         IN /\ b \in Archive /\ Kept(a, b, {"allocator", "checked"}) /\ Marks(a, b)
            /\ b.allocator = n
            /\ ("allocator" \in a.triggers /\ a.checked = n) => b.checked = NoValue
<1> DEFINE c == [a EXCEPT !.allocator = n]
<1>1. c \in Archive /\ Kept(a, c, {"allocator"}) /\ c.allocator = n
  BY DEF Kept, Archive
<1> HIDE DEF c
<1>2. LET b == Wrote(c, {"allocator"})
      IN /\ b \in Archive /\ Kept(c, b, {"checked"}) /\ Marks(c, b)
         /\ ({"allocator"} \cap c.triggers # {} /\ c.checked = c.allocator)
              => b.checked = NoValue
  BY <1>1, WroteIs
<1>3. QED
  BY <1>1, <1>2 DEF Kept, Marks, c

LEMMA AllocatorRowIs ==
  ASSUME NEW a \in Archive
  PROVE  LET b == ensureThreadObservationSequenceRow(a)
         IN /\ b \in Archive /\ Kept(a, b, {"allocator", "checked"}) /\ Marks(a, b)
            /\ b.allocator >= a.allocator /\ b.allocator # NoValue
            /\ a.allocator # NoValue => b = a
<1>1. LET b == Wrote([a EXCEPT !.allocator = 0], {"allocator"})
      IN /\ b \in Archive /\ Kept(a, b, {"allocator", "checked"}) /\ Marks(a, b)
         /\ b.allocator = 0
  BY AllocatedIs
<1>2. Kept(a, a, {"allocator", "checked"}) /\ Marks(a, a) /\ a.allocator \in Int
  BY ArchiveParts DEF Kept, Marks
<1>3. QED
  BY <1>1, <1>2 DEF ensureThreadObservationSequenceRow, NoValue

LEMMA AllocatorFloorIs ==
  ASSUME NEW a \in Archive
  PROVE  LET b == ensureThreadObservationSequenceFloor(a)
         IN /\ b \in Archive /\ Kept(a, b, {"allocator", "checked"}) /\ Marks(a, b)
            /\ b.allocator >= a.allocator /\ b.allocator >= Floor(a)
            /\ a.allocator >= Floor(a) => b.allocator = a.allocator
<1> DEFINE n == Max({a.allocator, Floor(a)})
<1>1. n \in Nat /\ n >= a.allocator /\ n >= Floor(a)
      /\ (a.allocator >= Floor(a) => n = a.allocator)
  BY ArchiveParts, FloorIs, MaxOfTwo
<1>2. ensureThreadObservationSequenceFloor(a) = Wrote([a EXCEPT !.allocator = n], {"allocator"})
  BY DEF ensureThreadObservationSequenceFloor
<1> HIDE DEF n
<1>3. QED
  BY <1>1, <1>2, AllocatedIs

LEMMA NextSequenceIs ==
  ASSUME NEW a \in Archive
  PROVE  LET b == NextThreadObservationSequence(a)
         IN /\ b \in Archive /\ Kept(a, b, {"allocator", "checked"}) /\ Marks(a, b)
            /\ b.allocator \in Nat /\ b.allocator > a.allocator
            /\ a.allocator \in Nat => b.allocator = a.allocator + 1
            /\ a.allocator = NoValue => b.allocator = 1
<1> DEFINE n == Max({0, a.allocator}) + 1
<1>1. /\ n \in Nat /\ n > a.allocator
      /\ a.allocator \in Nat => n = a.allocator + 1
      /\ a.allocator = NoValue => n = 1
  <2>1. a.allocator \in Int /\ a.allocator >= -1 /\ 0 \in Int
    BY ArchiveParts
  <2>2. Max({0, a.allocator}) = IF 0 <= a.allocator THEN a.allocator ELSE 0
    BY <2>1, MaxOfTwo
  <2>3. QED
    BY <2>1, <2>2 DEF NoValue
<1>2. NextThreadObservationSequence(a) = Wrote([a EXCEPT !.allocator = n], {"allocator"})
  BY DEF NextThreadObservationSequence
<1> HIDE DEF n
<1>3. QED
  BY <1>1, <1>2, AllocatedIs

LEMMA TriggersIs ==
  ASSUME NEW a \in Archive
  PROVE  LET b == ensureObservationSchemaConvergence(a)
         IN b \in Archive /\ Kept(a, b, {"triggers"}) /\ b.triggers = Watched
BY DEF ensureObservationSchemaConvergence, Kept, Archive

LEMMA VersionIs ==
  ASSUME NEW a \in Archive, NEW n \in Nat
  PROVE  LET b == [a EXCEPT !.version = n]
         IN b \in Archive /\ Kept(a, b, {"version"}) /\ b.version = n
BY DEF Kept, Archive

LEMMA MarkIs ==
  ASSUME NEW a \in Archive
  PROVE  LET b == markObservationSchemaConverged(a)
         IN b \in Archive /\ Kept(a, b, {"checked"})
            /\ b.checked \in {a.checked, a.allocator}
BY DEF markObservationSchemaConverged, Kept, Archive

-----------------------------------------------------------------------------
(* What a sync and a prune write                                            *)

\* The observation of a fetch.
Observed(o) == o \in Orders /\ o.source \in 1..MaxSource /\ o.seq \in 1..MaxSequence

LEMMA ObservedIs ==
  ASSUME NEW o, Observed(o)
  PROVE  /\ [o EXCEPT !.seq = -o.seq] \in Orders
         /\ [o EXCEPT !.seq = -o.seq].seq = -o.seq
         /\ Value([o EXCEPT !.seq = -o.seq]) = o.seq
         /\ Value(o) = o.seq
         /\ o.seq \in Int /\ o.seq > 0 /\ o.source # Blank /\ o.seq # Lowest
BY SchemaAssumption, MalformedAssumption
   DEF Observed, Orders, Value, observationSequenceOrderValue, Lowest

LEMMA UpsertedIs ==
  ASSUME NEW a \in Archive, NEW o, Observed(o), NEW complete \in BOOLEAN
  PROVE  LET b == Upserted(a, o, complete)
         IN /\ b \in Archive /\ Kept(a, b, {"row", "evidence", "body", "checked"})
            /\ Marks(a, b)
            /\ b.row \in {a.row, o, [o EXCEPT !.seq = -o.seq]}
            /\ b.evidence \in {a.evidence, o}
            /\ b.body \in {a.body, "full"}
            /\ b = a \/ ("rows" \in a.triggers /\ a.checked = a.allocator
                           => b.checked = NoValue)
<1> DEFINE row == [o EXCEPT !.seq = IF complete THEN @ ELSE -@]
           evidence == IF complete /\ Accepts(a, o) THEN o ELSE a.evidence
           c == [a EXCEPT !.row = row, !.evidence = evidence, !.body = "full"]
<1>1. row \in {o, [o EXCEPT !.seq = -o.seq]}
  BY DEF Observed, Orders
<1>2. row \in Orders /\ evidence \in Orders
  BY <1>1, ObservedIs, ArchiveParts DEF Observed
<1>3. Upserted(a, o, complete) = IF ~Applies(a, o) THEN a ELSE Wrote(c, {"rows"})
  BY DEF Upserted
<1>4. evidence \in {a.evidence, o}
  OBVIOUS
<1> HIDE DEF row, evidence
<1>5. c \in Archive /\ Kept(a, c, {"row", "evidence", "body"})
      /\ c.row = row /\ c.evidence = evidence /\ c.body = "full"
  BY <1>2 DEF Kept, Archive
<1> HIDE DEF c
<1>6. LET b == Wrote(c, {"rows"})
      IN /\ b \in Archive /\ Kept(c, b, {"checked"}) /\ Marks(c, b)
         /\ ({"rows"} \cap c.triggers # {} /\ c.checked = c.allocator)
              => b.checked = NoValue
  BY <1>5, WroteIs
<1>7. CASE ~Applies(a, o)
  BY <1>3, <1>7 DEF Kept, Marks
<1>8. CASE Applies(a, o)
  <2>1. Upserted(a, o, complete) = Wrote(c, {"rows"})
    BY <1>3, <1>8
  <2>2. c.triggers = a.triggers /\ c.checked = a.checked /\ c.allocator = a.allocator
    BY <1>5 DEF Kept
  <2>3. ("rows" \in a.triggers /\ a.checked = a.allocator)
          => Wrote(c, {"rows"}).checked = NoValue
    BY <1>6, <2>2
  <2>4. LET b == Wrote(c, {"rows"})
        IN /\ Kept(a, b, {"row", "evidence", "body", "checked"}) /\ Marks(a, b)
           /\ b.row = row /\ b.evidence = evidence /\ b.body = "full"
    BY <1>5, <1>6 DEF Kept, Marks
  <2>5. QED
    BY <1>1, <1>4, <1>6, <2>1, <2>3, <2>4
<1>9. QED
  BY <1>7, <1>8

LEMMA PersistedIs ==
  ASSUME NEW a \in Archive, NEW o, Observed(o)
  PROVE  LET b == Persisted(a, o)
         IN /\ b \in Archive
            /\ Kept(a, b, {"row", "evidence", "body", "checked", "reserved", "revisions",
                           "details", "fence"})
            /\ Marks(a, b)
            /\ b.row \in {a.row, o, [o EXCEPT !.seq = -o.seq]}
            /\ b.evidence \in {a.evidence, o}
            /\ b.body \in {a.body, "full"}
            /\ b.revisions \in {a.revisions, a.revisions \cup {o}}
            /\ \A f \in Families :
                 \/ b.reserved[f] = a.reserved[f]
                 \/ b.reserved[f] = ReserveThreadChildObservation(a.reserved[f], o)
            /\ b.fence = ReserveWorkflowRunObservation(a.fence, o)
            /\ "rows" \in a.triggers /\ a.checked = a.allocator => b.checked = NoValue
<1> DEFINE u == Upserted(a, o, TRUE)
           reserved == [f \in Families |-> ReserveThreadChildObservation(u.reserved[f], o)]
           revisions == u.revisions \cup {o}
           v == [u EXCEPT !.reserved = reserved, !.revisions = revisions, !.details = TRUE]
           c == IF ~Accepts(a, o) THEN u ELSE v
           fence == ReserveWorkflowRunObservation(c.fence, o)
           d == [c EXCEPT !.fence = fence]
<1>1. /\ u \in Archive /\ Kept(a, u, {"row", "evidence", "body", "checked"})
      /\ Marks(a, u)
      /\ u.row \in {a.row, o, [o EXCEPT !.seq = -o.seq]}
      /\ u.evidence \in {a.evidence, o}
      /\ u.body \in {a.body, "full"}
  BY UpsertedIs
<1>2. Persisted(a, o) = Wrote(d, Watched)
  <2>1. u.reserved \in [Families -> SUBSET Orders]
    BY <1>1, ArchiveParts
  <2> HIDE DEF u
  <2>2. [u EXCEPT !.reserved = [f \in Families |-> ReserveThreadChildObservation(@[f], o)],
                  !.revisions = @ \cup {o}, !.details = TRUE] = v
    BY <2>1
  <2> HIDE DEF v
  <2>3. [c EXCEPT !.fence = ReserveWorkflowRunObservation(@, o)] = d
    OBVIOUS
  <2>4. QED
    BY <2>2, <2>3 DEF Persisted, u
<1> HIDE DEF u
<1>3. reserved \in [Families -> SUBSET Orders] /\ revisions \in SUBSET Orders
  BY <1>1, ArchiveParts DEF Observed, ReserveThreadChildObservation
<1>4. \A f \in Families : reserved[f] = ReserveThreadChildObservation(u.reserved[f], o)
  OBVIOUS
<1> HIDE DEF reserved
<1>5. revisions = u.revisions \cup {o}
  OBVIOUS
<1> HIDE DEF revisions
<1>6. v \in Archive /\ Kept(u, v, {"reserved", "revisions", "details"})
      /\ v.reserved = reserved /\ v.revisions = revisions
  BY <1>1, <1>3 DEF Kept, Archive
<1> HIDE DEF v
<1>7. c \in Archive /\ Kept(u, c, {"reserved", "revisions", "details"})
      /\ (c.reserved = u.reserved \/ c.reserved = reserved)
      /\ (c.revisions = u.revisions \/ c.revisions = revisions)
  BY <1>1, <1>6 DEF Kept
<1> HIDE DEF c
<1>8. fence \in SUBSET Orders /\ fence = ReserveWorkflowRunObservation(c.fence, o)
  BY <1>7, ArchiveParts DEF ReserveWorkflowRunObservation, Observed
<1> HIDE DEF fence
<1>9. d \in Archive /\ Kept(c, d, {"fence"}) /\ d.fence = fence
  BY <1>7, <1>8 DEF Kept, Archive
<1> HIDE DEF d
<1>10. LET b == Wrote(d, Watched)
       IN /\ b \in Archive /\ Kept(d, b, {"checked"}) /\ Marks(d, b)
          /\ (Watched \cap d.triggers # {} /\ d.checked = d.allocator)
               => b.checked = NoValue
  BY <1>9, WroteIs
<1>11. LET b == Wrote(d, Watched)
       IN /\ Kept(u, b, {"reserved", "revisions", "details", "fence", "checked"})
          /\ Marks(u, b)
          /\ b.reserved \in {u.reserved, reserved} /\ b.revisions \in {u.revisions, revisions}
          /\ b.fence = ReserveWorkflowRunObservation(u.fence, o)
          /\ (Watched \cap u.triggers # {} /\ u.checked = u.allocator)
               => b.checked = NoValue
  BY <1>7, <1>8, <1>9, <1>10 DEF Kept, Marks
<1>12. LET b == Wrote(d, Watched)
       IN /\ Kept(a, b, {"row", "evidence", "body", "checked", "reserved", "revisions",
                         "details", "fence"})
          /\ b.row = u.row /\ b.evidence = u.evidence /\ b.body = u.body
  BY <1>1, <1>11 DEF Kept
<1>13. u.reserved = a.reserved /\ u.revisions = a.revisions /\ u.fence = a.fence
       /\ u.triggers = a.triggers /\ u.allocator = a.allocator
  BY <1>1 DEF Kept
<1>14. LET b == Wrote(d, Watched)
       IN "rows" \in a.triggers /\ a.checked = a.allocator => b.checked = NoValue
  <2>1. "rows" \in Watched /\ a.allocator \in Int
    BY ArchiveParts DEF Watched
  <2>2. u.checked = NoValue => Wrote(d, Watched).checked = NoValue
    BY <1>11 DEF Marks
  <2>3. u.checked \in {a.checked, NoValue}
    BY <1>1 DEF Marks
  <2>4. QED
    BY <1>11, <1>13, <2>1, <2>2, <2>3
<1>15. Marks(a, Wrote(d, Watched))
  BY <1>1, <1>11 DEF Marks
<1>16. QED
  BY <1>1, <1>2, <1>4, <1>5, <1>10, <1>11, <1>12, <1>13, <1>14, <1>15

LEMMA ExcerptsIs ==
  ASSUME NEW a \in Archive, a.body # "dropped"
  PROVE  LET b == Excerpts(a)
         IN /\ b \in Archive /\ Kept(a, b, {"length", "body", "shape", "checked"})
            /\ Marks(a, b) /\ b.body = "excerpt"
            /\ b.shape["rows"] \in {a.shape["rows"], "old"}
            /\ \A u \in Tables : u # "rows" => b.shape[u] = a.shape[u]
<1> DEFINE length == IF a.body = "null" THEN a.length ELSE a.body
           shape == [a.shape EXCEPT !["rows"] = IF a.length = "unknown" THEN "old" ELSE @]
           c == [a EXCEPT !.length = length, !.body = "excerpt", !.shape = shape]
<1>1. length \in {"unknown", "full", "excerpt"}
  BY DEF Archive
<1>2. /\ shape \in [Tables -> Shapes]
      /\ shape["rows"] \in {a.shape["rows"], "old"}
      /\ \A u \in Tables : u # "rows" => shape[u] = a.shape[u]
  BY ArchiveParts DEF Tables, Shapes
<1>3. Excerpts(a) = Wrote(c, {"rows"})
  BY DEF Excerpts
<1> HIDE DEF length, shape
<1>4. c \in Archive /\ Kept(a, c, {"length", "body", "shape"})
      /\ c.body = "excerpt" /\ c.shape = shape
  BY <1>1, <1>2 DEF Kept, Archive
<1> HIDE DEF c
<1>5. LET b == Wrote(c, {"rows"})
      IN b \in Archive /\ Kept(c, b, {"checked"}) /\ Marks(c, b)
  BY <1>4, WroteIs
<1>6. QED
  BY <1>2, <1>3, <1>4, <1>5 DEF Kept, Marks

LEMMA CanonicalIs ==
  ASSUME NEW a \in Archive
  PROVE  LET b == canonicalizePortableSchema(a)
         IN /\ b \in Archive /\ Kept(a, b, {"shape", "body"})
            /\ b.shape["columns"] = "missing" /\ b.shape["rows"] = "old"
            /\ \A u \in Tables : u \notin {"columns", "rows", "keys"}
                                   => b.shape[u] = a.shape[u]
<1> DEFINE shape == [a.shape EXCEPT !["columns"] = "missing", !["rows"] = "old",
                                    !["keys"] = "missing"]
<1>1. /\ shape \in [Tables -> Shapes]
      /\ shape["columns"] = "missing" /\ shape["rows"] = "old"
      /\ \A u \in Tables : u \notin {"columns", "rows", "keys"} => shape[u] = a.shape[u]
  BY ArchiveParts DEF Tables, Shapes
<1>2. canonicalizePortableSchema(a) = [a EXCEPT !.shape = shape, !.body = "dropped"]
  BY DEF canonicalizePortableSchema
<1> HIDE DEF shape
<1>3. QED
  BY ZenonT(60), <1>1, <1>2 DEF Kept, Archive

-----------------------------------------------------------------------------
(* Every statement leaves a sound archive, and keeps what an inspection     *)
(* found                                                                    *)

Ordered == {"workflows", "children", "allocator"}

\* What a statement that takes a to b keeps, whoever executes it.
Keeps(a, b) ==
  /\ Sound(b)
  /\ Held(b) \subseteq Held(a) \cup {0, a.runs}
  /\ a.allocator <= b.allocator
  /\ Inspected(a) => Inspected(b)
  /\ \A t \in Ordered : a.shape[t] = "current" => b.shape[t] = "current"

Follows(a, b) == Keeps(a, b) /\ Marks(a, b)

\* The constraints that only a whole table has.
Constrained(s) == s \in {"missing", "current"}
Like(s, t) == (Constrained(t) => Constrained(s)) /\ (t = "unsourced" => s = "unsourced")

Dropped(a) == a.body = "dropped" => a.shape["columns"] = "missing" /\ a.version # 0

SameOrders(a, b) ==
  /\ b.row = a.row /\ b.evidence = a.evidence /\ b.revisions = a.revisions
  /\ b.reserved = a.reserved /\ b.fence = a.fence

LEMMA MarkBounded ==
  ASSUME NEW a, NEW b, Sound(a), b \in Archive, Marks(a, b), a.allocator <= b.allocator
  PROVE  b.checked <= b.allocator
<1>1. a \in Archive
  BY DEF Sound
<1>2. a.checked \in Int /\ a.allocator \in Int /\ b.checked \in Int
      /\ b.allocator \in Int /\ b.allocator >= -1
  BY <1>1, ArchiveParts
<1>3. QED
  BY <1>2 DEF Sound, Marks, NoValue

LEMMA InspectedFollows ==
  ASSUME NEW a \in Archive, NEW b \in Archive, Inspected(a), b.version # 0, b.runs = 0,
         b.evidence.seq >= 0, Held(b) \subseteq Held(a) \cup {0, a.runs},
         a.allocator <= b.allocator,
         \A t \in Ordered : b.shape[t] = "current"
  PROVE  Inspected(b)
<1>1. a.allocator >= 0 /\ \A n \in Held(a) : n <= a.allocator
  BY FloorReached DEF Inspected
<1>2. a.runs = 0 /\ a.allocator \in Int /\ b.allocator \in Int
  BY ArchiveParts DEF Inspected
<1>3. ASSUME NEW n \in Held(b) PROVE n <= b.allocator
  <2>1. n \in Int /\ (n = 0 \/ n \in Held(a))
    BY <1>2, FloorIs
  <2>2. n <= a.allocator
    BY <1>1, <2>1
  <2>3. QED
    BY <1>2, <2>1, <2>2
<1>4. b.allocator >= 0
  BY <1>1, <1>2
<1>5. b.allocator >= Floor(b)
  BY <1>3, <1>4, FloorReached
<1>6. b.allocator # NoValue
  BY <1>4 DEF NoValue
<1>7. QED
  BY <1>5, <1>6 DEF Inspected, Ordered

LEMMA SameFollows ==
  ASSUME NEW a, NEW b, Sound(a), b \in Archive, SameOrders(a, b), Marks(a, b),
         a.allocator <= b.allocator, b.runs \in {a.runs, 0},
         \A t \in {"rows", "workflows", "children"} : Like(a.shape[t], b.shape[t]),
         Dropped(b), a.version # 0 => b.version # 0,
         \A t \in Ordered : a.shape[t] = "current" => b.shape[t] = "current"
  PROVE  Follows(a, b)
<1>1. a \in Archive
  BY DEF Sound
<1>2. Held(b) = Held(a)
  BY DEF SameOrders, Held
<1>3. b.checked <= b.allocator
  BY MarkBounded
<1>4. b.runs <= MaxSequence /\ (b.runs > 0 => b.runs = a.runs)
  BY SchemaAssumption DEF Sound
<1>5. Sound(b)
  BY <1>3, <1>4 DEF Sound, SameOrders, Like, Constrained, Dropped
<1>6. ASSUME Inspected(a) PROVE Inspected(b)
  <2>1. b.runs = 0 /\ b.version # 0 /\ b.evidence.seq >= 0
    BY <1>6 DEF Inspected, SameOrders
  <2>2. \A t \in Ordered : b.shape[t] = "current"
    BY <1>6 DEF Inspected, Ordered
  <2>3. QED
    BY <1>1, <1>2, <1>6, <2>1, <2>2, InspectedFollows
<1>7. QED
  BY <1>2, <1>5, <1>6 DEF Follows, Keeps

LEMMA KeptOrders ==
  ASSUME NEW a, NEW b, NEW S, Kept(a, b, S),
         S \cap {"row", "evidence", "revisions", "reserved", "fence"} = {}
  PROVE  SameOrders(a, b)
BY DEF Kept, SameOrders

LEMMA SoundParts ==
  ASSUME NEW a, Sound(a)
  PROVE  /\ a \in Archive /\ a.allocator \in Int /\ a.runs \in Nat /\ a.runs <= MaxSequence
         /\ a.version \in Nat /\ Dropped(a) /\ Unequal(a.fence)
BY ArchiveParts DEF Sound, Dropped

LEMMA SchemaFollows ==
  ASSUME NEW a, Sound(a)
  PROVE  Follows(a, schemaSQL(a))
<1> DEFINE b == schemaSQL(a)
<1>1. /\ b \in Archive /\ Kept(a, b, {"shape"})
      /\ \A t \in Tables :
           b.shape[t] = IF a.shape[t] = "missing" /\ (t # "columns" \/ a.version = 0)
                        THEN "current" ELSE a.shape[t]
  BY SoundParts, SchemaIs
<1> HIDE DEF b
<1>2. SameOrders(a, b)
  BY <1>1, KeptOrders
<1>3. Marks(a, b) /\ b.allocator = a.allocator /\ b.runs = a.runs
      /\ b.version = a.version /\ b.body = a.body
  BY <1>1 DEF Kept, Marks
<1>4. /\ \A t \in {"rows", "workflows", "children"} : Like(a.shape[t], b.shape[t])
      /\ \A t \in Ordered : a.shape[t] = "current" => b.shape[t] = "current"
  BY <1>1 DEF Like, Constrained, Ordered, Tables
<1>5. Dropped(b)
  BY <1>1, <1>3, SoundParts DEF Dropped, Tables
<1>6. a.allocator <= b.allocator
  BY <1>3, SoundParts
<1>7. Follows(a, b)
  BY <1>1, <1>2, <1>3, <1>4, <1>5, <1>6, SameFollows
<1>8. QED
  BY <1>7 DEF b

LEMMA ColumnsFollow ==
  ASSUME NEW a, Sound(a)
  PROVE  Follows(a, ensureLegacyPortableColumns(a))
<1> DEFINE b == ensureLegacyPortableColumns(a)
<1>1. /\ b \in Archive /\ Kept(a, b, {"shape", "body"}) /\ b.body # "dropped"
      /\ \A u \in Tables : u # "columns" => b.shape[u] = a.shape[u]
  BY SoundParts, ColumnsIs
<1> HIDE DEF b
<1>2. SameOrders(a, b)
  BY <1>1, KeptOrders
<1>3. Marks(a, b) /\ b.allocator = a.allocator /\ b.runs = a.runs
      /\ b.version = a.version
  BY <1>1 DEF Kept, Marks
<1>4. /\ \A t \in {"rows", "workflows", "children"} : Like(a.shape[t], b.shape[t])
      /\ \A t \in Ordered : a.shape[t] = "current" => b.shape[t] = "current"
  BY <1>1 DEF Like, Constrained, Ordered, Tables
<1>5. Dropped(b)
  BY <1>1 DEF Dropped
<1>6. a.allocator <= b.allocator
  BY <1>3, SoundParts
<1>7. Follows(a, b)
  BY <1>1, <1>2, <1>3, <1>4, <1>5, <1>6, SameFollows
<1>8. QED
  BY <1>7 DEF b

\* A statement that rebuilds none of the constrained tables.
LEMMA PlainFollows ==
  ASSUME NEW a, NEW b, Sound(a), b \in Archive, NEW S, Kept(a, b, S),
         S \subseteq {"body", "length", "checked", "triggers", "allocator", "runs"},
         Marks(a, b), a.allocator <= b.allocator, b.runs \in {a.runs, 0},
         b.body \in {a.body, "excerpt"}
  PROVE  Follows(a, b)
<1>1. SameOrders(a, b)
  BY DEF Kept, SameOrders
<1>2. b.version = a.version /\ b.shape = a.shape
  BY DEF Kept
<1>3. /\ \A t \in {"rows", "workflows", "children"} : Like(a.shape[t], b.shape[t])
      /\ \A t \in Ordered : a.shape[t] = "current" => b.shape[t] = "current"
  BY <1>2 DEF Like, Constrained
<1>4. Dropped(b)
  BY <1>2, SoundParts DEF Dropped
<1>5. QED
  BY <1>1, <1>2, <1>3, <1>4, SameFollows

LEMMA BodiesFollow ==
  ASSUME NEW a, Sound(a), NEW found
  PROVE  Follows(a, BackfillBodies(a, found))
<1> DEFINE b == BackfillBodies(a, found)
<1>1. b \in Archive /\ Kept(a, b, {"body", "checked"}) /\ Marks(a, b)
      /\ b.body \in {a.body, "excerpt"}
  BY SoundParts, BodiesIs
<1> HIDE DEF b
<1>2. a.allocator <= b.allocator /\ b.runs \in {a.runs, 0}
  BY <1>1, SoundParts DEF Kept
<1>3. Follows(a, b)
  BY <1>1, <1>2, PlainFollows
<1>4. QED
  BY <1>3 DEF b

LEMMA RemoveFollows ==
  ASSUME NEW a, Sound(a)
  PROVE  Follows(a, RemoveLegacyRuns(a))
<1> DEFINE b == RemoveLegacyRuns(a)
<1>1. b \in Archive /\ Kept(a, b, {"runs", "checked"}) /\ Marks(a, b) /\ b.runs = 0
  BY SoundParts, RemoveIs
<1> HIDE DEF b
<1>2. a.allocator <= b.allocator /\ b.body \in {a.body, "excerpt"}
  BY <1>1, SoundParts DEF Kept
<1>3. Follows(a, b)
  BY <1>1, <1>2, PlainFollows
<1>4. QED
  BY <1>3 DEF b

LEMMA AllocatorRowFollows ==
  ASSUME NEW a, Sound(a)
  PROVE  Follows(a, ensureThreadObservationSequenceRow(a))
<1> DEFINE b == ensureThreadObservationSequenceRow(a)
<1>1. b \in Archive /\ Kept(a, b, {"allocator", "checked"}) /\ Marks(a, b)
      /\ b.allocator >= a.allocator
  BY SoundParts, AllocatorRowIs
<1> HIDE DEF b
<1>2. b.runs \in {a.runs, 0} /\ b.body \in {a.body, "excerpt"} /\ b.allocator \in Int
  BY <1>1, ArchiveParts DEF Kept
<1>3. Follows(a, b)
  BY <1>1, <1>2, SoundParts, PlainFollows
<1>4. QED
  BY <1>3 DEF b

LEMMA AllocatorFloorFollows ==
  ASSUME NEW a, Sound(a)
  PROVE  Follows(a, ensureThreadObservationSequenceFloor(a))
<1> DEFINE b == ensureThreadObservationSequenceFloor(a)
<1>1. b \in Archive /\ Kept(a, b, {"allocator", "checked"}) /\ Marks(a, b)
      /\ b.allocator >= a.allocator
  BY SoundParts, AllocatorFloorIs
<1> HIDE DEF b
<1>2. b.runs \in {a.runs, 0} /\ b.body \in {a.body, "excerpt"} /\ b.allocator \in Int
  BY <1>1, ArchiveParts DEF Kept
<1>3. Follows(a, b)
  BY <1>1, <1>2, SoundParts, PlainFollows
<1>4. QED
  BY <1>3 DEF b

LEMMA NextSequenceFollows ==
  ASSUME NEW a, Sound(a)
  PROVE  Follows(a, NextThreadObservationSequence(a))
<1> DEFINE b == NextThreadObservationSequence(a)
<1>1. b \in Archive /\ Kept(a, b, {"allocator", "checked"}) /\ Marks(a, b)
      /\ b.allocator > a.allocator
  BY SoundParts, NextSequenceIs
<1> HIDE DEF b
<1>2. b.runs \in {a.runs, 0} /\ b.body \in {a.body, "excerpt"} /\ b.allocator \in Int
  BY <1>1, ArchiveParts DEF Kept
<1>3. a.allocator <= b.allocator
  BY <1>1, <1>2, SoundParts
<1>4. Follows(a, b)
  BY <1>1, <1>2, <1>3, PlainFollows
<1>5. QED
  BY <1>4 DEF b

LEMMA TriggersFollow ==
  ASSUME NEW a, Sound(a)
  PROVE  Follows(a, ensureObservationSchemaConvergence(a))
<1> DEFINE b == ensureObservationSchemaConvergence(a)
<1>1. b \in Archive /\ Kept(a, b, {"triggers"})
  BY SoundParts, TriggersIs
<1> HIDE DEF b
<1>2. b.runs \in {a.runs, 0} /\ b.body \in {a.body, "excerpt"}
      /\ a.allocator <= b.allocator /\ Marks(a, b)
  BY <1>1, SoundParts DEF Kept, Marks
<1>3. Follows(a, b)
  BY <1>1, <1>2, PlainFollows
<1>4. QED
  BY <1>3 DEF b

\* The schemas of the tables of families, of keys and of the allocator.
LEMMA RebuiltFollows ==
  ASSUME NEW a, NEW b, Sound(a), b \in Archive, NEW S, Kept(a, b, S),
         S \subseteq {"shape", "triggers", "allocator"}, a.allocator <= b.allocator,
         NEW t \in {"families", "keys", "allocator"}, b.shape[t] = "current",
         \A u \in Tables : u # t => b.shape[u] = a.shape[u]
  PROVE  Follows(a, b)
<1>1. SameOrders(a, b) /\ Marks(a, b)
  BY DEF Kept, SameOrders, Marks
<1>2. b.version = a.version /\ b.body = a.body /\ b.runs = a.runs
  BY DEF Kept
<1>3. /\ \A u \in {"rows", "workflows", "children"} : Like(a.shape[u], b.shape[u])
      /\ \A u \in Ordered : a.shape[u] = "current" => b.shape[u] = "current"
  BY DEF Like, Constrained, Ordered, Tables
<1>4. Dropped(b)
  BY <1>2, SoundParts DEF Dropped, Tables
<1>5. QED
  BY <1>1, <1>2, <1>3, <1>4, SameFollows

LEMMA FamiliesFollow ==
  ASSUME NEW a, Sound(a)
  PROVE  Follows(a, ensureFamilyTombstoneSchema(a))
<1> DEFINE b == ensureFamilyTombstoneSchema(a)
<1>1. b \in Archive /\ Kept(a, b, {"shape"}) /\ b.shape["families"] = "current"
      /\ \A u \in Tables : u # "families" => b.shape[u] = a.shape[u]
  BY SoundParts, FamiliesIs
<1> HIDE DEF b
<1>2. a.allocator <= b.allocator
  BY <1>1, SoundParts DEF Kept
<1>3. Follows(a, b)
  BY <1>1, <1>2, RebuiltFollows
<1>4. QED
  BY <1>3 DEF b

LEMMA KeysFollow ==
  ASSUME NEW a, Sound(a)
  PROVE  Follows(a, ensureKeys(a))
<1> DEFINE b == ensureKeys(a)
<1>1. b \in Archive /\ Kept(a, b, {"shape"}) /\ b.shape["keys"] = "current"
      /\ \A u \in Tables : u # "keys" => b.shape[u] = a.shape[u]
  BY SoundParts, KeysIs
<1> HIDE DEF b
<1>2. a.allocator <= b.allocator
  BY <1>1, SoundParts DEF Kept
<1>3. Follows(a, b)
  BY <1>1, <1>2, RebuiltFollows
<1>4. QED
  BY <1>3 DEF b

LEMMA AllocatorFollows ==
  ASSUME NEW a, Sound(a)
  PROVE  Follows(a, ensureThreadObservationSequenceSchema(a))
<1> DEFINE b == ensureThreadObservationSequenceSchema(a)
<1>1. b \in Archive /\ Kept(a, b, {"allocator", "shape", "triggers"})
      /\ b.shape["allocator"] = "current" /\ b.allocator >= a.allocator
      /\ \A u \in Tables : u # "allocator" => b.shape[u] = a.shape[u]
  BY SoundParts, AllocatorIs
<1> HIDE DEF b
<1>2. a.allocator <= b.allocator
  BY <1>1, SoundParts, ArchiveParts
<1>3. Follows(a, b)
  BY <1>1, <1>2, RebuiltFollows
<1>4. QED
  BY <1>3 DEF b

LEMMA ClocksKeepSequences ==
  ASSUME NEW S \in SUBSET Orders, NEW shape, NEW q \in Clocks(S, shape)
  PROVE  \E r \in S : q.seq = r.seq
<1>1. \A u \in Clocks(S, shape) : \E r \in S : u.seq = r.seq /\ u.source \in {r.source, Blank}
  BY ClocksIs
<1>2. QED
  BY <1>1

LEMMA ValueOfZero ==
  ASSUME NEW o \in Orders
  PROVE  Value([o EXCEPT !.seq = 0]) = 0
BY DEF Orders, Value, observationSequenceOrderValue

LEMMA RowsFollow ==
  ASSUME NEW a, Sound(a)
  PROVE  Follows(a, ensureCanonicalObservationTables(a))
<1> DEFINE b == ensureCanonicalObservationTables(a)
<1>1. /\ b \in Archive
      /\ Kept(a, b, {"row", "evidence", "revisions", "shape", "triggers"})
      /\ b.row = IF a.row.seq = Lowest THEN [a.row EXCEPT !.seq = 0] ELSE a.row
      /\ b.evidence = [a.evidence EXCEPT !.seq = Accepted(a.evidence.seq)]
      /\ b.revisions = {[r EXCEPT !.seq = Accepted(r.seq)] : r \in a.revisions}
      /\ b.shape["rows"] = "current"
      /\ \A u \in Tables : u # "rows" => b.shape[u] = a.shape[u]
  BY SoundParts, RowsIs
<1> HIDE DEF b
<1>2. Value(b.row) \in {Value(a.row), 0}
  BY <1>1, SoundParts, ArchiveParts, ValueOfZero
<1>3. ASSUME NEW o \in Orders
      PROVE  LET q == [o EXCEPT !.seq = Accepted(o.seq)]
             IN q.seq \in {o.seq, 0} /\ q.seq >= 0 /\ q.seq \in Int
  BY OrderIs DEF Orders, Accepted
<1>4. b.evidence.seq \in {a.evidence.seq, 0} /\ b.evidence.seq >= 0
  BY <1>1, <1>3, SoundParts, ArchiveParts
<1>5. ASSUME NEW r \in b.revisions
      PROVE  r.seq = 0 \/ \E q \in a.revisions : r.seq = q.seq
  <2>1. PICK q \in a.revisions : r = [q EXCEPT !.seq = Accepted(q.seq)]
    BY <1>1
  <2>2. q \in Orders
    BY SoundParts, ArchiveParts
  <2>3. r.seq \in {q.seq, 0}
    BY <1>3, <2>1, <2>2
  <2>4. QED
    BY <2>3
<1>6. b.reserved = a.reserved /\ b.fence = a.fence /\ b.runs = a.runs
      /\ b.allocator = a.allocator /\ b.checked = a.checked
      /\ b.version = a.version /\ b.body = a.body
  BY <1>1 DEF Kept
<1>7. Held(b) \subseteq Held(a) \cup {0, a.runs}
  BY <1>2, <1>4, <1>5, <1>6, HeldMembers
<1>8. Sound(b)
  BY <1>1, <1>4, <1>6 DEF Sound, Tables
<1>9. ASSUME Inspected(a) PROVE Inspected(b)
  <2>1. \A t \in Ordered : b.shape[t] = "current"
    BY <1>1, <1>9 DEF Inspected, Ordered, Tables
  <2>2. b.runs = 0 /\ b.version # 0 /\ a.allocator <= b.allocator
    BY <1>6, <1>9, SoundParts DEF Inspected
  <2>3. QED
    BY <1>1, <1>4, <1>7, <1>9, <2>1, <2>2, SoundParts, InspectedFollows
<1>10. Follows(a, b)
  <2>1. \A t \in Ordered : a.shape[t] = "current" => b.shape[t] = "current"
    BY <1>1 DEF Ordered, Tables
  <2>2. QED
    BY <1>6, <1>7, <1>8, <1>9, <2>1, SoundParts DEF Follows, Keeps, Marks
<1>11. QED
  BY <1>10 DEF b

\* A statement that writes orders, and no table's shape.
LEMMA WriteFollows ==
  ASSUME NEW a, NEW b, Sound(a), b \in Archive, Marks(a, b), NEW S, Kept(a, b, S),
         S \subseteq {"row", "evidence", "revisions", "details", "reserved", "fence",
                      "body", "checked"},
         Held(b) \subseteq Held(a) \cup {0, a.runs},
         b.evidence.seq >= 0 \/ b.evidence = a.evidence,
         b.body \in {a.body, "full"},
         b.fence = a.fence \/ (Single(b.fence) /\
           \A r \in b.fence : r.source = Blank \/ (a.runs = 0 /\ a.shape["workflows"] # "unsourced")),
         \A f \in Families :
           b.reserved[f] = a.reserved[f]
             \/ (Single(b.reserved[f]) /\
                   (a.shape["children"] # "unsourced" \/ \A r \in b.reserved[f] : r.source = Blank))
  PROVE  Follows(a, b)
<1>1. b.version = a.version /\ b.shape = a.shape /\ b.runs = a.runs
      /\ b.allocator = a.allocator
  BY DEF Kept
<1>2. a \in Archive /\ a.allocator <= b.allocator
  BY <1>1, SoundParts
<1>3. b.checked <= b.allocator
  BY <1>2, MarkBounded
<1>4. Sound(b)
  <2>1. Unequal(b.fence)
    BY SoundParts DEF Unequal, Single
  <2>2. /\ b.shape["rows"] \in {"missing", "current"} => b.evidence.seq >= 0
        /\ b.body = "dropped" => b.shape["columns"] = "missing" /\ b.version # 0
    BY <1>1 DEF Sound
  <2>3. /\ b.shape["workflows"] \in {"missing", "current"} => Single(b.fence)
        /\ b.shape["workflows"] = "unsourced" => \A r \in b.fence : r.source = Blank
        /\ b.runs > 0 => \A r \in b.fence : r.source = Blank
    BY <1>1 DEF Sound
  <2>4. b.shape["children"] \in {"missing", "current"}
          => b.runs = 0 /\ \A f \in Families : Single(b.reserved[f])
    BY <1>1 DEF Sound
  <2>5. b.shape["children"] = "unsourced"
          => \A f \in Families : \A r \in b.reserved[f] : r.source = Blank
    BY <1>1 DEF Sound
  <2>6. b.runs <= MaxSequence
    BY <1>1, SoundParts
  <2>7. QED
    BY <1>3, <2>1, <2>2, <2>3, <2>4, <2>5, <2>6 DEF Sound
<1>5. ASSUME Inspected(a) PROVE Inspected(b)
  <2>1. /\ \A t \in Ordered : b.shape[t] = "current"
        /\ b.runs = 0 /\ b.version # 0 /\ b.evidence.seq >= 0
    BY <1>1, <1>5 DEF Inspected, Ordered
  <2>2. QED
    BY <1>2, <1>5, <2>1, InspectedFollows
<1>6. QED
  BY <1>1, <1>2, <1>4, <1>5 DEF Follows, Keeps

LEMMA ValuesFollow ==
  ASSUME NEW a, Sound(a)
  PROVE  Follows(a, ensureThreadObservationSequenceValues(a))
<1> DEFINE b == ensureThreadObservationSequenceValues(a)
<1>1. b \in Archive /\ Kept(a, b, {"row", "checked"}) /\ Marks(a, b)
      /\ b.row = IF a.row.seq = Lowest THEN [a.row EXCEPT !.seq = 0] ELSE a.row
  BY SoundParts, ValuesIs
<1> HIDE DEF b
<1>2. Value(b.row) \in {Value(a.row), 0}
  BY <1>1, SoundParts, ArchiveParts, ValueOfZero
<1>3. b.evidence = a.evidence /\ b.revisions = a.revisions /\ b.reserved = a.reserved
      /\ b.fence = a.fence /\ b.body = a.body
  BY <1>1 DEF Kept
<1>4. Held(b) \subseteq Held(a) \cup {0, a.runs}
  BY <1>2, <1>3, HeldMembers
<1>5. Follows(a, b)
  BY <1>1, <1>3, <1>4, WriteFollows
<1>6. QED
  BY <1>5 DEF b

LEMMA EvidenceFollows ==
  ASSUME NEW a, Sound(a)
  PROVE  Follows(a, ensureThreadEvidenceObservationSequence(a))
<1> DEFINE b == ensureThreadEvidenceObservationSequence(a)
<1>1. /\ b \in Archive /\ Kept(a, b, {"evidence", "checked"}) /\ Marks(a, b)
      /\ \/ b.evidence.seq > 0 /\ \E r \in a.revisions : r.seq = b.evidence.seq
         \/ b.evidence = a.evidence
  BY SoundParts, EvidenceIs
<1> HIDE DEF b
<1>2. b.row = a.row /\ b.revisions = a.revisions /\ b.reserved = a.reserved
      /\ b.fence = a.fence /\ b.body = a.body
  BY <1>1 DEF Kept
<1>3. Held(b) \subseteq Held(a) \cup {0, a.runs}
  BY <1>1, <1>2, HeldMembers
<1>4. b.evidence.seq >= 0 \/ b.evidence = a.evidence
  BY <1>1, ArchiveParts, OrderIs
<1>5. Follows(a, b)
  BY <1>1, <1>2, <1>3, <1>4, WriteFollows
<1>6. QED
  BY <1>5 DEF b

\* A fence that is raised, by the evidence or by a legacy reservation.
LEMMA RaisesFollows ==
  ASSUME NEW a, NEW b, Sound(a), NEW n, Raises(a, b, n), n \in Held(a) \cup {a.runs}
  PROVE  Follows(a, b)
<1>1. b \in Archive /\ Kept(a, b, {"fence", "checked"}) /\ Marks(a, b)
      /\ (b.fence = a.fence \/ b.fence = {[source |-> Blank, seq |-> n]})
  BY DEF Raises
<1>2. b.row = a.row /\ b.evidence = a.evidence /\ b.revisions = a.revisions
      /\ b.reserved = a.reserved /\ b.body = a.body
  BY <1>1 DEF Kept
<1>3. Held(b) \subseteq Held(a) \cup {0, a.runs}
  BY <1>1, <1>2, HeldMembers
<1>4. b.fence = a.fence \/ (Single(b.fence) /\ \A r \in b.fence : r.source = Blank)
  BY <1>1 DEF Single
<1>5. QED
  BY <1>1, <1>2, <1>3, <1>4, WriteFollows

LEMMA BackfillFenceFollows ==
  ASSUME NEW a, Sound(a)
  PROVE  Follows(a, BackfillFence(a))
<1>1. Raises(a, BackfillFence(a), a.evidence.seq)
  BY SoundParts, BackfillFenceIs
<1>2. a.evidence.seq \in Held(a)
  BY HeldMembers
<1>3. QED
  BY <1>1, <1>2, RaisesFollows

LEMMA RecoverFollows ==
  ASSUME NEW a, Sound(a)
  PROVE  Follows(a, RecoverLegacyRuns(a))
<1>1. Raises(a, RecoverLegacyRuns(a), a.runs)
  BY SoundParts, RecoverIs
<1>2. QED
  BY <1>1, RaisesFollows

LEMMA ReservationsFollow ==
  ASSUME NEW a, Sound(a), a.shape["children"] # "unsourced" \/ a.evidence.source = Blank
  PROVE  Follows(a, ensureThreadChildObservationReservations(a))
<1> DEFINE b == ensureThreadChildObservationReservations(a)
<1>1. /\ b \in Archive /\ Kept(a, b, {"reserved", "checked"}) /\ Marks(a, b)
      /\ \A f \in Families : \/ b.reserved[f] = a.reserved[f]
                             \/ a.reserved[f] = {} /\ b.reserved[f] = {a.evidence}
  BY SoundParts, ReservationsIs
<1> HIDE DEF b
<1>2. b.row = a.row /\ b.evidence = a.evidence /\ b.revisions = a.revisions
      /\ b.fence = a.fence /\ b.body = a.body
  BY <1>1 DEF Kept
<1>3. Held(b) \subseteq Held(a) \cup {0, a.runs}
  <2>1. ASSUME NEW n \in Held(b) PROVE n \in Held(a)
    BY <1>1, <1>2, HeldMembers
  <2>2. QED
    BY <2>1
<1>4. ASSUME NEW f \in Families
      PROVE  b.reserved[f] = a.reserved[f]
             \/ (Single(b.reserved[f]) /\
                   (a.shape["children"] # "unsourced" \/ \A r \in b.reserved[f] : r.source = Blank))
  BY <1>1 DEF Single
<1>5. Follows(a, b)
  BY <1>1, <1>2, <1>3, <1>4, WriteFollows
<1>6. QED
  BY <1>5 DEF b

LEMMA WorkflowsFollow ==
  ASSUME NEW a, Sound(a), NEW shape
  PROVE  Follows(a, ensureWorkflowRunObservationReservationsSchema(a, shape))
<1> DEFINE b == ensureWorkflowRunObservationReservationsSchema(a, shape)
<1>1. /\ b \in Archive /\ Kept(a, b, {"fence", "shape", "triggers"})
      /\ b.fence = IF a.fence = {} THEN {} ELSE {FirstRun(Clocks(a.fence, shape))}
      /\ a.fence # {} => FirstRun(Clocks(a.fence, shape)) \in Clocks(a.fence, shape)
      /\ b.shape["workflows"] = "current"
      /\ \A u \in Tables : u # "workflows" => b.shape[u] = a.shape[u]
  BY SoundParts, WorkflowsIs
<1> HIDE DEF b
<1>2. \A r \in b.fence : \E q \in a.fence : r.seq = q.seq /\ r.source \in {q.source, Blank}
  BY <1>1, SoundParts, ArchiveParts, ClocksIs
<1>3. b.row = a.row /\ b.evidence = a.evidence /\ b.revisions = a.revisions
      /\ b.reserved = a.reserved /\ b.runs = a.runs
      /\ b.allocator = a.allocator /\ b.checked = a.checked
      /\ b.version = a.version /\ b.body = a.body
  BY <1>1 DEF Kept
<1>4. Held(b) \subseteq Held(a) \cup {0, a.runs}
  BY <1>2, <1>3, HeldMembers
<1>5. Single(b.fence) /\ Unequal(b.fence)
  BY <1>1 DEF Single, Unequal
<1>6. Sound(b)
  BY <1>1, <1>2, <1>3, <1>5 DEF Sound, Tables
<1>7. ASSUME Inspected(a) PROVE Inspected(b)
  <2>1. \A t \in Ordered : b.shape[t] = "current"
    BY <1>1, <1>7 DEF Inspected, Ordered, Tables
  <2>2. b.runs = 0 /\ b.version # 0 /\ a.allocator <= b.allocator /\ b.evidence.seq >= 0
    BY <1>3, <1>7, SoundParts DEF Inspected
  <2>3. QED
    BY <1>1, <1>4, <1>7, <2>1, <2>2, SoundParts, InspectedFollows
<1>8. Follows(a, b)
  <2>1. \A t \in Ordered : a.shape[t] = "current" => b.shape[t] = "current"
    BY <1>1 DEF Ordered, Tables
  <2>2. QED
    BY <1>3, <1>4, <1>6, <1>7, <2>1, SoundParts DEF Follows, Keeps, Marks
<1>9. QED
  BY <1>8 DEF b

LEMMA ChildrenFollow ==
  ASSUME NEW a, Sound(a), NEW shape
  PROVE  Follows(a, ensureThreadChildObservationReservationsSchema(a, shape))
<1> DEFINE b == ensureThreadChildObservationReservationsSchema(a, shape)
<1>1. /\ b \in Archive /\ Kept(a, b, {"reserved", "runs", "shape", "triggers"})
      /\ b.runs = 0
      /\ \A f \in Families :
           /\ b.reserved[f] = IF a.reserved[f] = {} THEN {}
                              ELSE {First(Clocks(a.reserved[f], shape))}
           /\ a.reserved[f] # {} =>
                First(Clocks(a.reserved[f], shape)) \in Clocks(a.reserved[f], shape)
      /\ b.shape["children"] = "current"
      /\ \A u \in Tables : u # "children" => b.shape[u] = a.shape[u]
  BY SoundParts, ChildrenIs
<1> HIDE DEF b
<1>2. ASSUME NEW f \in Families
      PROVE  /\ Single(b.reserved[f])
             /\ \A r \in b.reserved[f] : \E q \in a.reserved[f] : r.seq = q.seq
  <2>1. a.reserved[f] \in SUBSET Orders
    BY SoundParts, ArchiveParts
  <2>2. CASE a.reserved[f] = {}
    BY <1>1, <2>2 DEF Single
  <2>3. CASE a.reserved[f] # {}
    <3>1. b.reserved[f] = {First(Clocks(a.reserved[f], shape))}
      BY <1>1, <2>3
    <3>2. First(Clocks(a.reserved[f], shape)) \in Clocks(a.reserved[f], shape)
      BY <1>1, <2>3
    <3>3. \A q \in Clocks(a.reserved[f], shape) : \E r \in a.reserved[f] : q.seq = r.seq
      BY <2>1, ClocksKeepSequences
    <3>4. QED
      BY <3>1, <3>2, <3>3 DEF Single
  <2>4. QED
    BY <2>2, <2>3
<1>3. b.row = a.row /\ b.evidence = a.evidence /\ b.revisions = a.revisions
      /\ b.fence = a.fence /\ b.allocator = a.allocator /\ b.checked = a.checked
      /\ b.version = a.version /\ b.body = a.body
  BY <1>1 DEF Kept
<1>4. Held(b) \subseteq Held(a) \cup {0, a.runs}
  BY <1>2, <1>3, HeldMembers
<1>5. Sound(b)
  BY <1>1, <1>2, <1>3, SchemaAssumption DEF Sound, Tables
<1>6. ASSUME Inspected(a) PROVE Inspected(b)
  <2>1. \A t \in Ordered : b.shape[t] = "current"
    BY <1>1, <1>6 DEF Inspected, Ordered, Tables
  <2>2. b.version # 0 /\ a.allocator <= b.allocator /\ b.evidence.seq >= 0
    BY <1>3, <1>6, SoundParts DEF Inspected
  <2>3. QED
    BY <1>1, <1>4, <1>6, <2>1, <2>2, SoundParts, InspectedFollows
<1>7. Follows(a, b)
  <2>1. \A t \in Ordered : a.shape[t] = "current" => b.shape[t] = "current"
    BY <1>1 DEF Ordered, Tables
  <2>2. QED
    BY <1>3, <1>4, <1>5, <1>6, <2>1, SoundParts DEF Follows, Keeps, Marks
<1>8. QED
  BY <1>7 DEF b

LEMMA VersionFollows ==
  ASSUME NEW a, Sound(a), NEW n \in {Supported, Portable}
  PROVE  Follows(a, [a EXCEPT !.version = n])
<1> DEFINE b == [a EXCEPT !.version = n]
<1>1. n \in Nat /\ n # 0
  BY DEF Supported, Portable
<1>2. b \in Archive /\ Kept(a, b, {"version"}) /\ b.version = n
  BY <1>1, SoundParts, VersionIs
<1> HIDE DEF b
<1>3. SameOrders(a, b) /\ Marks(a, b) /\ b.allocator = a.allocator /\ b.runs = a.runs
      /\ b.body = a.body /\ b.shape = a.shape
  BY <1>2 DEF Kept, SameOrders, Marks
<1>4. /\ \A t \in {"rows", "workflows", "children"} : Like(a.shape[t], b.shape[t])
      /\ \A t \in Ordered : a.shape[t] = "current" => b.shape[t] = "current"
  BY <1>3 DEF Like, Constrained
<1>5. Dropped(b) /\ b.version # 0 /\ a.allocator <= b.allocator
  BY <1>1, <1>2, <1>3, SoundParts DEF Dropped
<1>6. Follows(a, b)
  BY <1>2, <1>3, <1>4, <1>5, SameFollows
<1>7. QED
  BY <1>6 DEF b

LEMMA ExcerptsFollow ==
  ASSUME NEW a, Sound(a), a.shape["columns"] = "current"
  PROVE  Follows(a, Excerpts(a))
<1> DEFINE b == Excerpts(a)
<1>0. a.body # "dropped"
  BY SoundParts DEF Dropped
<1>1. /\ b \in Archive /\ Kept(a, b, {"length", "body", "shape", "checked"})
      /\ Marks(a, b) /\ b.body = "excerpt"
      /\ b.shape["rows"] \in {a.shape["rows"], "old"}
      /\ \A u \in Tables : u # "rows" => b.shape[u] = a.shape[u]
  BY <1>0, SoundParts, ExcerptsIs
<1> HIDE DEF b
<1>2. SameOrders(a, b) /\ b.allocator = a.allocator /\ b.runs = a.runs
      /\ b.version = a.version
  BY <1>1 DEF Kept, SameOrders
<1>3. /\ \A t \in {"rows", "workflows", "children"} : Like(a.shape[t], b.shape[t])
      /\ \A t \in Ordered : a.shape[t] = "current" => b.shape[t] = "current"
  BY <1>1 DEF Like, Constrained, Ordered, Tables
<1>4. Dropped(b) /\ a.allocator <= b.allocator
  BY <1>1, <1>2, SoundParts DEF Dropped
<1>5. Follows(a, b)
  BY <1>1, <1>2, <1>3, <1>4, SameFollows
<1>6. QED
  BY <1>5 DEF b

LEMMA CanonicalFollows ==
  ASSUME NEW a, Sound(a), a.version # 0
  PROVE  Follows(a, canonicalizePortableSchema(a))
<1> DEFINE b == canonicalizePortableSchema(a)
<1>1. /\ b \in Archive /\ Kept(a, b, {"shape", "body"})
      /\ b.shape["columns"] = "missing" /\ b.shape["rows"] = "old"
      /\ \A u \in Tables : u \notin {"columns", "rows", "keys"} => b.shape[u] = a.shape[u]
  BY SoundParts, CanonicalIs
<1> HIDE DEF b
<1>2. SameOrders(a, b) /\ b.allocator = a.allocator /\ b.runs = a.runs
      /\ b.version = a.version /\ Marks(a, b)
  BY <1>1 DEF Kept, SameOrders, Marks
<1>3. /\ \A t \in {"rows", "workflows", "children"} : Like(a.shape[t], b.shape[t])
      /\ \A t \in Ordered : a.shape[t] = "current" => b.shape[t] = "current"
  BY <1>1 DEF Like, Constrained, Ordered, Tables
<1>4. Dropped(b) /\ a.allocator <= b.allocator
  BY <1>1, <1>2, SoundParts DEF Dropped
<1>5. Follows(a, b)
  BY <1>1, <1>2, <1>3, <1>4, SameFollows
<1>6. QED
  BY <1>5 DEF b

\* What a transaction that persists o in an inspected archive leaves.
Stores(a, b, o) ==
  /\ Sound(b) /\ Inspected(b)
  /\ Held(b) \subseteq Held(a) \cup {0, o.seq}
  /\ b.allocator = a.allocator
  /\ Marks(a, b)

LEMMA SyncStores ==
  ASSUME NEW a, NEW b, Sound(a), Inspected(a), NEW o, Observed(o), o.seq <= a.allocator,
         b \in Archive, Marks(a, b),
         Kept(a, b, {"row", "evidence", "body", "checked", "reserved", "revisions",
                     "details", "fence"}),
         b.row \in {a.row, o, [o EXCEPT !.seq = -o.seq]},
         b.evidence \in {a.evidence, o}, b.body \in {a.body, "full"},
         b.revisions \in {a.revisions, a.revisions \cup {o}},
         \A f \in Families : b.reserved[f] = a.reserved[f] \/ b.reserved[f] = {o},
         b.fence = a.fence \/ b.fence = {o}
  PROVE  Stores(a, b, o)
<1>1. /\ b.version = a.version /\ b.shape = a.shape /\ b.runs = a.runs
      /\ b.allocator = a.allocator
  BY DEF Kept
<1>2. a \in Archive /\ a.allocator <= b.allocator
  BY <1>1, SoundParts
<1>3. a.runs = 0 /\ \A t \in Ordered : a.shape[t] = "current"
  BY DEF Inspected, Ordered
<1>4. b.evidence.seq >= 0
  <2>1. o.seq \in Int /\ o.seq > 0
    BY ObservedIs
  <2>2. a.evidence.seq >= 0
    BY DEF Inspected
  <2>3. QED
    BY <2>1, <2>2
<1>5. Held(b) \subseteq Held(a) \cup {0, o.seq}
  <2>1. Value(b.row) \in {Value(a.row), o.seq}
    BY ObservedIs
  <2>2. ASSUME NEW n \in Held(b) PROVE n \in Held(a) \cup {o.seq}
    <3>1. CASE n = Value(b.row) \/ n = b.evidence.seq
      BY <2>1, <3>1, HeldMembers
    <3>2. CASE \E r \in b.revisions : n = r.seq
      BY <3>2, HeldMembers
    <3>3. CASE \E f \in Families : \E r \in b.reserved[f] : n = r.seq
      BY <3>3, HeldMembers
    <3>4. CASE \E r \in b.fence : n = r.seq
      BY <3>4, HeldMembers
    <3>5. QED
      BY <3>1, <3>2, <3>3, <3>4, HeldMembers
  <2>3. QED
    BY <2>2
<1>6. b.checked <= b.allocator
  BY <1>2, MarkBounded
<1>7. Sound(b)
  <2>1. Unequal(b.fence) /\ (b.shape["workflows"] \in {"missing", "current"} => Single(b.fence))
    BY <1>1 DEF Sound, Unequal, Single
  <2>2. \A f \in Families : Single(b.reserved[f])
    BY <1>1, <1>3 DEF Sound, Single, Ordered
  <2>3. b.shape["workflows"] = "current" /\ b.shape["children"] = "current"
    BY <1>1, <1>3 DEF Ordered
  <2>4. b.runs = 0 /\ b.runs <= MaxSequence
    BY <1>1, <1>3, SchemaAssumption
  <2>5. Dropped(b)
    BY <1>1, SoundParts DEF Dropped
  <2>6. QED
    BY <1>4, <1>6, <2>1, <2>2, <2>3, <2>4, <2>5 DEF Sound, Dropped
<1>8. Inspected(b)
  <2>1. b.allocator >= Floor(b)
    <3>1. a.allocator >= 0 /\ \A n \in Held(a) : n <= a.allocator
      BY <1>2, FloorReached DEF Inspected
    <3>2. \A n \in Held(b) : n <= b.allocator
      BY <1>1, <1>5, <3>1
    <3>3. QED
      BY <1>1, <3>1, <3>2, FloorReached
  <2>2. QED
    BY <1>1, <1>4, <2>1 DEF Inspected
<1>9. QED
  BY <1>1, <1>5, <1>7, <1>8 DEF Stores

LEMMA UpsertStores ==
  ASSUME NEW a, Sound(a), Inspected(a), NEW o, Observed(o), o.seq <= a.allocator,
         NEW complete \in BOOLEAN
  PROVE  Stores(a, Upserted(a, o, complete), o)
<1> DEFINE b == Upserted(a, o, complete)
<1>1. /\ b \in Archive /\ Kept(a, b, {"row", "evidence", "body", "checked"}) /\ Marks(a, b)
      /\ b.row \in {a.row, o, [o EXCEPT !.seq = -o.seq]}
      /\ b.evidence \in {a.evidence, o} /\ b.body \in {a.body, "full"}
  BY SoundParts, UpsertedIs
<1> HIDE DEF b
<1>2. /\ Kept(a, b, {"row", "evidence", "body", "checked", "reserved", "revisions",
                     "details", "fence"})
      /\ b.revisions = a.revisions /\ b.reserved = a.reserved /\ b.fence = a.fence
  BY <1>1 DEF Kept
<1>3. Stores(a, b, o)
  BY <1>1, <1>2, SyncStores
<1>4. QED
  BY <1>3 DEF b

LEMMA PersistStores ==
  ASSUME NEW a, Sound(a), Inspected(a), NEW o, Observed(o), o.seq <= a.allocator
  PROVE  Stores(a, Persisted(a, o), o)
<1> DEFINE b == Persisted(a, o)
<1>1. /\ b \in Archive
      /\ Kept(a, b, {"row", "evidence", "body", "checked", "reserved", "revisions",
                     "details", "fence"})
      /\ Marks(a, b)
      /\ b.row \in {a.row, o, [o EXCEPT !.seq = -o.seq]}
      /\ b.evidence \in {a.evidence, o} /\ b.body \in {a.body, "full"}
      /\ b.revisions \in {a.revisions, a.revisions \cup {o}}
      /\ \A f \in Families :
           \/ b.reserved[f] = a.reserved[f]
           \/ b.reserved[f] = ReserveThreadChildObservation(a.reserved[f], o)
      /\ b.fence = ReserveWorkflowRunObservation(a.fence, o)
  BY SoundParts, PersistedIs
<1> HIDE DEF b
<1>2. /\ \A f \in Families : b.reserved[f] = a.reserved[f] \/ b.reserved[f] = {o}
      /\ (b.fence = a.fence \/ b.fence = {o})
  BY <1>1 DEF ReserveThreadChildObservation, ReserveWorkflowRunObservation
<1>3. Stores(a, b, o)
  BY <1>1, <1>2, SyncStores
<1>4. QED
  BY <1>3 DEF b

-----------------------------------------------------------------------------
(* The steps of a migration                                                 *)

LEMMA AfterEach ==
  /\ After("columns") = "bodies" /\ After("bodies") = "families"
  /\ After("families") = "rows" /\ After("rows") = "values"
  /\ After("values") = "evidence" /\ After("evidence") = "workflows"
  /\ After("workflows") = "fence" /\ After("fence") = "recover"
  /\ After("recover") = "remove" /\ After("remove") = "children"
  /\ After("children") = "reservations" /\ After("reservations") = "allocator"
  /\ After("allocator") = "floor" /\ After("floor") = "keys"
  /\ After("keys") = "triggers" /\ After("triggers") = "version"
  /\ After("version") = "verify"
<1>1. DOMAIN Steps = 1..18 /\ \A i \in 1..18 : i \in Nat
  BY DEF Steps
<1>2. ASSUME NEW k \in 1..17, \A i \in 1..18 : Steps[i] = Steps[k] => i = k
      PROVE  After(Steps[k]) = Steps[k + 1]
  <2>1. (CHOOSE i \in DOMAIN Steps : Steps[i] = Steps[k]) = k
    BY <1>1, <1>2
  <2>2. QED
    BY <2>1 DEF After
<1>3. \A i \in 1..18, k \in 1..18 : Steps[i] = Steps[k] => i = k
  BY DEF Steps
<1>4. \A k \in 1..17 : After(Steps[k]) = Steps[k + 1]
  BY <1>2, <1>3
<1>5. /\ Steps[1] = "columns" /\ Steps[2] = "bodies" /\ Steps[3] = "families"
      /\ Steps[4] = "rows" /\ Steps[5] = "values" /\ Steps[6] = "evidence"
      /\ Steps[7] = "workflows" /\ Steps[8] = "fence" /\ Steps[9] = "recover"
      /\ Steps[10] = "remove" /\ Steps[11] = "children" /\ Steps[12] = "reservations"
      /\ Steps[13] = "allocator" /\ Steps[14] = "floor" /\ Steps[15] = "keys"
      /\ Steps[16] = "triggers" /\ Steps[17] = "version" /\ Steps[18] = "verify"
  BY DEF Steps
<1>6. QED
  BY <1>4, <1>5

LEMMA FollowsReflexive ==
  ASSUME NEW a, Sound(a)
  PROVE  Follows(a, a)
BY SoundParts DEF Follows, Keeps, Marks

LEMMA RepairWrites ==
  ASSUME NEW p \in Procs, Repair(p), Sound(db),
         pc[p] = "reservations" => db.shape["children"] = "current"
  PROVE  Follows(db, db')
<1>1. CASE pc[p] = "bodies"
  <2>1. db' = BackfillBodies(db, seen[p])
    BY <1>1 DEF Repair, Writes
  <2>2. QED
    BY <2>1, BodiesFollow
<1>2. CASE pc[p] = "values"
  <2>1. db' = ensureThreadObservationSequenceValues(db)
    BY <1>2 DEF Repair, Writes
  <2>2. QED
    BY <2>1, ValuesFollow
<1>3. CASE pc[p] = "evidence"
  <2>1. db' = ensureThreadEvidenceObservationSequence(db)
    BY <1>3 DEF Repair, Writes
  <2>2. QED
    BY <2>1, EvidenceFollows
<1>4. CASE pc[p] = "fence"
  <2>1. db' = BackfillFence(db)
    BY <1>4 DEF Repair, Writes
  <2>2. QED
    BY <2>1, BackfillFenceFollows
<1>5. CASE pc[p] = "recover"
  <2>1. db' = RecoverLegacyRuns(db)
    BY <1>5 DEF Repair, Writes
  <2>2. QED
    BY <2>1, RecoverFollows
<1>6. CASE pc[p] = "remove"
  <2>1. db' = RemoveLegacyRuns(db)
    BY <1>6 DEF Repair, Writes
  <2>2. QED
    BY <2>1, RemoveFollows
<1>7. CASE pc[p] = "reservations"
  <2>1. db' = ensureThreadChildObservationReservations(db)
    BY <1>7 DEF Repair, Writes
  <2>2. db.shape["children"] # "unsourced"
    BY <1>7
  <2>3. QED
    BY <2>1, <2>2, ReservationsFollow
<1>8. CASE pc[p] = "floor"
  <2>1. db' = ensureThreadObservationSequenceFloor(db)
    BY <1>8 DEF Repair, Writes
  <2>2. QED
    BY <2>1, AllocatorFloorFollows
<1>9. CASE pc[p] = "version"
  <2>1. db' = [db EXCEPT !.version = Supported]
    BY <1>9 DEF Repair, Writes
  <2>2. QED
    BY <2>1, VersionFollows
<1>10. QED
  BY <1>1, <1>2, <1>3, <1>4, <1>5, <1>6, <1>7, <1>8, <1>9 DEF Repair

\* A rebuild by p of what it is at.
Rebuilding(p) == Rebuild(p) /\ ~Duplicate(p)

LEMMA RebuildIs ==
  ASSUME NEW p \in Procs, Rebuilding(p)
  PROVE  /\ pc[p] \in Tables \cup {"triggers"}
         /\ pc[p] = "columns" => db' = ensureLegacyPortableColumns(db)
         /\ pc[p] = "families" => db' = ensureFamilyTombstoneSchema(db)
         /\ pc[p] = "rows" => db' = ensureCanonicalObservationTables(db)
         /\ pc[p] = "workflows" =>
              db' = ensureWorkflowRunObservationReservationsSchema(db, seen[p])
         /\ pc[p] = "children" =>
              db' = ensureThreadChildObservationReservationsSchema(db, seen[p])
         /\ pc[p] = "allocator" => db' = ensureThreadObservationSequenceSchema(db)
         /\ pc[p] = "keys" => db' = ensureKeys(db)
         /\ pc[p] = "triggers" => db' = ensureObservationSchemaConvergence(db)
<1>1. /\ pc[p] \in Tables \cup {"triggers"}
      /\ db' = CASE pc[p] = "columns"   -> ensureLegacyPortableColumns(db)
                 [] pc[p] = "families"  -> ensureFamilyTombstoneSchema(db)
                 [] pc[p] = "rows"      -> ensureCanonicalObservationTables(db)
                 [] pc[p] = "workflows" ->
                      ensureWorkflowRunObservationReservationsSchema(db, seen[p])
                 [] pc[p] = "children"  ->
                      ensureThreadChildObservationReservationsSchema(db, seen[p])
                 [] pc[p] = "allocator" -> ensureThreadObservationSequenceSchema(db)
                 [] pc[p] = "keys"      -> ensureKeys(db)
                 [] pc[p] = "triggers"  -> ensureObservationSchemaConvergence(db)
  BY DEF Rebuilding, Rebuild, Writes
<1>2. QED
  BY <1>1

LEMMA RebuildWrites ==
  ASSUME NEW p \in Procs, Rebuilding(p), Sound(db)
  PROVE  Follows(db, db')
BY RebuildIs, ColumnsFollow, FamiliesFollow, RowsFollow, WorkflowsFollow, ChildrenFollow,
   AllocatorFollows, KeysFollow, TriggersFollow DEF Tables

LEMMA LookWrites ==
  ASSUME NEW p \in Procs, Look(p), Sound(db)
  PROVE  /\ Follows(db, db')
         /\ db' = db \/ db' = ensureThreadObservationSequenceRow(db)
<1>1. db' = db \/ db' = ensureThreadObservationSequenceRow(db)
  BY DEF Look, Writes
<1>2. QED
  BY <1>1, AllocatorRowFollows, FollowsReflexive

-----------------------------------------------------------------------------
(* The invariant                                                            *)

PastVersion == {"verify"}
PastTriggers == {"version"} \cup PastVersion
PastKeys == {"triggers"} \cup PastTriggers
PastFloor == {"keys"} \cup PastKeys
PastAllocator == {"floor"} \cup PastFloor
PastReservations == {"allocator"} \cup PastAllocator
PastChildren == {"reservations"} \cup PastReservations
PastRemove == {"children"} \cup PastChildren
PastRecover == {"remove"} \cup PastRemove
PastFence == {"recover"} \cup PastRecover
PastWorkflows == {"fence"} \cup PastFence
PastEvidence == {"workflows"} \cup PastWorkflows
PastValues == {"evidence"} \cup PastEvidence
PastRows == {"values"} \cup PastValues
PastFamilies == {"rows"} \cup PastRows
PastBodies == {"families"} \cup PastFamilies
PastColumns == {"bodies"} \cup PastBodies

StepNames == {"columns"} \cup PastColumns
PCs == {"closed", "failed", "open", "apply", "applyCurrent", "structure", "converged",
        "inspect", "mark", "drop", "stamp"} \cup StepNames

Observations == [source : 1..MaxSource, seq : 1..MaxSequence]

\* What a process that is at s relies on, whatever others have written since.
Settled(s, a) ==
  /\ s \in {"mark", "open", "drop", "stamp"} => Inspected(a)
  /\ s \in PastWorkflows => a.shape["workflows"] = "current"
  /\ s \in PastChildren => a.shape["children"] = "current"
  /\ s \in PastAllocator => a.shape["allocator"] = "current"

\* The fetch f of a process, among those of others and what is stored.
Fresh(f, others, a) ==
  f # NoOrder =>
    /\ Inspected(a) /\ f.seq <= a.allocator
    /\ f.seq \notin Held(a) /\ f.seq \notin others

OtherFetches(p) == {fetch[q].seq : q \in Procs \ {p}}

ControlOK ==
  /\ pc \in [Procs -> PCs]
  /\ seen \in [Procs -> Shapes \cup {"unseen"}]
  /\ fetch \in [Procs -> Observations \cup {NoOrder}]
  /\ meddled \in [Procs -> BOOLEAN]
  /\ raced \in BOOLEAN /\ stale \in BOOLEAN

SafeInv ==
  /\ ControlOK
  /\ Sound(db)
  /\ db.checked # NoValue => Inspected(db)
  /\ \A p \in Procs : Settled(pc[p], db)
  /\ \A p \in Procs : Fresh(fetch[p], OtherFetches(p), db)

LEMMA SettledKept ==
  ASSUME NEW a, NEW b, NEW s, Keeps(a, b), Settled(s, a)
  PROVE  Settled(s, b)
BY DEF Keeps, Settled, Ordered

LEMMA FreshKept ==
  ASSUME NEW a, NEW b, NEW f \in Observations \cup {NoOrder}, NEW others, Sound(a), Keeps(a, b),
         Fresh(f, others, a)
  PROVE  Fresh(f, others, b)
<1>1. SUFFICES ASSUME f # NoOrder PROVE Fresh(f, others, b)
  BY DEF Fresh
<1>2. f.seq \in Int /\ f.seq # 0
  BY <1>1 DEF Observations
<1>3. Inspected(a) /\ f.seq <= a.allocator /\ f.seq \notin Held(a) /\ f.seq \notin others
  BY <1>1 DEF Fresh
<1>4. a.runs = 0 /\ Inspected(b)
  BY <1>3 DEF Inspected, Keeps
<1>5. f.seq \notin Held(b)
  BY <1>2, <1>3, <1>4 DEF Keeps
<1>6. a.allocator \in Int /\ b.allocator \in Int /\ a.allocator <= b.allocator
  BY SoundParts DEF Keeps
<1>7. f.seq <= b.allocator
  BY <1>2, <1>3, <1>6
<1>8. QED
  BY <1>3, <1>4, <1>5, <1>7 DEF Fresh

\* A step of p that keeps the archive and fetches nothing.
LEMMA KeepsSafe ==
  ASSUME SafeInv, ControlOK', Keeps(db, db'), db'.checked # NoValue => Inspected(db'),
         NEW p \in Procs, \A q \in Procs : q # p => pc'[q] = pc[q],
         Settled(pc'[p], db'),
         \A q \in Procs : fetch'[q] \in {fetch[q], NoOrder}
  PROVE  SafeInv'
<1>1. \A q \in Procs : Settled(pc'[q], db')
  BY SettledKept DEF SafeInv
<1>2. ASSUME NEW q \in Procs PROVE Fresh(fetch'[q], OtherFetches(q)', db')
  <2>1. CASE fetch'[q] = NoOrder
    BY <2>1 DEF Fresh
  <2>2. CASE fetch'[q] # NoOrder
    <3>1. fetch'[q] = fetch[q] /\ fetch[q] \in Observations
      BY <2>2 DEF SafeInv, ControlOK
    <3>2. Fresh(fetch[q], OtherFetches(q), db')
      BY <3>1, FreshKept DEF SafeInv
    <3>3. \A u \in Procs \ {q} : fetch'[u].seq \in {fetch[u].seq, 0}
      BY DEF NoOrder
    <3>4. fetch[q].seq \notin OtherFetches(q)'
      <4>1. fetch[q].seq # 0
        BY <3>1, SchemaAssumption DEF Observations
      <4>2. \A u \in Procs \ {q} : fetch[u].seq # fetch[q].seq
        BY <2>2, <3>1, <3>2 DEF Fresh, OtherFetches
      <4>3. QED
        BY <3>3, <4>1, <4>2 DEF OtherFetches
    <3>5. QED
      BY <2>2, <3>1, <3>2, <3>4 DEF Fresh
  <2>3. QED
    BY <2>1, <2>2
<1>3. Sound(db')
  BY DEF Keeps
<1>4. QED
  BY <1>1, <1>2, <1>3 DEF SafeInv

(* The processes' control state.                                            *)
LEMMA PCsAre ==
  /\ \A s \in PCs \ {"verify"} : s \in StepNames => After(s) \in StepNames
  /\ Tables \subseteq StepNames /\ "triggers" \in StepNames
  /\ {"columns", "structure", "converged", "open", "inspect", "mark", "failed", "drop",
      "stamp", "closed", "apply", "applyCurrent", "verify"} \subseteq PCs
  /\ StepNames \subseteq PCs
BY AfterEach DEF PCs, StepNames, PastColumns, PastBodies, PastFamilies, PastRows, PastValues,
     PastEvidence, PastWorkflows, PastFence, PastRecover, PastRemove, PastChildren,
     PastReservations, PastAllocator, PastFloor, PastKeys, PastTriggers, PastVersion, Tables

LEMMA InitControl == Init => ControlOK
BY PCsAre DEF Init, ControlOK

\* A step moves one process.
Moves(p, s) == s \in PCs /\ pc' = [pc EXCEPT ![p] = s]

LEMMA WritesControl ==
  ASSUME ControlOK, NEW p, NEW a, Writes(p, a)
  PROVE  meddled' \in [Procs -> BOOLEAN]
BY DEF ControlOK, Writes

LEMMA MigrateControl ==
  ASSUME ControlOK, NEW p \in Procs, Migrate(p), Sound(db)
  PROVE  ControlOK' /\ \A q \in Procs : q # p => pc'[q] = pc[q]
<1> USE DEF ControlOK
<1>1. CASE ApplySchema(p)
  BY <1>1, WritesControl, PCsAre DEF ApplySchema, Goto
<1>2. CASE InspectStructure(p)
  BY <1>2, PCsAre DEF InspectStructure, Goto, history
<1>3. CASE CheckConverged(p)
  BY <1>3, PCsAre DEF CheckConverged, Goto, history
<1>4. CASE Inspect(p)
  BY <1>4, PCsAre DEF Inspect, Goto
<1>5. CASE Look(p)
  <2>1. pc[p] \in StepNames /\ pc[p] # "verify" /\ After(pc[p]) \in PCs
    BY <1>5, PCsAre DEF Look, Tables
  <2>2. pc' \in [Procs -> PCs] /\ \A q \in Procs : q # p => pc'[q] = pc[q]
    BY <1>5, <2>1 DEF Look, Goto
  <2>3. seen' \in [Procs -> Shapes \cup {"unseen"}]
    <3>1. \A t \in Tables : db.shape[t] \in Shapes
      BY SoundParts, ArchiveParts
    <3>2. "old" \in Shapes
      BY DEF Shapes
    <3>3. QED
      BY <1>5, <3>1, <3>2 DEF Look
  <2>4. meddled' \in [Procs -> BOOLEAN]
    BY <1>5, WritesControl DEF Look
  <2>5. QED
    BY <1>5, <2>2, <2>3, <2>4 DEF Look
<1>6. CASE Rebuild(p)
  <2>1. pc[p] \in StepNames /\ pc[p] # "verify" /\ After(pc[p]) \in PCs /\ "failed" \in PCs
    BY <1>6, PCsAre DEF Rebuild, Tables
  <2>2. pc' \in [Procs -> PCs] /\ \A q \in Procs : q # p => pc'[q] = pc[q]
    BY <1>6, <2>1 DEF Rebuild, Goto
  <2>3. seen' \in [Procs -> Shapes \cup {"unseen"}]
    BY <1>6 DEF Rebuild
  <2>4. meddled' \in [Procs -> BOOLEAN]
    BY <1>6, WritesControl DEF Rebuild
  <2>5. QED
    BY <1>6, <2>2, <2>3, <2>4 DEF Rebuild
<1>7. CASE Repair(p)
  <2>1. pc[p] \in StepNames /\ pc[p] # "verify"
    BY <1>7 DEF Repair, StepNames, PastColumns, PastBodies, PastFamilies, PastRows, PastValues,
         PastEvidence, PastWorkflows, PastFence, PastRecover, PastRemove, PastChildren,
         PastReservations, PastAllocator, PastFloor, PastKeys, PastTriggers, PastVersion
  <2>2. After(pc[p]) \in PCs
    BY <2>1, PCsAre
  <2>3. QED
    BY <1>7, <2>2, WritesControl DEF Repair, Goto
<1>8. CASE Verify(p)
  BY <1>8, PCsAre DEF Verify, Goto
<1>9. CASE Mark(p)
  BY <1>9, WritesControl, PCsAre DEF Mark, Goto
<1>10. QED
  BY <1>1, <1>2, <1>3, <1>4, <1>5, <1>6, <1>7, <1>8, <1>9 DEF Migrate

LEMMA InspectionIs ==
  ASSUME NEW a, Sound(a), ~inspectCompatibilityMigrations(a)
  PROVE  /\ a.version >= Supported /\ \A t \in Tables : a.shape[t] = "current"
         /\ a.triggers = Watched /\ ~Drift(a) /\ a.allocator >= Floor(a)
<1>1. a.version \in Nat /\ a \in Archive
  BY SoundParts
<1>2. QED
  BY <1>1, FloorReached
     DEF inspectCompatibilityMigrations, inspectStructuralCompatibilityMigrations, Drift, Supported

LEMMA InspectionSettles ==
  ASSUME NEW a, Sound(a), ~inspectCompatibilityMigrations(a)
  PROVE  Inspected(a)
<1>1. /\ a.version >= Supported /\ \A t \in Tables : a.shape[t] = "current"
      /\ a.allocator >= Floor(a)
  BY InspectionIs
<1>2. a.version # 0 /\ Tables = Tables \cup {"rows", "workflows", "children", "allocator"}
  BY <1>1, SoundParts DEF Supported, Tables
<1>3. a.runs = 0 /\ a.evidence.seq >= 0
  BY <1>1, <1>2 DEF Sound
<1>4. a.allocator # NoValue
  BY <1>1, SoundParts, FloorIs DEF NoValue
<1>5. QED
  BY <1>1, <1>2, <1>3, <1>4 DEF Inspected

LEMMA MarkKeeps ==
  ASSUME NEW a, Sound(a)
  PROVE  Keeps(a, markObservationSchemaConverged(a))
<1> DEFINE b == markObservationSchemaConverged(a)
<1>1. b \in Archive /\ Kept(a, b, {"checked"}) /\ b.checked \in {a.checked, a.allocator}
  BY SoundParts, MarkIs
<1> HIDE DEF b
<1>2. /\ b.version = a.version /\ b.shape = a.shape /\ b.runs = a.runs
      /\ b.allocator = a.allocator /\ b.row = a.row /\ b.evidence = a.evidence
      /\ b.revisions = a.revisions /\ b.reserved = a.reserved /\ b.fence = a.fence
      /\ b.body = a.body
  BY <1>1 DEF Kept
<1>3. Held(b) = Held(a)
  BY <1>2 DEF Held
<1>4. Sound(b)
  BY <1>1, <1>2, SoundParts DEF Sound
<1>5. Inspected(a) => Inspected(b)
  BY <1>2, <1>3, HeldIs DEF Inspected
<1>6. Keeps(a, b)
  BY <1>2, <1>3, <1>4, <1>5, SoundParts DEF Keeps
<1>7. QED
  BY <1>6 DEF b

\* The steps between one table and the next settle what they rebuilt.
LEMMA SettledAfter ==
  ASSUME NEW s \in StepNames \ {"verify"}, NEW a, NEW b, Keeps(a, b), Settled(s, a),
         s \in Ordered => b.shape[s] = "current"
  PROVE  Settled(After(s), b)
<1>1. Settled(s, b)
  BY SettledKept
<1>2. QED
  BY <1>1, AfterEach
     DEF Settled, Ordered, StepNames, PastColumns, PastBodies, PastFamilies, PastRows, PastValues,
         PastEvidence, PastWorkflows, PastFence, PastRecover, PastRemove, PastChildren,
         PastReservations, PastAllocator, PastFloor, PastKeys, PastTriggers, PastVersion

\* A migration starts with nothing settled.
LEMMA NothingSettled ==
  ASSUME NEW s \in {"columns", "apply", "applyCurrent", "structure", "converged", "inspect",
                    "failed", "closed"}, NEW a
  PROVE  Settled(s, a)
BY DEF Settled, PastWorkflows, PastFence, PastRecover, PastRemove, PastChildren,
       PastReservations, PastAllocator, PastFloor, PastKeys, PastTriggers, PastVersion

LEMMA InspectedSettles ==
  ASSUME NEW s \in {"mark", "open", "drop", "stamp"}, NEW a, Inspected(a)
  PROVE  Settled(s, a)
BY DEF Settled, PastWorkflows, PastFence, PastRecover, PastRemove, PastChildren,
       PastReservations, PastAllocator, PastFloor, PastKeys, PastTriggers, PastVersion

LEMMA SettledInspected ==
  ASSUME NEW s \in {"mark", "open", "drop", "stamp"}, NEW a, Settled(s, a)
  PROVE  Inspected(a)
BY DEF Settled

\* What a step of a migration leaves for the process that took it.
LEMMA MigrateSettles ==
  ASSUME SafeInv, NEW p \in Procs, Migrate(p)
  PROVE  /\ Keeps(db, db') /\ (Follows(db, db') \/ Inspected(db'))
         /\ Settled(pc'[p], db') /\ fetch' = fetch
<1>1. /\ ControlOK /\ Sound(db) /\ Settled(pc[p], db) /\ pc \in [Procs -> PCs]
      /\ Follows(db, db) /\ (db' = db => Follows(db, db'))
  BY FollowsReflexive DEF SafeInv, ControlOK
<1>2. CASE ApplySchema(p)
  <2>1. db' = schemaSQL(db) /\ fetch' = fetch /\ pc'[p] \in {"columns", "structure"}
    BY <1>1, <1>2 DEF ApplySchema, Writes, Goto
  <2>2. Follows(db, db')
    BY <1>1, <2>1, SchemaFollows
  <2>3. QED
    BY <2>1, <2>2, NothingSettled DEF Follows
<1>3. CASE InspectStructure(p)
  <2>1. db' = db /\ fetch' = fetch /\ pc'[p] \in {"columns", "converged"}
    BY <1>1, <1>3 DEF InspectStructure, Goto
  <2>2. QED
    BY <1>1, <2>1, NothingSettled DEF Follows
<1>4. CASE CheckConverged(p)
  <2>1. db' = db /\ fetch' = fetch
        /\ (pc'[p] = "inspect" \/ (pc'[p] = "open" /\ Converged(db)))
    BY <1>1, <1>4 DEF CheckConverged, Goto
  <2>2. Converged(db) => Inspected(db)
    BY DEF SafeInv, Converged
  <2>3. QED
    BY <1>1, <2>1, <2>2, NothingSettled, InspectedSettles DEF Follows
<1>5. CASE Inspect(p)
  <2>1. db' = db /\ fetch' = fetch
        /\ (pc'[p] = "columns" \/ (pc'[p] = "mark" /\ ~inspectCompatibilityMigrations(db)))
    BY <1>1, <1>5 DEF Inspect, Goto
  <2>2. QED
    BY <1>1, <2>1, NothingSettled, InspectedSettles, InspectionSettles DEF Follows
<1>6. CASE Look(p)
  <2>1. Follows(db, db')
    BY <1>1, <1>6, LookWrites
  <2>2. pc[p] \in StepNames \ {"verify"} /\ fetch' = fetch
    BY <1>6, PCsAre DEF Look, Tables
  <2>3. pc'[p] = pc[p] \/ (pc'[p] = After(pc[p]) /\
          (pc[p] \in Tables => db.shape[pc[p]] = "current"))
    BY <1>1, <1>6 DEF Look, Goto, Tables
  <2>4. pc[p] \in Ordered /\ pc'[p] = After(pc[p]) => \/ db'.shape[pc[p]] = "current"
                                                      \/ pc'[p] = pc[p]
    BY <2>1, <2>3 DEF Follows, Keeps, Ordered, Tables
  <2>5. Settled(pc[p], db')
    BY <1>1, <2>1, SettledKept DEF Follows
  <2>6. QED
    BY <1>1, <2>1, <2>2, <2>3, <2>4, <2>5, SettledAfter DEF Follows
<1>7. CASE Rebuild(p)
  <2>1. CASE Duplicate(p)
    <3>1. db' = db /\ fetch' = fetch /\ pc'[p] = "failed"
      BY <1>1, <1>7, <2>1 DEF Rebuild, Goto
    <3>2. QED
      BY <1>1, <3>1, NothingSettled DEF Follows
  <2>2. CASE ~Duplicate(p)
    <3>1. Rebuilding(p)
      BY <1>7, <2>2 DEF Rebuilding
    <3>2. Follows(db, db')
      BY <1>1, <3>1, RebuildWrites
    <3>3. pc[p] \in StepNames \ {"verify"} /\ fetch' = fetch /\ pc'[p] = After(pc[p])
      BY <1>1, <1>7, <2>2, PCsAre DEF Rebuild, Tables, Goto
    <3>4. pc[p] \in Ordered => db'.shape[pc[p]] = "current"
      <4>1. pc[p] = "workflows" => db'.shape["workflows"] = "current"
        <5>1. db \in Archive /\ Unequal(db.fence)
          BY <1>1, SoundParts
        <5>2. pc[p] = "workflows" =>
                db' = ensureWorkflowRunObservationReservationsSchema(db, seen[p])
          BY <3>1, RebuildIs
        <5>3. LET b == ensureWorkflowRunObservationReservationsSchema(db, seen[p])
              IN b.shape["workflows"] = "current"
          BY <5>1, WorkflowsIs
        <5>4. QED
          BY <5>2, <5>3
      <4>2. pc[p] = "children" => db'.shape["children"] = "current"
        BY <1>1, <3>1, RebuildIs, SoundParts, ChildrenIs
      <4>3. pc[p] = "allocator" => db'.shape["allocator"] = "current"
        BY <1>1, <3>1, RebuildIs, SoundParts, AllocatorIs
      <4>4. QED
        BY <4>1, <4>2, <4>3 DEF Ordered
    <3>5. QED
      BY <1>1, <3>2, <3>3, <3>4, SettledAfter DEF Follows
  <2>3. QED
    BY <2>1, <2>2
<1>8. CASE Repair(p)
  <2>1. pc[p] = "reservations" => db.shape["children"] = "current"
    BY <1>1 DEF Settled, PastChildren
  <2>2. Follows(db, db')
    BY <1>1, <1>8, <2>1, RepairWrites
  <2>3. pc[p] \in StepNames \ {"verify"} /\ pc[p] \notin Ordered
    BY <1>8 DEF Repair, Ordered, StepNames, PastColumns, PastBodies, PastFamilies, PastRows,
         PastValues, PastEvidence, PastWorkflows, PastFence, PastRecover, PastRemove,
         PastChildren, PastReservations, PastAllocator, PastFloor, PastKeys, PastTriggers,
         PastVersion
  <2>4. fetch' = fetch /\ pc'[p] = After(pc[p])
    BY <1>1, <1>8 DEF Repair, Goto
  <2>5. QED
    BY <1>1, <2>2, <2>3, <2>4, SettledAfter DEF Follows
<1>9. CASE Verify(p)
  <2>1. db' = db /\ fetch' = fetch
        /\ (pc'[p] = "failed" \/ (pc'[p] = "mark" /\ ~inspectCompatibilityMigrations(db)))
    BY <1>1, <1>9 DEF Verify, Goto
  <2>2. QED
    BY <1>1, <2>1, NothingSettled, InspectedSettles, InspectionSettles DEF Follows
<1>10. CASE Mark(p)
  <2>1. db' = markObservationSchemaConverged(db) /\ fetch' = fetch /\ pc'[p] = "open"
        /\ pc[p] = "mark"
    BY <1>1, <1>10 DEF Mark, Writes, Goto
  <2>2. Inspected(db)
    BY <1>1, <2>1, SettledInspected
  <2>3. Keeps(db, db')
    BY <1>1, <2>1, MarkKeeps
  <2>4. QED
    BY <2>1, <2>2, <2>3, InspectedSettles DEF Keeps
<1>11. QED
  BY <1>2, <1>3, <1>4, <1>5, <1>6, <1>7, <1>8, <1>9, <1>10 DEF Migrate

LEMMA MarkedFollows ==
  ASSUME SafeInv, Follows(db, db')
  PROVE  db'.checked # NoValue => Inspected(db')
BY DEF SafeInv, Follows, Keeps, Marks

LEMMA MigrateSafe ==
  ASSUME SafeInv, NEW p \in Procs, Migrate(p)
  PROVE  SafeInv'
<1>1. ControlOK' /\ \A q \in Procs : q # p => pc'[q] = pc[q]
  BY MigrateControl DEF SafeInv
<1>2. /\ Keeps(db, db') /\ (Follows(db, db') \/ Inspected(db'))
      /\ Settled(pc'[p], db') /\ fetch' = fetch
  BY MigrateSettles
<1>3. db'.checked # NoValue => Inspected(db')
  BY <1>2, MarkedFollows
<1>4. QED
  BY <1>1, <1>2, <1>3, KeepsSafe

\* What Open, Close and the steps of a prune do.
LEMMA CommandSafe ==
  ASSUME SafeInv, NEW p \in Procs,
         Open(p) \/ Close(p) \/ Kill(p)
           \/ PrunePortablePayloads(p) \/ DropColumns(p) \/ StampPortable(p)
  PROVE  SafeInv'
<1>1. /\ ControlOK /\ Sound(db) /\ Settled(pc[p], db) /\ pc \in [Procs -> PCs]
      /\ Follows(db, db) /\ (db' = db => Follows(db, db'))
  BY FollowsReflexive DEF SafeInv, ControlOK
<1>2. ASSUME Follows(db, db'), ControlOK', \A q \in Procs : q # p => pc'[q] = pc[q],
             Settled(pc'[p], db'), \A q \in Procs : fetch'[q] \in {fetch[q], NoOrder}
      PROVE  SafeInv'
  BY <1>2, MarkedFollows, KeepsSafe DEF Follows
<1>3. CASE Open(p)
  <2>1. db' = db /\ fetch' = fetch /\ pc'[p] \in {"closed", "applyCurrent", "apply"}
    BY <1>1, <1>3 DEF Open, Goto
  <2>2. ControlOK' /\ \A q \in Procs : q # p => pc'[q] = pc[q]
    BY <1>1, <1>3, PCsAre DEF Open, Goto, ControlOK
  <2>3. QED
    BY <1>1, <1>2, <2>1, <2>2, NothingSettled
<1>4. CASE Close(p)
  <2>1. db' = db /\ fetch' = fetch /\ pc'[p] = "closed"
    BY <1>1, <1>4 DEF Close, Goto
  <2>2. ControlOK' /\ \A q \in Procs : q # p => pc'[q] = pc[q]
    BY <1>1, <1>4, PCsAre DEF Close, Goto, ControlOK, history
  <2>3. QED
    BY <1>1, <1>2, <2>1, <2>2, NothingSettled
<1>5. CASE Kill(p)
  <2>1. db' = db /\ pc'[p] = "closed" /\ \A q \in Procs : fetch'[q] \in {fetch[q], NoOrder}
    BY <1>1, <1>5 DEF Kill, Goto, ControlOK
  <2>2. ControlOK' /\ \A q \in Procs : q # p => pc'[q] = pc[q]
    BY <1>1, <1>5, PCsAre DEF Kill, Goto, ControlOK, history
  <2>3. QED
    BY <1>1, <1>2, <2>1, <2>2, NothingSettled
<1>6. CASE PrunePortablePayloads(p)
  <2>1. db' = Excerpts(db) /\ fetch' = fetch /\ pc'[p] = "drop" /\ pc[p] = "open"
        /\ db.shape["columns"] = "current"
    BY <1>1, <1>6 DEF PrunePortablePayloads, Writes, Goto
  <2>2. ControlOK' /\ \A q \in Procs : q # p => pc'[q] = pc[q]
    BY <1>1, <1>6, PCsAre, WritesControl DEF PrunePortablePayloads, Goto, ControlOK
  <2>3. Follows(db, db')
    BY <1>1, <2>1, ExcerptsFollow
  <2>4. Settled(pc'[p], db')
    BY <1>1, <2>1, <2>3, SettledInspected, InspectedSettles DEF Follows, Keeps
  <2>5. QED
    BY <1>2, <2>1, <2>2, <2>3, <2>4
<1>7. CASE DropColumns(p)
  <2>1. db' = canonicalizePortableSchema(db) /\ fetch' = fetch /\ pc'[p] = "stamp"
        /\ pc[p] = "drop"
    BY <1>1, <1>7 DEF DropColumns, Writes, Goto
  <2>2. ControlOK' /\ \A q \in Procs : q # p => pc'[q] = pc[q]
    BY <1>1, <1>7, PCsAre, WritesControl DEF DropColumns, Goto, ControlOK
  <2>3. db.version # 0
    BY <1>1, <2>1, SettledInspected DEF Inspected
  <2>4. Follows(db, db')
    BY <1>1, <2>1, <2>3, CanonicalFollows
  <2>5. Settled(pc'[p], db')
    BY <1>1, <2>1, <2>4, SettledInspected, InspectedSettles DEF Follows, Keeps
  <2>6. QED
    BY <1>2, <2>1, <2>2, <2>4, <2>5
<1>8. CASE StampPortable(p)
  <2>1. db' = [db EXCEPT !.version = Portable] /\ fetch' = fetch /\ pc'[p] = "closed"
    BY <1>1, <1>8 DEF StampPortable, Writes, Goto
  <2>2. ControlOK' /\ \A q \in Procs : q # p => pc'[q] = pc[q]
    BY <1>1, <1>8, PCsAre, WritesControl DEF StampPortable, Goto, ControlOK
  <2>3. Follows(db, db')
    BY <1>1, <2>1, VersionFollows
  <2>4. QED
    BY <1>2, <2>1, <2>2, <2>3, NothingSettled
<1>9. QED
  BY <1>3, <1>4, <1>5, <1>6, <1>7, <1>8

LEMMA AllocateSafe ==
  ASSUME SafeInv, NEW p \in Procs, Allocate(p)
  PROVE  SafeInv'
<1>1. ControlOK /\ Sound(db) /\ Settled(pc[p], db) /\ pc[p] = "open" /\ pc' = pc
      /\ db.allocator < MaxSequence /\ fetch[p] = NoOrder
  BY DEF SafeInv, Allocate
<1>2. Inspected(db) /\ db.allocator \in Int
  BY <1>1, SettledInspected, SoundParts
<1>3. db.allocator \in Nat
  BY <1>1, <1>2, SoundParts, ArchiveParts DEF Inspected
<1> DEFINE n == db'.allocator
<1>4. db' = NextThreadObservationSequence(db)
  BY DEF Allocate, Writes
<1>5. n = db.allocator + 1 /\ Follows(db, db')
  BY <1>1, <1>3, <1>4, SoundParts, NextSequenceIs, NextSequenceFollows
<1>6. PICK source \in 1..MaxSource : fetch' = [fetch EXCEPT ![p] = [source |-> source, seq |-> n]]
  BY <1>4 DEF Allocate
<1> DEFINE o == [source |-> source, seq |-> n]
<1>7. n \in 1..MaxSequence
  BY <1>1, <1>3, <1>5, SchemaAssumption
<1>8. o \in Observations /\ fetch'[p] = o /\ \A q \in Procs : q # p => fetch'[q] = fetch[q]
  BY <1>1, <1>6, <1>7 DEF Observations, ControlOK
<1>9. ControlOK'
  BY <1>1, <1>6, <1>8, WritesControl DEF Allocate, ControlOK
<1>10. \A q \in Procs : Settled(pc'[q], db')
  BY <1>1, <1>5, SettledKept DEF SafeInv, Follows
<1>11. Fresh(fetch'[p], OtherFetches(p)', db')
  <2>1. Inspected(db')
    BY <1>2, <1>5 DEF Follows, Keeps
  <2>2. n \notin Held(db')
    <3>1. \A m \in Held(db) : m <= db.allocator /\ m \in Int
      BY <1>1, <1>2, SoundParts, FloorReached, FloorIs DEF Inspected
    <3>2. \A m \in Held(db) : m # n
      BY <1>3, <1>5, <3>1
    <3>3. Held(db') \subseteq Held(db) \cup {0}
      BY <1>2, <1>5 DEF Follows, Keeps, Inspected
    <3>4. n # 0
      BY <1>7, SchemaAssumption
    <3>5. QED
      BY <3>2, <3>3, <3>4
  <2>3. ASSUME NEW q \in Procs \ {p} PROVE fetch'[q].seq # n
    <3>1. CASE fetch[q] = NoOrder
      BY <1>7, <1>8, <3>1, SchemaAssumption DEF NoOrder
    <3>2. CASE fetch[q] # NoOrder
      <4>1. fetch[q].seq <= db.allocator /\ fetch[q].seq \in Int
        BY <1>1, <3>2 DEF SafeInv, Fresh, ControlOK, Observations
      <4>2. QED
        BY <1>3, <1>5, <1>8, <4>1
    <3>3. QED
      BY <3>1, <3>2
  <2>4. n <= n
    BY <1>7
  <2>5. QED
    BY <1>8, <2>1, <2>2, <2>3, <2>4 DEF Fresh, OtherFetches
<1>12. ASSUME NEW q \in Procs, q # p PROVE Fresh(fetch'[q], OtherFetches(q)', db')
  <2>1. Fresh(fetch[q], OtherFetches(q), db')
    BY <1>1, <1>5, FreshKept DEF SafeInv, ControlOK, Follows
  <2>2. fetch[q] # NoOrder => fetch[q].seq # n
    <3>1. fetch[q] # NoOrder => fetch[q].seq <= db.allocator /\ fetch[q].seq \in Int
      BY <1>1 DEF SafeInv, Fresh, ControlOK, Observations
    <3>2. QED
      BY <1>3, <1>5, <3>1
  <2>3. \A u \in Procs \ {q} : fetch'[u].seq = fetch[u].seq \/ fetch'[u].seq = n
    BY <1>8
  <2>4. fetch[q] # NoOrder => fetch[q].seq \notin OtherFetches(q)'
    BY <2>1, <2>2, <2>3 DEF Fresh, OtherFetches
  <2>5. fetch'[q] = fetch[q]
    BY <1>8, <1>12
  <2>6. QED
    BY <2>1, <2>4, <2>5 DEF Fresh
<1>13. db'.checked # NoValue => Inspected(db')
  BY <1>5, MarkedFollows
<1>14. QED
  BY <1>5, <1>9, <1>10, <1>11, <1>12, <1>13 DEF SafeInv, Follows, Keeps

LEMMA PersistSafe ==
  ASSUME SafeInv, NEW p \in Procs, Persist(p)
  PROVE  SafeInv'
<1> DEFINE o == fetch[p]
<1>1. ControlOK /\ Sound(db) /\ pc' = pc /\ fetch[p] # NoOrder
      /\ fetch' = [fetch EXCEPT ![p] = NoOrder] /\ fetch[p] \in Observations
  BY DEF SafeInv, Persist, ControlOK
<1>2. Inspected(db) /\ o.seq <= db.allocator /\ o.seq \notin Held(db)
      /\ o.seq \notin OtherFetches(p) /\ o.seq \in 1..MaxSequence
  BY <1>1 DEF SafeInv, Fresh, Observations
<1>3. Observed(o)
  <2>1. fetch[p].source \in 1..MaxSource /\ fetch[p].seq \in 1..MaxSequence
    BY <1>1 DEF Observations
  <2>2. fetch[p] \in Orders
    BY <1>1, SchemaAssumption DEF Observations, Orders
  <2>3. QED
    BY <2>1, <2>2 DEF Observed
<1>4. ControlOK'
  BY <1>1, WritesControl DEF Persist, ControlOK
<1>5. CASE ~Usable(db)
  <2>1. db' = db
    BY <1>5 DEF Persist
  <2>2. Follows(db, db')
    BY <1>1, <2>1, FollowsReflexive
  <2>3. /\ \A q \in Procs : q # p => pc'[q] = pc[q]
        /\ Settled(pc'[p], db')
        /\ \A q \in Procs : fetch'[q] \in {fetch[q], NoOrder}
    BY <1>1, <2>1 DEF SafeInv, ControlOK
  <2>4. QED
    BY <1>4, <2>2, <2>3, MarkedFollows, KeepsSafe DEF Follows
<1>6. CASE Usable(db)
  <2>1. \/ db' = Persisted(db, o) \/ db' = Upserted(db, o, FALSE)
        \/ db' = Upserted(db, o, TRUE)
    BY <1>6 DEF Persist, Writes
  <2>2. Stores(db, db', o)
    BY <1>1, <1>2, <1>3, <2>1, UpsertStores, PersistStores
  <2>3. Sound(db') /\ Inspected(db') /\ db'.allocator = db.allocator
        /\ Held(db') \subseteq Held(db) \cup {0, o.seq}
    BY <2>2 DEF Stores
  <2>4. \A t \in Ordered : db'.shape[t] = "current"
    BY <2>3 DEF Inspected, Ordered
  <2>5. \A q \in Procs : Settled(pc'[q], db')
    BY <1>1, <2>3, <2>4 DEF Settled, Ordered
  <2>6. ASSUME NEW q \in Procs PROVE Fresh(fetch'[q], OtherFetches(q)', db')
    <3>1. CASE q = p
      BY <1>1, <3>1 DEF Fresh, ControlOK
    <3>2. CASE q # p
      <4>1. fetch'[q] = fetch[q] /\ fetch[q] \in Observations \cup {NoOrder}
        BY <1>1, <3>2 DEF ControlOK
      <4>2. SUFFICES ASSUME fetch[q] # NoOrder
                     PROVE  Fresh(fetch[q], OtherFetches(q)', db')
        BY <4>1 DEF Fresh
      <4>3. fetch[q].seq <= db.allocator /\ fetch[q].seq \notin Held(db)
            /\ fetch[q].seq \notin OtherFetches(q) /\ fetch[q].seq # 0
        BY <4>1, <4>2, SchemaAssumption DEF SafeInv, Fresh, Observations
      <4>4. fetch[q].seq # o.seq
        BY <1>2, <3>2 DEF OtherFetches
      <4>5. \A u \in Procs \ {q} : fetch'[u].seq \in {fetch[u].seq, 0}
        BY <1>1 DEF NoOrder, ControlOK
      <4>6. fetch[q].seq \notin OtherFetches(q)'
        BY <4>3, <4>5 DEF OtherFetches
      <4>7. QED
        BY <2>3, <4>3, <4>4, <4>6 DEF Fresh
    <3>3. QED
      BY <3>1, <3>2
  <2>7. QED
    BY <1>4, <2>3, <2>5, <2>6 DEF SafeInv
<1>7. QED
  BY <1>5, <1>6

LEMMA InitSafe == Init => SafeInv
<1>1. SUFFICES ASSUME Init PROVE SafeInv
  OBVIOUS
<1>2. Sound(db) /\ (db.checked # NoValue => Inspected(db))
  BY <1>1, ArchivesAssumption DEF Init
<1>3. \A p \in Procs : Settled(pc[p], db)
  BY <1>1, NothingSettled DEF Init
<1>4. \A p \in Procs : Fresh(fetch[p], OtherFetches(p), db)
  BY <1>1 DEF Init, Fresh
<1>5. QED
  BY <1>1, <1>2, <1>3, <1>4, InitControl DEF SafeInv

LEMMA SafeStutter == SafeInv /\ UNCHANGED vars => SafeInv'
BY DEF SafeInv, ControlOK, vars, OtherFetches

LEMMA SafeStep == SafeInv /\ [Next]_vars => SafeInv'
<1>1. SUFFICES ASSUME SafeInv, [Next]_vars PROVE SafeInv'
  OBVIOUS
<1>2. CASE UNCHANGED vars
  BY <1>1, <1>2, SafeStutter
<1>3. ASSUME NEW p \in Procs, Migrate(p) PROVE SafeInv'
  BY <1>1, <1>3, MigrateSafe
<1>4. ASSUME NEW p \in Procs,
             Open(p) \/ Close(p) \/ Kill(p)
               \/ PrunePortablePayloads(p) \/ DropColumns(p) \/ StampPortable(p)
      PROVE  SafeInv'
  BY <1>1, <1>4, CommandSafe
<1>5. ASSUME NEW p \in Procs, Allocate(p) PROVE SafeInv'
  BY <1>1, <1>5, AllocateSafe
<1>6. ASSUME NEW p \in Procs, Persist(p) PROVE SafeInv'
  BY <1>1, <1>6, PersistSafe
<1>7. QED
  BY <1>1, <1>2, <1>3, <1>4, <1>5, <1>6 DEF Next

LEMMA SafeHolds == Spec => []SafeInv
<1>1. QED
  BY InitSafe, SafeStep, PTL DEF Spec

(* The archive keeps its shape, and a rebuilt table of reservations has one *)
(* row for each key, from whatever archive a release left                   *)
(* (store.go, schema_observation.go).                                       *)
THEOREM SchemaTypes == Spec => []TypeOK
<1>1. ASSUME NEW S, Single(S) PROVE Cardinality(S) <= 1
  <2>1. CASE S = {}
    BY <2>1, FS_EmptySet
  <2>2. CASE S # {}
    <3>1. PICK r : r \in S
      BY <2>2
    <3>2. S = {r}
      BY <1>1, <3>1 DEF Single
    <3>3. QED
      BY <3>2, FS_Singleton
  <2>3. QED
    BY <2>1, <2>2
<1>2. SafeInv => TypeOK
  <2>1. SUFFICES ASSUME SafeInv PROVE TypeOK
    OBVIOUS
  <2>2. NoOrder \in Orders /\ Observations \subseteq Orders
    BY SchemaAssumption DEF NoOrder, Orders, Observations
  <2>3. fetch \in [Procs -> Orders]
    BY <2>1, <2>2 DEF SafeInv, ControlOK
  <2>4. db \in Archive
    BY <2>1, SoundParts DEF SafeInv
  <2>5. db.shape["workflows"] = "current" => Single(db.fence)
    BY <2>1 DEF SafeInv, Sound
  <2>6. db.shape["children"] = "current" => \A f \in Families : Single(db.reserved[f])
    BY <2>1 DEF SafeInv, Sound
  <2>7. QED
    BY <1>1, <2>3, <2>4, <2>5, <2>6 DEF TypeOK
<1>3. QED
  BY <1>2, SafeHolds, PTL

(* No generation is given out twice, whatever tables of an old archive hold *)
(* generations that its allocator has forgotten, whoever is killed where,   *)
(* and however many processes open and sync the archive together            *)
(* (Store.ensureThreadObservationSequenceFloor).                            *)
THEOREM GenerationsNeverRepeat == Spec => []GenerationsAreUnique
<1>1. SafeInv => GenerationsAreUnique
  BY HeldIs DEF SafeInv, Fresh, OtherFetches, GenerationsAreUnique
<1>2. QED
  BY <1>1, SafeHolds, PTL

-----------------------------------------------------------------------------
(* One pass of the steps leaves nothing pending                             *)

\* What the steps before s leave in an archive that nobody else writes.
Reached(s, a) ==
  /\ s # "failed"
  /\ s = "mark" => ~inspectCompatibilityMigrations(a)
  /\ s \in PastColumns => a.shape["columns"] = "current"
  /\ s \in PastFamilies => a.shape["families"] = "current"
  /\ s \in PastRows => a.shape["rows"] = "current"
  /\ s \in PastValues => a.row.seq # Lowest
  /\ s \in PastEvidence => ~threadEvidenceObservationSequenceNeedsRepair(a)
  /\ s \in PastFence => ~workflowRunObservationReservationsNeedRepair(a)
  /\ s \in PastReservations => ~threadChildObservationReservationsNeedRepair(a)
  /\ s \in PastFloor => a.allocator >= Floor(a)
  /\ s \in PastKeys => a.shape["keys"] = "current"
  /\ s \in PastTriggers => a.triggers = Watched
  /\ s \in PastVersion => a.version >= Supported

\* What the step s adds to it.
Adds(s, a) ==
  /\ s \in {"columns", "families", "rows", "keys"} => a.shape[s] = "current"
  /\ s = "values" => a.row.seq # Lowest
  /\ s = "evidence" => ~threadEvidenceObservationSequenceNeedsRepair(a)
  /\ s = "fence" => ~workflowRunObservationReservationsNeedRepair(a)
  /\ s = "reservations" => ~threadChildObservationReservationsNeedRepair(a)
  /\ s = "floor" => a.allocator >= Floor(a)
  /\ s = "triggers" => a.triggers = Watched
  /\ s = "version" => a.version >= Supported

LEMMA ReachedNext ==
  ASSUME NEW a, NEW s \in StepNames \ {"verify"}, Reached(s, a), Adds(s, a)
  PROVE  Reached(After(s), a)
BY AfterEach
   DEF Reached, Adds, StepNames, PastColumns, PastBodies, PastFamilies, PastRows, PastValues,
       PastEvidence, PastWorkflows, PastFence, PastRecover, PastRemove, PastChildren,
       PastReservations, PastAllocator, PastFloor, PastKeys, PastTriggers, PastVersion

LEMMA ReachedByNobody ==
  ASSUME NEW a, NEW s \in PCs \ (PastColumns \cup {"failed", "mark"})
  PROVE  Reached(s, a)
BY DEF Reached, PCs, StepNames, PastColumns, PastBodies, PastFamilies, PastRows, PastValues,
       PastEvidence, PastWorkflows, PastFence, PastRecover, PastRemove, PastChildren,
       PastReservations, PastAllocator, PastFloor, PastKeys, PastTriggers, PastVersion

LEMMA SameEvidence ==
  ASSUME NEW a, NEW b, b.evidence = a.evidence, b.revisions = a.revisions
  PROVE  /\ threadEvidenceObservationSequenceNeedsRepair(b)
              = threadEvidenceObservationSequenceNeedsRepair(a)
         /\ b.row = a.row => EffectiveEvidence(b) = EffectiveEvidence(a)
BY DEF threadEvidenceObservationSequenceNeedsRepair, TupleExists, HasRevision,
       EffectiveEvidence, EvidenceRevision

\* What a statement of the step s must leave alone.
Spares(s, a, b) ==
  /\ \A t \in {"columns", "families", "rows", "keys"} :
       a.shape[t] = "current" => b.shape[t] = "current"
  /\ s \in PastValues => b.row = a.row
  /\ s \in PastEvidence => b.evidence = a.evidence /\ b.revisions = a.revisions
  /\ s \in PastFence => b.details = a.details
  /\ s \in PastFence => b.fence = a.fence \/ ~workflowRunObservationReservationsNeedRepair(b)
  /\ s \in PastReservations => b.reserved = a.reserved
  /\ s \in PastFloor => b.allocator = a.allocator /\ b.fence = a.fence
  /\ s \in PastTriggers => b.triggers = a.triggers
  /\ s \in PastVersion => b.version = a.version

LEMMA ReachedSpared ==
  ASSUME NEW a, NEW b, NEW s \in StepNames, Reached(s, a), Spares(s, a, b)
  PROVE  Reached(s, b)
<1>1. /\ s # "failed" /\ s # "mark"
      /\ PastVersion \subseteq PastTriggers /\ PastTriggers \subseteq PastFloor
      /\ PastFloor \subseteq PastReservations /\ PastReservations \subseteq PastFence
      /\ PastFence \subseteq PastEvidence /\ PastEvidence \subseteq PastValues
  BY DEF StepNames, PastColumns, PastBodies, PastFamilies, PastRows, PastValues,
         PastEvidence, PastWorkflows, PastFence, PastRecover, PastRemove, PastChildren,
         PastReservations, PastAllocator, PastFloor, PastKeys, PastTriggers, PastVersion
<1>2. s \in PastEvidence => ~threadEvidenceObservationSequenceNeedsRepair(b)
  BY SameEvidence DEF Reached, Spares
<1>3. s \in PastFence => ~workflowRunObservationReservationsNeedRepair(b)
  BY <1>1, SameEvidence DEF Reached, Spares, workflowRunObservationReservationsNeedRepair
<1>4. s \in PastReservations => ~threadChildObservationReservationsNeedRepair(b)
  BY <1>1, SameEvidence DEF Reached, Spares, threadChildObservationReservationsNeedRepair
<1>5. s \in PastFloor => b.allocator >= Floor(b)
  <2>1. s \in PastFloor => Held(b) = Held(a)
    BY <1>1 DEF Spares, Held
  <2>2. s \in PastFloor => Floor(b) = Floor(a)
    BY <2>1, HeldIs
  <2>3. QED
    BY <2>2 DEF Reached, Spares
<1>6. QED
  BY <1>1, <1>2, <1>3, <1>4, <1>5 DEF Reached, Spares

\* The evidence that counts is the one the row has, once it has been repaired.
LEMMA EffectiveIs ==
  ASSUME NEW a, Sound(a), a.shape["rows"] = "current",
         ~threadEvidenceObservationSequenceNeedsRepair(a)
  PROVE  EffectiveEvidence(a) = a.evidence.seq /\ a.evidence.seq \in Nat
<1>1. a.evidence.seq \in Int /\ a.evidence.seq >= 0
  BY SoundParts, ArchiveParts, OrderIs DEF Sound
<1>2. QED
  BY <1>1 DEF EffectiveEvidence, threadEvidenceObservationSequenceNeedsRepair

LEMMA SparedBy ==
  ASSUME NEW a, NEW b, NEW S, Kept(a, b, S), NEW s,
         \A t \in {"columns", "families", "rows", "keys"} :
           a.shape[t] = "current" => b.shape[t] = "current",
         s \in PastValues => "row" \notin S,
         s \in PastEvidence => "evidence" \notin S /\ "revisions" \notin S,
         s \in PastFence => "details" \notin S /\ "fence" \notin S,
         s \in PastReservations => "reserved" \notin S,
         s \in PastFloor => "allocator" \notin S,
         s \in PastTriggers => "triggers" \notin S,
         s \in PastVersion => "version" \notin S
  PROVE  Spares(s, a, b)
<1>1. PastFloor \subseteq PastFence
  BY DEF PastFence, PastRecover, PastRemove, PastChildren,
         PastReservations, PastAllocator, PastFloor, PastKeys, PastTriggers, PastVersion
<1>2. QED
  BY <1>1 DEF Spares, Kept

\* A step that was looked at and found current, or a first row of the allocator.
LEMMA RowSpares ==
  ASSUME NEW a, Sound(a)
  PROVE  Spares("allocator", a, ensureThreadObservationSequenceRow(a))
<1> DEFINE b == ensureThreadObservationSequenceRow(a)
<1>1. Kept(a, b, {"allocator", "checked"})
  BY SoundParts, AllocatorRowIs
<1> HIDE DEF b
<1>2. b.shape = a.shape
  BY <1>1 DEF Kept
<1>3. Spares("allocator", a, b)
  BY <1>1, <1>2, SparedBy DEF PastFloor, PastKeys, PastTriggers, PastVersion
<1>4. QED
  BY <1>3 DEF b

LEMMA SparesNothing ==
  ASSUME NEW a, NEW s
  PROVE  Spares(s, a, a)
BY DEF Spares

LEMMA RebuildPasses ==
  ASSUME NEW p \in Procs, Rebuilding(p), Sound(db)
  PROVE  Spares(pc[p], db, db') /\ Adds(pc[p], db')
<1>1. db \in Archive /\ Unequal(db.fence)
  BY SoundParts
<1>2. CASE pc[p] = "columns"
  <2>1. db' = ensureLegacyPortableColumns(db)
    BY <1>2, RebuildIs
  <2>2. /\ Kept(db, db', {"shape", "body"}) /\ db'.shape["columns"] = "current"
        /\ \A u \in Tables : u # "columns" => db'.shape[u] = db.shape[u]
    BY <1>1, <2>1, ColumnsIs
  <2>3. QED
    BY <1>2, <2>2, SparedBy DEF Adds, Tables
<1>3. CASE pc[p] = "families"
  <2>1. db' = ensureFamilyTombstoneSchema(db)
    BY <1>3, RebuildIs
  <2>2. /\ Kept(db, db', {"shape"}) /\ db'.shape["families"] = "current"
        /\ \A u \in Tables : u # "families" => db'.shape[u] = db.shape[u]
    BY <1>1, <2>1, FamiliesIs
  <2>3. QED
    BY <1>3, <2>2, SparedBy DEF Adds, Tables
<1>4. CASE pc[p] = "rows"
  <2>1. db' = ensureCanonicalObservationTables(db)
    BY <1>4, RebuildIs
  <2>2. /\ Kept(db, db', {"row", "evidence", "revisions", "shape", "triggers"})
        /\ db'.shape["rows"] = "current"
        /\ \A u \in Tables : u # "rows" => db'.shape[u] = db.shape[u]
    BY <1>1, <2>1, RowsIs
  <2>3. "rows" \notin PastValues /\ "rows" \notin PastEvidence /\ "rows" \notin PastTriggers
    BY DEF PastValues, PastEvidence, PastWorkflows, PastFence, PastRecover, PastRemove,
           PastChildren, PastReservations, PastAllocator, PastFloor, PastKeys, PastTriggers,
           PastVersion
  <2>4. QED
    BY <1>4, <2>2, <2>3, SparedBy DEF Adds, Tables
<1>5. CASE pc[p] = "workflows"
  <2>1. db' = ensureWorkflowRunObservationReservationsSchema(db, seen[p])
    BY <1>5, RebuildIs
  <2>2. /\ Kept(db, db', {"fence", "shape", "triggers"})
        /\ \A u \in Tables : u # "workflows" => db'.shape[u] = db.shape[u]
    <3>1. LET b == ensureWorkflowRunObservationReservationsSchema(db, seen[p])
          IN /\ Kept(db, b, {"fence", "shape", "triggers"})
             /\ \A u \in Tables : u # "workflows" => b.shape[u] = db.shape[u]
      BY <1>1, WorkflowsIs
    <3>2. QED
      BY <2>1, <3>1
  <2>3. "workflows" \notin PastFence /\ "workflows" \notin PastTriggers
    BY DEF PastFence, PastRecover, PastRemove, PastChildren, PastReservations, PastAllocator,
           PastFloor, PastKeys, PastTriggers, PastVersion
  <2>4. QED
    BY <1>5, <2>2, <2>3, SparedBy DEF Adds, Tables
<1>6. CASE pc[p] = "children"
  <2>1. db' = ensureThreadChildObservationReservationsSchema(db, seen[p])
    BY <1>6, RebuildIs
  <2>2. /\ Kept(db, db', {"reserved", "runs", "shape", "triggers"})
        /\ \A u \in Tables : u # "children" => db'.shape[u] = db.shape[u]
    BY <1>1, <2>1, ChildrenIs
  <2>3. "children" \notin PastReservations /\ "children" \notin PastTriggers
    BY DEF PastReservations, PastAllocator, PastFloor, PastKeys, PastTriggers, PastVersion
  <2>4. QED
    BY <1>6, <2>2, <2>3, SparedBy DEF Adds, Tables
<1>7. CASE pc[p] = "allocator"
  <2>1. db' = ensureThreadObservationSequenceSchema(db)
    BY <1>7, RebuildIs
  <2>2. /\ Kept(db, db', {"allocator", "shape", "triggers"})
        /\ \A u \in Tables : u # "allocator" => db'.shape[u] = db.shape[u]
    BY <1>1, <2>1, AllocatorIs
  <2>3. "allocator" \notin PastFloor /\ "allocator" \notin PastTriggers
    BY DEF PastFloor, PastKeys, PastTriggers, PastVersion
  <2>4. QED
    BY <1>7, <2>2, <2>3, SparedBy DEF Adds, Tables
<1>8. CASE pc[p] = "keys"
  <2>1. db' = ensureKeys(db)
    BY <1>8, RebuildIs
  <2>2. /\ Kept(db, db', {"shape"}) /\ db'.shape["keys"] = "current"
        /\ \A u \in Tables : u # "keys" => db'.shape[u] = db.shape[u]
    BY <1>1, <2>1, KeysIs
  <2>3. QED
    BY <1>8, <2>2, SparedBy DEF Adds, Tables
<1>9. CASE pc[p] = "triggers"
  <2>1. db' = ensureObservationSchemaConvergence(db)
    BY <1>9, RebuildIs
  <2>2. Kept(db, db', {"triggers"}) /\ db'.triggers = Watched
    BY <1>1, <2>1, TriggersIs
  <2>3. "triggers" \notin PastTriggers /\ db'.shape = db.shape
    BY <2>2 DEF PastTriggers, PastVersion, Kept
  <2>4. QED
    BY <1>9, <2>2, <2>3, SparedBy DEF Adds
<1>10. QED
  BY <1>2, <1>3, <1>4, <1>5, <1>6, <1>7, <1>8, <1>9, RebuildIs DEF Tables

\* The fence of a legacy reservation is no older than the one it replaces.
LEMMA RecoveredFence ==
  ASSUME NEW a, Sound(a), ~workflowRunObservationReservationsNeedRepair(a)
  PROVE  LET b == RecoverLegacyRuns(a)
         IN b.fence = a.fence \/ ~workflowRunObservationReservationsNeedRepair(b)
<1> DEFINE b == RecoverLegacyRuns(a)
<1>1. Raises(a, b, a.runs) /\ a \in Archive /\ a.runs <= MaxSequence
  BY SoundParts, RecoverIs
<1>2. CASE /\ a.details /\ a.runs > 0
           /\ \A r \in a.fence : r.seq < a.runs
  <2>1. b.fence = {[source |-> Blank, seq |-> a.runs]}
    BY <1>1, <1>2, SchemaAssumption, RaiseFenceIs DEF RecoverLegacyRuns, Archive
  <2> HIDE DEF b
  <2>2. b.details = a.details /\ b.evidence = a.evidence /\ b.revisions = a.revisions
        /\ b.row = a.row
    BY <1>1 DEF Raises, Kept
  <2>3. EffectiveEvidence(b) = EffectiveEvidence(a)
    BY <2>2, SameEvidence
  <2>4. CASE EffectiveEvidence(a) > 0
    <3>1. PICK r \in a.fence : r.source # Blank \/ ~(r.seq < EffectiveEvidence(a))
      BY <1>2, <2>4 DEF workflowRunObservationReservationsNeedRepair
    <3>2. r.source = Blank /\ r.seq < a.runs /\ r.seq \in Int /\ a.runs \in Int
      BY <1>1, <1>2, <3>1, ArchiveParts, OrderIs DEF Sound
    <3>3. EffectiveEvidence(a) \in Int
      <4>1. CASE a.evidence.seq > 0
        BY <1>1, <4>1, ArchiveParts, OrderIs DEF EffectiveEvidence
      <4>2. CASE ~(a.evidence.seq > 0) /\ HasRevision(a)
        <5>1. EvidenceRevision(a) \in Orders
          BY <1>1, <4>2, EvidenceRevisionIs, ArchiveParts
        <5>2. QED
          BY <4>2, <5>1, OrderIs DEF EffectiveEvidence
      <4>3. CASE ~(a.evidence.seq > 0) /\ ~HasRevision(a)
        BY <4>3 DEF EffectiveEvidence
      <4>4. QED
        BY <4>1, <4>2, <4>3
    <3>4. ~(a.runs < EffectiveEvidence(b))
      BY <2>3, <3>1, <3>2, <3>3
    <3>5. ~workflowRunObservationReservationsNeedRepair(b)
      BY <2>1, <3>4 DEF workflowRunObservationReservationsNeedRepair
    <3>6. QED
      BY <3>5 DEF b
  <2>5. CASE ~(EffectiveEvidence(a) > 0)
    <3>1. ~workflowRunObservationReservationsNeedRepair(b)
      BY <2>3, <2>5 DEF workflowRunObservationReservationsNeedRepair
    <3>2. QED
      BY <3>1 DEF b
  <2>6. QED
    BY <2>4, <2>5
<1>3. CASE ~(/\ a.details /\ a.runs > 0
             /\ \A r \in a.fence : r.seq < a.runs)
  BY <1>3 DEF RecoverLegacyRuns
<1>4. QED
  BY <1>2, <1>3

LEMMA RepairPasses ==
  ASSUME NEW p \in Procs, Repair(p), Sound(db), Reached(pc[p], db)
  PROVE  Spares(pc[p], db, db') /\ Adds(pc[p], db')
<1>1. db \in Archive /\ db.runs <= MaxSequence
  BY SoundParts
<1>2. CASE pc[p] = "bodies"
  <2>1. db' = BackfillBodies(db, seen[p])
    BY <1>2 DEF Repair, Writes
  <2>2. LET b == BackfillBodies(db, seen[p]) IN Kept(db, b, {"body", "checked"})
    BY <1>1, BodiesIs
  <2>3. Kept(db, db', {"body", "checked"}) /\ db'.shape = db.shape
    BY <2>1, <2>2 DEF Kept
  <2>4. QED
    BY <1>2, <2>3, SparedBy DEF Adds
<1>3. CASE pc[p] = "values"
  <2>1. db' = ensureThreadObservationSequenceValues(db)
    BY <1>3 DEF Repair, Writes
  <2>2. /\ Kept(db, db', {"row", "checked"})
        /\ db'.row = IF db.row.seq = Lowest THEN [db.row EXCEPT !.seq = 0] ELSE db.row
    BY <1>1, <2>1, ValuesIs
  <2>3. db'.row.seq # Lowest
    BY <1>1, <2>2, ArchiveParts, OrderIs, OrderWith DEF Lowest, Orders
  <2>4. db'.shape = db.shape /\ "values" \notin PastValues
    BY <2>2 DEF Kept, PastValues, PastEvidence, PastWorkflows, PastFence, PastRecover,
                PastRemove, PastChildren, PastReservations, PastAllocator, PastFloor, PastKeys,
                PastTriggers, PastVersion
  <2>5. QED
    BY <1>3, <2>2, <2>3, <2>4, SparedBy DEF Adds
<1>4. CASE pc[p] = "evidence"
  <2>1. db' = ensureThreadEvidenceObservationSequence(db)
    BY <1>4 DEF Repair, Writes
  <2>2. /\ Kept(db, db', {"evidence", "checked"})
        /\ threadEvidenceObservationSequenceNeedsRepair(db)
             => db'.evidence.seq > 0 /\ \E r \in db.revisions : r.seq = db'.evidence.seq
        /\ ~threadEvidenceObservationSequenceNeedsRepair(db) => db' = db
    BY <1>1, <2>1, EvidenceIs
  <2>3. db'.revisions = db.revisions /\ db'.shape = db.shape
        /\ "evidence" \notin PastEvidence
    BY <2>2 DEF Kept, PastEvidence, PastWorkflows, PastFence, PastRecover,
                PastRemove, PastChildren, PastReservations, PastAllocator, PastFloor, PastKeys,
                PastTriggers, PastVersion
  <2>4. ~threadEvidenceObservationSequenceNeedsRepair(db')
    <3>1. CASE threadEvidenceObservationSequenceNeedsRepair(db)
      <4>1. TupleExists(db') /\ db'.evidence.seq > 0
        BY <2>2, <2>3, <3>1 DEF TupleExists
      <4>2. db'.evidence.seq # 0
        BY <4>1
      <4>3. QED
        BY <4>1, <4>2 DEF threadEvidenceObservationSequenceNeedsRepair
    <3>2. QED
      BY <2>2, <3>1
  <2>5. QED
    BY <1>4, <2>2, <2>3, <2>4, SparedBy DEF Adds
<1>5. CASE pc[p] = "fence"
  <2>1. db' = BackfillFence(db)
    BY <1>5 DEF Repair, Writes
  <2> DEFINE pending == /\ db.details /\ db.evidence.seq > 0
                        /\ \A r \in db.fence : r.source = Blank /\ r.seq < db.evidence.seq
  <2>2. /\ Raises(db, db', db.evidence.seq)
        /\ pending => db'.fence = {[source |-> Blank, seq |-> db.evidence.seq]}
        /\ ~pending => db' = db
    BY <1>1, <2>1, BackfillFenceIs
  <2>3. /\ Kept(db, db', {"fence", "checked"}) /\ db'.shape = db.shape
        /\ db'.evidence = db.evidence /\ db'.revisions = db.revisions /\ db'.row = db.row
        /\ db'.details = db.details
    BY <2>2 DEF Raises, Kept
  <2>4. "fence" \notin PastFence /\ "fence" \in PastEvidence /\ "fence" \in PastRows
    BY DEF PastRows, PastValues, PastEvidence, PastWorkflows, PastFence, PastRecover,
           PastRemove, PastChildren, PastReservations, PastAllocator, PastFloor, PastKeys,
           PastTriggers, PastVersion
  <2>5. EffectiveEvidence(db) = db.evidence.seq /\ db.evidence.seq \in Nat
    BY <1>5, <2>4, EffectiveIs DEF Reached
  <2>6. EffectiveEvidence(db') = db.evidence.seq
    BY <2>3, <2>5, SameEvidence
  <2>7. ~workflowRunObservationReservationsNeedRepair(db')
    <3>1. CASE pending
      <4>1. [source |-> Blank, seq |-> db.evidence.seq] \in db'.fence
        BY <2>2, <3>1
      <4>2. ~(db.evidence.seq < db.evidence.seq)
        BY <2>5
      <4>3. QED
        BY <2>6, <4>1, <4>2 DEF workflowRunObservationReservationsNeedRepair
    <3>2. CASE ~pending
      BY <2>2, <2>5, <3>2 DEF workflowRunObservationReservationsNeedRepair
    <3>3. QED
      BY <3>1, <3>2
  <2>8. QED
    BY <1>5, <2>3, <2>4, <2>7, SparedBy DEF Adds
<1>6. CASE pc[p] = "recover"
  <2>1. db' = RecoverLegacyRuns(db)
    BY <1>6 DEF Repair, Writes
  <2>2. Raises(db, db', db.runs)
    BY <1>1, <2>1, RecoverIs
  <2>3. Kept(db, db', {"fence", "checked"}) /\ db'.shape = db.shape
    BY <2>2 DEF Raises, Kept
  <2>4. "recover" \in PastFence /\ "recover" \notin PastReservations
        /\ "recover" \notin PastFloor /\ "recover" \notin PastTriggers
        /\ "recover" \notin PastVersion
    BY DEF PastFence, PastRecover, PastRemove, PastChildren, PastReservations, PastAllocator,
           PastFloor, PastKeys, PastTriggers, PastVersion
  <2>5. db'.fence = db.fence \/ ~workflowRunObservationReservationsNeedRepair(db')
    BY <1>6, <2>1, <2>4, RecoveredFence DEF Reached
  <2>6. Spares(pc[p], db, db')
    BY <1>6, <2>3, <2>4, <2>5 DEF Spares, Kept
  <2>7. QED
    BY <1>6, <2>6 DEF Adds
<1>7. CASE pc[p] = "remove"
  <2>1. db' = RemoveLegacyRuns(db)
    BY <1>7 DEF Repair, Writes
  <2>2. Kept(db, db', {"runs", "checked"})
    BY <1>1, <2>1, RemoveIs
  <2>3. db'.shape = db.shape
    BY <2>2 DEF Kept
  <2>4. QED
    BY <1>7, <2>2, <2>3, SparedBy DEF Adds
<1>8. CASE pc[p] = "reservations"
  <2>1. db' = ensureThreadChildObservationReservations(db)
    BY <1>8 DEF Repair, Writes
  <2>2. /\ Kept(db, db', {"reserved", "checked"})
        /\ db.evidence.seq > 0 => \A f \in Families : db'.reserved[f] # {}
    BY <1>1, <2>1, ReservationsIs
  <2>3. /\ db'.shape = db.shape
        /\ db'.evidence = db.evidence /\ db'.revisions = db.revisions /\ db'.row = db.row
    BY <2>2 DEF Kept
  <2>4. "reservations" \notin PastReservations /\ "reservations" \in PastEvidence
        /\ "reservations" \in PastRows
    BY DEF PastRows, PastValues, PastEvidence, PastWorkflows, PastFence, PastRecover,
           PastRemove, PastChildren, PastReservations, PastAllocator, PastFloor, PastKeys,
           PastTriggers, PastVersion
  <2>5. EffectiveEvidence(db) = db.evidence.seq
    BY <1>8, <2>4, EffectiveIs DEF Reached
  <2>6. EffectiveEvidence(db') = db.evidence.seq
    BY <2>3, <2>5, SameEvidence
  <2>7. ~threadChildObservationReservationsNeedRepair(db')
    BY <2>2, <2>6 DEF threadChildObservationReservationsNeedRepair
  <2>8. QED
    BY <1>8, <2>2, <2>3, <2>4, <2>7, SparedBy DEF Adds
<1>9. CASE pc[p] = "floor"
  <2>1. db' = ensureThreadObservationSequenceFloor(db)
    BY <1>9 DEF Repair, Writes
  <2>2. Kept(db, db', {"allocator", "checked"}) /\ db'.allocator >= Floor(db)
    BY <1>1, <2>1, AllocatorFloorIs
  <2>3. db'.shape = db.shape /\ Held(db') = Held(db)
    BY <2>2 DEF Kept, Held
  <2>4. db'.allocator >= Floor(db')
    BY <2>2, <2>3, HeldIs
  <2>5. "floor" \notin PastFloor
    BY DEF PastFloor, PastKeys, PastTriggers, PastVersion
  <2>6. QED
    BY <1>9, <2>2, <2>3, <2>4, <2>5, SparedBy DEF Adds
<1>10. CASE pc[p] = "version"
  <2>1. db' = [db EXCEPT !.version = Supported]
    BY <1>10 DEF Repair, Writes
  <2>2. Kept(db, db', {"version"}) /\ db'.version = Supported
    BY <1>1, <2>1, VersionIs DEF Supported
  <2>3. db'.shape = db.shape /\ "version" \notin PastVersion /\ db'.version >= Supported
    BY <2>2 DEF Kept, PastVersion, Supported
  <2>4. QED
    BY <1>10, <2>2, <2>3, SparedBy DEF Adds
<1>11. QED
  BY <1>2, <1>3, <1>4, <1>5, <1>6, <1>7, <1>8, <1>9, <1>10 DEF Repair

\* A step whose table is found as it should be.
LEMMA CurrentAdds ==
  ASSUME NEW t \in Tables, NEW a, a.shape[t] = "current"
  PROVE  Adds(t, a)
BY DEF Adds, Tables

\* The steps of one pass, from the first to the last.
LEMMA PassReaches ==
  ASSUME NEW p \in Procs, Sound(db), pc \in [Procs -> PCs], Reached(pc[p], db),
         Look(p) \/ Rebuilding(p) \/ Repair(p)
  PROVE  Reached(pc'[p], db')
<1>1. pc[p] \in StepNames \ {"verify"}
  BY PCsAre DEF Look, Rebuilding, Rebuild, Repair, Tables, StepNames, PastColumns, PastBodies,
                PastFamilies, PastRows, PastValues, PastEvidence, PastWorkflows, PastFence,
                PastRecover, PastRemove, PastChildren, PastReservations, PastAllocator,
                PastFloor, PastKeys, PastTriggers, PastVersion
<1>2. ASSUME Spares(pc[p], db, db'), Adds(pc[p], db')
      PROVE  Reached(After(pc[p]), db')
  BY <1>1, <1>2, ReachedSpared, ReachedNext
<1>3. CASE Rebuilding(p)
  <2>1. pc'[p] = After(pc[p])
    BY <1>3 DEF Rebuilding, Rebuild, Goto
  <2>2. QED
    BY <1>2, <1>3, <2>1, RebuildPasses
<1>4. CASE Repair(p)
  <2>1. pc'[p] = After(pc[p])
    BY <1>4 DEF Repair, Goto
  <2>2. QED
    BY <1>2, <1>4, <2>1, RepairPasses
<1>5. CASE Look(p)
  <2>1. CASE pc' = pc
    <3>1. db' = db
      <4>1. pc[p] # After(pc[p])
        BY <1>1, AfterEach DEF StepNames, PastColumns, PastBodies,
                PastFamilies, PastRows, PastValues, PastEvidence, PastWorkflows, PastFence,
                PastRecover, PastRemove, PastChildren, PastReservations, PastAllocator,
                PastFloor, PastKeys, PastTriggers, PastVersion
      <4>2. QED
        BY <1>5, <2>1, <4>1 DEF Look, Goto
    <3>2. QED
      BY <2>1, <3>1
  <2>2. CASE pc' # pc
    <3>1. /\ pc'[p] = After(pc[p])
          /\ db' = IF pc[p] = "allocator" THEN ensureThreadObservationSequenceRow(db) ELSE db
      BY <1>5, <2>2 DEF Look, Goto, Writes
    <3>2. Spares(pc[p], db, db')
      BY <3>1, RowSpares, SparesNothing
    <3>3. Adds(pc[p], db')
      <4>1. CASE pc[p] = "triggers"
        BY <1>5, <2>2, <3>1, <4>1 DEF Look, Adds
      <4>2. CASE pc[p] \in Tables
        <5>1. db.shape[pc[p]] = "current" /\ db'.shape = db.shape
          <6>1. db.shape[pc[p]] = "current"
            BY <1>5, <2>2, <4>2 DEF Look, Tables
          <6>2. pc[p] = "allocator" => db'.shape = db.shape
            BY <3>1, SoundParts, AllocatorRowIs DEF Kept
          <6>3. QED
            BY <3>1, <6>1, <6>2
        <5>2. QED
          BY <4>2, <5>1, CurrentAdds
      <4>3. QED
        BY <1>5, <4>1, <4>2 DEF Look
    <3>4. QED
      BY <1>2, <3>1, <3>2, <3>3
  <2>3. QED
    BY <2>1, <2>2
<1>6. QED
  BY <1>3, <1>4, <1>5

\* What p remembers of a table it looked at, until it has rebuilt it.
Looked(p) ==
  seen[p] # "unseen" =>
    /\ pc[p] \in Tables \cup {"triggers", "bodies"}
    /\ pc[p] \in {"columns", "families"} => (meddled[p] \/ db.shape[pc[p]] # "current")

PassOf(p) == (meddled[p] \/ Reached(pc[p], db)) /\ Looked(p)

PassInv == \A p \in Procs : PassOf(p)

\* What the other processes see of a step of p.
Apart(p) ==
  \A q \in Procs : q # p =>
    /\ pc'[q] = pc[q] /\ seen'[q] = seen[q]
    /\ meddled[q] => meddled'[q]
    /\ meddled'[q] \/ db' = db

Commands(p) ==
  \/ Open(p) \/ Close(p) \/ Kill(p)
  \/ PrunePortablePayloads(p) \/ DropColumns(p) \/ StampPortable(p)

LEMMA WritesApart ==
  ASSUME ControlOK, NEW p \in Procs, NEW a, Writes(p, a)
  PROVE  \A q \in Procs : q # p => (meddled[q] => meddled'[q]) /\ (meddled'[q] \/ db' = db)
BY DEF ControlOK, Writes

LEMMA StepsApart ==
  ASSUME ControlOK, NEW p \in Procs,
         Migrate(p) \/ Commands(p) \/ Allocate(p) \/ Persist(p)
  PROVE  Apart(p)
<1> USE DEF ControlOK
<1>1. CASE ApplySchema(p)
  BY <1>1, WritesApart DEF ApplySchema, Goto, Apart
<1>2. CASE InspectStructure(p) \/ CheckConverged(p) \/ Close(p)
  BY <1>2 DEF InspectStructure, CheckConverged, Close, Goto, Apart, history
<1>3. CASE Inspect(p) \/ Verify(p)
  BY <1>3 DEF Inspect, Verify, Goto, Apart
<1>4. CASE Look(p)
  BY <1>4, WritesApart DEF Look, Goto, Apart
<1>5. CASE Rebuild(p)
  BY <1>5, WritesApart DEF Rebuild, Goto, Apart
<1>6. CASE Repair(p)
  BY <1>6, WritesApart DEF Repair, Goto, Apart
<1>7. CASE Mark(p)
  BY <1>7, WritesApart DEF Mark, Goto, Apart
<1>8. CASE Open(p) \/ Kill(p)
  BY <1>8 DEF Open, Kill, Goto, Apart, history
<1>9. CASE PrunePortablePayloads(p) \/ DropColumns(p) \/ StampPortable(p)
  BY <1>9, WritesApart DEF PrunePortablePayloads, DropColumns, StampPortable, Goto, Apart
<1>10. CASE Allocate(p)
  BY <1>10, WritesApart DEF Allocate, Apart
<1>11. CASE Persist(p)
  BY <1>11, WritesApart DEF Persist, Apart
<1>12. QED
  BY <1>1, <1>2, <1>3, <1>4, <1>5, <1>6, <1>7, <1>8, <1>9, <1>10, <1>11 DEF Migrate, Commands

LEMMA ApartPass ==
  ASSUME NEW p \in Procs, Apart(p), NEW q \in Procs, q # p, PassOf(q)
  PROVE  PassOf(q)'
<1>1. pc'[q] = pc[q] /\ seen'[q] = seen[q] /\ (meddled[q] => meddled'[q])
      /\ (meddled'[q] \/ db' = db)
  BY DEF Apart
<1>2. CASE meddled'[q]
  BY <1>1, <1>2 DEF PassOf, Looked
<1>3. CASE ~meddled'[q]
  BY <1>1, <1>3 DEF PassOf, Looked
<1>4. QED
  BY <1>2, <1>3

\* Everything an inspection asks of the archive has been reached.
LEMMA PassComplete ==
  ASSUME NEW a, Sound(a), Reached("verify", a), Settled("verify", a)
  PROVE  ~inspectCompatibilityMigrations(a)
<1>1. "verify" \in PastVersion
  BY DEF PastVersion
<1>2. /\ PastVersion \subseteq PastTriggers /\ PastTriggers \subseteq PastKeys
      /\ PastKeys \subseteq PastFloor /\ PastFloor \subseteq PastAllocator
      /\ PastAllocator \subseteq PastReservations /\ PastReservations \subseteq PastChildren
      /\ PastChildren \subseteq PastFence /\ PastFence \subseteq PastWorkflows
      /\ PastWorkflows \subseteq PastEvidence /\ PastEvidence \subseteq PastValues
      /\ PastValues \subseteq PastRows /\ PastRows \subseteq PastFamilies
      /\ PastFamilies \subseteq PastColumns
  BY DEF PastColumns, PastBodies, PastFamilies, PastRows, PastValues,
         PastEvidence, PastWorkflows, PastFence, PastRecover, PastRemove, PastChildren,
         PastReservations, PastAllocator, PastFloor, PastKeys, PastTriggers, PastVersion
<1>3. \A t \in Tables : a.shape[t] = "current"
  BY <1>1, <1>2 DEF Reached, Settled, Tables
<1>4. a.version \in Nat /\ a.version >= Supported /\ a.triggers = Watched
  BY <1>1, <1>2, SoundParts DEF Reached
<1>5. ~inspectStructuralCompatibilityMigrations(a)
  BY <1>3, <1>4 DEF inspectStructuralCompatibilityMigrations, Supported
<1>6. ~threadObservationSequenceNeedsRepair(a)
  BY <1>1, <1>2, SoundParts, FloorReached DEF Reached
<1>7. ~Drift(a)
  BY <1>1, <1>2, <1>6 DEF Reached, Drift, threadObservationSequenceValuesNeedRepair
<1>8. QED
  BY <1>5, <1>7 DEF inspectCompatibilityMigrations

LEMMA MigratePass ==
  ASSUME SafeInv, PassInv, NEW p \in Procs, Migrate(p)
  PROVE  PassOf(p)'
<1>1. /\ ControlOK /\ Sound(db) /\ Settled(pc[p], db) /\ PassOf(p)
      /\ pc \in [Procs -> PCs] /\ seen \in [Procs -> Shapes \cup {"unseen"}]
      /\ meddled \in [Procs -> BOOLEAN]
  BY DEF SafeInv, PassInv, ControlOK
<1>2. \A s \in {"columns", "structure", "converged", "open", "inspect", "closed"} :
        \A a : Reached(s, a)
  BY PCsAre, ReachedByNobody
     DEF PastColumns, PastBodies, PastFamilies, PastRows, PastValues,
         PastEvidence, PastWorkflows, PastFence, PastRecover, PastRemove, PastChildren,
         PastReservations, PastAllocator, PastFloor, PastKeys, PastTriggers, PastVersion
<1>3. pc[p] \notin Tables \cup {"triggers", "bodies"} => seen[p] = "unseen"
  BY <1>1 DEF PassOf, Looked
<1>4. CASE ApplySchema(p) \/ InspectStructure(p) \/ CheckConverged(p) \/ Inspect(p)
           \/ Verify(p) \/ Mark(p)
  <2>1. seen[p] = "unseen" /\ seen' = seen
    BY <1>3, <1>4 DEF ApplySchema, InspectStructure, CheckConverged, Inspect, Verify, Mark, Tables
  <2>2. meddled'[p] \/ Reached(pc'[p], db')
    <3>1. CASE ApplySchema(p) \/ InspectStructure(p) \/ CheckConverged(p) \/ Mark(p)
      BY <1>1, <1>2, <3>1 DEF ApplySchema, InspectStructure, CheckConverged, Mark, Goto
    <3>2. CASE Inspect(p)
      <4>1. /\ db' = db
            /\ \/ pc'[p] = "columns"
               \/ pc'[p] = "mark" /\ ~inspectCompatibilityMigrations(db)
        BY <1>1, <3>2 DEF Inspect, Goto
      <4>2. ~inspectCompatibilityMigrations(db) => Reached("mark", db)
        BY DEF Reached, PastColumns, PastBodies, PastFamilies, PastRows, PastValues,
               PastEvidence, PastWorkflows, PastFence, PastRecover, PastRemove, PastChildren,
               PastReservations, PastAllocator, PastFloor, PastKeys, PastTriggers, PastVersion
      <4>3. QED
        BY <1>2, <4>1, <4>2
    <3>3. CASE Verify(p)
      <4>1. db' = db /\ pc[p] = "verify"
            /\ (inspectCompatibilityMigrations(db) => meddled'[p] = meddled[p])
            /\ (~inspectCompatibilityMigrations(db) => pc'[p] = "mark")
        BY <1>1, <3>3 DEF Verify, Goto
      <4>2. ~inspectCompatibilityMigrations(db) => Reached("mark", db)
        BY DEF Reached, PastColumns, PastBodies, PastFamilies, PastRows, PastValues,
               PastEvidence, PastWorkflows, PastFence, PastRecover, PastRemove, PastChildren,
               PastReservations, PastAllocator, PastFloor, PastKeys, PastTriggers, PastVersion
      <4>3. inspectCompatibilityMigrations(db) => meddled[p]
        BY <1>1, <4>1, PassComplete DEF PassOf
      <4>4. QED
        BY <4>1, <4>2, <4>3
    <3>4. QED
      BY <1>4, <3>1, <3>2, <3>3
  <2>3. QED
    BY <2>1, <2>2 DEF PassOf, Looked
<1>5. CASE Look(p)
  <2>1. pc[p] \in Tables \cup {"triggers"} /\ seen[p] = "unseen"
    BY <1>5 DEF Look
  <2>2. meddled'[p] = meddled[p]
    BY <1>1, <1>5 DEF Look, Writes
  <2>3. meddled'[p] \/ Reached(pc'[p], db')
    BY <1>1, <1>5, <2>2, PassReaches DEF PassOf
  <2>4. Looked(p)'
    BY <1>1, <1>5, <2>1 DEF Look, Looked, Tables
  <2>5. QED
    BY <2>3, <2>4 DEF PassOf
<1>6. CASE Rebuild(p)
  <2>1. pc[p] \in Tables \cup {"triggers"} /\ seen[p] # "unseen"
    BY <1>6 DEF Rebuild
  <2>2. CASE Duplicate(p)
    <3>1. meddled[p]
      BY <1>1, <2>1, <2>2 DEF PassOf, Looked, Duplicate
    <3>2. meddled'[p] /\ seen'[p] = "unseen"
      BY <1>1, <1>6, <2>2, <3>1 DEF Rebuild
    <3>3. QED
      BY <3>2 DEF PassOf, Looked
  <2>3. CASE ~Duplicate(p)
    <3>1. Rebuilding(p)
      BY <1>6, <2>3 DEF Rebuilding
    <3>2. meddled'[p] = meddled[p] /\ pc'[p] = After(pc[p])
      BY <1>1, <1>6, <2>3 DEF Rebuild, Writes, Goto
    <3>3. meddled'[p] \/ Reached(pc'[p], db')
      BY <1>1, <3>1, <3>2, PassReaches DEF PassOf
    <3>4. seen'[p] # "unseen" => pc[p] = "columns"
      BY <1>1, <1>6 DEF Rebuild
    <3>5. pc[p] = "columns" => pc'[p] = "bodies"
      BY <3>2, AfterEach
    <3>6. Looked(p)'
      BY <3>4, <3>5 DEF Looked
    <3>7. QED
      BY <3>3, <3>6 DEF PassOf
  <2>4. QED
    BY <2>2, <2>3
<1>7. CASE Repair(p)
  <2>1. meddled'[p] = meddled[p] /\ seen'[p] = "unseen"
    BY <1>1, <1>7 DEF Repair, Writes
  <2>2. meddled'[p] \/ Reached(pc'[p], db')
    BY <1>1, <1>7, <2>1, PassReaches DEF PassOf
  <2>3. QED
    BY <2>1, <2>2 DEF PassOf, Looked
<1>8. QED
  BY <1>4, <1>5, <1>6, <1>7 DEF Migrate

LEMMA OtherPass ==
  ASSUME ControlOK, PassInv, NEW p \in Procs, Commands(p) \/ Allocate(p) \/ Persist(p)
  PROVE  PassOf(p)'
<1>1. PassOf(p) /\ pc \in [Procs -> PCs] /\ seen \in [Procs -> Shapes \cup {"unseen"}]
  BY DEF ControlOK, PassInv
<1>2. \A s \in {"closed", "apply", "applyCurrent", "open", "drop", "stamp"} :
        \A a : Reached(s, a)
  BY PCsAre, ReachedByNobody
     DEF PCs, StepNames, PastColumns, PastBodies, PastFamilies, PastRows, PastValues,
         PastEvidence, PastWorkflows, PastFence, PastRecover, PastRemove, PastChildren,
         PastReservations, PastAllocator, PastFloor, PastKeys, PastTriggers, PastVersion
<1>3. pc'[p] \in {"closed", "apply", "applyCurrent", "open", "drop", "stamp"}
  BY <1>1 DEF Commands, Open, Close, Kill, PrunePortablePayloads, DropColumns, StampPortable,
              Allocate, Persist, Goto
<1>4. Reached(pc'[p], db')
  BY <1>2, <1>3
<1>5. seen'[p] = "unseen"
  BY <1>1 DEF PassOf, Looked, Tables, Commands, Open, Close, Kill, PrunePortablePayloads,
              DropColumns, StampPortable, Allocate, Persist
<1>6. QED
  BY <1>4, <1>5 DEF PassOf, Looked

LEMMA PassStep == SafeInv /\ PassInv /\ [Next]_vars => PassInv'
<1>1. SUFFICES ASSUME SafeInv, PassInv, [Next]_vars PROVE PassInv'
  OBVIOUS
<1>2. CASE UNCHANGED vars
  BY <1>1, <1>2 DEF vars, PassInv, PassOf, Looked
<1>3. ASSUME NEW p \in Procs, Migrate(p) \/ Commands(p) \/ Allocate(p) \/ Persist(p)
      PROVE  PassInv'
  <2>1. PassOf(p)'
    BY <1>1, <1>3, MigratePass, OtherPass DEF SafeInv
  <2>2. Apart(p)
    BY <1>1, <1>3, StepsApart DEF SafeInv
  <2>3. \A q \in Procs : q # p => PassOf(q)'
    BY <1>1, <2>2, ApartPass DEF PassInv
  <2>4. QED
    BY <2>1, <2>3 DEF PassInv
<1>4. QED
  BY <1>1, <1>2, <1>3 DEF Next, Commands

LEMMA PassHolds == Spec => []PassInv
<1>1. Init => PassInv
  <2>1. SUFFICES ASSUME Init, NEW p \in Procs PROVE PassOf(p)
    BY DEF PassInv
  <2>2. pc[p] = "closed" /\ seen[p] = "unseen"
    BY <2>1 DEF Init
  <2>3. Reached("closed", db)
    BY PCsAre, ReachedByNobody
       DEF PastColumns, PastBodies, PastFamilies, PastRows, PastValues,
           PastEvidence, PastWorkflows, PastFence, PastRecover, PastRemove, PastChildren,
           PastReservations, PastAllocator, PastFloor, PastKeys, PastTriggers, PastVersion
  <2>4. QED
    BY <2>2, <2>3 DEF PassOf, Looked
<1>2. QED
  BY <1>1, PassStep, SafeHolds, PTL DEF Spec

(* An Open that no other process disturbs succeeds, from every archive the  *)
(* releases left sound and wherever an earlier process was killed: one pass *)
(* of the steps, in their order, leaves nothing that the inspection at its  *)
(* end still finds (Store.migrate).                                         *)
THEOREM UndisturbedOpensSucceed == Spec => []UndisturbedOpenSucceeds
<1>1. PassInv => UndisturbedOpenSucceeds
  BY DEF PassInv, PassOf, Reached, UndisturbedOpenSucceeds
<1>2. QED
  BY <1>1, PassHolds, PTL

-----------------------------------------------------------------------------
(* The mark that lets Open skip the inspection                              *)

MarkInv == Converged(db) => ~Drift(db) \/ raced \/ stale

LEMMA DriftIs ==
  ASSUME NEW a, NEW b, NEW S, Kept(a, b, S), a.allocator = b.allocator,
         S \subseteq {"version", "shape", "triggers", "runs", "checked", "body", "length",
                      "allocator"}
  PROVE  Drift(b) = Drift(a)
<1>1. /\ b.row = a.row /\ b.evidence = a.evidence /\ b.revisions = a.revisions
      /\ b.details = a.details /\ b.reserved = a.reserved /\ b.fence = a.fence
  BY DEF Kept
<1>2. EffectiveEvidence(b) = EffectiveEvidence(a)
      /\ threadEvidenceObservationSequenceNeedsRepair(b)
           = threadEvidenceObservationSequenceNeedsRepair(a)
  BY <1>1, SameEvidence
<1>3. Floor(b) = Floor(a)
  BY <1>1, HeldIs DEF Held
<1>4. QED
  BY <1>1, <1>2, <1>3
     DEF Drift, threadObservationSequenceValuesNeedRepair,
         threadChildObservationReservationsNeedRepair,
         workflowRunObservationReservationsNeedRepair, threadObservationSequenceNeedsRepair

\* A mark that is not renewed holds for the same allocator or not at all.
LEMMA MarkHolds ==
  ASSUME NEW a, NEW b, Sound(a), b \in Archive, Marks(a, b), a.allocator <= b.allocator,
         Converged(b)
  PROVE  Converged(a) /\ b.allocator = a.allocator
<1>1. a.checked \in Int /\ a.allocator \in Int /\ b.checked \in Int /\ b.allocator \in Int
      /\ a.checked <= a.allocator /\ b.allocator >= -1 /\ a.allocator >= -1
  BY ArchiveParts DEF Sound
<1>2. b.checked = a.checked /\ b.checked # NoValue
  BY <1>1 DEF Marks, Converged, NoValue
<1>3. QED
  BY <1>1, <1>2 DEF Converged, NoValue

\* A step that renews no mark, and the drift it must not cause.
LEMMA MarkKept ==
  ASSUME SafeInv, MarkInv, Sound(db'), Marks(db, db'), db.allocator <= db'.allocator,
         raced => raced', stale => stale',
         /\ Converged(db) /\ ~Drift(db) /\ Inspected(db)
         /\ Converged(db') /\ db'.allocator = db.allocator
         => ~Drift(db') \/ raced' \/ stale'
  PROVE  MarkInv'
<1>1. SUFFICES ASSUME Converged(db') PROVE ~Drift(db') \/ raced' \/ stale'
  BY DEF MarkInv, Converged
<1>2. Converged(db) /\ db'.allocator = db.allocator
  BY <1>1, MarkHolds, SoundParts DEF SafeInv
<1>3. Inspected(db)
  BY <1>2 DEF SafeInv, Converged
<1>4. CASE raced \/ stale
  BY <1>4
<1>5. CASE ~raced /\ ~stale
  BY <1>1, <1>2, <1>3, <1>5 DEF MarkInv
<1>6. QED
  BY <1>4, <1>5

\* Threads and revisions are rebuilt with what a repaired row holds already.
LEMMA RowsDrift ==
  ASSUME NEW a, Sound(a), Inspected(a), ~Drift(a)
  PROVE  ~Drift(ensureCanonicalObservationTables(a))
<1> DEFINE b == ensureCanonicalObservationTables(a)
<1>1. /\ b \in Archive /\ a \in Archive
      /\ Kept(a, b, {"row", "evidence", "revisions", "shape", "triggers"})
      /\ b.row = IF a.row.seq = Lowest THEN [a.row EXCEPT !.seq = 0] ELSE a.row
      /\ b.evidence = [a.evidence EXCEPT !.seq = Accepted(a.evidence.seq)]
      /\ b.revisions = {[r EXCEPT !.seq = Accepted(r.seq)] : r \in a.revisions}
  BY SoundParts, RowsIs
<1>2. Inspected(b)
  BY RowsFollow DEF Follows, Keeps
<1> HIDE DEF b
<1>3. b.row = a.row /\ a.row.seq # Lowest
  BY <1>1 DEF Drift, threadObservationSequenceValuesNeedRepair
<1>4. a.evidence \in Orders /\ a.revisions \in SUBSET Orders
  BY <1>1, ArchiveParts
<1>5. b.evidence = a.evidence
  <2>1. a.evidence.seq \in Int /\ a.evidence.seq >= 0
    BY <1>4, OrderIs DEF Inspected
  <2>2. Accepted(a.evidence.seq) = a.evidence.seq
    BY <2>1 DEF Accepted
  <2>3. QED
    BY <1>1, <1>4, <2>2 DEF Orders
<1>6. /\ b.details = a.details /\ b.reserved = a.reserved /\ b.fence = a.fence
  BY <1>1 DEF Kept
<1>7. {r \in b.revisions : r.seq > 0} = {r \in a.revisions : r.seq > 0}
  <2>1. ASSUME NEW r \in a.revisions, r.seq > 0
        PROVE  [r EXCEPT !.seq = Accepted(r.seq)] = r
    BY <1>4, <2>1, OrderIs DEF Accepted, Orders
  <2>2. ASSUME NEW r \in a.revisions, ~(r.seq > 0)
        PROVE  ~([r EXCEPT !.seq = Accepted(r.seq)].seq > 0)
    <3>1. r \in Orders
      BY <1>4
    <3>2. Accepted(r.seq) = 0
      BY <2>2, <3>1, OrderIs DEF Accepted
    <3>3. [r EXCEPT !.seq = Accepted(r.seq)].seq = Accepted(r.seq)
      BY <3>1 DEF Orders
    <3>4. QED
      BY <3>2, <3>3
  <2>3. QED
    BY ZenonT(60), <1>1, <2>1, <2>2
<1>8. HasRevision(b) = HasRevision(a) /\ EvidenceRevision(b) = EvidenceRevision(a)
  <2>1. HasRevision(b) = HasRevision(a)
    BY <1>7 DEF HasRevision
  <2>2. QED
    BY <1>3, <1>7, <2>1 DEF EvidenceRevision
<1>9. EffectiveEvidence(b) = EffectiveEvidence(a)
  BY <1>5, <1>8 DEF EffectiveEvidence
<1>10. ~threadEvidenceObservationSequenceNeedsRepair(b)
  <2>1. ~threadEvidenceObservationSequenceNeedsRepair(a)
    BY DEF Drift
  <2>2. SUFFICES ASSUME HasRevision(a) PROVE b.evidence.seq # 0 /\ TupleExists(b)
    BY <1>8 DEF threadEvidenceObservationSequenceNeedsRepair
  <2>3. a.evidence.seq # 0 /\ TupleExists(a) /\ a.evidence.seq \in Int /\ a.evidence.seq >= 0
    BY <1>4, <2>1, <2>2, OrderIs DEF Inspected, threadEvidenceObservationSequenceNeedsRepair
  <2>4. PICK r \in a.revisions : r.seq = a.evidence.seq
    BY <2>3 DEF TupleExists
  <2>5. r \in b.revisions
    <3>1. r.seq > 0
      BY <2>3, <2>4
    <3>2. QED
      BY <1>7, <3>1
  <2>6. QED
    BY <1>5, <2>3, <2>4, <2>5 DEF TupleExists
<1>11. ~threadChildObservationReservationsNeedRepair(b)
       /\ ~workflowRunObservationReservationsNeedRepair(b)
  BY <1>6, <1>9 DEF Drift, threadChildObservationReservationsNeedRepair,
                    workflowRunObservationReservationsNeedRepair
<1>12. ~threadObservationSequenceNeedsRepair(b)
  BY <1>1, <1>2, FloorReached DEF Inspected
<1>13. ~Drift(b)
  BY <1>3, <1>10, <1>11, <1>12 DEF Drift, threadObservationSequenceValuesNeedRepair
<1>14. QED
  BY <1>13 DEF b

\* An archive without drift gives the repairs nothing to do.
LEMMA RepairDrift ==
  ASSUME NEW p \in Procs, Repair(p), Sound(db), Inspected(db), ~Drift(db),
         db'.allocator = db.allocator
  PROVE  ~Drift(db')
<1>1. db \in Archive /\ db.evidence.seq \in Int /\ db.evidence.seq >= 0
  BY SoundParts, ArchiveParts, OrderIs DEF Inspected
<1>2. db.evidence.seq > 0 => EffectiveEvidence(db) = db.evidence.seq
  BY DEF EffectiveEvidence
<1>3. CASE pc[p] = "bodies"
  <2>1. db' = BackfillBodies(db, seen[p])
    BY <1>3 DEF Repair, Writes
  <2>2. LET b == BackfillBodies(db, seen[p]) IN Kept(db, b, {"body", "checked"})
    BY <1>1, BodiesIs
  <2>3. Kept(db, db', {"body", "checked"})
    BY <2>1, <2>2
  <2>4. QED
    BY <2>3, DriftIs
<1>4. CASE pc[p] = "values"
  <2>1. db' = db
    BY <1>4 DEF Repair, Writes, ensureThreadObservationSequenceValues, Drift,
                threadObservationSequenceValuesNeedRepair
  <2>2. QED
    BY <2>1
<1>5. CASE pc[p] = "evidence"
  <2>1. db' = db
    BY <1>5 DEF Repair, Writes, ensureThreadEvidenceObservationSequence, Drift
  <2>2. QED
    BY <2>1
<1>6. CASE pc[p] = "fence"
  <2>1. db' = db
    BY <1>2, <1>6 DEF Repair, Writes, BackfillFence, Drift,
                      workflowRunObservationReservationsNeedRepair
  <2>2. QED
    BY <2>1
<1>7. CASE pc[p] = "recover"
  <2>1. db' = db
    BY <1>7 DEF Repair, Writes, RecoverLegacyRuns, Inspected
  <2>2. QED
    BY <2>1
<1>8. CASE pc[p] = "remove"
  <2>1. db' = db
    BY <1>8 DEF Repair, Writes, RemoveLegacyRuns, Inspected
  <2>2. QED
    BY <2>1
<1>9. CASE pc[p] = "reservations"
  <2>1. db' = db
    BY <1>2, <1>9 DEF Repair, Writes, ensureThreadChildObservationReservations, Drift,
                      threadChildObservationReservationsNeedRepair
  <2>2. QED
    BY <2>1
<1>10. CASE pc[p] = "floor"
  <2>1. db' = ensureThreadObservationSequenceFloor(db)
    BY <1>10 DEF Repair, Writes
  <2>2. Kept(db, db', {"allocator", "checked"})
    BY <1>1, <2>1, AllocatorFloorIs
  <2>3. QED
    BY <2>2, DriftIs
<1>11. CASE pc[p] = "version"
  <2>1. db' = [db EXCEPT !.version = Supported]
    BY <1>11 DEF Repair, Writes
  <2>2. Kept(db, db', {"version"})
    BY <1>1, <2>1, VersionIs DEF Supported
  <2>3. QED
    BY <2>2, DriftIs
<1>12. QED
  BY <1>3, <1>4, <1>5, <1>6, <1>7, <1>8, <1>9, <1>10, <1>11 DEF Repair

\* Nor do the rebuilds, unless another process has done them already.
LEMMA RebuildDrift ==
  ASSUME NEW p \in Procs, Rebuilding(p), Sound(db), Inspected(db), ~Drift(db),
         db'.allocator = db.allocator
  PROVE  ~Drift(db') \/ stale'
<1>1. db \in Archive
  BY SoundParts
<1>2. CASE pc[p] = "columns"
  <2>1. db' = ensureLegacyPortableColumns(db)
    BY <1>2, RebuildIs
  <2>2. Kept(db, db', {"shape", "body"})
    BY <1>1, <2>1, ColumnsIs
  <2>3. QED
    BY <2>2, DriftIs
<1>3. CASE pc[p] = "families"
  <2>1. db' = ensureFamilyTombstoneSchema(db)
    BY <1>3, RebuildIs
  <2>2. Kept(db, db', {"shape"})
    BY <1>1, <2>1, FamiliesIs
  <2>3. QED
    BY <2>2, DriftIs
<1>4. CASE pc[p] = "rows"
  <2>1. db' = ensureCanonicalObservationTables(db)
    BY <1>4, RebuildIs
  <2>2. QED
    BY <2>1, RowsDrift
<1>5. CASE pc[p] \in Ordered
  <2>1. db.shape[pc[p]] = "current"
    BY <1>5 DEF Inspected, Ordered
  <2>2. QED
    BY <1>5, <2>1 DEF Rebuilding, Rebuild, Ordered, Tables
<1>6. CASE pc[p] = "keys"
  <2>1. db' = ensureKeys(db)
    BY <1>6, RebuildIs
  <2>2. Kept(db, db', {"shape"})
    BY <1>1, <2>1, KeysIs
  <2>3. QED
    BY <2>2, DriftIs
<1>7. CASE pc[p] = "triggers"
  <2>1. db' = ensureObservationSchemaConvergence(db)
    BY <1>7, RebuildIs
  <2>2. Kept(db, db', {"triggers"})
    BY <1>1, <2>1, TriggersIs
  <2>3. QED
    BY <2>2, DriftIs
<1>8. QED
  BY <1>2, <1>3, <1>4, <1>5, <1>6, <1>7, RebuildIs DEF Tables, Ordered

LEMMA MarkMigrates ==
  ASSUME SafeInv, PassInv, MarkInv, NEW p \in Procs, Migrate(p)
  PROVE  MarkInv'
<1>1. /\ ControlOK /\ Sound(db) /\ Settled(pc[p], db) /\ db \in Archive
      /\ Follows(db, db) /\ (db' = db => Follows(db, db'))
  BY FollowsReflexive, SoundParts DEF SafeInv, ControlOK
<1>2. CASE ApplySchema(p)
  <2>1. db' = schemaSQL(db) /\ raced' = raced /\ stale' = stale
    BY <1>2 DEF ApplySchema, Writes
  <2>2. Follows(db, db') /\ Kept(db, db', {"shape"})
    BY <1>1, <2>1, SchemaFollows, SchemaIs
  <2>3. db'.allocator = db.allocator => Drift(db') = Drift(db)
    BY <2>2, DriftIs
  <2>4. QED
    BY <2>1, <2>2, <2>3, MarkKept DEF Follows, Keeps
<1>3. CASE InspectStructure(p) \/ CheckConverged(p) \/ Inspect(p) \/ Verify(p)
  BY <1>3 DEF InspectStructure, CheckConverged, Inspect, Verify, MarkInv, history
<1>4. CASE Look(p)
  <2>1. Follows(db, db') /\ raced' = raced /\ stale' = stale
        /\ (db' = db \/ db' = ensureThreadObservationSequenceRow(db))
    BY <1>1, <1>4, LookWrites DEF Look
  <2>2. Inspected(db) => db' = db
    BY <1>1, <2>1, AllocatorRowIs DEF Inspected
  <2>3. QED
    BY <2>1, <2>2, MarkKept DEF Follows, Keeps
<1>5. CASE Rebuild(p)
  <2>1. CASE Duplicate(p)
    BY <1>5, <2>1 DEF Rebuild, MarkInv
  <2>2. CASE ~Duplicate(p)
    <3>1. Rebuilding(p)
      BY <1>5, <2>2 DEF Rebuilding
    <3>2. Follows(db, db') /\ raced' = raced /\ (stale => stale')
      BY <1>1, <1>5, <2>2, <3>1, RebuildWrites DEF Rebuild
    <3>3. Inspected(db) /\ ~Drift(db) /\ db'.allocator = db.allocator
            => ~Drift(db') \/ stale'
      BY <1>1, <3>1, RebuildDrift
    <3>4. QED
      BY <3>2, <3>3, MarkKept DEF Follows, Keeps
  <2>3. QED
    BY <2>1, <2>2
<1>6. CASE Repair(p)
  <2>1. pc[p] = "reservations" => db.shape["children"] = "current"
    BY <1>1 DEF Settled, PastChildren
  <2>2. Follows(db, db') /\ raced' = raced /\ stale' = stale
    BY <1>1, <1>6, <2>1, RepairWrites DEF Repair
  <2>3. Inspected(db) /\ ~Drift(db) /\ db'.allocator = db.allocator => ~Drift(db')
    BY <1>1, <1>6, RepairDrift
  <2>4. QED
    BY <2>2, <2>3, MarkKept DEF Follows, Keeps
<1>7. CASE Mark(p)
  <2>1. db' = markObservationSchemaConverged(db) /\ raced' = meddled[p] /\ pc[p] = "mark"
    BY <1>7 DEF Mark, Writes
  <2>2. Kept(db, db', {"checked"})
    BY <1>1, <2>1, MarkIs
  <2>3. Drift(db') = Drift(db)
    BY <2>2, DriftIs DEF Kept
  <2>4. ~meddled[p] => ~Drift(db)
    BY <2>1 DEF PassInv, PassOf, Reached, inspectCompatibilityMigrations
  <2>5. QED
    BY <2>1, <2>3, <2>4 DEF MarkInv
<1>8. QED
  BY <1>2, <1>3, <1>4, <1>5, <1>6, <1>7 DEF Migrate

LEMMA MarkCommands ==
  ASSUME SafeInv, MarkInv, NEW p \in Procs, Commands(p)
  PROVE  MarkInv'
<1>1. /\ ControlOK /\ Sound(db) /\ Settled(pc[p], db) /\ db \in Archive /\ Dropped(db)
  BY SoundParts DEF SafeInv, ControlOK
<1>2. CASE Open(p) \/ Close(p) \/ Kill(p)
  BY <1>2 DEF Open, Close, Kill, MarkInv, history
<1>3. CASE PrunePortablePayloads(p)
  <2>1. db' = Excerpts(db) /\ raced' = raced /\ stale' = stale
        /\ db.shape["columns"] = "current"
    BY <1>3 DEF PrunePortablePayloads, Writes
  <2>2. Follows(db, db') /\ Kept(db, db', {"length", "body", "shape", "checked"})
    BY <1>1, <2>1, ExcerptsFollow, ExcerptsIs DEF Dropped
  <2>3. db'.allocator = db.allocator => Drift(db') = Drift(db)
    BY <2>2, DriftIs
  <2>4. QED
    BY <2>1, <2>2, <2>3, MarkKept DEF Follows, Keeps
<1>4. CASE DropColumns(p)
  <2>1. db' = canonicalizePortableSchema(db) /\ raced' = raced /\ stale' = stale
        /\ pc[p] = "drop"
    BY <1>4 DEF DropColumns, Writes
  <2>2. db.version # 0
    BY <1>1, <2>1, SettledInspected DEF Inspected
  <2>3. Follows(db, db') /\ Kept(db, db', {"shape", "body"})
    BY <1>1, <2>1, <2>2, CanonicalFollows, CanonicalIs
  <2>4. db'.allocator = db.allocator => Drift(db') = Drift(db)
    BY <2>3, DriftIs
  <2>5. QED
    BY <2>1, <2>3, <2>4, MarkKept DEF Follows, Keeps
<1>5. CASE StampPortable(p)
  <2>1. db' = [db EXCEPT !.version = Portable] /\ raced' = raced /\ stale' = stale
    BY <1>5 DEF StampPortable, Writes
  <2>2. Follows(db, db') /\ Kept(db, db', {"version"})
    BY <1>1, <2>1, VersionFollows, VersionIs DEF Portable
  <2>3. db'.allocator = db.allocator => Drift(db') = Drift(db)
    BY <2>2, DriftIs
  <2>4. QED
    BY <2>1, <2>2, <2>3, MarkKept DEF Follows, Keeps
<1>6. QED
  BY <1>2, <1>3, <1>4, <1>5 DEF Commands

\* A sync withdraws the mark, or is one the mark cannot know of.
LEMMA MarkSyncs ==
  ASSUME SafeInv, MarkInv, NEW p \in Procs, Allocate(p) \/ Persist(p)
  PROVE  MarkInv'
<1>1. /\ ControlOK /\ Sound(db) /\ Sound(db') /\ db \in Archive
      /\ Fresh(fetch[p], OtherFetches(p), db)
  BY AllocateSafe, PersistSafe, SoundParts DEF SafeInv
<1>2. CASE Allocate(p)
  <2>1. db' = NextThreadObservationSequence(db) /\ raced' = raced /\ stale' = stale
    BY <1>2 DEF Allocate, Writes
  <2>2. Follows(db, db') /\ db'.allocator > db.allocator
        /\ db.allocator \in Int /\ db'.allocator \in Int
    BY <1>1, <2>1, NextSequenceFollows, NextSequenceIs, ArchiveParts
  <2>3. db'.allocator # db.allocator
    BY <2>2
  <2>4. QED
    BY <2>1, <2>2, <2>3, MarkKept DEF Follows, Keeps
<1>3. CASE Persist(p)
  <2>1. CASE ~Usable(db)
    BY <1>3, <2>1 DEF Persist, MarkInv
  <2>2. CASE Usable(db)
    <3> DEFINE o == fetch[p]
    <3>1. /\ raced' = (raced \/ "rows" \notin db.triggers) /\ stale' = stale
          /\ \/ db' = Persisted(db, o) \/ db' = Upserted(db, o, FALSE)
             \/ db' = Upserted(db, o, TRUE)
      BY <1>3, <2>2 DEF Persist, Writes
    <3>2. Observed(o)
      <4>1. o \in Observations
        BY <1>1, <1>3 DEF Persist, ControlOK
      <4>2. o \in Orders
        BY <4>1, SchemaAssumption DEF Observations, Orders
      <4>3. o.source \in 1..MaxSource /\ o.seq \in 1..MaxSequence
        BY <4>1 DEF Observations
      <4>4. QED
        BY <4>2, <4>3 DEF Observed
    <3>3. /\ Marks(db, db')
          /\ db'.allocator = db.allocator
          /\ db' = db \/ ("rows" \in db.triggers /\ db.checked = db.allocator
                            => db'.checked = NoValue)
      <4>1. CASE db' = Persisted(db, o)
        BY <1>1, <3>2, <4>1, PersistedIs DEF Kept
      <4>2. ASSUME NEW complete \in BOOLEAN, db' = Upserted(db, o, complete)
            PROVE  /\ Marks(db, db')
                   /\ db'.allocator = db.allocator
                   /\ db' = db \/ ("rows" \in db.triggers /\ db.checked = db.allocator
                                     => db'.checked = NoValue)
        BY <1>1, <3>2, <4>2, UpsertedIs DEF Kept
      <4>3. QED
        BY <3>1, <4>1, <4>2
    <3>4. db'.allocator \in Int /\ db.allocator <= db'.allocator
      BY <1>1, <3>3, ArchiveParts
    <3>5. Converged(db) /\ Converged(db') /\ ~Drift(db) => ~Drift(db') \/ raced'
      BY <3>1, <3>3 DEF Converged
    <3>6. QED
      BY <1>1, <3>1, <3>3, <3>4, <3>5, MarkKept
  <2>3. QED
    BY <2>1, <2>2
<1>4. QED
  BY <1>2, <1>3

LEMMA MarkStep == SafeInv /\ PassInv /\ MarkInv /\ [Next]_vars => MarkInv'
<1>1. UNCHANGED vars /\ MarkInv => MarkInv'
  BY DEF vars, MarkInv
<1>2. QED
  BY <1>1, MarkMigrates, MarkCommands, MarkSyncs DEF Next, Commands

(* A mark in force vouches for the archive: whatever processes migrate it,  *)
(* prune it and sync it together, Open skips the inspection only where the  *)
(* inspection would find nothing, but for a sync that the mark could not    *)
(* see and a rebuild that was done twice                                    *)
(* (Store.markObservationSchemaConverged, observationSchemaConvergenceIsCurrent). *)
THEOREM MarksVouch == Spec => []ConvergedNeedsNoRepair
<1>1. Init => MarkInv
  BY ArchivesAssumption DEF Init, MarkInv
<1>2. MarkInv => ConvergedNeedsNoRepair
  BY DEF MarkInv, ConvergedNeedsNoRepair
<1>3. QED
  BY <1>1, <1>2, MarkStep, PassHolds, SafeHolds, PTL DEF Spec

-----------------------------------------------------------------------------
(* Reservations and fences only advance                                     *)

\* A statement that forgets no observation of a.
Remembers(a, b) ==
  /\ \A f \in Families : a.reserved[f] # {} =>
       /\ b.reserved[f] # {}
       /\ Advances(First(a.reserved[f]), First(b.reserved[f]),
                   compareReservationObservationOrder)
  /\ a.fence # {} =>
       /\ b.fence # {}
       /\ Advances(FirstRun(a.fence), FirstRun(b.fence), compareWorkflowObservationOrder)
  /\ a.details /\ b.runs < a.runs => \E r \in b.fence : r.seq >= a.runs

\* The legacy reservation is in the fence, or there is none.
Recovered(a) == a.details /\ a.runs > 0 => \E r \in a.fence : r.seq >= a.runs

\* What a process that is migrating knows of the tables of orders.
Recalls(s, found, a) ==
  /\ s \in {"workflows", "children"} /\ found = "unsourced"
       => a.shape[s] \in {"unsourced", "current"}
  /\ s \in PastRecover => Recovered(a)

RecallInv == \A p \in Procs : Recalls(pc[p], seen[p], db)

\* What every statement leaves of that.
Carries(a, b) ==
  /\ \A t \in {"workflows", "children"} : b.shape[t] \in {a.shape[t], "current"}
  /\ Recovered(a) => Recovered(b)

Untouched(a, b) ==
  /\ b.reserved = a.reserved /\ b.fence = a.fence
  /\ b.runs = a.runs /\ b.details = a.details
  /\ \A t \in {"workflows", "children"} : b.shape[t] \in {a.shape[t], "current"}

LEMMA FirstRunOfOne ==
  ASSUME NEW o \in Orders
  PROVE  FirstRun({o}) = o
<1>1. Unequal({o})
  BY DEF Unequal
<1>2. QED
  BY <1>1, FirstRunIs

LEMMA UntouchedIs ==
  ASSUME NEW a, Sound(a), NEW b, Untouched(a, b)
  PROVE  Remembers(a, b) /\ Carries(a, b)
<1>1. ~(a.runs < a.runs)
  BY SoundParts
<1>2. QED
  BY <1>1 DEF Untouched, Remembers, Carries, Recovered, Advances

\* The rows of a table whose clocks were made anew are those it had.
LEMMA ClocksRecalled ==
  ASSUME NEW a, Sound(a), NEW found
  PROVE  /\ Recalls("workflows", found, a) /\ a.shape["workflows"] # "current"
              => Clocks(a.fence, found) = a.fence
         /\ Recalls("children", found, a) /\ a.shape["children"] # "current"
              => \A f \in Families : Clocks(a.reserved[f], found) = a.reserved[f]
<1>1. a.fence \in SUBSET Orders /\ \A f \in Families : a.reserved[f] \in SUBSET Orders
  BY SoundParts, ArchiveParts
<1>2. CASE found # "unsourced"
  BY <1>1, <1>2, ClocksIs
<1>3. CASE found = "unsourced"
  <2>1. ASSUME Recalls("workflows", found, a), a.shape["workflows"] # "current"
        PROVE  Clocks(a.fence, found) = a.fence
    <3>1. \A r \in a.fence : r.source = Blank
      BY <1>3, <2>1 DEF Recalls, Sound
    <3>2. QED
      BY <1>1, <3>1, ClocksIs
  <2>2. ASSUME Recalls("children", found, a), a.shape["children"] # "current",
               NEW f \in Families
        PROVE  Clocks(a.reserved[f], found) = a.reserved[f]
    <3>1. \A r \in a.reserved[f] : r.source = Blank
      BY <1>3, <2>2 DEF Recalls, Sound
    <3>2. QED
      BY <1>1, <3>1, ClocksIs
  <2>3. QED
    BY <2>1, <2>2
<1>4. QED
  BY <1>2, <1>3

LEMMA WorkflowsRemember ==
  ASSUME NEW a, Sound(a), NEW found
  PROVE  LET b == ensureWorkflowRunObservationReservationsSchema(a, found)
         IN /\ Carries(a, b)
            /\ Recalls("workflows", found, a) /\ a.shape["workflows"] # "current"
                 => Remembers(a, b)
<1> DEFINE b == ensureWorkflowRunObservationReservationsSchema(a, found)
<1>1. a \in Archive /\ Unequal(a.fence) /\ a.runs \in Nat /\ a.fence \in SUBSET Orders
  BY SoundParts, ArchiveParts
<1>2. /\ Kept(a, b, {"fence", "shape", "triggers"})
      /\ b.fence = IF a.fence = {} THEN {} ELSE {FirstRun(Clocks(a.fence, found))}
      /\ b.shape["workflows"] = "current"
      /\ \A u \in Tables : u # "workflows" => b.shape[u] = a.shape[u]
  BY <1>1, WorkflowsIs
<1> HIDE DEF b
<1>3. b.reserved = a.reserved /\ b.runs = a.runs /\ b.details = a.details
      /\ b.shape["children"] = a.shape["children"]
  BY <1>2 DEF Kept, Tables
<1>4. a.fence # {} => FirstRun(a.fence) \in a.fence
  BY <1>1, FirstRunIs
<1>5. Recovered(a) => Recovered(b)
  <2>1. SUFFICES ASSUME a.details, a.runs > 0, NEW r \in a.fence, r.seq >= a.runs
                 PROVE  Recovered(b)
    BY <1>3 DEF Recovered
  <2>2. \A q \in a.fence : q.source = Blank
    BY <2>1 DEF Sound
  <2>3. b.fence = {FirstRun(a.fence)}
    BY <1>1, <1>2, <2>1, <2>2, ClocksIs
  <2>4. r.seq <= FirstRun(a.fence).seq /\ FirstRun(a.fence).seq \in Int /\ r.seq \in Int
    BY <1>1, <1>4, <2>1, <2>2, FirstRunIs, OrderIs
  <2>5. FirstRun(a.fence).seq >= a.runs
    BY <1>1, <2>1, <2>4
  <2>6. QED
    BY <1>3, <2>3, <2>5 DEF Recovered
<1>6. Carries(a, b)
  BY <1>2, <1>3, <1>5 DEF Carries
<1>7. ASSUME Recalls("workflows", found, a), a.shape["workflows"] # "current"
      PROVE  Remembers(a, b)
  <2>1. Clocks(a.fence, found) = a.fence
    BY <1>7, ClocksRecalled
  <2>2. a.fence # {} => b.fence # {} /\ FirstRun(b.fence) = FirstRun(a.fence)
    BY <1>1, <1>2, <1>4, <2>1, FirstRunOfOne
  <2>3. ~(b.runs < a.runs)
    BY <1>1, <1>3
  <2>4. QED
    BY <1>3, <2>2, <2>3 DEF Remembers, Advances
<1>8. QED
  BY <1>6, <1>7 DEF b

LEMMA ChildrenRemember ==
  ASSUME NEW a, Sound(a), NEW found
  PROVE  LET b == ensureThreadChildObservationReservationsSchema(a, found)
         IN /\ Carries(a, b)
            /\ Recalls("children", found, a) /\ a.shape["children"] # "current"
                 => Remembers(a, b)
<1> DEFINE b == ensureThreadChildObservationReservationsSchema(a, found)
<1>1. a \in Archive /\ a.runs \in Nat /\ \A f \in Families : a.reserved[f] \in SUBSET Orders
  BY SoundParts, ArchiveParts
<1>2. /\ Kept(a, b, {"reserved", "runs", "shape", "triggers"}) /\ b.runs = 0
      /\ \A f \in Families :
           b.reserved[f] = IF a.reserved[f] = {} THEN {}
                           ELSE {First(Clocks(a.reserved[f], found))}
      /\ b.shape["children"] = "current"
      /\ \A u \in Tables : u # "children" => b.shape[u] = a.shape[u]
  BY ZenonT(60), <1>1, ChildrenIs
<1> HIDE DEF b
<1>3. b.fence = a.fence /\ b.details = a.details
      /\ b.shape["workflows"] = a.shape["workflows"]
  BY <1>2 DEF Kept, Tables
<1>4. Carries(a, b)
  BY <1>2, <1>3 DEF Carries, Recovered
<1>5. ASSUME Recalls("children", found, a), a.shape["children"] # "current"
      PROVE  Remembers(a, b)
  <2>1. \A f \in Families : Clocks(a.reserved[f], found) = a.reserved[f]
    BY <1>5, ClocksRecalled
  <2>2. ASSUME NEW f \in Families, a.reserved[f] # {}
        PROVE  b.reserved[f] # {} /\ First(b.reserved[f]) = First(a.reserved[f])
    <3>1. b.reserved[f] = {First(a.reserved[f])}
      BY <1>2, <2>1, <2>2
    <3>2. First(a.reserved[f]) \in Orders
      BY <1>1, <2>2, FirstIs
    <3>3. QED
      BY <3>1, <3>2, FirstOfOne
  <2>3. Recovered(a)
    BY <1>5 DEF Recalls, PastRecover, PastRemove
  <2>4. a.details /\ b.runs < a.runs => \E r \in b.fence : r.seq >= a.runs
    BY <1>1, <1>2, <1>3, <2>3 DEF Recovered
  <2>5. QED
    BY <1>3, <2>2, <2>4 DEF Remembers, Advances
<1>6. QED
  BY <1>4, <1>5 DEF b

\* A fence without clocks is raised to a later generation.
LEMMA RaisesRemember ==
  ASSUME NEW a, Sound(a), NEW b, NEW n, Raises(a, b, n)
  PROVE  Remembers(a, b) /\ Carries(a, b)
<1>1. CASE b = a
  <2>1. Untouched(a, b)
    BY <1>1 DEF Untouched
  <2>2. QED
    BY <2>1, UntouchedIs
<1>2. CASE b # a
  <2>1. a \in Archive /\ Unequal(a.fence) /\ a.runs \in Nat /\ a.fence \in SUBSET Orders
    BY SoundParts, ArchiveParts
  <2>2. /\ n \in 0..MaxSequence /\ b.fence = {[source |-> Blank, seq |-> n]}
        /\ \A r \in a.fence : r.seq < n
        /\ b.reserved = a.reserved /\ b.runs = a.runs /\ b.details = a.details
        /\ b.shape = a.shape
    BY <1>2 DEF Raises, Kept
  <2> DEFINE o == [source |-> Blank, seq |-> n]
  <2>3. o \in Orders
    BY <2>2 DEF Raises, Archive
  <2>4. FirstRun(b.fence) = o
    BY <2>2, <2>3, FirstRunOfOne
  <2>5. a.fence # {} => compareWorkflowObservationOrder(o, FirstRun(a.fence)) = Newer
    <3>1. SUFFICES ASSUME a.fence # {}
                   PROVE  compareWorkflowObservationOrder(o, FirstRun(a.fence)) = Newer
      OBVIOUS
    <3>2. FirstRun(a.fence) \in a.fence
      BY <2>1, <3>1, FirstRunIs
    <3>3. FirstRun(a.fence).seq \in Int /\ FirstRun(a.fence).seq < n /\ n \in Int
      BY <2>1, <2>2, <3>2, OrderIs, SchemaAssumption
    <3>4. QED
      BY <3>3 DEF compareWorkflowObservationOrder, CompareNumbers
  <2>6. Recovered(a) => Recovered(b)
    <3>1. SUFFICES ASSUME a.details, a.runs > 0, NEW r \in a.fence, r.seq >= a.runs
                   PROVE  Recovered(b)
      BY <2>2 DEF Recovered
    <3>2. r.seq \in Int /\ r.seq < n /\ n \in Int
      BY <2>1, <2>2, OrderIs, SchemaAssumption
    <3>3. n >= a.runs
      BY <2>1, <3>1, <3>2
    <3>4. QED
      BY <2>2, <3>3 DEF Recovered
  <2>7. ~(b.runs < a.runs)
    BY <2>1, <2>2
  <2>8. Remembers(a, b)
    BY <2>2, <2>4, <2>5, <2>7 DEF Remembers, Advances
  <2>9. QED
    BY <2>2, <2>6, <2>8 DEF Carries
<1>3. QED
  BY <1>1, <1>2

LEMMA RemoveRemembers ==
  ASSUME NEW a, Sound(a), Recovered(a)
  PROVE  LET b == RemoveLegacyRuns(a) IN Remembers(a, b) /\ Carries(a, b)
<1> DEFINE b == RemoveLegacyRuns(a)
<1>1. Kept(a, b, {"runs", "checked"}) /\ b.runs = 0 /\ a.runs \in Nat
  BY SoundParts, RemoveIs
<1> HIDE DEF b
<1>2. b.reserved = a.reserved /\ b.fence = a.fence /\ b.details = a.details
      /\ b.shape = a.shape
  BY <1>1 DEF Kept
<1>3. Remembers(a, b) /\ Carries(a, b)
  BY <1>1, <1>2 DEF Remembers, Advances, Carries, Recovered
<1>4. QED
  BY <1>3 DEF b

LEMMA ReservationsRemember ==
  ASSUME NEW a, Sound(a)
  PROVE  LET b == ensureThreadChildObservationReservations(a)
         IN Remembers(a, b) /\ Carries(a, b)
<1> DEFINE b == ensureThreadChildObservationReservations(a)
<1>1. /\ Kept(a, b, {"reserved", "checked"}) /\ a.runs \in Nat
      /\ \A f \in Families :
           b.reserved[f] = a.reserved[f] \/ a.reserved[f] = {}
  BY SoundParts, ReservationsIs
<1> HIDE DEF b
<1>2. b.runs = a.runs /\ b.fence = a.fence /\ b.details = a.details /\ b.shape = a.shape
  BY <1>1 DEF Kept
<1>3. Remembers(a, b) /\ Carries(a, b)
  BY <1>1, <1>2 DEF Remembers, Advances, Carries, Recovered
<1>4. QED
  BY <1>3 DEF b

\* A sync reserves what its observation is newer than.
LEMMA PersistRemembers ==
  ASSUME NEW a, Sound(a), Inspected(a), NEW o, Observed(o)
  PROVE  LET b == Persisted(a, o) IN Remembers(a, b) /\ Carries(a, b)
<1> DEFINE b == Persisted(a, o)
<1>1. /\ a \in Archive /\ Unequal(a.fence) /\ a.fence \in SUBSET Orders
      /\ \A f \in Families : a.reserved[f] \in SUBSET Orders
      /\ a.runs = 0 /\ o \in Orders
  BY SoundParts, ArchiveParts DEF Inspected, Observed
<1>2. /\ Kept(a, b, {"row", "evidence", "body", "checked", "reserved", "revisions",
                     "details", "fence"})
      /\ \A f \in Families :
           \/ b.reserved[f] = a.reserved[f]
           \/ b.reserved[f] = ReserveThreadChildObservation(a.reserved[f], o)
      /\ b.fence = ReserveWorkflowRunObservation(a.fence, o)
  BY <1>1, PersistedIs
<1> HIDE DEF b
<1>3. b.runs = 0 /\ b.shape = a.shape
  BY <1>1, <1>2 DEF Kept
<1>4. ASSUME NEW f \in Families, a.reserved[f] # {}
      PROVE  /\ b.reserved[f] # {}
             /\ \/ First(a.reserved[f]) = First(b.reserved[f])
                \/ compareReservationObservationOrder(First(b.reserved[f]),
                                                      First(a.reserved[f])) = Newer
  <2>1. CASE b.reserved[f] = a.reserved[f]
    BY <1>4, <2>1
  <2>2. CASE /\ b.reserved[f] = {o}
             /\ \A r \in a.reserved[f] : compareReservationObservationOrder(o, r) = Newer
    BY <1>1, <1>4, <2>2, FirstIs, FirstOfOne
  <2>3. QED
    BY <1>2, <2>1, <2>2 DEF ReserveThreadChildObservation
<1>5. ASSUME a.fence # {}
      PROVE  /\ b.fence # {}
             /\ \/ FirstRun(a.fence) = FirstRun(b.fence)
                \/ compareWorkflowObservationOrder(FirstRun(b.fence),
                                                   FirstRun(a.fence)) = Newer
  <2>1. CASE b.fence = a.fence
    BY <1>5, <2>1
  <2>2. CASE /\ b.fence = {o}
             /\ \A r \in a.fence : compareWorkflowObservationOrder(o, r) = Newer
    BY <1>1, <1>5, <2>2, FirstRunIs, FirstRunOfOne
  <2>3. QED
    BY <1>2, <2>1, <2>2 DEF ReserveWorkflowRunObservation
<1>6. Remembers(a, b)
  BY <1>1, <1>3, <1>4, <1>5 DEF Remembers, Advances
<1>7. Carries(a, b)
  BY <1>1, <1>3 DEF Carries, Recovered
<1>8. QED
  BY <1>6, <1>7 DEF b

LEMMA UntouchedBy ==
  ASSUME NEW a, NEW b, NEW S, Kept(a, b, S),
         S \cap {"reserved", "fence", "runs", "details"} = {},
         \A t \in {"workflows", "children"} : b.shape[t] \in {a.shape[t], "current"}
  PROVE  Untouched(a, b)
BY DEF Kept, Untouched

LEMMA RebuildRemembers ==
  ASSUME SafeInv, RecallInv, NEW p \in Procs, Rebuilding(p)
  PROVE  Carries(db, db') /\ (stale' \/ Remembers(db, db'))
<1>1. db \in Archive /\ Sound(db) /\ Recalls(pc[p], seen[p], db)
      /\ pc[p] \in Tables \cup {"triggers"}
  BY SoundParts, RebuildIs DEF SafeInv, RecallInv
<1>2. pc[p] \in Tables /\ db.shape[pc[p]] = "current" => stale'
  BY DEF Rebuilding, Rebuild
<1>3. CASE pc[p] = "workflows"
  <2>1. db' = ensureWorkflowRunObservationReservationsSchema(db, seen[p])
    BY <1>3, RebuildIs
  <2>2. LET b == ensureWorkflowRunObservationReservationsSchema(db, seen[p])
        IN /\ Carries(db, b)
           /\ Recalls("workflows", seen[p], db) /\ db.shape["workflows"] # "current"
                => Remembers(db, b)
    BY <1>1, WorkflowsRemember
  <2>3. QED
    BY <1>1, <1>2, <1>3, <2>1, <2>2
<1>4. CASE pc[p] = "children"
  <2>1. db' = ensureThreadChildObservationReservationsSchema(db, seen[p])
    BY <1>4, RebuildIs
  <2>2. LET b == ensureThreadChildObservationReservationsSchema(db, seen[p])
        IN /\ Carries(db, b)
           /\ Recalls("children", seen[p], db) /\ db.shape["children"] # "current"
                => Remembers(db, b)
    BY <1>1, ChildrenRemember
  <2>3. QED
    BY <1>1, <1>2, <1>4, <2>1, <2>2
<1>5. CASE pc[p] \notin {"workflows", "children"}
  <2>1. Untouched(db, db')
    <3>1. pc[p] = "columns" => Untouched(db, db')
      BY <1>1, RebuildIs, ColumnsIs, UntouchedBy DEF Tables
    <3>2. pc[p] = "families" => Untouched(db, db')
      BY <1>1, RebuildIs, FamiliesIs, UntouchedBy DEF Tables
    <3>3. pc[p] = "rows" => Untouched(db, db')
      <4>1. SUFFICES ASSUME pc[p] = "rows" PROVE Untouched(db, db')
        OBVIOUS
      <4>2. db' = ensureCanonicalObservationTables(db)
        BY <4>1, RebuildIs
      <4>3. /\ Kept(db, db', {"row", "evidence", "revisions", "shape", "triggers"})
            /\ \A u \in Tables : u # "rows" => db'.shape[u] = db.shape[u]
        BY <1>1, <4>2, RowsIs
      <4>4. QED
        BY <4>3, UntouchedBy DEF Tables
    <3>4. pc[p] = "allocator" => Untouched(db, db')
      BY <1>1, RebuildIs, AllocatorIs, UntouchedBy DEF Tables
    <3>5. pc[p] = "keys" => Untouched(db, db')
      BY <1>1, RebuildIs, KeysIs, UntouchedBy DEF Tables
    <3>6. pc[p] = "triggers" => Untouched(db, db')
      <4>1. SUFFICES ASSUME pc[p] = "triggers" PROVE Untouched(db, db')
        OBVIOUS
      <4>2. Kept(db, db', {"triggers"})
        BY <1>1, <4>1, RebuildIs, TriggersIs
      <4>3. db'.shape = db.shape
        BY <4>2 DEF Kept
      <4>4. QED
        BY <4>2, <4>3, UntouchedBy
    <3>7. QED
      BY <1>1, <1>5, <3>1, <3>2, <3>3, <3>4, <3>5, <3>6 DEF Tables
  <2>2. QED
    BY <1>1, <2>1, UntouchedIs
<1>6. QED
  BY <1>3, <1>4, <1>5

LEMMA RepairRemembers ==
  ASSUME SafeInv, RecallInv, NEW p \in Procs, Repair(p)
  PROVE  Carries(db, db') /\ Remembers(db, db')
<1>1. db \in Archive /\ Sound(db) /\ Recalls(pc[p], seen[p], db) /\ db.runs <= MaxSequence
  BY SoundParts DEF SafeInv, RecallInv
<1>2. ASSUME NEW S, Kept(db, db', S),
             S \cap {"reserved", "fence", "runs", "details", "shape"} = {}
      PROVE  Carries(db, db') /\ Remembers(db, db')
  <2>1. db'.shape = db.shape
    BY <1>2 DEF Kept
  <2>2. Untouched(db, db')
    BY <1>2, <2>1, UntouchedBy
  <2>3. QED
    BY <1>1, <2>2, UntouchedIs
<1>3. CASE pc[p] = "bodies"
  <2>1. db' = BackfillBodies(db, seen[p])
    BY <1>3 DEF Repair, Writes
  <2>2. LET b == BackfillBodies(db, seen[p]) IN Kept(db, b, {"body", "checked"})
    BY <1>1, BodiesIs
  <2>3. Kept(db, db', {"body", "checked"})
    BY <2>1, <2>2
  <2>4. QED
    BY <1>2, <2>3
<1>4. CASE pc[p] = "values"
  <2>1. db' = ensureThreadObservationSequenceValues(db)
    BY <1>4 DEF Repair, Writes
  <2>2. Kept(db, db', {"row", "checked"})
    BY <1>1, <2>1, ValuesIs
  <2>3. QED
    BY <1>2, <2>2
<1>5. CASE pc[p] = "evidence"
  <2>1. db' = ensureThreadEvidenceObservationSequence(db)
    BY <1>5 DEF Repair, Writes
  <2>2. Kept(db, db', {"evidence", "checked"})
    BY <1>1, <2>1, EvidenceIs
  <2>3. QED
    BY <1>2, <2>2
<1>6. CASE pc[p] = "fence"
  <2>1. db' = BackfillFence(db)
    BY <1>6 DEF Repair, Writes
  <2>2. Raises(db, db', db.evidence.seq)
    BY <1>1, <2>1, BackfillFenceIs
  <2>3. QED
    BY <1>1, <2>2, RaisesRemember
<1>7. CASE pc[p] = "recover"
  <2>1. db' = RecoverLegacyRuns(db)
    BY <1>7 DEF Repair, Writes
  <2>2. Raises(db, db', db.runs)
    BY <1>1, <2>1, RecoverIs
  <2>3. QED
    BY <1>1, <2>2, RaisesRemember
<1>8. CASE pc[p] = "remove"
  <2>1. db' = RemoveLegacyRuns(db)
    BY <1>8 DEF Repair, Writes
  <2>2. Recovered(db)
    BY <1>1, <1>8 DEF Recalls, PastRecover
  <2>3. QED
    BY <1>1, <2>1, <2>2, RemoveRemembers
<1>9. CASE pc[p] = "reservations"
  <2>1. db' = ensureThreadChildObservationReservations(db)
    BY <1>9 DEF Repair, Writes
  <2>2. QED
    BY <1>1, <2>1, ReservationsRemember
<1>10. CASE pc[p] = "floor"
  <2>1. db' = ensureThreadObservationSequenceFloor(db)
    BY <1>10 DEF Repair, Writes
  <2>2. Kept(db, db', {"allocator", "checked"})
    BY <1>1, <2>1, AllocatorFloorIs
  <2>3. QED
    BY <1>2, <2>2
<1>11. CASE pc[p] = "version"
  <2>1. db' = [db EXCEPT !.version = Supported]
    BY <1>11 DEF Repair, Writes
  <2>2. Kept(db, db', {"version"})
    BY <1>1, <2>1, VersionIs DEF Supported
  <2>3. QED
    BY <1>2, <2>2
<1>12. QED
  BY <1>3, <1>4, <1>5, <1>6, <1>7, <1>8, <1>9, <1>10, <1>11 DEF Repair

LEMMA StepsRemember ==
  ASSUME SafeInv, RecallInv, NEW p \in Procs,
         Migrate(p) \/ Commands(p) \/ Allocate(p) \/ Persist(p)
  PROVE  Carries(db, db') /\ (stale' \/ Remembers(db, db'))
<1>1. /\ ControlOK /\ Sound(db) /\ db \in Archive /\ Settled(pc[p], db) /\ Dropped(db)
      /\ Fresh(fetch[p], OtherFetches(p), db)
  BY SoundParts DEF SafeInv
<1>2. Untouched(db, db') => Carries(db, db') /\ Remembers(db, db')
  BY <1>1, UntouchedIs
<1>3. CASE db' = db
  BY <1>2, <1>3 DEF Untouched
<1>4. CASE ApplySchema(p)
  <2>1. db' = schemaSQL(db)
    BY <1>4 DEF ApplySchema, Writes
  <2>2. /\ Kept(db, db', {"shape"})
        /\ \A t \in Tables : db'.shape[t] \in {db.shape[t], "current"}
    BY <1>1, <2>1, SchemaIs
  <2>3. QED
    BY <1>2, <2>2, UntouchedBy DEF Tables
<1>5. CASE Look(p)
  <2>1. db' = db \/ db' = ensureThreadObservationSequenceRow(db)
    BY <1>1, <1>5, LookWrites
  <2>2. CASE db' = ensureThreadObservationSequenceRow(db)
    <3>1. Kept(db, db', {"allocator", "checked"})
      BY <1>1, <2>2, AllocatorRowIs
    <3>2. db'.shape = db.shape
      BY <3>1 DEF Kept
    <3>3. QED
      BY <1>2, <3>1, <3>2, UntouchedBy
  <2>3. QED
    BY <1>3, <2>1, <2>2
<1>6. CASE Rebuild(p)
  <2>1. Duplicate(p) => db' = db
    BY <1>6 DEF Rebuild
  <2>2. ~Duplicate(p) => Carries(db, db') /\ (stale' \/ Remembers(db, db'))
    BY <1>6, RebuildRemembers DEF Rebuilding
  <2>3. QED
    BY <1>3, <2>1, <2>2
<1>7. CASE Repair(p)
  BY <1>7, RepairRemembers
<1>8. CASE Mark(p)
  <2>1. db' = markObservationSchemaConverged(db)
    BY <1>8 DEF Mark, Writes
  <2>2. Kept(db, db', {"checked"})
    BY <1>1, <2>1, MarkIs
  <2>3. db'.shape = db.shape
    BY <2>2 DEF Kept
  <2>4. QED
    BY <1>2, <2>2, <2>3, UntouchedBy
<1>9. CASE PrunePortablePayloads(p)
  <2>1. db' = Excerpts(db) /\ db.shape["columns"] = "current"
    BY <1>9 DEF PrunePortablePayloads, Writes
  <2>2. /\ Kept(db, db', {"length", "body", "shape", "checked"})
        /\ \A u \in Tables : u # "rows" => db'.shape[u] = db.shape[u]
    BY <1>1, <2>1, ExcerptsIs DEF Dropped
  <2>3. QED
    BY <1>2, <2>2, UntouchedBy DEF Tables
<1>10. CASE DropColumns(p)
  <2>1. db' = canonicalizePortableSchema(db)
    BY <1>10 DEF DropColumns, Writes
  <2>2. /\ Kept(db, db', {"shape", "body"})
        /\ \A u \in Tables : u \notin {"columns", "rows", "keys"} => db'.shape[u] = db.shape[u]
    BY <1>1, <2>1, CanonicalIs
  <2>3. QED
    BY <1>2, <2>2, UntouchedBy DEF Tables
<1>11. CASE StampPortable(p)
  <2>1. db' = [db EXCEPT !.version = Portable]
    BY <1>11 DEF StampPortable, Writes
  <2>2. Kept(db, db', {"version"})
    BY <1>1, <2>1, VersionIs DEF Portable
  <2>3. db'.shape = db.shape
    BY <2>2 DEF Kept
  <2>4. QED
    BY <1>2, <2>2, <2>3, UntouchedBy
<1>12. CASE Allocate(p)
  <2>1. db' = NextThreadObservationSequence(db)
    BY <1>12 DEF Allocate, Writes
  <2>2. Kept(db, db', {"allocator", "checked"})
    BY <1>1, <2>1, NextSequenceIs
  <2>3. db'.shape = db.shape
    BY <2>2 DEF Kept
  <2>4. QED
    BY <1>2, <2>2, <2>3, UntouchedBy
<1>13. CASE Persist(p)
  <2>1. CASE ~Usable(db)
    BY <1>3, <1>13, <2>1 DEF Persist
  <2>2. CASE Usable(db)
    <3> DEFINE o == fetch[p]
    <3>1. \/ db' = Persisted(db, o) \/ db' = Upserted(db, o, FALSE)
          \/ db' = Upserted(db, o, TRUE)
      BY <1>13, <2>2 DEF Persist, Writes
    <3>2. Observed(o) /\ Inspected(db)
      <4>1. o \in Observations /\ Inspected(db)
        BY <1>1, <1>13 DEF Persist, ControlOK, Fresh
      <4>2. o \in Orders
        BY <4>1, SchemaAssumption DEF Observations, Orders
      <4>3. o.source \in 1..MaxSource /\ o.seq \in 1..MaxSequence
        BY <4>1 DEF Observations
      <4>4. QED
        BY <4>1, <4>2, <4>3 DEF Observed
    <3>3. db' = Persisted(db, o) => Carries(db, db') /\ Remembers(db, db')
      BY <1>1, <3>2, PersistRemembers
    <3>4. ASSUME NEW complete \in BOOLEAN, db' = Upserted(db, o, complete)
          PROVE  Carries(db, db') /\ Remembers(db, db')
      <4>1. Kept(db, db', {"row", "evidence", "body", "checked"})
        BY <1>1, <3>2, <3>4, UpsertedIs
      <4>2. db'.shape = db.shape
        BY <4>1 DEF Kept
      <4>3. QED
        BY <1>2, <4>1, <4>2, UntouchedBy
    <3>5. QED
      BY <3>1, <3>3, <3>4
  <2>3. QED
    BY <2>1, <2>2
<1>14. CASE \/ InspectStructure(p) \/ CheckConverged(p) \/ Inspect(p) \/ Verify(p)
            \/ Open(p) \/ Close(p) \/ Kill(p)
  BY <1>3, <1>14 DEF InspectStructure, CheckConverged, Inspect, Verify, Open, Close, Kill
<1>15. QED
  BY <1>4, <1>5, <1>6, <1>7, <1>8, <1>9, <1>10, <1>11, <1>12, <1>13, <1>14
     DEF Migrate, Commands

\* What the process that takes a step knows after it.
LEMMA StepRecalls ==
  ASSUME SafeInv, RecallInv, NEW p \in Procs,
         Migrate(p) \/ Commands(p) \/ Allocate(p) \/ Persist(p), Carries(db, db')
  PROVE  Recalls(pc'[p], seen'[p], db')
<1>1. /\ ControlOK /\ Sound(db) /\ db \in Archive /\ Recalls(pc[p], seen[p], db)
      /\ pc \in [Procs -> PCs] /\ seen \in [Procs -> Shapes \cup {"unseen"}]
  BY SoundParts DEF SafeInv, RecallInv, ControlOK
<1>2. \A s \in {"columns", "structure", "converged", "open", "inspect", "closed", "apply",
                "applyCurrent", "drop", "stamp", "mark", "failed"} :
        s \notin {"workflows", "children"} \cup PastRecover
  BY DEF PastRecover, PastRemove, PastChildren,
         PastReservations, PastAllocator, PastFloor, PastKeys, PastTriggers, PastVersion
<1>3. CASE pc'[p] \in {"columns", "structure", "converged", "open", "inspect", "closed",
                       "apply", "applyCurrent", "drop", "stamp", "mark", "failed"}
  BY <1>2, <1>3 DEF Recalls
<1>4. CASE Look(p) /\ pc'[p] = pc[p]
  <2>1. db' = db
    <3>1. pc[p] # After(pc[p])
      BY <1>4, AfterEach DEF Look, Tables
    <3>2. QED
      BY <1>1, <1>4, <3>1 DEF Look, Goto
  <2>2. seen'[p] = seen[p] \/ pc[p] \notin Tables \/ seen'[p] = db.shape[pc[p]]
    BY <1>1, <1>4 DEF Look, Tables
  <2>3. QED
    BY <1>1, <1>4, <2>1, <2>2 DEF Recalls, Tables
<1>5. CASE /\ (Look(p) \/ Rebuilding(p) \/ Repair(p)) /\ pc'[p] = After(pc[p])
           /\ pc'[p] # pc[p]
  <2>1. pc[p] \in StepNames \ {"verify"}
    BY <1>5, PCsAre DEF Look, Rebuilding, Rebuild, Repair, Tables, StepNames, PastColumns,
                PastBodies, PastFamilies, PastRows, PastValues, PastEvidence, PastWorkflows,
                PastFence, PastRecover, PastRemove, PastChildren, PastReservations,
                PastAllocator, PastFloor, PastKeys, PastTriggers, PastVersion
  <2>2. seen'[p] = "unseen" \/ pc'[p] = "bodies"
    <3>1. CASE Look(p)
      BY <1>1, <1>5, <3>1 DEF Look
    <3>2. CASE Rebuilding(p) /\ pc[p] = "columns"
      BY <1>5, <3>2, AfterEach
    <3>3. CASE Rebuilding(p) /\ pc[p] # "columns"
      BY <1>1, <3>3 DEF Rebuilding, Rebuild
    <3>4. CASE Repair(p)
      BY <1>1, <3>4 DEF Repair
    <3>5. QED
      BY <1>5, <3>1, <3>2, <3>3, <3>4
  <2>3. pc[p] \in PastRecover => Recovered(db')
    BY <1>1 DEF Recalls, Carries
  <2>4. pc[p] = "recover" => Recovered(db')
    <3>1. SUFFICES ASSUME pc[p] = "recover" PROVE Recovered(db')
      OBVIOUS
    <3>2. Repair(p)
      BY <1>5, <3>1 DEF Look, Rebuilding, Rebuild, Tables
    <3>3. db' = RecoverLegacyRuns(db) /\ db.runs <= MaxSequence
      BY <1>1, <3>1, <3>2, SoundParts DEF Repair, Writes
    <3>4. /\ Kept(db, db', {"fence", "checked"})
          /\ db.details /\ db.runs > 0 => \E r \in db'.fence : r.seq >= db.runs
      BY <1>1, <3>3, RecoverIs DEF Raises
    <3>5. QED
      BY <3>4 DEF Kept, Recovered
  <2>5. pc'[p] \in PastRecover => pc[p] \in PastRecover \cup {"recover"}
    BY <1>5, <2>1, AfterEach
       DEF StepNames, PastColumns, PastBodies, PastFamilies, PastRows, PastValues,
           PastEvidence, PastWorkflows, PastFence, PastRecover, PastRemove, PastChildren,
           PastReservations, PastAllocator, PastFloor, PastKeys, PastTriggers, PastVersion
  <2>6. QED
    BY <2>2, <2>3, <2>4, <2>5 DEF Recalls
<1>6. \/ pc'[p] \in {"columns", "structure", "converged", "open", "inspect", "closed",
                     "apply", "applyCurrent", "drop", "stamp", "mark", "failed"}
      \/ Look(p) /\ pc'[p] = pc[p]
      \/ /\ (Look(p) \/ Rebuilding(p) \/ Repair(p)) /\ pc'[p] = After(pc[p])
         /\ pc'[p] # pc[p]
  <2>1. CASE Look(p)
    BY <1>1, <2>1 DEF Look, Goto
  <2>2. CASE Rebuild(p)
    <3>1. pc[p] # After(pc[p])
      BY <2>2, AfterEach DEF Rebuild, Tables
    <3>2. QED
      BY <1>1, <2>2, <3>1 DEF Rebuild, Rebuilding, Goto
  <2>3. CASE Repair(p)
    <3>1. pc[p] # After(pc[p])
      BY <2>3, AfterEach DEF Repair
    <3>2. QED
      BY <1>1, <2>3, <3>1 DEF Repair, Goto
  <2>4. CASE ApplySchema(p) \/ InspectStructure(p) \/ CheckConverged(p) \/ Inspect(p)
             \/ Verify(p) \/ Mark(p)
    BY <1>1, <2>4 DEF ApplySchema, InspectStructure, CheckConverged, Inspect, Verify, Mark, Goto
  <2>5. CASE Commands(p) \/ Allocate(p) \/ Persist(p)
    BY <1>1, <2>5 DEF Commands, Open, Close, Kill, PrunePortablePayloads, DropColumns,
                      StampPortable, Allocate, Persist, Goto
  <2>6. QED
    BY <2>1, <2>2, <2>3, <2>4, <2>5 DEF Migrate
<1>7. QED
  BY <1>3, <1>4, <1>5, <1>6

LEMMA RecallStep == SafeInv /\ RecallInv /\ [Next]_vars
                      => RecallInv' /\ (stale' \/ Remembers(db, db'))
<1>1. SUFFICES ASSUME SafeInv, RecallInv, [Next]_vars
               PROVE  RecallInv' /\ (stale' \/ Remembers(db, db'))
  OBVIOUS
<1>2. CASE UNCHANGED vars
  <2>1. db' = db /\ RecallInv' /\ Sound(db)
    BY <1>1, <1>2 DEF vars, RecallInv, SafeInv
  <2>2. Untouched(db, db')
    BY <2>1 DEF Untouched
  <2>3. QED
    BY <2>1, <2>2, UntouchedIs
<1>3. ASSUME NEW p \in Procs, Migrate(p) \/ Commands(p) \/ Allocate(p) \/ Persist(p)
      PROVE  RecallInv' /\ (stale' \/ Remembers(db, db'))
  <2>1. Carries(db, db') /\ (stale' \/ Remembers(db, db'))
    BY <1>1, <1>3, StepsRemember
  <2>2. Recalls(pc'[p], seen'[p], db')
    BY <1>1, <1>3, <2>1, StepRecalls
  <2>3. \A q \in Procs : q # p => pc'[q] = pc[q] /\ seen'[q] = seen[q]
    BY <1>1, <1>3, StepsApart DEF SafeInv, Apart
  <2>4. ASSUME NEW q \in Procs, q # p PROVE Recalls(pc'[q], seen'[q], db')
    BY <1>1, <2>1, <2>3, <2>4 DEF RecallInv, Recalls, Carries
  <2>5. QED
    BY <2>1, <2>2, <2>4 DEF RecallInv
<1>4. QED
  BY <1>1, <1>2, <1>3 DEF Next, Commands

(* A fence, and the legacy reservation it is recovered from, only advance:  *)
(* whatever is repaired, rebuilt, synced or killed, no step forgets an      *)
(* observation that older ones are compared with, nor the clock it had,     *)
(* unless a rebuild is done that another process has done already           *)
(* (schema_observation.go).                                                 *)
THEOREM FencesAlwaysAdvance == Spec => FencesOnlyAdvance
<1>1. Init => RecallInv
  <2>1. SUFFICES ASSUME Init, NEW p \in Procs PROVE Recalls(pc[p], seen[p], db)
    BY DEF RecallInv
  <2>2. pc[p] = "closed"
    BY <2>1 DEF Init
  <2>3. QED
    BY <2>2 DEF Recalls, PastRecover, PastRemove, PastChildren, PastReservations,
                PastAllocator, PastFloor, PastKeys, PastTriggers, PastVersion
<1>2. SafeInv /\ RecallInv /\ [Next]_vars
        => [stale' \/
     /\ \A f \in Families : db.reserved[f] # {} =>
          /\ db'.reserved[f] # {}
          /\ Advances(First(db.reserved[f]), First(db'.reserved[f]),
                      compareReservationObservationOrder)
     /\ db.fence # {} =>
          /\ db'.fence # {}
          /\ Advances(FirstRun(db.fence), FirstRun(db'.fence),
                      compareWorkflowObservationOrder)
     /\ db.details /\ db'.runs < db.runs =>
          \E r \in db'.fence : r.seq >= db.runs]_vars
  BY RecallStep DEF Remembers
<1>3. SafeInv /\ RecallInv /\ [Next]_vars => RecallInv'
  BY RecallStep
<1>4. QED
  BY <1>1, <1>2, <1>3, SafeHolds, PTL DEF Spec, FencesOnlyAdvance

=============================================================================
