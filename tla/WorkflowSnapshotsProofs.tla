---------------------- MODULE WorkflowSnapshotsProofs ----------------------
(***************************************************************************)
(* What TLAPS proves of WorkflowSnapshots, for any number of runs, syncers, *)
(* siblings of a head and changes on GitHub.                                *)
(*                                                                         *)
(* The invariant says of every list a sync holds what is known of its runs, *)
(* against the snapshot it compared with.  The transaction then needs one   *)
(* lemma (PersistEffect): of all the payloads it applies, those that        *)
(* compared with the stored snapshot replace it, together, or nothing does. *)
(***************************************************************************)
EXTENDS WorkflowSnapshots, WellFoundedInduction, TLAPS

-----------------------------------------------------------------------------
(* Numbers, clocks and runs                                                 *)

(* Induction over the naturals, for a set instead of a predicate.           *)
LEMMA NatSetInduction ==
  ASSUME NEW S, S \subseteq Nat, 0 \in S, \A n \in S : n + 1 \in S
  PROVE  S = Nat
<1> DEFINE T == Nat \ S
<1>1. SUFFICES ASSUME T # {} PROVE FALSE
  OBVIOUS
<1>2. PICK n \in T : \A m \in T : ~(<<m, n>> \in OpToRel(<, Nat))
  BY <1>1, NatLessThanWellFounded, WFMin
<1>3. n # 0 /\ n - 1 \in Nat /\ n - 1 < n
  OBVIOUS
<1>4. <<n - 1, n>> \in OpToRel(<, Nat)
  BY <1>3 DEF OpToRel
<1>5. n - 1 \in S
  BY <1>2, <1>3, <1>4
<1>6. QED
  BY <1>3, <1>5

LEMMA LeastNumber ==
  ASSUME NEW S, S \subseteq Nat, S # {}
  PROVE  \E n \in S : \A m \in S : n <= m
<1>1. PICK n \in S : \A m \in S : ~(<<m, n>> \in OpToRel(<, Nat))
  BY NatLessThanWellFounded, WFMin
<1>2. \A m \in S : m < n => <<m, n>> \in OpToRel(<, Nat)
  BY DEF OpToRel
<1>3. \A m \in S : ~(m < n)
  BY <1>1, <1>2
<1>4. QED
  BY <1>3

LEMMA GreatestNumber ==
  ASSUME NEW S, S \subseteq Nat, S # {}, NEW n \in Nat, \A c \in S : c <= n
  PROVE  \E c \in S : \A d \in S : d <= c
<1> DEFINE gaps == {n - c : c \in S}
<1>1. gaps \subseteq Nat /\ gaps # {}
  OBVIOUS
<1>2. PICK g \in gaps : \A h \in gaps : g <= h
  BY <1>1, LeastNumber
<1>3. PICK c \in S : g = n - c
  BY <1>2
<1>4. ASSUME NEW d \in S PROVE d <= c
  <2>1. n - d \in gaps
    OBVIOUS
  <2>2. n - c <= n - d
    BY <1>2, <1>3, <2>1
  <2>3. QED
    BY <2>2
<1>5. QED
  BY <1>4

LEMMA MaxOfNumbers ==
  ASSUME NEW S, S \subseteq Nat, S # {}, NEW n \in Nat, \A c \in S : c <= n
  PROVE  Max(S) \in S /\ \A d \in S : d <= Max(S)
<1>1. PICK c \in S : \A d \in S : d <= c
  BY GreatestNumber
<1>2. \A d \in S : c >= d
  BY <1>1
<1>3. Max(S) \in S /\ \A d \in S : Max(S) >= d
  BY <1>2 DEF Max
<1>4. QED
  BY <1>3

\* A source clock that GitHub has reported by second n.
Clock(c, n) == c = Blank \/ (c \in Nat /\ c <= n)

\* The clock c is known and not before the second at.
Covers(c, at) == c # Blank /\ at <= c

\* What latestWorkflowTimestamp returns of a set of clocks.
IsLatest(c, clocks, n) ==
  /\ Clock(c, n)
  /\ \A d \in clocks : d # Blank => Covers(c, d)

LEMMA BlankIsNoNumber == Blank \notin Nat
BY MalformedAssumption

LEMMA LatestSourceIsLatest ==
  ASSUME NEW n \in Nat, NEW clocks, \A c \in clocks : Clock(c, n)
  PROVE  IsLatest(LatestSource(clocks), clocks, n)
<1>1. CASE clocks \subseteq {Blank}
  BY <1>1 DEF LatestSource, IsLatest, Clock
<1>2. CASE ~(clocks \subseteq {Blank})
  <2> DEFINE S == clocks \ {Blank}
  <2>1. S \subseteq Nat /\ S # {} /\ \A c \in S : c <= n
    BY <1>2 DEF Clock
  <2>2. PICK c \in S : \A d \in S : d <= c
    BY <2>1, GreatestNumber
  <2>3. LatestSource(clocks) \in S /\ \A d \in S : d <= LatestSource(clocks)
    BY <1>2, <2>2 DEF LatestSource
  <2>4. QED
    BY <2>1, <2>3 DEF IsLatest, Clock, Covers
<1>3. QED
  BY <1>1, <1>2

(* The latest of the rows that list a run is one of them.                   *)
LEMMA LatestRowIsLatest ==
  ASSUME NEW n \in Nat, NEW rows, rows # {}, \A a \in rows : a \in Run /\ a.at <= n
  PROVE  LatestRow(rows) \in rows /\ \A a \in rows : a.at <= LatestRow(rows).at
<1> DEFINE S == {a.at : a \in rows}
<1>1. S \subseteq Nat /\ S # {} /\ \A c \in S : c <= n
  BY DEF Run
<1>2. PICK c \in S : \A d \in S : d <= c
  BY <1>1, GreatestNumber
<1>3. PICK a \in rows : c = a.at
  BY <1>2
<1>4. \A b \in rows : b.at <= a.at
  BY <1>2, <1>3
<1>5. QED
  BY <1>3, <1>4 DEF LatestRow

-----------------------------------------------------------------------------
(* The invariant                                                            *)

RunStates == {"none", "live", "deleted"}

GithubSound(g, n) ==
  /\ g \in [Runs -> [state : RunStates, run : Run]]
  /\ \A r \in Runs : g[r].run.at <= n /\ (g[r].state = "live" => g[r].run # NoRun)

\* A row of run r that GitHub g has shown by second n, covered by clock c.
RowSound(row, r, c, g, n) ==
  row # NoRun => g[r].state # "none" /\ row.at <= n /\ Covers(c, row.at)

SnapshotSound(b, g, n, top) ==
  /\ b \in Snapshot
  /\ b.seq <= top
  /\ Clock(b.source, n)
  /\ ~b.found => b = NoSnapshot
  /\ \A r \in Runs : RowSound(b.runs[r], r, b.source, g, n)

\* A fresh payload keeps what it compared with, or has verified a deletion.
Compared(p) ==
  \A r \in Runs : p.baseline.runs[r] # NoRun =>
    IF p.rows[r] # NoRun THEN p.baseline.runs[r].at <= p.rows[r].at
    ELSE r \in p.verified => r \in p.deleted

\* No live run is behind what a list showed of it.
Behind(p, g) ==
  \A r \in Runs : p.rows[r] # NoRun /\ g[r].state = "live" => p.rows[r].at <= g[r].run.at

PayloadSound(p, g, n, top) ==
  /\ p \in Payload
  /\ SnapshotSound(p.baseline, g, n, top)
  /\ Clock(p.source, n)
  /\ p.baseline.source # Blank => Covers(p.source, p.baseline.source)
  /\ \A r \in Runs : RowSound(p.rows[r], r, p.source, g, n)
  /\ Behind(p, g)
  /\ \A r \in p.deleted : g[r].state = "deleted"
  /\ p.fresh => Compared(p)

Attempts == [phase : {"listed", "verifying", "sequenced"}, payloads : Seq(Payload),
             exact : [Runs -> {"none", "deleted"}], seq : Nat]

\* Payload i of an attempt has been compared with a snapshot.
Compares(a, i) == i < Len(a.payloads) \/ a.phase # "listed"

\* Once a snapshot is replaced no later sibling compares with it, and what a
\* later sibling no longer lists is deleted.
SiblingsSound(a, g, snap) ==
  \A i, j \in 1..Len(a.payloads) :
    i < j /\ a.payloads[i].fresh /\ a.payloads[j].fresh =>
      /\ Compares(a, j) /\ a.payloads[i].baseline = snap => a.payloads[j].baseline = snap
      /\ \A r \in Runs : a.payloads[i].rows[r] # NoRun /\ a.payloads[j].rows[r] = NoRun
                         => g[r].state = "deleted"

\* A run that is new to the stored snapshot and was looked up is no tombstone.
LookupsSound(a, snap, tomb) ==
  \A i \in 1..Len(a.payloads) :
    a.payloads[i].fresh /\ a.payloads[i].baseline = snap =>
      \A r \in a.payloads[i].verified :
        a.payloads[i].rows[r] # NoRun /\ snap.runs[r] = NoRun => tomb[r] = 0

\* What holds once a sync has its generation.
Consolidated(a) ==
  \A i, j \in 1..Len(a.payloads), r \in Runs :
    LET p == a.payloads[i]
        q == a.payloads[j]
    IN p.fresh /\ q.fresh /\ p.baseline = q.baseline /\ p.rows[r] # NoRun =>
         /\ q.rows[r] # NoRun /\ p.rows[r].at = q.rows[r].at => p.rows[r] = q.rows[r]
         /\ i < j /\ q.rows[r] = NoRun =>
              \/ a.exact[r] = "deleted"
              \/ \E k \in 1..Len(a.payloads) :
                   /\ a.payloads[k].fresh /\ a.payloads[k].baseline = p.baseline
                   /\ r \in a.payloads[k].deleted

Sequenced(a, top) ==
  /\ a.seq \in 1..top
  /\ \A i \in 1..Len(a.payloads) : a.payloads[i].baseline.seq < a.seq
  /\ Consolidated(a)

PayloadsSound(a, g, n, top) ==
  \A i \in 1..Len(a.payloads) :
    /\ PayloadSound(a.payloads[i], g, n, top)
    /\ i < Len(a.payloads) \/ a.phase = "sequenced" => Observed(a.payloads[i])
    /\ ~Compares(a, i) => a.payloads[i] = NewPayload(a.payloads[i].rows)

AttemptSound(a, g, n, top, snap, tomb) ==
  /\ a \in Attempts /\ Len(a.payloads) >= 1
  /\ PayloadsSound(a, g, n, top)
  /\ SiblingsSound(a, g, snap)
  /\ LookupsSound(a, snap, tomb)
  /\ \A r \in Runs : a.exact[r] = "deleted" => g[r].state = "deleted"
  /\ a.phase = "sequenced" => Sequenced(a, top)

TombstonesSound(tomb, snap, g) ==
  \A r \in Runs : tomb[r] # 0 =>
    /\ g[r].state = "deleted"
    /\ Covers(snap.source, tomb[r])
    /\ snap.runs[r] # NoRun => tomb[r] < snap.runs[r].at

\* The generation a sync holds is its own: neither stored nor compared with.
OwnGeneration(s) ==
  sync[s] # Idle /\ sync[s].phase = "sequenced" =>
    /\ snapshot.seq # sync[s].seq
    /\ \A t \in Syncers : sync[t] # Idle =>
         /\ \A i \in 1..Len(sync[t].payloads) :
              sync[t].payloads[i].baseline.seq # sync[s].seq
         /\ t # s /\ sync[t].phase = "sequenced" => sync[t].seq # sync[s].seq

WorkflowInv ==
  /\ now \in Nat /\ changes \in Nat /\ counter \in Nat
  /\ GithubSound(github, now)
  /\ SnapshotSound(snapshot, github, now, counter)
  /\ tombstones \in [Runs -> Nat] /\ TombstonesSound(tombstones, snapshot, github)
  /\ DOMAIN sync = Syncers
  /\ \A s \in Syncers : sync[s] # Idle =>
       AttemptSound(sync[s], github, now, counter, snapshot, tombstones)
  /\ \A s \in Syncers : OwnGeneration(s)

-----------------------------------------------------------------------------
(* The world moves on                                                       *)

\* Between (g, n, top) and (h, m, up) GitHub, its clock and the generations
\* have only moved on.
Grows(g, n, top, h, m, up) ==
  /\ n \in Nat /\ m \in Nat /\ n <= m
  /\ top \in Nat /\ up \in Nat /\ top <= up
  /\ GithubSound(g, n) /\ GithubSound(h, m)
  /\ \A r \in Runs :
       /\ g[r].state # "none" => h[r].state # "none"
       /\ g[r].state = "deleted" => h[r].state = "deleted"
       /\ g[r].state # "none" /\ h[r].state = "live" =>
            g[r].state = "live" /\ g[r].run.at <= h[r].run.at

LEMMA ClockGrows ==
  ASSUME NEW n \in Nat, NEW m \in Nat, n <= m, NEW c, Clock(c, n)
  PROVE  Clock(c, m)
BY DEF Clock

LEMMA RowGrows ==
  ASSUME NEW g, NEW n, NEW top, NEW h, NEW m, NEW up, Grows(g, n, top, h, m, up),
         NEW r \in Runs, NEW row \in Run, NEW c, RowSound(row, r, c, g, n)
  PROVE  RowSound(row, r, c, h, m)
<1>1. row.at \in Nat
  BY DEF Run
<1>2. QED
  BY <1>1 DEF Grows, RowSound

LEMMA SnapshotGrows ==
  ASSUME NEW g, NEW n, NEW top, NEW h, NEW m, NEW up, Grows(g, n, top, h, m, up),
         NEW b, SnapshotSound(b, g, n, top)
  PROVE  SnapshotSound(b, h, m, up)
<1>1. b \in Snapshot /\ b.seq \in Nat /\ b.seq <= top /\ Clock(b.source, n)
        /\ (~b.found => b = NoSnapshot)
  BY DEF SnapshotSound, Snapshot
<1>2. b.seq <= up /\ Clock(b.source, m)
  BY <1>1, ClockGrows DEF Grows
<1>3. ASSUME NEW r \in Runs PROVE RowSound(b.runs[r], r, b.source, h, m)
  <2>1. b.runs[r] \in Run
    BY <1>1 DEF Snapshot
  <2>2. RowSound(b.runs[r], r, b.source, g, n)
    BY DEF SnapshotSound
  <2>3. QED
    BY <2>1, <2>2, RowGrows
<1>4. QED
  BY <1>1, <1>2, <1>3 DEF SnapshotSound

LEMMA PayloadGrows ==
  ASSUME NEW g, NEW n, NEW top, NEW h, NEW m, NEW up, Grows(g, n, top, h, m, up),
         NEW p, PayloadSound(p, g, n, top)
  PROVE  PayloadSound(p, h, m, up)
<1>1. p \in Payload /\ Clock(p.source, n)
  BY DEF PayloadSound
<1>2. SnapshotSound(p.baseline, h, m, up)
  BY SnapshotGrows DEF PayloadSound
<1>3. Clock(p.source, m)
  BY <1>1, ClockGrows DEF Grows
<1>4. ASSUME NEW r \in Runs PROVE RowSound(p.rows[r], r, p.source, h, m)
  <2>1. p.rows[r] \in Run
    BY <1>1 DEF Payload
  <2>2. RowSound(p.rows[r], r, p.source, g, n)
    BY DEF PayloadSound
  <2>3. QED
    BY <2>1, <2>2, RowGrows
<1>5. Behind(p, h)
  <2>1. SUFFICES ASSUME NEW r \in Runs, p.rows[r] # NoRun, h[r].state = "live"
                 PROVE  p.rows[r].at <= h[r].run.at
    BY DEF Behind
  <2>2. g[r].state # "none"
    BY <2>1 DEF PayloadSound, RowSound
  <2>3. g[r].state = "live" /\ g[r].run.at <= h[r].run.at
    BY <2>1, <2>2 DEF Grows
  <2>4. p.rows[r].at <= g[r].run.at
    BY <2>1, <2>3 DEF PayloadSound, Behind
  <2>5. p.rows[r].at \in Nat /\ g[r].run.at \in Nat /\ h[r].run.at \in Nat
    BY <1>1 DEF Payload, Run, Grows, GithubSound
  <2>6. QED
    BY <2>3, <2>4, <2>5
<1>6. \A r \in p.deleted : h[r].state = "deleted"
  BY <1>1 DEF PayloadSound, Grows, Payload
<1>7. QED
  BY <1>1, <1>2, <1>3, <1>4, <1>5, <1>6 DEF PayloadSound

LEMMA AttemptGrows ==
  ASSUME NEW g, NEW n, NEW top, NEW h, NEW m, NEW up, Grows(g, n, top, h, m, up),
         NEW a, NEW snap, NEW tomb, AttemptSound(a, g, n, top, snap, tomb)
  PROVE  AttemptSound(a, h, m, up, snap, tomb)
<1>1. PayloadsSound(a, h, m, up)
  BY PayloadGrows DEF AttemptSound, PayloadsSound
<1>2. SiblingsSound(a, h, snap)
  BY DEF AttemptSound, SiblingsSound, Grows
<1>3. \A r \in Runs : a.exact[r] = "deleted" => h[r].state = "deleted"
  BY DEF AttemptSound, Grows
<1>4. a.phase = "sequenced" => Sequenced(a, up)
  BY DEF AttemptSound, Sequenced, Attempts, Grows
<1>5. QED
  BY <1>1, <1>2, <1>3, <1>4 DEF AttemptSound

(* A snapshot that no payload of an attempt compared with takes the place   *)
(* of the one that was stored.                                              *)
LEMMA AttemptOutdated ==
  ASSUME NEW g, NEW n, NEW top, NEW a, NEW snap, NEW tomb, NEW snap2, NEW tomb2,
         AttemptSound(a, g, n, top, snap, tomb),
         \A i \in 1..Len(a.payloads) : a.payloads[i].baseline # snap2
  PROVE  AttemptSound(a, g, n, top, snap2, tomb2)
<1>1. SiblingsSound(a, g, snap2)
  BY DEF AttemptSound, SiblingsSound
<1>2. LookupsSound(a, snap2, tomb2)
  BY DEF LookupsSound
<1>3. QED
  BY <1>1, <1>2 DEF AttemptSound

(* GitHub's steps, and a generation that is allocated.                      *)
LEMMA WorldMoves ==
  ASSUME WorkflowInv,
         Grows(github, now, counter, github', now', counter'),
         changes' \in Nat, UNCHANGED <<snapshot, sync, tombstones>>
  PROVE  WorkflowInv'
<1>1. now' \in Nat /\ counter' \in Nat /\ GithubSound(github', now')
  BY DEF Grows
<1>2. SnapshotSound(snapshot', github', now', counter')
  BY SnapshotGrows DEF WorkflowInv
<1>3. tombstones' \in [Runs -> Nat] /\ TombstonesSound(tombstones', snapshot', github')
  BY DEF WorkflowInv, TombstonesSound, Grows
<1>4. \A s \in Syncers : sync'[s] # Idle =>
        AttemptSound(sync'[s], github', now', counter', snapshot', tombstones')
  BY AttemptGrows DEF WorkflowInv
<1>5. \A s \in Syncers : OwnGeneration(s)'
  BY DEF WorkflowInv, OwnGeneration
<1>6. QED
  BY <1>1, <1>2, <1>3, <1>4, <1>5 DEF WorkflowInv, Idle

LEMMA TickKeeps ==
  ASSUME WorkflowInv, Tick
  PROVE  WorkflowInv'
<1>1. now' = now + 1 /\ now \in Nat /\ now' \in Nat /\ counter \in Nat /\ changes \in Nat
        /\ UNCHANGED <<github, changes, counter, snapshot, sync, tombstones>>
  BY DEF WorkflowInv, Tick
<1>2. GithubSound(github, now)
  BY DEF WorkflowInv
<1>3. GithubSound(github', now') /\ \A r \in Runs : github[r].run.at <= github'[r].run.at
  BY <1>1, <1>2 DEF GithubSound, Run
<1>4. Grows(github, now, counter, github', now', counter')
  BY <1>1, <1>2, <1>3 DEF Grows
<1>5. QED
  BY <1>1, <1>4, WorldMoves

LEMMA ChangeRunKeeps ==
  ASSUME WorkflowInv, NEW r \in Runs, ChangeRun(r)
  PROVE  WorkflowInv'
<1>1. now \in Nat /\ changes' \in Nat /\ counter \in Nat /\ GithubSound(github, now)
        /\ UNCHANGED <<now, counter, snapshot, sync, tombstones>>
  BY DEF WorkflowInv, ChangeRun
<1>2. \A q \in Runs : github[q].state \in RunStates /\ github[q].run \in Run
        /\ github[q].run.at \in Nat /\ github[q].run.v \in Nat /\ github[q].run.at <= now
  BY <1>1 DEF GithubSound, Run
<1>3. CASE /\ github[r].state # "deleted"
           /\ github' = [github EXCEPT ![r] =
                [state |-> "live", run |-> [at |-> now, v |-> github[r].run.v + 1]]]
  <2> DEFINE new == [state |-> "live", run |-> [at |-> now, v |-> github[r].run.v + 1]]
  <2>1. new \in [state : RunStates, run : Run] /\ new.run.at = now /\ new.state = "live"
         /\ new.run # NoRun
    BY <1>1, <1>2 DEF RunStates, Run, NoRun
  <2> HIDE DEF new
  <2>2. github' = [github EXCEPT ![r] = new]
    BY <1>3 DEF new
  <2>3. GithubSound(github', now')
    BY <1>1, <1>2, <2>1, <2>2 DEF GithubSound
  <2>4. Grows(github, now, counter, github', now', counter')
    BY <1>1, <1>2, <1>3, <2>1, <2>2, <2>3 DEF Grows, GithubSound, RunStates
  <2>5. QED
    BY <1>1, <2>4, WorldMoves
<1>4. CASE Live(r) /\ github' = [github EXCEPT ![r] = [state |-> "deleted", run |-> NoRun]]
  <2> DEFINE new == [state |-> "deleted", run |-> NoRun]
  <2>1. new \in [state : RunStates, run : Run] /\ new.run.at = 0 /\ new.state = "deleted"
    BY DEF RunStates, Run, NoRun
  <2> HIDE DEF new
  <2>2. github' = [github EXCEPT ![r] = new]
    BY <1>4 DEF new
  <2>3. GithubSound(github', now')
    BY <1>1, <1>2, <2>1, <2>2 DEF GithubSound
  <2>4. Grows(github, now, counter, github', now', counter')
    BY <1>1, <1>2, <1>4, <2>1, <2>2, <2>3 DEF Grows, GithubSound, RunStates, Live
  <2>5. QED
    BY <1>1, <2>4, WorldMoves
<1>5. QED
  BY <1>3, <1>4 DEF ChangeRun

-----------------------------------------------------------------------------
(* Lists, and what is compared with them                                    *)

LEMMA NoSnapshotSound ==
  ASSUME NEW g, NEW n, NEW top \in Nat
  PROVE  SnapshotSound(NoSnapshot, g, n, top)
BY DEF NoSnapshot, SnapshotSound, Snapshot, Source, Run, NoRun, RowSound, Clock

\* Rows that GitHub g has shown by second n.
RowsShown(rows, g, n) ==
  /\ rows \in [Runs -> Run]
  /\ \A r \in Runs : rows[r] # NoRun =>
       /\ g[r].state # "none"
       /\ rows[r].at <= n
       /\ g[r].state = "live" => rows[r].at <= g[r].run.at

LEMMA RowsSourceCovers ==
  ASSUME NEW g, NEW n \in Nat, NEW rows, RowsShown(rows, g, n)
  PROVE  /\ Clock(RowsSource(rows), n)
         /\ \A r \in Runs : rows[r] # NoRun => Covers(RowsSource(rows), rows[r].at)
<1> DEFINE clocks == {rows[r].at : r \in Present(rows)}
<1>1. \A r \in Runs : rows[r] \in Run /\ rows[r].at \in Nat
  BY DEF RowsShown, Run
<1>2. \A c \in clocks : Clock(c, n) /\ c # Blank
  BY <1>1, BlankIsNoNumber DEF RowsShown, Present, Clock
<1>3. \A r \in Runs : rows[r] # NoRun => rows[r].at \in clocks
  BY DEF Present
<1> HIDE DEF clocks
<1>4. IsLatest(LatestSource(clocks), clocks, n)
  BY <1>2, LatestSourceIsLatest
<1>5. RowsSource(rows) = LatestSource(clocks)
  BY DEF RowsSource, clocks
<1>6. QED
  BY <1>2, <1>3, <1>4, <1>5 DEF IsLatest

LEMMA NewPayloadSound ==
  ASSUME NEW g, NEW n \in Nat, NEW top \in Nat, NEW rows, RowsShown(rows, g, n)
  PROVE  PayloadSound(NewPayload(rows), g, n, top)
<1> DEFINE p == NewPayload(rows)
<1>1. /\ p.rows = rows /\ p.baseline = NoSnapshot /\ p.source = RowsSource(rows)
      /\ p.fresh = TRUE /\ p.deleted = {} /\ p.verified = {}
      /\ p = [rows |-> rows, baseline |-> NoSnapshot, source |-> RowsSource(rows),
              fresh |-> TRUE, deleted |-> {}, verified |-> {}]
  BY DEF NewPayload
<1> HIDE DEF p
<1>2. rows \in [Runs -> Run] /\ Clock(RowsSource(rows), n)
        /\ \A r \in Runs : rows[r] # NoRun => Covers(RowsSource(rows), rows[r].at)
  BY RowsSourceCovers DEF RowsShown
<1>3. RowsSource(rows) \in Source
  BY <1>2 DEF Clock, Source
<1>4. NoSnapshot \in Snapshot /\ SnapshotSound(NoSnapshot, g, n, top)
  BY NoSnapshotSound DEF SnapshotSound
<1>5. p \in Payload
  BY <1>1, <1>2, <1>3, <1>4 DEF Payload
<1>6. NoSnapshot.source = Blank /\ \A r \in Runs : NoSnapshot.runs[r] = NoRun
  BY DEF NoSnapshot
<1>7. \A r \in Runs : RowSound(p.rows[r], r, p.source, g, n)
  BY <1>1, <1>2 DEF RowSound, RowsShown
<1>8. Behind(p, g) /\ Compared(p)
  BY <1>1, <1>6 DEF Behind, Compared, RowsShown
<1>9. PayloadSound(p, g, n, top)
  BY <1>1, <1>2, <1>4, <1>5, <1>6, <1>7, <1>8 DEF PayloadSound
<1>10. QED
  BY <1>9 DEF p

(* A payload that is no longer fresh.                                       *)
LEMMA StalePayloadSound ==
  ASSUME NEW g, NEW n \in Nat, NEW top \in Nat, NEW p, ~p.fresh
  PROVE  PayloadSound(Settled(p), g, n, top) /\ ~Settled(p).fresh /\ Observed(Settled(p))
<1> DEFINE none == [r \in Runs |-> NoRun]
           new == NewPayload(none)
           q == [new EXCEPT !.fresh = FALSE]
<1>1. RowsShown(none, g, n)
  BY DEF RowsShown, Run, NoRun
<1>2. PayloadSound(new, g, n, top) /\ new \in Payload
  BY <1>1, NewPayloadSound DEF PayloadSound
<1>3. Settled(p) = q
  BY DEF Settled
<1> HIDE DEF new, none
<1>4. /\ q \in Payload /\ q.fresh = FALSE
      /\ q.rows = new.rows /\ q.baseline = new.baseline /\ q.source = new.source
      /\ q.deleted = new.deleted /\ q.verified = new.verified
  BY <1>2 DEF Payload
<1> HIDE DEF q
<1>5. PayloadSound(q, g, n, top)
  BY <1>2, <1>4 DEF PayloadSound, Behind
<1>6. QED
  BY <1>3, <1>4, <1>5 DEF Observed

LEMMA LiveRunsShown ==
  ASSUME NEW n \in Nat, GithubSound(github, n)
  PROVE  RowsShown(LiveRuns, github, n)
BY DEF RowsShown, LiveRuns, Live, GithubSound, Run, NoRun

-----------------------------------------------------------------------------
(* Steps of one sync                                                        *)

\* A snapshot that sync s may hold as a baseline.
KnownBaseline(b, s) ==
  \/ b = snapshot \/ b = NoSnapshot
  \/ sync[s] # Idle /\ \E j \in 1..Len(sync[s].payloads) : b = sync[s].payloads[j].baseline

LEMMA KnownBaselineSeq ==
  ASSUME WorkflowInv, NEW s \in Syncers, NEW b, KnownBaseline(b, s), NEW t \in Syncers,
         sync[t] # Idle, sync[t].phase = "sequenced"
  PROVE  b.seq # sync[t].seq
<1>1. OwnGeneration(t) /\ AttemptSound(sync[t], github, now, counter, snapshot, tombstones)
  BY DEF WorkflowInv
<1>2. sync[t].seq >= 1
  BY <1>1 DEF AttemptSound, Sequenced
<1>3. NoSnapshot.seq = 0
  BY DEF NoSnapshot
<1>4. QED
  BY <1>1, <1>2, <1>3 DEF OwnGeneration, KnownBaseline

LEMMA SyncMoves ==
  ASSUME WorkflowInv, NEW s \in Syncers, NEW a, sync' = [sync EXCEPT ![s] = a],
         UNCHANGED <<now, github, changes, counter, snapshot, tombstones>>,
         a # Idle =>
           /\ AttemptSound(a, github, now, counter, snapshot, tombstones)
           /\ a.phase # "sequenced"
           /\ \A i \in 1..Len(a.payloads) : KnownBaseline(a.payloads[i].baseline, s)
  PROVE  WorkflowInv'
<1>1. DOMAIN sync = Syncers /\ DOMAIN sync' = Syncers
        /\ sync'[s] = a /\ \A t \in Syncers \ {s} : sync'[t] = sync[t]
  BY DEF WorkflowInv
<1>2. \A t \in Syncers : sync'[t] # Idle =>
        AttemptSound(sync'[t], github', now', counter', snapshot', tombstones')
  <2>1. SUFFICES ASSUME NEW t \in Syncers, sync'[t] # Idle
                 PROVE  AttemptSound(sync'[t], github, now, counter, snapshot, tombstones)
    OBVIOUS
  <2>2. QED
    BY <1>1, <2>1 DEF WorkflowInv
<1>3. ASSUME NEW t \in Syncers PROVE OwnGeneration(t)'
  <2>1. SUFFICES ASSUME sync'[t] # Idle, sync'[t].phase = "sequenced"
                 PROVE  /\ snapshot.seq # sync'[t].seq
                        /\ \A u \in Syncers : sync'[u] # Idle =>
                             /\ \A i \in 1..Len(sync'[u].payloads) :
                                  sync'[u].payloads[i].baseline.seq # sync'[t].seq
                             /\ u # t /\ sync'[u].phase = "sequenced"
                                  => sync'[u].seq # sync'[t].seq
    BY DEF OwnGeneration, Idle
  <2>2. t # s /\ sync'[t] = sync[t] /\ OwnGeneration(t)
    BY <1>1, <2>1 DEF WorkflowInv
  <2>3. snapshot.seq # sync'[t].seq
    BY <2>1, <2>2 DEF OwnGeneration
  <2>4. ASSUME NEW u \in Syncers, sync'[u] # Idle
        PROVE  /\ \A i \in 1..Len(sync'[u].payloads) :
                    sync'[u].payloads[i].baseline.seq # sync'[t].seq
               /\ u # t /\ sync'[u].phase = "sequenced" => sync'[u].seq # sync'[t].seq
    <3>1. CASE u = s
      BY <1>1, <2>1, <2>2, <2>4, <3>1, KnownBaselineSeq
    <3>2. CASE u # s
      BY <1>1, <2>1, <2>2, <2>4, <3>2 DEF OwnGeneration
    <3>3. QED
      BY <3>1, <3>2
  <2>5. QED
    BY <2>3, <2>4
<1>4. QED
  BY <1>1, <1>2, <1>3 DEF WorkflowInv, Idle

LEMMA AbortKeeps ==
  ASSUME WorkflowInv, NEW s \in Syncers, Abort(s)
  PROVE  WorkflowInv'
BY SyncMoves DEF Abort

\* An attempt before it has its generation.
Early(a) == a \in Attempts /\ a.phase # "sequenced" /\ Len(a.payloads) >= 1

LEMMA AttemptFields ==
  ASSUME NEW a \in Attempts
  PROVE  /\ a.phase \in {"listed", "verifying", "sequenced"}
         /\ a.payloads \in Seq(Payload) /\ Len(a.payloads) \in Nat
         /\ \A i \in 1..Len(a.payloads) : a.payloads[i] \in Payload
         /\ a.exact \in [Runs -> {"none", "deleted"}] /\ a.seq \in Nat
         /\ a # Idle
<1>1. a.phase # "idle"
  BY DEF Attempts
<1>2. a # Idle
  BY <1>1 DEF Idle
<1>3. QED
  BY <1>2 DEF Attempts

(* The first list of a sync.                                                *)
LEMMA FirstListKeeps ==
  ASSUME WorkflowInv, NEW s \in Syncers, sync[s] = Idle, ListWorkflowRuns(s)
  PROVE  WorkflowInv'
<1> DEFINE p == NewPayload(LiveRuns)
           a == [phase |-> "listed", payloads |-> <<p>>,
                 exact |-> [r \in Runs |-> "none"], seq |-> 0]
<1>1. sync' = [sync EXCEPT ![s] = a]
        /\ UNCHANGED <<now, github, changes, counter, snapshot, tombstones>>
  BY DEF ListWorkflowRuns, Idle
<1>2. now \in Nat /\ counter \in Nat /\ GithubSound(github, now)
  BY DEF WorkflowInv
<1>3. PayloadSound(p, github, now, counter)
  BY <1>2, LiveRunsShown, NewPayloadSound
<1>4. p \in Payload
  BY <1>3 DEF PayloadSound
<1>5. p.verified = {} /\ p.baseline = NoSnapshot /\ p.rows = LiveRuns
  BY DEF NewPayload
<1> HIDE DEF p
<1>6. /\ a \in Attempts /\ a.phase = "listed" /\ Len(a.payloads) = 1 /\ a.payloads[1] = p
      /\ \A r \in Runs : a.exact[r] = "none"
  BY <1>4 DEF Attempts
<1> HIDE DEF a
<1>7. PayloadsSound(a, github, now, counter)
  BY <1>3, <1>5, <1>6 DEF PayloadsSound, p
<1>8. SiblingsSound(a, github, snapshot) /\ LookupsSound(a, snapshot, tombstones)
  BY <1>5, <1>6 DEF SiblingsSound, LookupsSound
<1>9. AttemptSound(a, github, now, counter, snapshot, tombstones)
  BY <1>6, <1>7, <1>8 DEF AttemptSound
<1>10. \A i \in 1..Len(a.payloads) : KnownBaseline(a.payloads[i].baseline, s)
  BY <1>5, <1>6 DEF KnownBaseline
<1>11. QED
  BY <1>1, <1>6, <1>9, <1>10, SyncMoves

(* The list of the next sibling.                                            *)
LEMMA NextListKeeps ==
  ASSUME WorkflowInv, NEW s \in Syncers, sync[s] # Idle, ListWorkflowRuns(s)
  PROVE  WorkflowInv'
<1> DEFINE p == NewPayload(LiveRuns)
           old == sync[s]
           n == Len(old.payloads)
           a == [old EXCEPT !.phase = "listed", !.payloads = Append(old.payloads, p)]
<1>1. /\ AttemptSound(old, github, now, counter, snapshot, tombstones)
      /\ old \in Attempts /\ n >= 1 /\ n \in Nat
      /\ now \in Nat /\ counter \in Nat /\ GithubSound(github, now) /\ DOMAIN sync = Syncers
  BY AttemptFields DEF WorkflowInv, AttemptSound
<1>2. /\ old.phase = "verifying" /\ Observed(old.payloads[n])
      /\ UNCHANGED <<now, github, changes, counter, snapshot, tombstones>>
      /\ sync' = [sync EXCEPT ![s].phase = "listed", ![s].payloads = Append(@, p)]
  BY DEF ListWorkflowRuns, Payloads, Last
<1>3. sync' = [sync EXCEPT ![s] = a]
  BY <1>1, <1>2
<1>4. PayloadSound(p, github, now, counter)
  BY <1>1, LiveRunsShown, NewPayloadSound
<1>5. p \in Payload
  BY <1>4 DEF PayloadSound
<1>6. p.verified = {} /\ p.baseline = NoSnapshot /\ p.rows = LiveRuns
  BY DEF NewPayload
<1> HIDE DEF p, old
<1>7. /\ a \in Attempts /\ a.phase = "listed" /\ Len(a.payloads) = n + 1
      /\ a.exact = old.exact
      /\ a.payloads[n + 1] = p /\ \A i \in 1..n : a.payloads[i] = old.payloads[i]
  <2>1. old.payloads \in Seq(Payload) /\ Append(old.payloads, p) \in Seq(Payload)
    BY <1>1, <1>5, AttemptFields
  <2>2. a \in Attempts /\ a.phase = "listed" /\ a.exact = old.exact
          /\ a.payloads = Append(old.payloads, p)
    BY <1>1, <2>1 DEF Attempts
  <2>3. QED
    BY <1>1, <2>1, <2>2
<1> HIDE DEF a
<1>8. PayloadsSound(a, github, now, counter)
  <2>1. SUFFICES ASSUME NEW i \in 1..n + 1
                 PROVE  /\ PayloadSound(a.payloads[i], github, now, counter)
                        /\ i < n + 1 => Observed(a.payloads[i])
                        /\ ~(i < n + 1) => a.payloads[i] = NewPayload(a.payloads[i].rows)
    BY <1>7 DEF PayloadsSound, Compares
  <2>2. CASE i = n + 1
    BY <1>1, <1>4, <1>6, <1>7, <2>2 DEF p
  <2>3. CASE i # n + 1
    <3>1. i \in 1..n /\ a.payloads[i] = old.payloads[i]
      BY <1>1, <1>7, <2>3
    <3>2. PayloadSound(old.payloads[i], github, now, counter)
            /\ (i < n => Observed(old.payloads[i]))
      BY <1>1, <3>1 DEF AttemptSound, PayloadsSound
    <3>3. QED
      BY <1>1, <1>2, <3>1, <3>2
  <2>4. QED
    BY <2>2, <2>3
<1>9. SiblingsSound(a, github, snapshot)
  <2>1. SUFFICES ASSUME NEW i \in 1..n + 1, NEW j \in 1..n + 1, i < j,
                        a.payloads[i].fresh, a.payloads[j].fresh
                 PROVE  /\ Compares(a, j) /\ a.payloads[i].baseline = snapshot
                             => a.payloads[j].baseline = snapshot
                        /\ \A r \in Runs : a.payloads[i].rows[r] # NoRun
                                           /\ a.payloads[j].rows[r] = NoRun
                                             => github[r].state = "deleted"
    BY <1>7 DEF SiblingsSound
  <2>2. i \in 1..n /\ a.payloads[i] = old.payloads[i]
    <3>1. i \in 1..n /\ i # n + 1
      BY <1>1, <2>1
    <3>2. QED
      BY <1>7, <3>1
  <2>3. CASE j = n + 1
    <3>1. ~Compares(a, j)
      BY <1>1, <1>7, <2>3 DEF Compares
    <3>2. ASSUME NEW r \in Runs, old.payloads[i].rows[r] # NoRun, LiveRuns[r] = NoRun
          PROVE  github[r].state = "deleted"
      <4>1. PayloadSound(old.payloads[i], github, now, counter)
        BY <1>1, <2>2 DEF AttemptSound, PayloadsSound
      <4>2. github[r].state # "none"
        BY <3>2, <4>1 DEF PayloadSound, RowSound
      <4>3. github[r].state # "live"
        BY <1>1, <3>2 DEF GithubSound, LiveRuns, Live
      <4>4. QED
        BY <1>1, <4>2, <4>3 DEF GithubSound, RunStates
    <3>3. QED
      BY <1>6, <1>7, <2>2, <2>3, <3>1, <3>2
  <2>4. CASE j # n + 1
    <3>1. j \in 1..n /\ a.payloads[j] = old.payloads[j] /\ Compares(old, j)
      BY <1>1, <1>2, <1>7, <2>4 DEF Compares
    <3>2. SiblingsSound(old, github, snapshot)
      BY <1>1 DEF AttemptSound
    <3>3. QED
      BY <2>1, <2>2, <3>1, <3>2 DEF SiblingsSound
  <2>5. QED
    BY <2>3, <2>4
<1>10. LookupsSound(a, snapshot, tombstones)
  <2>1. \A i \in 1..n + 1 : i \in 1..n \/ i = n + 1
    BY <1>1
  <2>2. LookupsSound(old, snapshot, tombstones)
    BY <1>1 DEF AttemptSound
  <2>3. QED
    BY <1>6, <1>7, <2>1, <2>2 DEF LookupsSound
<1>11. \A i \in 1..Len(a.payloads) : KnownBaseline(a.payloads[i].baseline, s)
  <2>1. \A i \in 1..n + 1 : i \in 1..n \/ i = n + 1
    BY <1>1
  <2>2. QED
    BY <1>6, <1>7, <2>1 DEF KnownBaseline, old
<1>12. AttemptSound(a, github, now, counter, snapshot, tombstones)
  BY <1>1, <1>7, <1>8, <1>9, <1>10 DEF AttemptSound
<1>13. QED
  BY <1>2, <1>3, <1>7, <1>11, <1>12, SyncMoves

\* The attempt a, whose last payload is compared, or verified, as q.
WithLast(a, q) == [a EXCEPT !.phase = "verifying", !.payloads[Len(a.payloads)] = q]

LEMMA WithLastFields ==
  ASSUME NEW a \in Attempts, Len(a.payloads) >= 1, NEW q \in Payload
  PROVE  /\ WithLast(a, q) \in Attempts /\ WithLast(a, q).phase = "verifying"
         /\ WithLast(a, q).exact = a.exact
         /\ Len(WithLast(a, q).payloads) = Len(a.payloads)
         /\ WithLast(a, q).payloads[Len(a.payloads)] = q
         /\ \A i \in 1..Len(a.payloads) :
              i # Len(a.payloads) => WithLast(a, q).payloads[i] = a.payloads[i]
<1> DEFINE n == Len(a.payloads)
           new == [a.payloads EXCEPT ![n] = q]
<1>1. a.payloads \in Seq(Payload) /\ n \in 1..n
  BY AttemptFields
<1>2. /\ new \in Seq(Payload) /\ Len(new) = n /\ new[n] = q
      /\ \A i \in 1..n : i # n => new[i] = a.payloads[i]
  BY <1>1
<1>3. WithLast(a, q) = [a EXCEPT !.phase = "verifying", !.payloads = new]
  BY DEF WithLast, Attempts
<1> HIDE DEF new, n
<1>4. /\ WithLast(a, q) \in Attempts /\ WithLast(a, q).phase = "verifying"
      /\ WithLast(a, q).exact = a.exact /\ WithLast(a, q).payloads = new
  BY <1>2, <1>3 DEF Attempts
<1>5. QED
  BY <1>2, <1>4 DEF n

LEMMA LastKeeps ==
  ASSUME WorkflowInv, NEW s \in Syncers, sync[s] # Idle, sync[s].phase # "sequenced",
         NEW q, PayloadSound(q, github, now, counter),
         sync' = [sync EXCEPT ![s] = WithLast(sync[s], q)],
         UNCHANGED <<now, github, changes, counter, snapshot, tombstones>>,
         KnownBaseline(q.baseline, s),
         q.fresh =>
           /\ Last(Payloads(s)).fresh /\ q.rows = Last(Payloads(s)).rows
           /\ q.baseline = IF sync[s].phase = "listed" THEN snapshot
                           ELSE Last(Payloads(s)).baseline,
         q.fresh /\ q.baseline = snapshot =>
           \A r \in q.verified : q.rows[r] # NoRun /\ snapshot.runs[r] = NoRun
                                 => tombstones[r] = 0
  PROVE  WorkflowInv'
<1> DEFINE old == sync[s]
           n == Len(old.payloads)
           p == old.payloads[n]
           a == WithLast(old, q)
<1>1. /\ AttemptSound(old, github, now, counter, snapshot, tombstones)
      /\ old \in Attempts /\ n >= 1 /\ n \in Nat /\ n \in 1..n
      /\ old.phase \in {"listed", "verifying"}
  BY AttemptFields DEF WorkflowInv, AttemptSound
<1>2. Last(Payloads(s)) = p
  BY DEF Last, Payloads
<1>3. q \in Payload
  BY DEF PayloadSound
<1> HIDE DEF p
<1>4. /\ a \in Attempts /\ a.phase = "verifying" /\ a.exact = old.exact
      /\ Len(a.payloads) = n /\ a.payloads[n] = q
      /\ \A i \in 1..n : i # n => a.payloads[i] = old.payloads[i]
  BY <1>1, <1>3, WithLastFields
<1> HIDE DEF a
<1>5. PayloadsSound(a, github, now, counter)
  <2>1. PayloadsSound(old, github, now, counter)
    BY <1>1 DEF AttemptSound
  <2>2. QED
    BY <1>1, <1>4, <2>1 DEF PayloadsSound, Compares
<1>6. SiblingsSound(a, github, snapshot)
  <2>1. SUFFICES ASSUME NEW i \in 1..n, NEW j \in 1..n, i < j,
                        a.payloads[i].fresh, a.payloads[j].fresh
                 PROVE  /\ a.payloads[i].baseline = snapshot
                             => a.payloads[j].baseline = snapshot
                        /\ \A r \in Runs : a.payloads[i].rows[r] # NoRun
                                           /\ a.payloads[j].rows[r] = NoRun
                                             => github[r].state = "deleted"
    BY <1>4 DEF SiblingsSound
  <2>2. i # n /\ i < n /\ a.payloads[i] = old.payloads[i] /\ SiblingsSound(old, github, snapshot)
    BY <1>1, <1>4, <2>1 DEF AttemptSound
  <2>3. CASE j = n
    <3>1. q.fresh /\ p.fresh /\ q.rows = p.rows
            /\ q.baseline = (IF old.phase = "listed" THEN snapshot ELSE p.baseline)
      BY <1>2, <1>4, <2>1, <2>3
    <3>2. /\ old.phase = "verifying" /\ old.payloads[i].baseline = snapshot
                => p.baseline = snapshot
          /\ \A r \in Runs : old.payloads[i].rows[r] # NoRun /\ p.rows[r] = NoRun
                                => github[r].state = "deleted"
      BY <1>1, <2>1, <2>2, <2>3, <3>1 DEF SiblingsSound, Compares, p
    <3>3. a.payloads[j] = q
      BY <1>4, <2>1, <2>3, <3>1
    <3>4. a.payloads[i] = old.payloads[i]
      BY <2>2
    <3>5. \A r \in Runs : a.payloads[j].rows[r] = p.rows[r]
      BY <3>1, <3>3
    <3>6. ASSUME a.payloads[i].baseline = snapshot PROVE a.payloads[j].baseline = snapshot
      BY <1>1, <3>1, <3>2, <3>3, <3>4, <3>6
    <3>7. QED
      BY <3>2, <3>4, <3>5, <3>6
  <2>4. CASE j # n
    <3>1. j < n /\ a.payloads[j] = old.payloads[j]
      BY <1>1, <1>4, <2>4
    <3>2. QED
      BY <2>1, <2>2, <3>1 DEF SiblingsSound, Compares
  <2>5. QED
    BY <2>3, <2>4
<1>7. LookupsSound(a, snapshot, tombstones)
  <2>1. LookupsSound(old, snapshot, tombstones)
    BY <1>1 DEF AttemptSound
  <2>2. SUFFICES ASSUME NEW i \in 1..n, a.payloads[i].fresh, a.payloads[i].baseline = snapshot,
                        NEW r \in a.payloads[i].verified,
                        a.payloads[i].rows[r] # NoRun, snapshot.runs[r] = NoRun
                 PROVE  tombstones[r] = 0
    BY <1>4 DEF LookupsSound
  <2>3. CASE i = n
    BY <1>4, <2>2, <2>3
  <2>4. CASE i # n
    <3>1. a.payloads[i] = old.payloads[i]
      BY <1>4, <2>4
    <3>2. QED
      BY <2>1, <2>2, <3>1 DEF LookupsSound
  <2>5. QED
    BY <2>3, <2>4
<1>8. \A i \in 1..Len(a.payloads) : KnownBaseline(a.payloads[i].baseline, s)
  BY <1>4 DEF KnownBaseline
<1>9. AttemptSound(a, github, now, counter, snapshot, tombstones)
  BY <1>1, <1>4, <1>5, <1>6, <1>7 DEF AttemptSound
<1>10. sync' = [sync EXCEPT ![s] = a]
  BY DEF a
<1>11. QED
  BY ZenonT(60), <1>4, <1>8, <1>9, <1>10, SyncMoves

LEMMA CoversTransitive ==
  ASSUME NEW c, NEW d, NEW n \in Nat, Clock(c, n), Clock(d, n),
         c # Blank => Covers(d, c), NEW at \in Nat, Covers(c, at)
  PROVE  Covers(d, at)
BY DEF Clock, Covers

(* The stored snapshot becomes the baseline of the last list.               *)
LEMMA ReadBaselineKeeps ==
  ASSUME WorkflowInv, NEW s \in Syncers, ReadBaseline(s)
  PROVE  WorkflowInv'
<1> DEFINE old == sync[s]
           n == Len(old.payloads)
           p == old.payloads[n]
           q == [p EXCEPT !.baseline = snapshot, !.source = SnapshotSource(p, snapshot),
                          !.fresh = Regressed(p.rows, snapshot) = {}]
<1>1. /\ old.phase = "listed"
      /\ UNCHANGED <<now, github, changes, counter, snapshot, tombstones>>
      /\ sync' = [sync EXCEPT ![s].phase = "verifying", ![s].payloads[n] = Settled(q)]
  BY DEF ReadBaseline, Payloads, Last, Count
<1>2. old # Idle
  BY <1>1 DEF Idle
<1>3. /\ AttemptSound(old, github, now, counter, snapshot, tombstones)
      /\ old \in Attempts /\ n >= 1 /\ n \in Nat /\ n \in 1..n
      /\ now \in Nat /\ counter \in Nat /\ DOMAIN sync = Syncers
      /\ SnapshotSound(snapshot, github, now, counter)
  BY <1>2, AttemptFields DEF WorkflowInv, AttemptSound
<1>4. sync' = [sync EXCEPT ![s] = WithLast(old, Settled(q))]
  BY <1>1, <1>3 DEF WithLast
<1>5. PayloadSound(p, github, now, counter) /\ p = NewPayload(p.rows)
  BY <1>1, <1>3 DEF AttemptSound, PayloadsSound, Compares
<1>6. /\ p \in Payload /\ p.fresh /\ p.verified = {} /\ p.deleted = {}
      /\ snapshot \in Snapshot /\ Clock(snapshot.source, now) /\ Clock(p.source, now)
  <2> HIDE DEF p
  <2>1. p \in Payload /\ Clock(p.source, now)
    BY <1>5 DEF PayloadSound
  <2>2. p.fresh /\ p.verified = {} /\ p.deleted = {}
    BY <1>5 DEF NewPayload
  <2>3. snapshot \in Snapshot /\ Clock(snapshot.source, now)
    BY <1>3 DEF SnapshotSound
  <2>4. QED
    BY <2>1, <2>2, <2>3
<1> HIDE DEF p
<1>7. /\ q.rows = p.rows /\ q.baseline = snapshot /\ q.source = SnapshotSource(p, snapshot)
      /\ q.fresh = (Regressed(p.rows, snapshot) = {})
      /\ q.deleted = p.deleted /\ q.verified = p.verified
      /\ SnapshotSource(p, snapshot) \in Source => q \in Payload
  BY <1>6 DEF Payload
<1> HIDE DEF q
<1>8. /\ Clock(q.source, now)
      /\ snapshot.source # Blank => Covers(q.source, snapshot.source)
      /\ p.source # Blank => Covers(q.source, p.source)
  <2>1. CASE snapshot.found
    <3>1. IsLatest(LatestSource({p.source, snapshot.source}), {p.source, snapshot.source}, now)
      BY <1>3, <1>6, LatestSourceIsLatest
    <3>2. QED
      BY <1>7, <2>1, <3>1 DEF SnapshotSource, IsLatest
  <2>2. CASE ~snapshot.found
    <3>1. snapshot.source = Blank
      BY <1>3, <2>2 DEF SnapshotSound, NoSnapshot
    <3>2. QED
      BY <1>6, <1>7, <2>2, <3>1 DEF SnapshotSource, Clock, Covers
  <2>3. QED
    BY <2>1, <2>2
<1>9. CASE q.fresh
  <2>1. Settled(q) = q
    BY <1>9 DEF Settled
  <2>2. q \in Payload
    BY <1>7, <1>8 DEF Clock, Source
  <2>3. ASSUME NEW r \in Runs
        PROVE  /\ RowSound(q.rows[r], r, q.source, github, now)
               /\ snapshot.runs[r] # NoRun /\ q.rows[r] # NoRun
                    => snapshot.runs[r].at <= q.rows[r].at
    <3>1. RowSound(p.rows[r], r, p.source, github, now) /\ p.rows[r].at \in Nat
            /\ snapshot.runs[r].at \in Nat
      BY <1>5, <1>6 DEF PayloadSound, Payload, Run, Snapshot
    <3>2. p.rows[r] # NoRun => Covers(q.source, p.rows[r].at)
      BY <1>3, <1>6, <1>8, <3>1, CoversTransitive DEF RowSound, Covers
    <3>3. Regressed(p.rows, snapshot) = {}
      BY <1>7, <1>9
    <3>4. snapshot.runs[r] # NoRun /\ p.rows[r] # NoRun
            => ~Before(p.rows[r].at, snapshot.runs[r].at)
      BY <3>3 DEF Regressed, Present
    <3>5. QED
      BY <1>7, <3>1, <3>2, <3>4, BlankIsNoNumber DEF RowSound, Before
  <2>4. Behind(q, github) /\ Compared(q)
    BY <1>5, <1>6, <1>7, <2>3 DEF PayloadSound, Behind, Compared
  <2>5. PayloadSound(q, github, now, counter)
    BY <1>3, <1>5, <1>6, <1>7, <1>8, <2>2, <2>3, <2>4 DEF PayloadSound
  <2>6. KnownBaseline(q.baseline, s)
    BY <1>7 DEF KnownBaseline
  <2>7. Last(Payloads(s)) = p
    BY DEF Last, Payloads, p
  <2>8. QED
    BY <1>1, <1>2, <1>4, <1>6, <1>7, <2>1, <2>5, <2>6, <2>7, LastKeeps
<1>10. CASE ~q.fresh
  <2>1. PayloadSound(Settled(q), github, now, counter) /\ ~Settled(q).fresh
    BY <1>3, <1>10, StalePayloadSound
  <2>2. Settled(q).baseline = NoSnapshot
    BY <1>10 DEF Settled, NewPayload
  <2>3. KnownBaseline(Settled(q).baseline, s)
    BY <2>2 DEF KnownBaseline
  <2>4. QED
    BY <1>1, <1>2, <1>4, <2>1, <2>3, LastKeeps
<1>11. QED
  BY <1>9, <1>10

(* One missing or reappearing run of the last list is looked up.            *)
LEMMA LookUpRunKeeps ==
  ASSUME WorkflowInv, NEW s \in Syncers, NEW r \in Runs, LookUpRun(s, r)
  PROVE  WorkflowInv'
<1> DEFINE old == sync[s]
           n == Len(old.payloads)
           p == old.payloads[n]
           missing == r \in Missing(p.rows, p.baseline)
           fresh == IF missing THEN ~Live(r)
                    ELSE Live(r) /\ ~Before(p.rows[r].at, github[r].run.at)
           deletion == missing /\ fresh
           source == IF deletion THEN LatestSource({p.source, p.baseline.runs[r].at})
                     ELSE p.source
           deleted == IF deletion THEN p.deleted \cup {r} ELSE p.deleted
           q == [p EXCEPT !.fresh = fresh, !.verified = @ \cup {r},
                          !.deleted = deleted, !.source = source]
<1>1. /\ old.phase = "verifying" /\ p.fresh /\ r \in PendingLookups(p)
      /\ UNCHANGED <<now, github, changes, counter, snapshot, tombstones>>
      /\ sync' = [sync EXCEPT ![s].payloads[n] = Settled(q)]
  BY DEF LookUpRun, Payloads, Last, Count
<1>2. old # Idle
  <2>1. sync[s].phase = "verifying"
    BY <1>1
  <2>2. QED
    BY <2>1 DEF Idle
<1>3. /\ AttemptSound(old, github, now, counter, snapshot, tombstones)
      /\ old \in Attempts /\ n >= 1 /\ n \in Nat /\ n \in 1..n
      /\ now \in Nat /\ counter \in Nat /\ DOMAIN sync = Syncers
      /\ GithubSound(github, now) /\ TombstonesSound(tombstones, snapshot, github)
  BY <1>2, AttemptFields DEF WorkflowInv, AttemptSound
<1>4. sync' = [sync EXCEPT ![s] = WithLast(old, Settled(q))]
  <2>1. [old EXCEPT !.payloads[n] = Settled(q)] = WithLast(old, Settled(q))
    BY <1>1, <1>3 DEF WithLast, Attempts
  <2>2. sync' = [sync EXCEPT ![s] = [old EXCEPT !.payloads[n] = Settled(q)]]
    BY <1>1, <1>3
  <2>3. QED
    BY <2>1, <2>2
<1>5. PayloadSound(p, github, now, counter) /\ p \in Payload
  BY <1>3 DEF AttemptSound, PayloadsSound, PayloadSound
<1>6. Last(Payloads(s)) = p /\ KnownBaseline(p.baseline, s)
  BY <1>2, <1>3 DEF Last, Payloads, KnownBaseline
<1>7. LookupsSound(old, snapshot, tombstones)
  BY <1>3 DEF AttemptSound
<1>8. p.fresh /\ p.baseline = snapshot =>
        \A u \in p.verified : p.rows[u] # NoRun /\ snapshot.runs[u] = NoRun => tombstones[u] = 0
  BY <1>3, <1>7 DEF LookupsSound
<1> HIDE DEF p
<1>9. /\ p.rows \in [Runs -> Run] /\ p.baseline \in Snapshot /\ p.deleted \subseteq Runs
      /\ p.verified \subseteq Runs /\ p.source \in Source /\ Clock(p.source, now)
      /\ SnapshotSound(p.baseline, github, now, counter) /\ Compared(p)
  BY <1>1, <1>5 DEF PayloadSound, Payload
<1>10. missing => p.baseline.runs[r] # NoRun /\ p.rows[r] = NoRun
  BY DEF Missing, Present
<1>11. ~missing => p.rows[r] # NoRun
  BY <1>1 DEF PendingLookups, Reappearing, Missing, Present
<1>12. deletion => github[r].state = "deleted"
  <2>1. SUFFICES ASSUME deletion PROVE github[r].state = "deleted"
    OBVIOUS
  <2>2. github[r].state # "none"
    BY <1>9, <1>10, <2>1 DEF SnapshotSound, RowSound
  <2>3. github[r].state # "live"
    BY <2>1 DEF Live
  <2>4. QED
    BY <1>3, <2>2, <2>3 DEF GithubSound, RunStates
<1> HIDE DEF missing
<1>13. Clock(source, now) /\ (p.source # Blank => Covers(source, p.source))
  <2>1. CASE deletion
    <3> DEFINE clocks == {p.source, p.baseline.runs[r].at}
    <3>1. RowSound(p.baseline.runs[r], r, p.baseline.source, github, now)
            /\ p.baseline.runs[r].at \in Nat
      BY <1>9 DEF SnapshotSound, Snapshot, Run
    <3>2. Clock(p.baseline.runs[r].at, now)
      BY <1>10, <2>1, <3>1 DEF RowSound, Clock
    <3>3. \A c \in clocks : Clock(c, now)
      BY <1>9, <3>2
    <3>4. IsLatest(LatestSource(clocks), clocks, now)
      BY <1>3, <3>3, LatestSourceIsLatest
    <3>5. QED
      BY <2>1, <3>4 DEF IsLatest
  <2>2. CASE ~deletion
    BY <1>9, <2>2 DEF Clock, Covers
  <2>3. QED
    BY <2>1, <2>2
<1>14. /\ source \in Source /\ deleted \subseteq Runs
       /\ \A u \in deleted : github[u].state = "deleted"
       /\ p.deleted \subseteq deleted /\ (deletion => r \in deleted)
  BY <1>5, <1>9, <1>12, <1>13 DEF PayloadSound, Clock, Source
<1>15. fresh \in BOOLEAN
  OBVIOUS
<1> HIDE DEF source, deleted
<1>16. /\ q \in Payload
       /\ q.rows = p.rows /\ q.baseline = p.baseline /\ q.source = source
       /\ q.fresh = fresh /\ q.deleted = deleted /\ q.verified = p.verified \cup {r}
  BY <1>5, <1>14, <1>15 DEF Payload
<1> HIDE DEF q
<1>17. CASE q.fresh
  <2>1. Settled(q) = q
    BY <1>17 DEF Settled
  <2>2. ASSUME NEW u \in Runs PROVE RowSound(q.rows[u], u, q.source, github, now)
    <3>1. RowSound(p.rows[u], u, p.source, github, now) /\ p.rows[u].at \in Nat
      BY <1>5, <1>9 DEF PayloadSound, Run
    <3>2. p.rows[u] # NoRun => Covers(source, p.rows[u].at)
      BY <1>3, <1>9, <1>13, <3>1, CoversTransitive DEF RowSound, Covers
    <3>3. QED
      BY <1>16, <3>1, <3>2 DEF RowSound
  <2>3. p.baseline.source # Blank => Covers(q.source, p.baseline.source)
    <3>1. SUFFICES ASSUME p.baseline.source # Blank
                   PROVE  Covers(source, p.baseline.source)
      BY <1>16
    <3>2. Covers(p.source, p.baseline.source) /\ p.source # Blank
      BY <1>5, <3>1 DEF PayloadSound, Covers
    <3>3. p.baseline.source \in Nat
      BY <1>9, <3>1 DEF SnapshotSound, Clock
    <3>4. QED
      BY <1>3, <1>9, <1>13, <3>2, <3>3, CoversTransitive
  <2>4. Behind(q, github)
    BY <1>5, <1>16 DEF PayloadSound, Behind
  <2>5. Compared(q)
    <3>1. SUFFICES ASSUME NEW u \in Runs, p.baseline.runs[u] # NoRun
                   PROVE  IF p.rows[u] # NoRun
                          THEN p.baseline.runs[u].at <= p.rows[u].at
                          ELSE u \in p.verified \cup {r} => u \in deleted
      BY <1>16 DEF Compared
    <3>2. CASE u = r /\ p.rows[u] = NoRun
      BY <1>11, <1>14, <1>16, <1>17, <3>2
    <3>3. CASE ~(u = r /\ p.rows[u] = NoRun)
      BY <1>9, <1>14, <3>1, <3>3 DEF Compared
    <3>4. QED
      BY <3>2, <3>3
  <2>6. PayloadSound(q, github, now, counter)
    BY <1>9, <1>13, <1>14, <1>16, <2>2, <2>3, <2>4, <2>5 DEF PayloadSound
  <2>7. q.baseline = snapshot =>
          \A u \in q.verified : q.rows[u] # NoRun /\ snapshot.runs[u] = NoRun
                                => tombstones[u] = 0
    <3>1. SUFFICES ASSUME p.baseline = snapshot, NEW u \in p.verified \cup {r},
                          p.rows[u] # NoRun, snapshot.runs[u] = NoRun
                   PROVE  tombstones[u] = 0
      BY <1>16
    <3>2. CASE u = r
      <4>1. ~missing /\ Live(r)
        BY <1>10, <1>16, <1>17, <3>1, <3>2
      <4>2. QED
        BY <1>3, <3>2, <4>1 DEF TombstonesSound, Live
    <3>3. CASE u # r
      BY <1>1, <1>8, <3>1, <3>3
    <3>4. QED
      BY <3>2, <3>3
  <2>8. KnownBaseline(q.baseline, s)
    BY <1>6, <1>16
  <2>9. old.phase # "sequenced" /\ old.phase # "listed"
    BY <1>1
  <2>10. QED
    BY <1>1, <1>2, <1>4, <1>6, <1>16, <2>1, <2>6, <2>7, <2>8, <2>9, LastKeeps
<1>18. CASE ~q.fresh
  <2>1. PayloadSound(Settled(q), github, now, counter) /\ ~Settled(q).fresh
    BY <1>3, <1>18, StalePayloadSound
  <2>2. Settled(q).baseline = NoSnapshot
    BY <1>18 DEF Settled, NewPayload
  <2>3. KnownBaseline(Settled(q).baseline, s)
    BY <2>2 DEF KnownBaseline
  <2>4. QED
    BY <1>1, <1>2, <1>4, <2>1, <2>3, LastKeeps
<1>19. QED
  BY <1>17, <1>18

(* A run that one sibling listed and a later one did not is deleted.        *)
LEMMA LaterAbsentDeleted ==
  ASSUME WorkflowInv, NEW s \in Syncers, sync[s] # Idle,
         NEW i \in 1..Count(s), NEW r \in LaterAbsent(s, i), Payloads(s)[i].fresh
  PROVE  github[r].state = "deleted" /\ r \in Runs
<1>1. AttemptSound(sync[s], github, now, counter, snapshot, tombstones)
  BY DEF WorkflowInv
<1>2. PICK j \in Group(s, i), k \in Group(s, i) :
        j < k /\ r \in Present(Payloads(s)[j].rows) \ Present(Payloads(s)[k].rows)
  BY DEF LaterAbsent
<1>3. r \in Runs /\ Payloads(s)[j].rows[r] # NoRun /\ Payloads(s)[k].rows[r] = NoRun
  BY <1>2 DEF LaterAbsent, Present
<1>4. /\ j \in 1..Len(sync[s].payloads) /\ k \in 1..Len(sync[s].payloads)
      /\ Payloads(s)[j].fresh /\ Payloads(s)[k].fresh
  BY <1>2 DEF Group, Count
<1>5. SiblingsSound(sync[s], github, snapshot)
  BY <1>1 DEF AttemptSound
<1>6. QED
  BY <1>2, <1>3, <1>4, <1>5 DEF SiblingsSound, Payloads

LEMMA LookUpSiblingRunKeeps ==
  ASSUME WorkflowInv, NEW s \in Syncers, NEW r \in Runs, LookUpSiblingRun(s, r)
  PROVE  WorkflowInv'
<1> DEFINE old == sync[s]
           a == [old EXCEPT !.exact = [@ EXCEPT ![r] = "deleted"]]
<1>1. /\ AllObserved(s) /\ r \in ToLookUp(s)
      /\ UNCHANGED <<now, github, changes, counter, snapshot, tombstones>>
      /\ sync' = [sync EXCEPT ![s].exact[r] = IF Live(r) THEN github[r].run ELSE "deleted"]
  BY DEF LookUpSiblingRun
<1>2. old # Idle /\ old.phase = "verifying"
  BY <1>1 DEF Idle, AllObserved
<1>3. /\ AttemptSound(old, github, now, counter, snapshot, tombstones)
      /\ old \in Attempts /\ DOMAIN sync = Syncers
  BY <1>2 DEF WorkflowInv, AttemptSound
<1>4. github[r].state = "deleted"
  <2>1. PICK i \in {j \in 1..Count(s) : Payloads(s)[j].fresh} : r \in LaterAbsent(s, i)
    BY <1>1 DEF ToLookUp
  <2>2. QED
    BY <1>2, <2>1, LaterAbsentDeleted
<1>5. sync' = [sync EXCEPT ![s] = a]
  <2>1. ~Live(r)
    BY <1>4 DEF Live
  <2>2. QED
    BY <1>1, <1>3, <2>1
<1>6. /\ a \in Attempts /\ a.phase = old.phase /\ a.payloads = old.payloads
      /\ \A u \in Runs : a.exact[u] = IF u = r THEN "deleted" ELSE old.exact[u]
  BY <1>3 DEF Attempts
<1> HIDE DEF a
<1>7. /\ PayloadsSound(a, github, now, counter)
      /\ SiblingsSound(a, github, snapshot) /\ LookupsSound(a, snapshot, tombstones)
  BY <1>3, <1>6 DEF AttemptSound, PayloadsSound, SiblingsSound, LookupsSound, Compares
<1>8. AttemptSound(a, github, now, counter, snapshot, tombstones)
  BY <1>2, <1>3, <1>4, <1>6, <1>7 DEF AttemptSound
<1>9. \A i \in 1..Len(a.payloads) : KnownBaseline(a.payloads[i].baseline, s)
  BY <1>2, <1>6 DEF KnownBaseline
<1>10. QED
  BY <1>1, <1>2, <1>5, <1>6, <1>8, <1>9, SyncMoves

-----------------------------------------------------------------------------
(* The generation of a sync                                                 *)

LEMMA ReadyToSequence ==
  ASSUME WorkflowInv, NEW s \in Syncers, sync[s] # Idle, ToLookUp(s) = {}, ~SiblingsConflict(s)
  PROVE  Consolidated(sync[s])
<1> DEFINE old == sync[s]
           n == Len(old.payloads)
<1>1. AttemptSound(old, github, now, counter, snapshot, tombstones) /\ old \in Attempts
  BY DEF WorkflowInv, AttemptSound
<1>2. SUFFICES ASSUME NEW i \in 1..n, NEW j \in 1..n, NEW r \in Runs,
                      old.payloads[i].fresh, old.payloads[j].fresh,
                      old.payloads[i].baseline = old.payloads[j].baseline,
                      old.payloads[i].rows[r] # NoRun
               PROVE  /\ old.payloads[j].rows[r] # NoRun
                           /\ old.payloads[i].rows[r].at = old.payloads[j].rows[r].at
                           => old.payloads[i].rows[r] = old.payloads[j].rows[r]
                      /\ i < j /\ old.payloads[j].rows[r] = NoRun =>
                           \/ old.exact[r] = "deleted"
                           \/ \E k \in 1..n :
                                /\ old.payloads[k].fresh
                                /\ old.payloads[k].baseline = old.payloads[i].baseline
                                /\ r \in old.payloads[k].deleted
  BY SMTT(30) DEF Consolidated
<1>3. i \in Group(s, i) /\ j \in Group(s, i)
  BY <1>2 DEF Group, Count, Payloads
<1>4. ASSUME old.payloads[j].rows[r] # NoRun,
             old.payloads[i].rows[r].at = old.payloads[j].rows[r].at
      PROVE  old.payloads[i].rows[r] = old.payloads[j].rows[r]
  <2>1. old.payloads[i].rows[r] \in GroupRows(s, i, r)
          /\ old.payloads[j].rows[r] \in GroupRows(s, i, r)
    BY <1>2, <1>3, <1>4 DEF GroupRows, Payloads
  <2>2. QED
    BY <1>2, <1>4, <2>1 DEF SiblingsConflict, Payloads, Count
<1>5. ASSUME i < j, old.payloads[j].rows[r] = NoRun, old.exact[r] # "deleted"
      PROVE  \E k \in 1..n : /\ old.payloads[k].fresh
                             /\ old.payloads[k].baseline = old.payloads[i].baseline
                             /\ r \in old.payloads[k].deleted
  <2>1. r \in LaterAbsent(s, i)
    BY <1>2, <1>3, <1>5 DEF LaterAbsent, Payloads, Present
  <2>2. old.exact[r] = "none"
    BY <1>1, <1>5, AttemptFields
  <2>3. r \in GroupDeleted(s, i)
    BY <1>2, <2>1, <2>2 DEF ToLookUp, Payloads, Count
  <2>4. QED
    BY <2>3 DEF GroupDeleted, Group, Payloads, Count
<1>6. QED
  BY <1>4, <1>5

LEMMA SequenceKeeps ==
  ASSUME WorkflowInv, NEW s \in Syncers, Sequence(s)
  PROVE  WorkflowInv'
<1> DEFINE old == sync[s]
           n == Len(old.payloads)
           a == [old EXCEPT !.phase = "sequenced", !.seq = counter + 1]
<1>1. /\ AllObserved(s) /\ ToLookUp(s) = {} /\ ~SiblingsConflict(s) /\ counter' = counter + 1
      /\ UNCHANGED <<now, github, changes, snapshot, tombstones>>
      /\ sync' = [sync EXCEPT ![s].phase = "sequenced", ![s].seq = counter + 1]
  BY DEF Sequence
<1>2. /\ old # Idle /\ old.phase = "verifying" /\ Observed(old.payloads[n])
  BY <1>1 DEF Idle, AllObserved, Last, Payloads
<1>3. /\ AttemptSound(old, github, now, counter, snapshot, tombstones)
      /\ old \in Attempts /\ n >= 1 /\ n \in Nat
      /\ now \in Nat /\ counter \in Nat /\ DOMAIN sync = Syncers /\ GithubSound(github, now)
      /\ SnapshotSound(snapshot, github, now, counter) /\ snapshot.seq \in Nat
  BY <1>2, AttemptFields DEF WorkflowInv, AttemptSound, SnapshotSound, Snapshot
<1>4. Consolidated(old)
  BY <1>1, <1>2, ReadyToSequence
<1>5. sync' = [sync EXCEPT ![s] = a]
  BY <1>1, <1>3
<1>6. /\ a \in Attempts /\ a.phase = "sequenced" /\ a.payloads = old.payloads
      /\ a.exact = old.exact /\ a.seq = counter + 1
  <2> HIDE DEF old
  <2>1. counter + 1 \in Nat
    BY <1>3
  <2>2. QED
    BY <1>3, <2>1 DEF Attempts
<1> HIDE DEF a
<1>7. Grows(github, now, counter, github', now', counter')
  BY <1>1, <1>3 DEF Grows, GithubSound, Run
<1>8. /\ PayloadsSound(a, github, now, counter)
      /\ SiblingsSound(a, github, snapshot) /\ LookupsSound(a, snapshot, tombstones)
      /\ \A r \in Runs : a.exact[r] = "deleted" => github[r].state = "deleted"
  <2>1. PayloadsSound(a, github, now, counter)
    <3>1. \A i \in 1..n : ~(i < n) => i = n
      BY <1>3
    <3>2. QED
      BY <1>2, <1>3, <1>6, <3>1 DEF AttemptSound, PayloadsSound, Compares
  <2>2. QED
    BY <1>2, <1>3, <1>6, <2>1 DEF AttemptSound, SiblingsSound, LookupsSound, Compares
<1>9. \A i \in 1..n : old.payloads[i].baseline.seq \in Nat
                        /\ old.payloads[i].baseline.seq <= counter
  BY <1>3 DEF AttemptSound, PayloadsSound, PayloadSound, SnapshotSound, Snapshot
<1>10. Sequenced(a, counter')
  <2> HIDE DEF old, n
  <2>1. a.seq \in 1..counter' /\ counter < a.seq
    BY <1>1, <1>3, <1>6
  <2>2. \A i \in 1..Len(a.payloads) : a.payloads[i].baseline.seq < a.seq
    <3>1. ASSUME NEW i \in 1..n PROVE old.payloads[i].baseline.seq < a.seq
      BY <1>3, <1>9, <2>1, <1>6
    <3>2. Len(a.payloads) = n
      BY <1>6 DEF n
    <3>3. QED
      BY <1>6, <3>1, <3>2
  <2>3. Consolidated(a)
    BY <1>4, <1>6 DEF Consolidated
  <2>4. QED
    BY <2>1, <2>2, <2>3 DEF Sequenced
<1>11. PayloadsSound(a, github', now', counter')
  BY <1>7, <1>8, PayloadGrows DEF PayloadsSound
<1>12. AttemptSound(a, github', now', counter', snapshot', tombstones')
  BY <1>1, <1>3, <1>6, <1>8, <1>10, <1>11 DEF AttemptSound
<1>13. DOMAIN sync' = Syncers /\ sync'[s] = a /\ \A t \in Syncers \ {s} : sync'[t] = sync[t]
  BY <1>3, <1>5
<1>14. \A t \in Syncers : sync'[t] # Idle =>
         AttemptSound(sync'[t], github', now', counter', snapshot', tombstones')
  <2>1. SUFFICES ASSUME NEW t \in Syncers \ {s}, sync[t] # Idle
                 PROVE  AttemptSound(sync[t], github', now', counter', snapshot', tombstones')
    BY <1>12, <1>13
  <2>2. AttemptSound(sync[t], github, now, counter, snapshot, tombstones)
    BY <2>1 DEF WorkflowInv
  <2>3. AttemptSound(sync[t], github', now', counter', snapshot, tombstones)
    BY <1>7, <2>2, AttemptGrows
  <2>4. QED
    BY <1>1, <2>3
<1>15. ASSUME NEW t \in Syncers, sync[t] # Idle
       PROVE  /\ \A i \in 1..Len(sync[t].payloads) :
                   /\ sync[t].payloads[i].baseline.seq \in Nat
                   /\ sync[t].payloads[i].baseline.seq <= counter
              /\ sync[t].phase = "sequenced" => sync[t].seq \in 1..counter
  BY <1>15 DEF WorkflowInv, AttemptSound, PayloadsSound, PayloadSound, SnapshotSound, Snapshot,
     Sequenced
<1>16. ASSUME NEW t \in Syncers PROVE OwnGeneration(t)'
  <2>1. SUFFICES ASSUME sync'[t] # Idle, sync'[t].phase = "sequenced"
                 PROVE  /\ snapshot.seq # sync'[t].seq
                        /\ \A u \in Syncers : sync'[u] # Idle =>
                             /\ \A i \in 1..Len(sync'[u].payloads) :
                                  sync'[u].payloads[i].baseline.seq # sync'[t].seq
                             /\ u # t /\ sync'[u].phase = "sequenced"
                                  => sync'[u].seq # sync'[t].seq
    BY <1>1 DEF OwnGeneration, Idle
  <2>2. CASE t = s
    <3>1. sync'[t].seq = counter + 1
      BY <1>6, <1>13, <2>2
    <3>2. snapshot.seq <= counter
      BY <1>3 DEF SnapshotSound
    <3>3. \A u \in Syncers \ {s} : sync'[u] # Idle =>
             /\ \A i \in 1..Len(sync'[u].payloads) :
                  sync'[u].payloads[i].baseline.seq # counter + 1
             /\ sync'[u].phase = "sequenced" => sync'[u].seq # counter + 1
      BY <1>3, <1>13, <1>15
    <3>4. \A i \in 1..Len(sync'[s].payloads) :
             sync'[s].payloads[i].baseline.seq # counter + 1
      BY <1>3, <1>6, <1>9, <1>13
    <3>5. QED
      BY <1>3, <2>2, <3>1, <3>2, <3>3, <3>4
  <2>3. CASE t # s
    <3>1. sync'[t] = sync[t] /\ OwnGeneration(t) /\ sync[t].seq \in 1..counter
      BY <1>13, <1>15, <2>1, <2>3 DEF WorkflowInv
    <3>2. \A i \in 1..n : old.payloads[i].baseline.seq # sync[t].seq
      BY <1>2, <2>1, <3>1 DEF OwnGeneration
    <3>3. snapshot.seq # sync[t].seq
      BY <2>1, <3>1 DEF OwnGeneration
    <3>4. ASSUME NEW u \in Syncers, sync'[u] # Idle
          PROVE  /\ \A i \in 1..Len(sync'[u].payloads) :
                      sync'[u].payloads[i].baseline.seq # sync[t].seq
                 /\ u # t /\ sync'[u].phase = "sequenced" => sync'[u].seq # sync[t].seq
      <4>1. CASE u = s
        BY <1>3, <1>6, <1>13, <3>1, <3>2, <4>1
      <4>2. CASE u # s
        BY <1>13, <2>1, <3>1, <3>4, <4>2 DEF OwnGeneration
      <4>3. QED
        BY <4>1, <4>2
    <3>5. QED
      BY <3>1, <3>3, <3>4
  <2>4. QED
    BY <2>2, <2>3
<1>17. SnapshotSound(snapshot', github', now', counter')
  BY <1>1, <1>3, <1>7, SnapshotGrows
<1>18. QED
  BY <1>1, <1>3, <1>13, <1>14, <1>16, <1>17 DEF WorkflowInv, Idle

-----------------------------------------------------------------------------
(* What a sync brings to the transaction                                    *)

\* The payloads that compared with the stored snapshot.
CurrentGroup(s) ==
  {i \in 1..Count(s) : Payloads(s)[i].fresh /\ Payloads(s)[i].baseline = snapshot}

LEMMA GroupOfCurrent ==
  ASSUME NEW s \in Syncers, NEW i \in CurrentGroup(s)
  PROVE  Group(s, i) = CurrentGroup(s)
BY DEF Group, CurrentGroup

LEMMA OneIncoming ==
  ASSUME NEW s \in Syncers, NEW i \in CurrentGroup(s), NEW j \in CurrentGroup(s)
  PROVE  Incoming(s, i) = Incoming(s, j)
<1>1. Group(s, i) = Group(s, j)
  BY GroupOfCurrent
<1>2. LaterAbsent(s, i) = LaterAbsent(s, j) /\ GroupDeleted(s, i) = GroupDeleted(s, j)
        /\ \A r : GroupRows(s, i, r) = GroupRows(s, j, r)
  BY <1>1 DEF LaterAbsent, GroupDeleted, GroupRows
<1>3. \A r : Exact(s, i, r) = Exact(s, j, r)
  BY <1>2 DEF Exact
<1>4. ConsolidatedRows(s, i) = ConsolidatedRows(s, j)
  BY <1>2, <1>3 DEF ConsolidatedRows
<1>5. ConsolidatedSource(s, i) = ConsolidatedSource(s, j)
  BY <1>1, <1>3 DEF ConsolidatedSource
<1>6. QED
  BY <1>4, <1>5 DEF Incoming

\* The syncer is about to persist, in a state of the invariant.
Persisting(s) == WorkflowInv /\ s \in Syncers /\ sync[s].phase = "sequenced"

LEMMA PersistingFacts ==
  ASSUME NEW s, Persisting(s)
  PROVE  /\ sync[s] # Idle /\ sync[s] \in Attempts /\ Count(s) \in Nat /\ Count(s) >= 1
         /\ now \in Nat /\ counter \in Nat /\ GithubSound(github, now)
         /\ SnapshotSound(snapshot, github, now, counter) /\ snapshot \in Snapshot
         /\ TombstonesSound(tombstones, snapshot, github) /\ tombstones \in [Runs -> Nat]
         /\ sync[s].seq \in 1..counter /\ sync[s].seq # snapshot.seq
         /\ Consolidated(sync[s])
         /\ \A i \in 1..Count(s) :
              /\ PayloadSound(Payloads(s)[i], github, now, counter)
              /\ Payloads(s)[i] \in Payload /\ Observed(Payloads(s)[i])
              /\ Payloads(s)[i].baseline.seq < sync[s].seq
<1>1. WorkflowInv /\ s \in Syncers /\ sync[s].phase = "sequenced" /\ sync[s] # Idle
  BY DEF Persisting, Idle
<1>2. AttemptSound(sync[s], github, now, counter, snapshot, tombstones) /\ OwnGeneration(s)
  BY <1>1 DEF WorkflowInv
<1>3. PayloadsSound(sync[s], github, now, counter) /\ Sequenced(sync[s], counter)
        /\ sync[s] \in Attempts /\ Len(sync[s].payloads) >= 1
  BY <1>1, <1>2 DEF AttemptSound
<1>4. Len(sync[s].payloads) \in Nat
  BY <1>3, AttemptFields
<1>5. \A i \in 1..Count(s) :
        /\ PayloadSound(Payloads(s)[i], github, now, counter)
        /\ Payloads(s)[i] \in Payload /\ Observed(Payloads(s)[i])
        /\ Payloads(s)[i].baseline.seq < sync[s].seq
  BY <1>1, <1>3 DEF PayloadsSound, PayloadSound, Count, Payloads, Sequenced
<1>6. sync[s].seq \in 1..counter /\ sync[s].seq # snapshot.seq /\ Consolidated(sync[s])
  BY <1>1, <1>2, <1>3 DEF Sequenced, OwnGeneration
<1>7. /\ now \in Nat /\ counter \in Nat /\ GithubSound(github, now)
      /\ SnapshotSound(snapshot, github, now, counter) /\ snapshot \in Snapshot
      /\ TombstonesSound(tombstones, snapshot, github) /\ tombstones \in [Runs -> Nat]
  BY <1>1 DEF WorkflowInv, SnapshotSound
<1>8. QED
  BY <1>1, <1>3, <1>4, <1>5, <1>6, <1>7 DEF Count

\* Nothing is stored of run r: the group of payload i has verified, or shows,
\* that it is deleted.
Dropped(s, i, r) ==
  GroupRows(s, i, r) = {} \/ r \in GroupDeleted(s, i) \/ Exact(s, i, r) = "deleted"

LEMMA GroupRowsSound ==
  ASSUME NEW s, Persisting(s), NEW i \in CurrentGroup(s), NEW r \in Runs,
         NEW row \in GroupRows(s, i, r)
  PROVE  /\ row \in Run /\ row.at \in Nat /\ row.at <= now /\ row # NoRun
         /\ github[r].state # "none"
         /\ github[r].state = "live" => row.at <= github[r].run.at
         /\ \E j \in CurrentGroup(s) :
              Payloads(s)[j].rows[r] = row /\ Covers(Payloads(s)[j].source, row.at)
<1>1. PICK j \in Group(s, i) : row = Payloads(s)[j].rows[r] /\ row # NoRun
  BY DEF GroupRows
<1>2. j \in CurrentGroup(s) /\ j \in 1..Count(s)
  BY <1>1, GroupOfCurrent DEF CurrentGroup, Persisting
<1>3. PayloadSound(Payloads(s)[j], github, now, counter) /\ Payloads(s)[j] \in Payload
  BY <1>2, PersistingFacts
<1>4. row \in Run /\ row.at \in Nat
  BY <1>1, <1>3 DEF Payload, Run
<1>5. QED
  BY <1>1, <1>2, <1>3, <1>4 DEF PayloadSound, RowSound, Behind

LEMMA ExactIsDeletion ==
  ASSUME NEW s, Persisting(s), NEW i \in 1..Count(s), Payloads(s)[i].fresh, NEW r \in Runs
  PROVE  /\ Exact(s, i, r) \in {"none", "deleted"}
         /\ Exact(s, i, r) = "deleted" => github[r].state = "deleted"
<1>1. sync[s].exact[r] \in {"none", "deleted"}
  BY PersistingFacts, AttemptFields
<1>2. r \in LaterAbsent(s, i) => github[r].state = "deleted"
  BY PersistingFacts, LaterAbsentDeleted DEF Persisting
<1>3. QED
  BY <1>1, <1>2 DEF Exact

(* No exact lookup of a sibling's run finds it live, so the clock is the    *)
(* latest of the payloads'.                                                 *)
LEMMA ConsolidatedSourceLatest ==
  ASSUME NEW s, Persisting(s), NEW i \in 1..Count(s), Payloads(s)[i].fresh
  PROVE  IsLatest(ConsolidatedSource(s, i), {Payloads(s)[j].source : j \in Group(s, i)}, now)
<1> DEFINE clocks == {Payloads(s)[j].source : j \in Group(s, i)}
<1>1. ConsolidatedSource(s, i) = LatestSource(clocks)
  <2>1. {Exact(s, i, r).at : r \in {q \in Runs : Exact(s, i, q) \notin {"none", "deleted"}}} = {}
    BY ExactIsDeletion
  <2>2. QED
    BY <2>1 DEF ConsolidatedSource
<1>2. \A c \in clocks : Clock(c, now)
  BY PersistingFacts DEF Group, PayloadSound
<1>3. now \in Nat
  BY PersistingFacts
<1>4. QED
  BY <1>1, <1>2, <1>3, LatestSourceIsLatest

LEMMA ConsolidatedRowCases ==
  ASSUME NEW s, Persisting(s), NEW i \in CurrentGroup(s), NEW r \in Runs
  PROVE  /\ Dropped(s, i, r) => ConsolidatedRows(s, i)[r] = NoRun
         /\ ~Dropped(s, i, r) =>
              /\ ConsolidatedRows(s, i)[r] \in GroupRows(s, i, r)
              /\ \A b \in GroupRows(s, i, r) : b.at <= ConsolidatedRows(s, i)[r].at
<1>1. Exact(s, i, r) = "none" \/ Exact(s, i, r) = "deleted"
  BY ExactIsDeletion DEF CurrentGroup
<1>2. ConsolidatedRows(s, i)[r] =
        IF Dropped(s, i, r) THEN NoRun ELSE LatestRow(GroupRows(s, i, r))
  BY <1>1 DEF ConsolidatedRows, Dropped
<1>3. CASE ~Dropped(s, i, r)
  <2>1. GroupRows(s, i, r) # {}
    BY <1>3 DEF Dropped
  <2>2. \A a \in GroupRows(s, i, r) : a \in Run /\ a.at <= now
    BY GroupRowsSound
  <2>3. now \in Nat
    BY PersistingFacts
  <2>4. QED
    BY <1>2, <1>3, <2>1, <2>2, <2>3, LatestRowIsLatest
<1>4. QED
  BY <1>2, <1>3

(* Only what is deleted on GitHub is dropped from the stored snapshot.      *)
LEMMA DroppedIsDeleted ==
  ASSUME NEW s, Persisting(s), NEW i \in CurrentGroup(s), NEW r \in Runs,
         Dropped(s, i, r),
         r \in Tombstones(s, i) \/ snapshot.runs[r] # NoRun
  PROVE  github[r].state = "deleted"
<1>1. CASE r \in GroupDeleted(s, i)
  <2>1. PICK j \in Group(s, i) : r \in Payloads(s)[j].deleted
    BY <1>1 DEF GroupDeleted
  <2>2. j \in 1..Count(s)
    BY <2>1 DEF Group
  <2>3. QED
    BY <2>1, <2>2, PersistingFacts DEF PayloadSound
<1>2. CASE Exact(s, i, r) = "deleted"
  BY <1>2, ExactIsDeletion DEF CurrentGroup
<1>3. CASE GroupRows(s, i, r) = {} /\ r \notin GroupDeleted(s, i) /\ Exact(s, i, r) # "deleted"
  <2> DEFINE p == Payloads(s)[i]
  <2>1. snapshot.runs[r] # NoRun
    BY <1>3 DEF Tombstones
  <2>2. i \in 1..Count(s) /\ p.fresh /\ p.baseline = snapshot /\ i \in Group(s, i)
    BY DEF CurrentGroup, Group
  <2>3. p.rows[r] = NoRun
    BY <1>3, <2>2 DEF GroupRows
  <2>4. Observed(p) /\ PayloadSound(p, github, now, counter)
    BY <2>2, PersistingFacts
  <2> HIDE DEF p
  <2>5. r \in p.verified
    BY <2>1, <2>2, <2>3, <2>4 DEF Observed, PendingLookups, Missing, Present
  <2>6. r \in p.deleted
    BY <2>1, <2>2, <2>3, <2>4, <2>5 DEF PayloadSound, Compared
  <2>7. QED
    BY <2>4, <2>6 DEF PayloadSound
<1>4. QED
  BY <1>1, <1>2, <1>3 DEF Dropped

(* What is kept is no older than what was stored, and newer than any clock  *)
(* the run was verified as deleted at.                                      *)
LEMMA KeptAdvances ==
  ASSUME NEW s, Persisting(s), NEW i \in CurrentGroup(s), NEW r \in Runs,
         ~Dropped(s, i, r)
  PROVE  LET row == ConsolidatedRows(s, i)[r]
         IN /\ snapshot.runs[r] # NoRun => snapshot.runs[r].at <= row.at
            /\ tombstones[r] # 0 => tombstones[r] < row.at
<1> DEFINE row == ConsolidatedRows(s, i)[r]
<1>1. row \in GroupRows(s, i, r)
  BY ConsolidatedRowCases
<1>2. PICK j \in CurrentGroup(s) : Payloads(s)[j].rows[r] = row
  BY <1>1, GroupRowsSound
<1>3. row \in Run /\ row.at \in Nat /\ row # NoRun
  BY <1>1, GroupRowsSound
<1> HIDE DEF row
<1> DEFINE p == Payloads(s)[j]
<1>4. j \in 1..Count(s) /\ p.fresh /\ p.baseline = snapshot /\ p.rows[r] = row
  BY <1>2 DEF CurrentGroup
<1>5. Observed(p) /\ PayloadSound(p, github, now, counter)
  BY <1>4, PersistingFacts
<1>6. LookupsSound(sync[s], snapshot, tombstones)
  BY PersistingFacts DEF Persisting, WorkflowInv, AttemptSound
<1>7. r \in p.verified /\ snapshot.runs[r] = NoRun => tombstones[r] = 0
  BY <1>3, <1>4, <1>6 DEF LookupsSound, Payloads, Count
<1> HIDE DEF p
<1>8. snapshot.runs[r] # NoRun => snapshot.runs[r].at <= row.at
  BY <1>3, <1>4, <1>5 DEF PayloadSound, Compared
<1>9. ASSUME tombstones[r] # 0 PROVE tombstones[r] < row.at
  <2>1. /\ Covers(snapshot.source, tombstones[r])
        /\ snapshot.runs[r] # NoRun => tombstones[r] < snapshot.runs[r].at
        /\ tombstones[r] \in Nat /\ snapshot.runs[r].at \in Nat
        /\ Clock(snapshot.source, now) /\ (~snapshot.found => snapshot = NoSnapshot)
    BY <1>9, PersistingFacts DEF TombstonesSound, Snapshot, Run, SnapshotSound
  <2>2. CASE snapshot.runs[r] # NoRun
    BY <1>3, <1>8, <2>1, <2>2
  <2>3. CASE snapshot.runs[r] = NoRun
    <3>1. snapshot.source # Blank /\ snapshot.source \in Nat
      BY <2>1 DEF Covers, Clock
    <3>2. snapshot.found
      BY <2>1, <3>1 DEF NoSnapshot
    <3>3. r \notin p.verified
      BY <1>7, <1>9, <2>3
    <3>4. r \notin Reappearing(p.rows, p.baseline)
      BY <1>4, <1>5, <3>3 DEF Observed, PendingLookups
    <3>5. Before(snapshot.source, row.at)
      BY <1>3, <1>4, <2>3, <3>2, <3>4 DEF Reappearing, Present
    <3>6. QED
      BY <1>3, <2>1, <3>1, <3>5 DEF Before, Covers
  <2>4. QED
    BY <2>2, <2>3
<1>10. QED
  BY <1>8, <1>9 DEF row

(* The clock of what is brought covers what it was listed and compared with.*)
LEMMA ConsolidatedSourceCovers ==
  ASSUME NEW s, Persisting(s), NEW i \in CurrentGroup(s)
  PROVE  /\ Clock(ConsolidatedSource(s, i), now)
         /\ snapshot.source # Blank => Covers(ConsolidatedSource(s, i), snapshot.source)
         /\ \A j \in CurrentGroup(s), at \in Nat :
              Covers(Payloads(s)[j].source, at) => Covers(ConsolidatedSource(s, i), at)
<1> DEFINE clocks == {Payloads(s)[j].source : j \in CurrentGroup(s)}
           c == ConsolidatedSource(s, i)
<1>1. i \in 1..Count(s) /\ Payloads(s)[i].fresh /\ Group(s, i) = CurrentGroup(s)
  BY GroupOfCurrent DEF CurrentGroup, Persisting
<1>2. \A j \in CurrentGroup(s) : Clock(Payloads(s)[j].source, now)
  BY PersistingFacts DEF CurrentGroup, PayloadSound
<1>3. now \in Nat /\ Clock(snapshot.source, now)
  BY PersistingFacts DEF SnapshotSound
<1>4. IsLatest(c, clocks, now)
  BY <1>1, ConsolidatedSourceLatest
<1> HIDE DEF c
<1>5. ASSUME NEW j \in CurrentGroup(s), NEW at \in Nat, Covers(Payloads(s)[j].source, at)
      PROVE  Covers(c, at)
  <2> DEFINE d == Payloads(s)[j].source
  <2>1. d # Blank /\ d \in clocks /\ Clock(d, now) /\ Covers(d, at)
    BY <1>2, <1>5 DEF Covers
  <2> HIDE DEF d
  <2>2. d # Blank => Covers(c, d)
    BY <1>4, <2>1 DEF IsLatest
  <2>3. QED
    BY <1>3, <1>4, <2>1, <2>2, CoversTransitive DEF IsLatest
<1>6. ASSUME snapshot.source # Blank PROVE Covers(c, snapshot.source)
  <2>1. i \in 1..Count(s) /\ Payloads(s)[i].baseline = snapshot
    BY DEF CurrentGroup
  <2>2. PayloadSound(Payloads(s)[i], github, now, counter)
    BY <2>1, PersistingFacts
  <2>3. Covers(Payloads(s)[i].source, snapshot.source)
    BY <1>6, <2>1, <2>2 DEF PayloadSound
  <2>4. snapshot.source \in Nat
    BY <1>3, <1>6 DEF Clock
  <2>5. QED
    BY <1>5, <2>3, <2>4
<1>7. QED
  BY <1>4, <1>5, <1>6 DEF IsLatest, c

LEMMA IncomingSound ==
  ASSUME NEW s, Persisting(s), NEW i \in CurrentGroup(s)
  PROVE  /\ SnapshotSound(Incoming(s, i), github, now, counter)
         /\ Incoming(s, i).seq = sync[s].seq /\ Incoming(s, i).found
         /\ Incoming(s, i).runs = ConsolidatedRows(s, i)
         /\ Incoming(s, i).source = ConsolidatedSource(s, i)
<1> DEFINE in == Incoming(s, i)
           rows == ConsolidatedRows(s, i)
           c == ConsolidatedSource(s, i)
<1>1. in = [found |-> TRUE, source |-> c, seq |-> sync[s].seq, runs |-> rows]
  BY DEF Incoming
<1>2. rows = [r \in Runs |-> rows[r]]
  BY DEF ConsolidatedRows
<1> HIDE DEF in, rows, c
<1>3. ASSUME NEW r \in Runs PROVE rows[r] \in Run /\ RowSound(rows[r], r, c, github, now)
  <2>1. CASE Dropped(s, i, r)
    <3>1. rows[r] = NoRun
      BY <2>1, ConsolidatedRowCases DEF rows
    <3>2. QED
      BY <3>1 DEF NoRun, Run, RowSound
  <2>2. CASE ~Dropped(s, i, r)
    <3>1. rows[r] \in GroupRows(s, i, r)
      BY <2>2, ConsolidatedRowCases DEF rows
    <3>2. /\ rows[r] \in Run /\ rows[r].at \in Nat /\ rows[r].at <= now
          /\ github[r].state # "none"
          /\ \E j \in CurrentGroup(s) : Covers(Payloads(s)[j].source, rows[r].at)
      BY <3>1, GroupRowsSound
    <3>3. Covers(c, rows[r].at)
      BY <3>2, ConsolidatedSourceCovers DEF c
    <3>4. QED
      BY <3>2, <3>3 DEF RowSound
  <2>3. QED
    BY <2>1, <2>2
<1>4. Clock(c, now) /\ c \in Source
  BY ConsolidatedSourceCovers DEF c, Clock, Source
<1>5. sync[s].seq \in Nat /\ sync[s].seq <= counter
  BY PersistingFacts
<1>6. rows \in [Runs -> Run]
  BY <1>2, <1>3
<1>7. in \in Snapshot
  BY <1>1, <1>4, <1>5, <1>6 DEF Snapshot
<1>8. /\ in.found /\ in.source = c /\ in.seq = sync[s].seq /\ in.runs = rows
  BY <1>1
<1>9. SnapshotSound(in, github, now, counter)
  BY <1>3, <1>4, <1>5, <1>7, <1>8 DEF SnapshotSound
<1>10. QED
  BY <1>8, <1>9 DEF in, rows, c

(* A deletion that is brought has a clock that the snapshot covers.         *)
LEMMA TombstoneCovered ==
  ASSUME NEW s, Persisting(s), NEW i \in CurrentGroup(s), NEW r \in Runs
  PROVE  /\ DeletedAt(s, i, r) \in Nat /\ DeletedAt(s, i, r) <= now
         /\ DeletedAt(s, i, r) # 0 => Covers(ConsolidatedSource(s, i), DeletedAt(s, i, r))
<1> DEFINE base == Payloads(s)[i].baseline.runs[r]
           ats == {base.at} \cup {a.at : a \in GroupRows(s, i, r)}
           c == ConsolidatedSource(s, i)
<1>1. base = snapshot.runs[r] /\ now \in Nat
  BY PersistingFacts DEF CurrentGroup
<1>2. SnapshotSound(snapshot, github, now, counter) /\ snapshot \in Snapshot
  BY PersistingFacts
<1>3. base \in Run /\ base.at \in Nat /\ base.at <= now
        /\ (base # NoRun => Covers(snapshot.source, base.at) /\ snapshot.source # Blank)
        /\ (base = NoRun => base.at = 0)
  BY <1>1, <1>2 DEF SnapshotSound, RowSound, Snapshot, Run, NoRun, Covers
<1>4. base.at # 0 => Covers(c, base.at)
  <2>1. SUFFICES ASSUME base.at # 0 PROVE Covers(c, base.at)
    OBVIOUS
  <2>2. Covers(snapshot.source, base.at) /\ snapshot.source # Blank
    BY <1>3, <2>1
  <2>3. Covers(c, snapshot.source) /\ Clock(c, now) /\ Clock(snapshot.source, now)
    BY <1>2, <2>2, ConsolidatedSourceCovers DEF SnapshotSound
  <2> HIDE DEF c, base
  <2>4. QED
    BY <1>1, <1>3, <2>2, <2>3, CoversTransitive
<1>5. \A a \in GroupRows(s, i, r) : a.at \in Nat /\ a.at <= now /\ Covers(c, a.at)
  BY GroupRowsSound, ConsolidatedSourceCovers
<1> HIDE DEF base, c
<1>6. ats \subseteq Nat /\ ats # {} /\ \A x \in ats : x <= now
  BY <1>3, <1>5
<1>7. \A x \in ats : x # 0 => Covers(c, x)
  BY <1>4, <1>5
<1> HIDE DEF ats
<1>8. Max(ats) \in ats
  BY <1>1, <1>6, MaxOfNumbers
<1>9. DeletedAt(s, i, r) = Max(ats)
  BY DEF DeletedAt, ats, base
<1>10. QED
  BY <1>6, <1>7, <1>8, <1>9 DEF c

-----------------------------------------------------------------------------
(* The transaction                                                          *)

\* What the payloads leave, in turn.
Outcome(b) == [current |-> b, failed |-> FALSE]

LEMMA ClockIsValid ==
  ASSUME NEW n, NEW c, Clock(c, n), c # Blank
  PROVE  Valid(c) /\ c \in Nat
BY MalformedAssumption DEF Clock, Valid

(* The generation of the sync is not that of the snapshot.                  *)
LEMMA NeverTied ==
  ASSUME NEW s, Persisting(s), NEW i \in 1..Count(s), Payloads(s)[i].fresh
  PROVE  SnapshotOrder(snapshot, Incoming(s, i)) # Tied
<1> DEFINE c == ConsolidatedSource(s, i)
<1>1. Incoming(s, i).source = c /\ Incoming(s, i).seq = sync[s].seq
  BY DEF Incoming
<1>2. Clock(c, now) /\ Clock(snapshot.source, now)
  BY ConsolidatedSourceLatest, PersistingFacts DEF IsLatest, SnapshotSound
<1>3. sync[s].seq \in Nat /\ snapshot.seq \in Nat /\ sync[s].seq # snapshot.seq
  BY PersistingFacts DEF Snapshot
<1> HIDE DEF c
<1> DEFINE in == [source |-> c, seq |-> sync[s].seq]
           cur == [source |-> snapshot.source, seq |-> snapshot.seq]
<1>4. compareWorkflowObservationOrder(in, cur) # Tied
  <2>1. CompareNumbers(sync[s].seq, snapshot.seq) # Tied
    BY <1>3 DEF CompareNumbers, Tied, Older, Newer
  <2>2. CASE Blank \in {c, snapshot.source}
    BY <2>1, <2>2 DEF compareWorkflowObservationOrder
  <2>3. CASE Blank \notin {c, snapshot.source}
    <3>1. Valid(c) /\ c \in Nat /\ Valid(snapshot.source) /\ snapshot.source \in Nat
      BY <1>2, <2>3, ClockIsValid
    <3>2. c # snapshot.source => CompareNumbers(c, snapshot.source) # Tied
      BY <3>1 DEF CompareNumbers, Tied, Older, Newer
    <3>3. compareObservationOrder(in, cur) # Tied
      BY <2>1, <3>1, <3>2 DEF compareObservationOrder
    <3>4. QED
      BY <2>3, <3>3 DEF compareWorkflowObservationOrder
  <2>4. QED
    BY <2>2, <2>3
<1>5. QED
  BY <1>1, <1>4 DEF SnapshotOrder, Newer, Tied

(* What compared with the stored snapshot is newer than it.                 *)
LEMMA CurrentIsNewer ==
  ASSUME NEW s, Persisting(s), NEW i \in CurrentGroup(s)
  PROVE  SnapshotOrder(snapshot, Incoming(s, i)) = Newer
<1> DEFINE c == ConsolidatedSource(s, i)
<1>1. Incoming(s, i).source = c /\ Incoming(s, i).seq = sync[s].seq
  BY IncomingSound
<1>2. /\ Clock(c, now) /\ Clock(snapshot.source, now)
      /\ snapshot.source # Blank => Covers(c, snapshot.source)
  BY ConsolidatedSourceCovers, PersistingFacts DEF SnapshotSound
<1>3. i \in 1..Count(s) /\ Payloads(s)[i].baseline = snapshot
  BY DEF CurrentGroup
<1>4. sync[s].seq \in Nat /\ snapshot.seq \in Nat /\ snapshot.seq < sync[s].seq
  BY <1>3, PersistingFacts DEF Snapshot
<1> HIDE DEF c
<1> DEFINE in == [source |-> c, seq |-> sync[s].seq]
           cur == [source |-> snapshot.source, seq |-> snapshot.seq]
<1>5. compareWorkflowObservationOrder(in, cur) = Newer
  <2>1. CompareNumbers(sync[s].seq, snapshot.seq) = Newer
    BY <1>4 DEF CompareNumbers
  <2>2. CASE Blank \in {c, snapshot.source}
    BY <2>1, <2>2 DEF compareWorkflowObservationOrder
  <2>3. CASE Blank \notin {c, snapshot.source}
    <3>1. Valid(c) /\ c \in Nat /\ Valid(snapshot.source) /\ snapshot.source \in Nat
            /\ snapshot.source <= c
      BY <1>2, <2>3, ClockIsValid DEF Covers
    <3>2. c # snapshot.source => CompareNumbers(c, snapshot.source) = Newer
      BY <3>1 DEF CompareNumbers
    <3>3. compareObservationOrder(in, cur) = Newer
      BY <2>1, <3>1, <3>2 DEF compareObservationOrder
    <3>4. QED
      BY <2>3, <3>3 DEF compareWorkflowObservationOrder
  <2>4. QED
    BY <2>2, <2>3
<1>6. QED
  BY <1>1, <1>5 DEF SnapshotOrder

(* A snapshot that was just stored is left as it is by its own siblings.    *)
LEMMA SiblingLeaves ==
  ASSUME NEW s, Persisting(s), NEW i \in CurrentGroup(s)
  PROVE  /\ ApplyWorkflowRunSnapshot(Incoming(s, i), snapshot, Incoming(s, i)) = Incoming(s, i)
         /\ ~MergeConflict(Incoming(s, i), Incoming(s, i).runs)
<1> DEFINE in == Incoming(s, i)
<1>1. SnapshotSound(in, github, now, counter) /\ in.found
  BY IncomingSound
<1> HIDE DEF in
<1>2. in \in Snapshot /\ Clock(in.source, now) /\ in.seq \in Nat
  BY <1>1 DEF SnapshotSound, Snapshot
<1>3. SnapshotOrder(in, in) = Tied
  <2>1. CompareNumbers(in.seq, in.seq) = Tied
    BY <1>2 DEF CompareNumbers
  <2>2. compareObservationOrder([source |-> in.source, seq |-> in.seq],
                                [source |-> in.source, seq |-> in.seq]) = Tied
    BY <2>1 DEF compareObservationOrder
  <2>3. QED
    BY <1>1, <2>1, <2>2 DEF SnapshotOrder, compareWorkflowObservationOrder
<1>4. Merge(in, in.runs) = in
  BY <1>2 DEF Merge, Snapshot
<1>5. ~MergeConflict(in, in.runs)
  BY DEF MergeConflict
<1>6. QED
  BY <1>3, <1>4, <1>5 DEF ApplyWorkflowRunSnapshot, in

\* The outcome of the first n payloads.
OutcomeOf(done, s, n) ==
  \/ done = Outcome(snapshot) /\ \A i \in CurrentGroup(s) : i > n
  \/ \E i \in CurrentGroup(s) : i <= n /\ done = Outcome(Incoming(s, i))

LEMMA ApplyOne ==
  ASSUME NEW s, Persisting(s), NEW n \in Nat, n + 1 \in 1..Count(s),
         NEW done, OutcomeOf(done, s, n)
  PROVE  OutcomeOf(ApplyPayload(done, s, n + 1), s, n + 1)
<1> DEFINE m == n + 1
           in == Incoming(s, m)
<1>1. CurrentGroup(s) \subseteq Nat /\ m \in Nat
  BY DEF CurrentGroup
<1>2. CASE ~Payloads(s)[m].fresh
  <2>1. ApplyPayload(done, s, m) = done /\ m \notin CurrentGroup(s)
    BY <1>2 DEF ApplyPayload, CurrentGroup
  <2>2. \A i \in CurrentGroup(s) : i # m /\ (i > n => i > m) /\ (i <= n => i <= m)
    BY <1>1, <2>1
  <2>3. QED
    BY <2>1, <2>2 DEF OutcomeOf
<1>3. CASE Payloads(s)[m].fresh /\ done = Outcome(snapshot) /\ m \notin CurrentGroup(s)
           /\ \A i \in CurrentGroup(s) : i > n
  <2>1. SnapshotOrder(snapshot, in) # Tied
    BY <1>3, NeverTied
  <2>2. Payloads(s)[m].baseline # snapshot
    BY <1>3 DEF CurrentGroup
  <2>3. ApplyPayload(done, s, m) = Outcome(snapshot)
    BY <1>3, <2>1, <2>2 DEF ApplyPayload, ApplyWorkflowRunSnapshot, Outcome
  <2>4. \A i \in CurrentGroup(s) : i > m
    BY <1>1, <1>3
  <2>5. QED
    BY <2>3, <2>4 DEF OutcomeOf
<1>4. CASE Payloads(s)[m].fresh /\ done = Outcome(snapshot) /\ m \in CurrentGroup(s)
  <2>1. SnapshotOrder(snapshot, in) = Newer
    BY <1>4, CurrentIsNewer
  <2>2. Payloads(s)[m].baseline = snapshot
    BY <1>4 DEF CurrentGroup
  <2>3. ApplyPayload(done, s, m) = Outcome(in)
    <3>1. SnapshotOrder(snapshot, in) # Tied
      BY <2>1 DEF Newer, Tied
    <3>2. ApplyWorkflowRunSnapshot(snapshot, snapshot, in) = in
      BY <2>1, <3>1 DEF ApplyWorkflowRunSnapshot
    <3> HIDE DEF in
    <3>3. ApplyPayload(done, s, m) =
            [current |-> ApplyWorkflowRunSnapshot(snapshot, snapshot, in), failed |-> FALSE]
      BY <1>4, <2>2, <3>1 DEF ApplyPayload, Outcome, in
    <3>4. QED
      BY <3>2, <3>3 DEF Outcome
  <2>4. QED
    BY <1>1, <1>4, <2>3 DEF OutcomeOf
<1>5. ASSUME Payloads(s)[m].fresh, NEW i \in CurrentGroup(s), i <= n,
             done = Outcome(Incoming(s, i))
      PROVE  OutcomeOf(ApplyPayload(done, s, m), s, m)
  <2>1. /\ i \in 1..Count(s) /\ i < m /\ Payloads(s)[i].fresh
        /\ Payloads(s)[i].baseline = snapshot
    BY <1>1, <1>5 DEF CurrentGroup
  <2>2. SiblingsSound(sync[s], github, snapshot) /\ sync[s].phase = "sequenced"
    BY PersistingFacts DEF Persisting, WorkflowInv, AttemptSound
  <2>3. Payloads(s)[m].baseline = snapshot
    BY <1>5, <2>1, <2>2 DEF SiblingsSound, Compares, Payloads, Count
  <2>4. m \in CurrentGroup(s)
    BY <1>5, <2>3 DEF CurrentGroup
  <2>5. in = Incoming(s, i)
    BY <2>4, OneIncoming DEF Persisting
  <2>6. ApplyPayload(done, s, m) = Outcome(in)
    BY <1>5, <2>3, <2>4, <2>5, SiblingLeaves DEF ApplyPayload, Outcome
  <2>7. QED
    BY <1>1, <2>4, <2>6 DEF OutcomeOf
<1>6. QED
  BY <1>2, <1>3, <1>4, <1>5 DEF OutcomeOf

(* The fold over the payloads is a function of how many are applied.        *)
LEMMA AppliedExists ==
  ASSUME NEW s, NEW N \in Nat
  PROVE  \E f : f = [n \in 0..N |-> IF n = 0 THEN Outcome(snapshot)
                                   ELSE ApplyPayload(f[n - 1], s, n)]
<1> DEFINE Fold(f, m) ==
             f = [n \in 0..m |-> IF n = 0 THEN Outcome(snapshot)
                                 ELSE ApplyPayload(f[n - 1], s, n)]
           S == {m \in Nat : \E f : Fold(f, m)}
<1>1. 0 \in S
  <2>1. Fold([n \in 0..0 |-> Outcome(snapshot)], 0)
    OBVIOUS
  <2>2. QED
    BY <2>1
<1>2. ASSUME NEW m \in S PROVE m + 1 \in S
  <2>1. m \in Nat /\ \E f : Fold(f, m)
    OBVIOUS
  <2>2. PICK f : Fold(f, m)
    BY <2>1
  <2> DEFINE g == [n \in 0..m + 1 |-> IF n <= m THEN f[n] ELSE ApplyPayload(f[m], s, m + 1)]
  <2>3. ASSUME NEW n \in 0..m + 1
        PROVE  g[n] = IF n = 0 THEN Outcome(snapshot) ELSE ApplyPayload(g[n - 1], s, n)
    <3>1. CASE n <= m
      <4>1. n \in 0..m /\ (n # 0 => n - 1 \in 0..m + 1 /\ n - 1 <= m) /\ g[n] = f[n]
        BY <2>1, <2>3, <3>1
      <4>2. n # 0 => g[n - 1] = f[n - 1]
        BY <4>1
      <4>3. f[n] = IF n = 0 THEN Outcome(snapshot) ELSE ApplyPayload(f[n - 1], s, n)
        BY <2>2, <4>1
      <4>4. QED
        BY <4>1, <4>2, <4>3
    <3>2. CASE ~(n <= m)
      <4>1. n = m + 1 /\ n # 0 /\ n - 1 = m /\ m \in 0..m + 1 /\ m <= m
        BY <2>1, <2>3, <3>2
      <4>2. g[n] = ApplyPayload(f[m], s, m + 1) /\ g[m] = f[m]
        BY <3>2, <4>1
      <4>3. QED
        BY <4>1, <4>2
    <3>3. QED
      BY <3>1, <3>2
  <2>4. DOMAIN g = 0..m + 1 /\ g = [n \in 0..m + 1 |-> g[n]]
    OBVIOUS
  <2> HIDE DEF g
  <2>5. Fold(g, m + 1)
    BY <2>3, <2>4
  <2>6. QED
    BY <2>1, <2>5
<1>3. S = Nat
  <2>1. S \subseteq Nat
    OBVIOUS
  <2> HIDE DEF S
  <2>2. QED
    BY <1>1, <1>2, <2>1, NatSetInduction
<1>4. QED
  BY <1>3

(* The transaction never fails; it stores what all payloads that compared   *)
(* with the stored snapshot bring, or nothing if none did.                  *)
LEMMA PersistEffect ==
  ASSUME NEW s, Persisting(s)
  PROVE  \/ Applied(s) = Outcome(snapshot) /\ CurrentGroup(s) = {}
         \/ \E i \in CurrentGroup(s) : Applied(s) = Outcome(Incoming(s, i))
<1> DEFINE N == Count(s)
           f == CHOOSE f : f = [n \in 0..N |-> IF n = 0 THEN Outcome(snapshot)
                                               ELSE ApplyPayload(f[n - 1], s, n)]
<1>1. N \in Nat
  BY PersistingFacts
<1>2. CurrentGroup(s) \subseteq 1..N
  BY DEF CurrentGroup
<1>3. Applied(s) = f[N]
  BY DEF Applied, Outcome
<1> HIDE DEF N
<1>4. f = [n \in 0..N |-> IF n = 0 THEN Outcome(snapshot) ELSE ApplyPayload(f[n - 1], s, n)]
  BY <1>1, AppliedExists
<1> HIDE DEF f
<1> DEFINE S == {n \in Nat : n <= N => OutcomeOf(f[n], s, n)}
<1>5. 0 \in S
  <2>1. f[0] = Outcome(snapshot)
    BY <1>1, <1>4
  <2>2. \A i \in CurrentGroup(s) : i > 0
    BY <1>2
  <2>3. QED
    BY <2>1, <2>2 DEF OutcomeOf
<1>6. ASSUME NEW n \in S PROVE n + 1 \in S
  <2>1. SUFFICES ASSUME n + 1 <= N PROVE OutcomeOf(f[n + 1], s, n + 1)
    OBVIOUS
  <2>2. n \in Nat /\ n + 1 \in 1..N /\ n + 1 \in 0..N /\ n + 1 # 0 /\ (n + 1) - 1 = n
    BY <1>1, <2>1
  <2>3. OutcomeOf(f[n], s, n)
    BY <1>1, <2>1, <2>2
  <2>4. f[n + 1] = ApplyPayload(f[n], s, n + 1)
    BY <1>4, <2>2
  <2>5. OutcomeOf(ApplyPayload(f[n], s, n + 1), s, n + 1)
    BY <2>2, <2>3, ApplyOne DEF N
  <2>6. QED
    BY <2>4, <2>5
<1>7. S = Nat
  <2>1. S \subseteq Nat
    OBVIOUS
  <2> HIDE DEF S
  <2>2. QED
    BY <1>5, <1>6, <2>1, NatSetInduction
<1>8. OutcomeOf(Applied(s), s, N)
  BY <1>1, <1>3, <1>7
<1>9. \A i \in CurrentGroup(s) : ~(i > N)
  BY <1>1, <1>2
<1>10. QED
  BY <1>8, <1>9 DEF OutcomeOf

(* Nothing that compared with the stored snapshot is persisted.             *)
LEMMA NothingPersisted ==
  ASSUME NEW s, Persisting(s), Persist(s), CurrentGroup(s) = {}
  PROVE  UNCHANGED <<snapshot, tombstones>>
<1>1. Applied(s) = Outcome(snapshot)
  BY PersistEffect
<1>2. snapshot' = snapshot
  BY <1>1 DEF Persist, Outcome
<1>3. Landed(s) = {}
  BY DEF Landed, CurrentGroup
<1>4. \A r \in Runs : tombstones[r] \in Nat
  BY PersistingFacts
<1>5. \A t \in Nat : Max({t}) = t
  <2>1. SUFFICES ASSUME NEW t \in Nat PROVE Max({t}) = t
    OBVIOUS
  <2>2. Max({t}) \in {t}
    BY MaxOfNumbers
  <2>3. QED
    BY <2>2
<1>6. tombstones' = [r \in Runs |-> Max({tombstones[r]})]
  BY <1>3 DEF Persist
<1>7. tombstones' = [r \in Runs |-> tombstones[r]]
  BY <1>4, <1>5, <1>6
<1>8. tombstones = [r \in Runs |-> tombstones[r]]
  BY PersistingFacts
<1>9. QED
  BY <1>2, <1>7, <1>8

(* The stored snapshot is replaced.                                         *)
LEMMA SomethingPersisted ==
  ASSUME NEW s, Persisting(s), Persist(s), CurrentGroup(s) # {}
  PROVE  \E i \in CurrentGroup(s) :
           /\ snapshot' = Incoming(s, i)
           /\ tombstones' = [r \in Runs |->
                Max({tombstones[r]} \cup
                    {DeletedAt(s, j, r) : j \in {k \in CurrentGroup(s) : r \in Tombstones(s, k)}})]
<1>1. PICK i \in CurrentGroup(s) : Applied(s) = Outcome(Incoming(s, i))
  BY PersistEffect
<1>2. snapshot' = Incoming(s, i)
  BY <1>1 DEF Persist, Outcome
<1>3. Incoming(s, i).seq = sync[s].seq
  BY IncomingSound
<1>4. Landed(s) = CurrentGroup(s)
  BY <1>1, <1>3 DEF Landed, CurrentGroup, Outcome
<1>5. QED
  BY <1>2, <1>4 DEF Persist

(* The tombstones, old and new, hold of the new snapshot.                   *)
LEMMA PersistedTombstones ==
  ASSUME NEW s, Persisting(s), Persist(s), CurrentGroup(s) # {}
  PROVE  tombstones' \in [Runs -> Nat] /\ TombstonesSound(tombstones', snapshot', github)
<1>1. PICK i \in CurrentGroup(s) :
        /\ snapshot' = Incoming(s, i)
        /\ tombstones' = [r \in Runs |->
             Max({tombstones[r]} \cup
                 {DeletedAt(s, j, r) : j \in {k \in CurrentGroup(s) : r \in Tombstones(s, k)}})]
  BY SomethingPersisted
<1> DEFINE c == ConsolidatedSource(s, i)
<1>2. snapshot'.runs = ConsolidatedRows(s, i) /\ snapshot'.source = c
  BY <1>1, IncomingSound
<1>3. /\ now \in Nat /\ TombstonesSound(tombstones, snapshot, github)
      /\ Clock(snapshot.source, now) /\ Clock(c, now)
      /\ snapshot.source # Blank => Covers(c, snapshot.source)
  BY PersistingFacts, ConsolidatedSourceCovers DEF SnapshotSound
<1>4. \A j \in CurrentGroup(s) : ConsolidatedSource(s, j) = c
                                  /\ ConsolidatedRows(s, j) = ConsolidatedRows(s, i)
  <2>1. \A j \in CurrentGroup(s) : Incoming(s, j) = Incoming(s, i)
    BY OneIncoming DEF Persisting
  <2>2. QED
    BY <2>1, IncomingSound
<1> HIDE DEF c
<1>5. ASSUME NEW r \in Runs
      PROVE  /\ tombstones'[r] \in Nat
             /\ tombstones'[r] # 0 =>
                  /\ github[r].state = "deleted"
                  /\ Covers(c, tombstones'[r])
                  /\ ConsolidatedRows(s, i)[r] # NoRun
                       => tombstones'[r] < ConsolidatedRows(s, i)[r].at
  <2> DEFINE new == {DeletedAt(s, j, r) : j \in {k \in CurrentGroup(s) : r \in Tombstones(s, k)}}
             old == tombstones[r]
             row == ConsolidatedRows(s, i)[r]
  <2>1. old \in Nat
    BY PersistingFacts
  <2>2. old # 0 => /\ github[r].state = "deleted" /\ Covers(snapshot.source, old)
                   /\ snapshot.source # Blank
    BY <1>3 DEF TombstonesSound, Covers
  <2>3. old # 0 => Covers(c, old)
    BY <1>3, <2>1, <2>2, CoversTransitive
  <2>4. old <= now
    BY <1>3, <2>1, <2>2 DEF Covers, Clock
  <2>5. \A x \in new : x \in Nat /\ x <= now /\ (x # 0 => Covers(c, x))
    BY <1>4, TombstoneCovered
  <2>6. ASSUME NEW x \in new PROVE github[r].state = "deleted" /\ row = NoRun
    <3>1. PICK j \in CurrentGroup(s) : r \in Tombstones(s, j)
      BY <2>6
    <3>2. Dropped(s, j, r)
      BY <3>1 DEF Tombstones, Dropped
    <3>3. QED
      BY <1>4, <3>1, <3>2, DroppedIsDeleted, ConsolidatedRowCases
  <2>7. row # NoRun /\ old # 0 => old < row.at
    <3>1. row # NoRun => ~Dropped(s, i, r)
      BY ConsolidatedRowCases
    <3>2. QED
      BY <3>1, KeptAdvances
  <2>8. tombstones'[r] = Max({old} \cup new)
    BY <1>1
  <2> HIDE DEF new, old, row
  <2>9. Max({old} \cup new) \in {old} \cup new
    <3>1. {old} \cup new \subseteq Nat /\ {old} \cup new # {} /\ \A x \in {old} \cup new : x <= now
      BY <2>1, <2>4, <2>5
    <3>2. QED
      BY <1>3, <3>1, MaxOfNumbers
  <2>10. CASE tombstones'[r] = old
    BY <2>1, <2>2, <2>3, <2>7, <2>10 DEF row
  <2>11. CASE tombstones'[r] \in new
    BY <2>5, <2>6, <2>11 DEF row
  <2>12. QED
    BY <2>8, <2>9, <2>10, <2>11
<1>6. tombstones' \in [Runs -> Nat]
  BY <1>1, <1>5
<1>7. QED
  BY <1>2, <1>5, <1>6 DEF TombstonesSound

LEMMA PersistKeeps ==
  ASSUME WorkflowInv, NEW s \in Syncers, Persist(s)
  PROVE  WorkflowInv'
<1>1. /\ Persisting(s) /\ sync[s] # Idle
      /\ sync' = [sync EXCEPT ![s] = Idle] /\ UNCHANGED <<now, github, changes, counter>>
  BY DEF Persist, Persisting, Idle
<1>2. CASE CurrentGroup(s) = {}
  <2>1. UNCHANGED <<snapshot, tombstones>>
    BY <1>1, <1>2, NothingPersisted
  <2>2. QED
    BY <1>1, <2>1, SyncMoves
<1>3. CASE CurrentGroup(s) # {}
  <2>1. PICK i \in CurrentGroup(s) : snapshot' = Incoming(s, i)
    BY <1>1, <1>3, SomethingPersisted
  <2>2. SnapshotSound(snapshot', github, now, counter) /\ snapshot'.seq = sync[s].seq
    BY <1>1, <2>1, IncomingSound
  <2>3. tombstones' \in [Runs -> Nat] /\ TombstonesSound(tombstones', snapshot', github)
    BY <1>1, <1>3, PersistedTombstones
  <2>4. OwnGeneration(s) /\ sync[s].phase = "sequenced" /\ DOMAIN sync = Syncers
    BY <1>1 DEF WorkflowInv, Persisting
  <2>5. DOMAIN sync' = Syncers /\ sync'[s] = Idle /\ \A t \in Syncers \ {s} : sync'[t] = sync[t]
    BY <1>1, <2>4
  <2>6. ASSUME NEW t \in Syncers, sync'[t] # Idle
        PROVE  AttemptSound(sync'[t], github, now, counter, snapshot', tombstones')
    <3>1. t # s /\ sync'[t] = sync[t] /\ sync[t] # Idle
      BY <2>5, <2>6
    <3>2. AttemptSound(sync[t], github, now, counter, snapshot, tombstones)
      BY <3>1 DEF WorkflowInv
    <3>3. \A k \in 1..Len(sync[t].payloads) : sync[t].payloads[k].baseline # snapshot'
      BY <1>1, <2>2, <2>4, <3>1 DEF OwnGeneration
    <3>4. QED
      BY <3>1, <3>2, <3>3, AttemptOutdated
  <2>7. ASSUME NEW t \in Syncers PROVE OwnGeneration(t)'
    <3>1. SUFFICES ASSUME sync'[t] # Idle, sync'[t].phase = "sequenced"
                   PROVE  /\ snapshot'.seq # sync'[t].seq
                          /\ \A u \in Syncers : sync'[u] # Idle =>
                               /\ \A k \in 1..Len(sync'[u].payloads) :
                                    sync'[u].payloads[k].baseline.seq # sync'[t].seq
                               /\ u # t /\ sync'[u].phase = "sequenced"
                                    => sync'[u].seq # sync'[t].seq
      BY DEF OwnGeneration, Idle
    <3>2. t # s /\ sync'[t] = sync[t] /\ OwnGeneration(t)
      BY <2>5, <3>1 DEF WorkflowInv
    <3>3. \A u \in Syncers : sync'[u] # Idle => u # s /\ sync'[u] = sync[u]
      BY <2>5
    <3>4. snapshot'.seq # sync[t].seq
      BY <1>1, <2>2, <2>4, <3>1, <3>2 DEF OwnGeneration
    <3>5. QED
      BY <3>1, <3>2, <3>3, <3>4 DEF OwnGeneration
  <2>8. QED
    BY <1>1, <2>2, <2>3, <2>5, <2>6, <2>7 DEF WorkflowInv, Idle
<1>4. QED
  BY <1>2, <1>3

-----------------------------------------------------------------------------
(* Theorems                                                                 *)

LEMMA InitSound == Init => WorkflowInv
<1> SUFFICES ASSUME Init PROVE WorkflowInv
  OBVIOUS
<1>1. /\ now = 1 /\ changes = 0 /\ counter = 0 /\ snapshot = NoSnapshot
      /\ github = [r \in Runs |-> [state |-> "none", run |-> NoRun]]
      /\ sync = [s \in Syncers |-> Idle] /\ tombstones = [r \in Runs |-> 0]
  BY DEF Init
<1>2. GithubSound(github, now)
  BY <1>1 DEF GithubSound, RunStates, Run, NoRun
<1>3. SnapshotSound(snapshot, github, now, counter)
  BY <1>1, NoSnapshotSound
<1>4. TombstonesSound(tombstones, snapshot, github) /\ tombstones \in [Runs -> Nat]
  BY <1>1 DEF TombstonesSound
<1>5. \A s \in Syncers : OwnGeneration(s)
  BY <1>1 DEF OwnGeneration
<1>6. QED
  BY <1>1, <1>2, <1>3, <1>4, <1>5 DEF WorkflowInv

LEMMA StepKeeps == WorkflowInv /\ [Next]_vars => WorkflowInv'
<1> SUFFICES ASSUME WorkflowInv, [Next]_vars PROVE WorkflowInv'
  OBVIOUS
<1>1. CASE Tick
  BY <1>1, TickKeeps
<1>2. ASSUME NEW r \in Runs, ChangeRun(r) PROVE WorkflowInv'
  BY <1>2, ChangeRunKeeps
<1>3. ASSUME NEW s \in Syncers, ListWorkflowRuns(s) PROVE WorkflowInv'
  BY <1>3, FirstListKeeps, NextListKeeps
<1>4. ASSUME NEW s \in Syncers, ReadBaseline(s) PROVE WorkflowInv'
  BY <1>4, ReadBaselineKeeps
<1>5. ASSUME NEW s \in Syncers, NEW r \in Runs, LookUpRun(s, r) PROVE WorkflowInv'
  BY <1>5, LookUpRunKeeps
<1>6. ASSUME NEW s \in Syncers, NEW r \in Runs, LookUpSiblingRun(s, r) PROVE WorkflowInv'
  BY <1>6, LookUpSiblingRunKeeps
<1>7. ASSUME NEW s \in Syncers, Sequence(s) PROVE WorkflowInv'
  BY <1>7, SequenceKeeps
<1>8. ASSUME NEW s \in Syncers, Persist(s) PROVE WorkflowInv'
  BY <1>8, PersistKeeps
<1>9. ASSUME NEW s \in Syncers, Abort(s) PROVE WorkflowInv'
  BY <1>9, AbortKeeps
<1>10. CASE UNCHANGED vars
  <2>1. UNCHANGED <<now, github, changes, counter, snapshot, sync, tombstones>>
    BY <1>10 DEF vars
  <2>2. \A s \in Syncers : OwnGeneration(s)'
    BY <2>1 DEF WorkflowInv, OwnGeneration, Idle
  <2>3. QED
    BY <2>1, <2>2 DEF WorkflowInv, Idle
<1>11. QED
  BY <1>1, <1>2, <1>3, <1>4, <1>5, <1>6, <1>7, <1>8, <1>9, <1>10 DEF Next

(* The invariant holds whatever GitHub and the syncs do, for any number of  *)
(* them (Syncer.Sync, Store.ApplyWorkflowRunSnapshot).                      *)
THEOREM WorkflowsStaySound == Spec => []WorkflowInv
BY InitSound, StepKeeps, PTL DEF Spec

(* Runs, snapshots, payloads and generations hold values of their type.     *)
THEOREM WorkflowTypes == Spec => []TypeOK
<1>1. WorkflowInv => TypeOK
  <2> SUFFICES ASSUME WorkflowInv PROVE TypeOK
    OBVIOUS
  <2>1. /\ now \in Nat /\ changes \in Nat /\ counter \in Nat
        /\ github \in [Runs -> [state : {"none", "live", "deleted"}, run : Run]]
        /\ snapshot \in Snapshot /\ tombstones \in [Runs -> Nat]
    BY DEF WorkflowInv, GithubSound, RunStates, SnapshotSound
  <2>2. ASSUME NEW s \in Syncers, sync[s] # Idle
        PROVE  /\ DOMAIN sync[s] = {"phase", "payloads", "exact", "seq"}
               /\ sync[s].phase \in {"listed", "verifying", "sequenced"}
               /\ \A i \in 1..Count(s) : Payloads(s)[i] \in Payload
               /\ \A r \in Runs : \/ sync[s].exact[r] \in {"none", "deleted"}
                                  \/ sync[s].exact[r] \in Run
               /\ sync[s].seq \in Nat
    <3>1. sync[s] \in Attempts
      BY <2>2 DEF WorkflowInv, AttemptSound
    <3>2. DOMAIN sync[s] = {"phase", "payloads", "exact", "seq"}
      BY <3>1 DEF Attempts
    <3>3. QED
      BY <3>1, <3>2, AttemptFields DEF Count, Payloads
  <2>3. QED
    BY <2>1, <2>2 DEF TypeOK
<1>2. QED
  BY <1>1, WorkflowsStaySound, PTL

(* A deleted run comes back, if at all, only with a clock later than any it *)
(* was verified as deleted at (Syncer.workflowSnapshotObservation).         *)
THEOREM TombstonesAlwaysOutlast == Spec => []TombstonesOutlastOlderLists
<1>1. WorkflowInv => TombstonesOutlastOlderLists
  <2>1. SUFFICES ASSUME WorkflowInv, NEW r \in Runs, tombstones[r] # 0,
                        snapshot.runs[r] # NoRun
                 PROVE  snapshot.runs[r].at > tombstones[r]
    BY DEF TombstonesOutlastOlderLists
  <2>2. tombstones[r] < snapshot.runs[r].at
    BY <2>1 DEF WorkflowInv, TombstonesSound
  <2>3. tombstones[r] \in Nat /\ snapshot.runs[r].at \in Nat
    BY <2>1 DEF WorkflowInv, SnapshotSound, Snapshot, Run
  <2>4. QED
    BY <2>2, <2>3
<1>2. QED
  BY <1>1, WorkflowsStaySound, PTL

\* What a step may do to a stored run.
StoredRunAdvances(r) ==
  IF snapshot'.runs[r] = NoRun THEN ~Live(r)
  ELSE snapshot'.runs[r].at >= snapshot.runs[r].at

LEMMA PersistAdvances ==
  ASSUME NEW s, Persisting(s), Persist(s), NEW r \in Present(snapshot.runs)
  PROVE  StoredRunAdvances(r)
<1>1. r \in Runs /\ snapshot.runs[r] # NoRun /\ snapshot.runs[r].at \in Nat
  BY PersistingFacts DEF Present, Snapshot, Run
<1>2. CASE CurrentGroup(s) = {}
  <2>1. snapshot' = snapshot
    BY <1>2, NothingPersisted
  <2>2. QED
    BY <1>1, <2>1 DEF StoredRunAdvances
<1>3. CASE CurrentGroup(s) # {}
  <2>1. PICK i \in CurrentGroup(s) : snapshot' = Incoming(s, i)
    BY <1>3, SomethingPersisted
  <2> DEFINE row == ConsolidatedRows(s, i)[r]
  <2>2. snapshot'.runs[r] = row
    BY <2>1, IncomingSound
  <2>3. CASE Dropped(s, i, r)
    <3>1. row = NoRun /\ github[r].state = "deleted"
      BY <1>1, <2>3, ConsolidatedRowCases, DroppedIsDeleted
    <3>2. QED
      BY <2>2, <3>1 DEF StoredRunAdvances, Live
  <2>4. CASE ~Dropped(s, i, r)
    <3>1. row \in GroupRows(s, i, r) /\ snapshot.runs[r].at <= row.at
      BY <1>1, <2>4, ConsolidatedRowCases, KeptAdvances
    <3>2. row # NoRun /\ row.at \in Nat
      BY <1>1, <3>1, GroupRowsSound
    <3>3. QED
      BY <1>1, <2>2, <3>1, <3>2 DEF StoredRunAdvances
  <2>5. QED
    BY <2>3, <2>4
<1>4. QED
  BY <1>2, <1>3

(* A stored run is only replaced by a later state of it, and leaves the     *)
(* archive only when GitHub has deleted it (Store.ApplyWorkflowRunSnapshot).*)
THEOREM StoredRunsAlwaysAdvance == Spec => StoredRunsOnlyAdvance
<1>1. ASSUME WorkflowInv, [Next]_vars, NEW r \in Present(snapshot.runs)
      PROVE  StoredRunAdvances(r)
  <2>1. CASE \E s \in Syncers : Persist(s)
    <3>1. PICK s \in Syncers : Persist(s)
      BY <2>1
    <3>2. Persisting(s)
      BY <1>1, <3>1 DEF Persisting, Persist
    <3>3. QED
      BY <1>1, <3>1, <3>2, PersistAdvances
  <2>2. CASE ~\E s \in Syncers : Persist(s)
    <3>1. snapshot' = snapshot
      BY ZenonT(60), <1>1, <2>2 DEF Next, vars, Tick, ChangeRun, ListWorkflowRuns, ReadBaseline, LookUpRun,
         LookUpSiblingRun, Sequence, Abort
    <3>2. snapshot.runs[r] # NoRun /\ snapshot.runs[r].at \in Nat
      BY <1>1 DEF Present, WorkflowInv, SnapshotSound, Snapshot, Run
    <3>3. QED
      BY <3>1, <3>2 DEF StoredRunAdvances
  <2>3. QED
    BY <2>1, <2>2
<1>2. WorkflowInv /\ [Next]_vars =>
        [\A r \in Present(snapshot.runs) :
           IF snapshot'.runs[r] = NoRun THEN ~Live(r)
           ELSE snapshot'.runs[r].at >= snapshot.runs[r].at]_vars
  BY <1>1 DEF StoredRunAdvances
<1>3. QED
  BY <1>2, WorkflowsStaySound, PTL DEF Spec, StoredRunsOnlyAdvance

LEMMA CurrentLands ==
  ASSUME NEW s, Persisting(s), Persist(s), CurrentPayload(s, Count(s))
  PROVE  snapshot'.runs = Last(Payloads(s)).rows
<1> DEFINE n == Count(s)
           p == Payloads(s)[n]
<1>1. n \in CurrentGroup(s) /\ n \in Nat /\ n \in 1..n
        /\ Last(Payloads(s)) = p /\ p.rows = LiveRuns
  BY PersistingFacts DEF CurrentPayload, CurrentGroup, Last, Payloads, Count
<1>2. PICK i \in CurrentGroup(s) : snapshot' = Incoming(s, i)
  BY <1>1, SomethingPersisted
<1>3. snapshot'.runs = ConsolidatedRows(s, n)
  BY <1>1, <1>2, OneIncoming, IncomingSound DEF Persisting
<1>4. p \in Payload /\ Consolidated(sync[s]) /\ GithubSound(github, now)
  BY <1>1, PersistingFacts
<1>5. CurrentGroup(s) = Group(s, n) /\ CurrentGroup(s) \subseteq 1..n
  BY <1>1, GroupOfCurrent DEF CurrentGroup, Persisting
<1>6. ASSUME NEW j \in CurrentGroup(s)
      PROVE  j \in 1..Len(sync[s].payloads) /\ Payloads(s)[j].fresh
               /\ Payloads(s)[j].baseline = p.baseline
  BY <1>1 DEF CurrentGroup, Count
<1> HIDE DEF p
<1>7. ASSUME NEW r \in Runs PROVE ConsolidatedRows(s, n)[r] = p.rows[r]
  <2>1. CASE p.rows[r] = NoRun
    <3>1. SUFFICES ASSUME ~Dropped(s, n, r) PROVE FALSE
      BY <1>1, <2>1, ConsolidatedRowCases
    <3>2. PICK j \in CurrentGroup(s) : Payloads(s)[j].rows[r] # NoRun
      BY <1>5, <3>1 DEF Dropped, GroupRows
    <3>3. j # n /\ j \in 1..n /\ j < n
      BY <1>1, <1>5, <2>1, <3>2 DEF p
    <3>4. r \in LaterAbsent(s, n)
      BY <1>1, <1>5, <2>1, <3>2, <3>3 DEF LaterAbsent, Present, p
    <3>5. \/ sync[s].exact[r] = "deleted"
          \/ \E k \in 1..n : /\ Payloads(s)[k].fresh /\ Payloads(s)[k].baseline = p.baseline
                             /\ r \in Payloads(s)[k].deleted
      <4>1. n = Len(sync[s].payloads) /\ p = sync[s].payloads[n]
        BY DEF Count, Payloads, p
      <4>2. /\ sync[s].payloads[j].rows[r] # NoRun /\ sync[s].payloads[j].fresh
            /\ sync[s].payloads[j].baseline = p.baseline /\ p.fresh /\ n \in 1..n
        BY <1>1, <1>6, <3>2 DEF Payloads, p
      <4>3. \/ sync[s].exact[r] = "deleted"
            \/ \E k \in 1..Len(sync[s].payloads) :
                 /\ sync[s].payloads[k].fresh
                 /\ sync[s].payloads[k].baseline = sync[s].payloads[j].baseline
                 /\ r \in sync[s].payloads[k].deleted
        BY <1>4, <2>1, <3>3, <4>1, <4>2 DEF Consolidated
      <4>4. QED
        BY <4>1, <4>2, <4>3 DEF Payloads
    <3>6. r \in GroupDeleted(s, n) \/ Exact(s, n, r) = "deleted"
      BY <3>4, <3>5 DEF GroupDeleted, Group, Exact, p
    <3>7. QED
      BY <3>1, <3>6 DEF Dropped
  <2>2. CASE p.rows[r] # NoRun
    <3>1. github[r].state = "live" /\ p.rows[r] = github[r].run
      BY <1>1, <2>2 DEF LiveRuns, Live
    <3>2. p.rows[r] \in GroupRows(s, n, r)
      BY <1>1, <1>5, <2>2 DEF GroupRows, p
    <3>3. ~Dropped(s, n, r)
      <4>1. r \notin Tombstones(s, n) \/ ~Dropped(s, n, r)
        BY <1>1, <3>1, DroppedIsDeleted
      <4>2. QED
        BY <3>2, <4>1 DEF Dropped, Tombstones
    <3> DEFINE row == ConsolidatedRows(s, n)[r]
    <3>4. row \in GroupRows(s, n, r) /\ p.rows[r].at <= row.at
      BY <1>1, <3>2, <3>3, ConsolidatedRowCases
    <3> HIDE DEF row
    <3>5. PICK j \in CurrentGroup(s) : Payloads(s)[j].rows[r] = row
      BY <1>1, <3>4, GroupRowsSound
    <3>6. row.at \in Nat /\ row.at <= github[r].run.at /\ p.rows[r].at \in Nat /\ row # NoRun
      BY <1>1, <1>4, <3>1, <3>4, GroupRowsSound DEF Payload, Run
    <3>7. row.at = p.rows[r].at
      BY <3>1, <3>4, <3>6
    <3>8. row = p.rows[r]
      <4>1. /\ n \in 1..Len(sync[s].payloads) /\ j \in 1..Len(sync[s].payloads)
            /\ p = sync[s].payloads[n]
        BY <1>1, <1>6, <3>5 DEF Payloads, Count, p
      <4>2. /\ sync[s].payloads[j].fresh /\ p.fresh
            /\ sync[s].payloads[j].baseline = p.baseline
            /\ sync[s].payloads[j].rows[r] = row
        BY <1>1, <1>6, <3>5, <4>1 DEF Payloads
      <4>3. QED
        BY <1>4, <2>2, <3>6, <3>7, <4>1, <4>2 DEF Consolidated
    <3>9. QED
      BY <3>8 DEF row
  <2>3. QED
    BY <2>1, <2>2
<1>8. p.rows = [r \in Runs |-> p.rows[r]]
  BY <1>4 DEF Payload
<1>9. ConsolidatedRows(s, n) = [r \in Runs |-> ConsolidatedRows(s, n)[r]]
  BY DEF ConsolidatedRows
<1>10. QED
  BY <1>1, <1>3, <1>7, <1>8, <1>9

(* A fresh observation of what GitHub still shows, made against the         *)
(* snapshot still stored, always lands, whatever else was listed by the     *)
(* sync before it (Syncer.consolidateWorkflowSnapshots).                    *)
THEOREM CurrentObservationsLand == Spec => CurrentObservationLands
<1>1. ASSUME WorkflowInv, NEW s \in Syncers, sync[s].phase = "sequenced",
             CurrentPayload(s, Count(s)), Persist(s)
      PROVE  snapshot'.runs = Last(Payloads(s)).rows
  BY <1>1, CurrentLands DEF Persisting
<1>2. WorkflowInv /\ [Next]_vars =>
        [\A s \in Syncers :
           sync[s].phase = "sequenced" /\ CurrentPayload(s, Count(s)) /\ Persist(s)
             => snapshot'.runs = Last(Payloads(s)).rows]_vars
  BY <1>1
<1>3. QED
  BY <1>2, WorkflowsStaySound, PTL DEF Spec, CurrentObservationLands

=============================================================================
