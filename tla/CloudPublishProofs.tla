------------------------- MODULE CloudPublishProofs -------------------------
(***************************************************************************)
(* `gitcrawl cloud publish` keeps the promise of SnapshotArchive, for any    *)
(* number of publishers, commands, faults, data sets and rows.              *)
(*                                                                         *)
(* What has to be carried from step to step is what a mutation token means: *)
(* as long as the staging area holds a publisher's token, its rows are      *)
(* exactly those the publisher has sent (RowsSent).  A publisher that lost   *)
(* its token is refused, so the one that completes a snapshot has sent all  *)
(* of its image, and nothing else is there.                                 *)
(***************************************************************************)
EXTENDS CloudPublish, WellFoundedInduction, TLAPS

-----------------------------------------------------------------------------
(* Naturals and maxima                                                      *)

(* Induction over the naturals, for a set instead of a predicate.           *)
LEMMA SetInduction ==
  ASSUME NEW S, S \subseteq Nat, 0 \in S, \A n \in S : n + 1 \in S
  PROVE  S = Nat
<1> DEFINE T == Nat \ S
<1>1. SUFFICES ASSUME T # {} PROVE FALSE
  OBVIOUS
<1>2. PICK n \in T : \A m \in T : ~(<<m, n>> \in OpToRel(<, Nat))
  BY <1>1, NatLessThanWellFounded, WFMin
<1>3. n # 0 /\ n - 1 \in Nat /\ n - 1 < n
  OBVIOUS
<1>4. <<n - 1, n>> \in OpToRel(<, Nat)
  BY <1>3 DEF OpToRel
<1>5. n - 1 \in S
  BY <1>2, <1>3, <1>4
<1>6. QED
  BY <1>3, <1>5

(* A bounded set of naturals that is not empty has a maximum.               *)
LEMMA MaxOfBounded ==
  ASSUME NEW B \in Nat, NEW S, S \subseteq 0..B, S # {}
  PROVE  Max(S) \in S
<1> DEFINE V == {n \in Nat : \A x \in S : x + n <= B}
<1>1. SUFFICES ASSUME ~\E x \in S : \A y \in S : x >= y PROVE FALSE
  BY DEF Max
<1>2. 0 \in V
  OBVIOUS
<1>3. \A n \in V : n + 1 \in V
  BY <1>1
<1>4. V \subseteq Nat
  OBVIOUS
<1>5. V = Nat
  <2> HIDE DEF V
  <2> QED BY <1>2, <1>3, <1>4, SetInduction
<1>6. B + 1 \in V
  BY <1>5
<1>7. PICK x \in S : TRUE
  OBVIOUS
<1>8. QED
  BY <1>6, <1>7

(* A batch stays within its data set.                                       *)
LEMMA BatchFits ==
  ASSUME NEW d \in DataSets, NEW sent \in 0..Len(RowBytes[d])
  PROVE  /\ BatchSize(d, sent) \in Nat
         /\ sent + BatchSize(d, sent) <= Len(RowBytes[d])
<1> DEFINE sizes == Fitting(d, sent) \cup {0}
<1>1. Len(RowBytes[d]) \in Nat /\ BatchRows \in Nat
  BY CloudAssumption DEF DataSets
<1>2. \A n \in sizes : n \in 0..BatchRows /\ sent + n <= Len(RowBytes[d])
  BY <1>1 DEF Fitting
<1>3. Max(sizes) \in sizes
  BY <1>1, <1>2, MaxOfBounded
<1>4. QED
  BY <1>2, <1>3 DEF BatchSize

-----------------------------------------------------------------------------
(* Rows                                                                     *)

LEMMA RowFields ==
  ASSUME NEW r \in Row
  PROVE  /\ r.of \in Versions /\ r.set \in DataSets /\ r.profile \in Profiles
         /\ r.at \in 1..Len(RowBytes[r.set])
         /\ r = [of |-> r.of, set |-> r.set, at |-> r.at, profile |-> r.profile]
BY DEF Row

LEMMA RowsBuilt ==
  ASSUME NEW v \in Versions, NEW d \in DataSets, NEW profile \in Profiles,
         NEW i \in 1..Len(RowBytes[d])
  PROVE  [of |-> v, set |-> d, at |-> i, profile |-> profile] \in Row
BY DEF Row

(* What a run has sent when it is about to send row sent + 1 of data set d. *)
Prefix(v, profile, d, sent) ==
  {r \in Image(v, profile) : r.set < d \/ (r.set = d /\ r.at <= sent)}

LEMMA DataSetsAreNumbered ==
  /\ DataSets = 1..Len(RowBytes) /\ Len(RowBytes) \in Nat \ {0}
  /\ \A d \in DataSets : Len(RowBytes[d]) \in Nat
BY CloudAssumption DEF DataSets

LEMMA NothingSent ==
  ASSUME NEW v, NEW profile
  PROVE  Prefix(v, profile, 1, 0) = {}
<1>1. \A r \in Image(v, profile) : r.set >= 1 /\ r.at >= 1 /\ r.at \in Int /\ r.set \in Int
  BY RowFields, DataSetsAreNumbered DEF Image
<1>2. QED
  BY <1>1 DEF Prefix

(* A batch is the next part of the image.                                   *)
LEMMA BatchExtendsPrefix ==
  ASSUME NEW v \in Versions, NEW profile \in Profiles, NEW d \in DataSets,
         NEW sent \in 0..Len(RowBytes[d])
  PROVE  /\ Batch(v, d, sent, profile) \subseteq Row
         /\ Prefix(v, profile, d, sent) \cup Batch(v, d, sent, profile)
              = Prefix(v, profile, d, sent + BatchSize(d, sent))
<1> DEFINE n == BatchSize(d, sent)
<1>1. n \in Nat /\ sent + n <= Len(RowBytes[d]) /\ Len(RowBytes[d]) \in Nat
  BY BatchFits, DataSetsAreNumbered
<1> HIDE DEF n
<1>2. Batch(v, d, sent, profile) =
        {[of |-> v, set |-> d, at |-> i, profile |-> profile] : i \in sent + 1 .. sent + n}
  BY DEF Batch, n
<1>3. \A i \in sent + 1 .. sent + n :
        [of |-> v, set |-> d, at |-> i, profile |-> profile] \in Image(v, profile)
  BY <1>1, RowsBuilt DEF Image
<1>4. Batch(v, d, sent, profile) = {r \in Image(v, profile) : r.set = d /\ r.at \in sent + 1 .. sent + n}
  <2>1. ASSUME NEW r \in Image(v, profile), r.set = d, r.at \in sent + 1 .. sent + n
        PROVE  r \in Batch(v, d, sent, profile)
    BY <2>1, <1>2, RowFields DEF Image
  <2>2. QED
    BY <1>2, <1>3, <2>1
<1>5. \A r \in Image(v, profile) :
        (\/ r.set < d \/ (r.set = d /\ r.at <= sent)
         \/ (r.set = d /\ r.at \in sent + 1 .. sent + n))
        <=> (r.set < d \/ (r.set = d /\ r.at <= sent + n))
  <2>1. \A r \in Image(v, profile) : r.set \in Int /\ r.at \in Int
    BY RowFields, DataSetsAreNumbered DEF Image
  <2>2. d \in Int /\ sent \in Int
    BY <1>1, DataSetsAreNumbered
  <2>3. QED
    BY <1>1, <2>1, <2>2
<1>6. Prefix(v, profile, d, sent) \cup Batch(v, d, sent, profile) = Prefix(v, profile, d, sent + n)
  <2>1. \A r : r \in Batch(v, d, sent, profile)
               <=> r \in Image(v, profile) /\ r.set = d /\ r.at \in sent + 1 .. sent + n
    BY <1>4
  <2>2. \A r, k : r \in Prefix(v, profile, d, k)
                  <=> r \in Image(v, profile) /\ (r.set < d \/ (r.set = d /\ r.at <= k))
    BY DEF Prefix
  <2>3. \A r : r \in Prefix(v, profile, d, sent) \cup Batch(v, d, sent, profile)
               <=> r \in Prefix(v, profile, d, sent + n)
    BY <2>1, <2>2, <1>5
  <2>4. QED
    BY <2>3
<1>7. QED
  BY <1>4, <1>6 DEF n, Image

(* A data set that is sent whole is followed by the next one, and the last  *)
(* one ends the image.                                                      *)
LEMMA WholeSet ==
  ASSUME NEW v, NEW profile, NEW d \in DataSets
  PROVE  /\ Prefix(v, profile, d, Len(RowBytes[d])) = Prefix(v, profile, d + 1, 0)
         /\ d = Len(RowBytes) => Prefix(v, profile, d, Len(RowBytes[d])) = Image(v, profile)
<1>1. \A r \in Image(v, profile) :
        /\ r.set \in DataSets /\ r.set \in Int /\ r.at \in Nat \ {0}
        /\ r.at <= Len(RowBytes[r.set])
  BY RowFields, DataSetsAreNumbered DEF Image
<1>2. d \in Int /\ Len(RowBytes) \in Int /\ DataSets = 1..Len(RowBytes)
  BY DataSetsAreNumbered
<1>3. \A r \in Image(v, profile) : r.set = d => r.at <= Len(RowBytes[d])
  BY <1>1
<1>4. \A r \in Image(v, profile) :
        (r.set < d \/ (r.set = d /\ r.at <= Len(RowBytes[d])))
        <=> (r.set < d + 1 \/ (r.set = d + 1 /\ r.at <= 0))
  BY <1>1, <1>2, <1>3
<1>5. d = Len(RowBytes) => \A r \in Image(v, profile) : r.set < d \/ r.set = d
  BY <1>1, <1>2
<1>6. \A r, e, k : r \in Prefix(v, profile, e, k)
                   <=> r \in Image(v, profile) /\ (r.set < e \/ (r.set = e /\ r.at <= k))
  BY DEF Prefix
<1>7. \A r : r \in Prefix(v, profile, d, Len(RowBytes[d])) <=> r \in Prefix(v, profile, d + 1, 0)
  BY <1>4, <1>6
<1>8. d = Len(RowBytes) => \A r : r \in Prefix(v, profile, d, Len(RowBytes[d])) <=> r \in Image(v, profile)
  BY <1>3, <1>5, <1>6
<1>9. QED
  BY <1>7, <1>8

-----------------------------------------------------------------------------
(* The inductive invariant                                                  *)

Uploaded == {"ingest", "drain", "complete"}
Known    == {"status", "cutover", "verify", "hydrate", "output"}

\* How far a run got, by its program counter.
Position(r) ==
  /\ r.pc \in Ended => r.run = 0
  /\ r.pc \notin Ended => r.run # 0 /\ r.generation # 0
  /\ r.pc # "idle" => r.version \in Versions
  /\ r.token \in {0, r.run} /\ r.expected \in {0, r.run}
  /\ r.token # 0 => r.pc \in {"ingest", "complete", "recover"}
  /\ r.pc \in {"probe", "upload", "drain"} => r.set = 1 /\ r.sent = 0
  /\ r.pc = "ingest" => /\ r.set \in DataSets /\ r.sent \in 0..Len(RowBytes[r.set])
                        /\ r.token = 0 => r.set = 1 /\ r.sent = 0
  /\ r.pc = "complete" => r.token # 0
  /\ r.pc = "output" => ~r.cutover

\* What a run has sent.
Sent(r) ==
  IF r.pc = "complete" THEN Image(r.version, r.profile)
  ELSE Prefix(r.version, r.profile, r.set, r.sent)

\* What a mutation token means: the rows staged under it are those the run sent.
RowsSent(r, s) ==
  (r.pc \in {"ingest", "complete"} /\ r.token # 0 /\ s.token = r.token) => s.rows = Sent(r)

\* A run past the staging holds the profile and the generation that are staged.
Holds(r, s) == s.complete /\ s.profile = r.profile /\ s.generation = r.generation

\* A run, the staging area of its snapshot, and the bundles on the remote.
RunSound(r, s, b) ==
  /\ Position(r)
  /\ RowsSent(r, s)
  /\ r.pc \in Uploaded => r.version \in b
  /\ r.pc \in Known => Holds(r, s)
  /\ r.pc = "recover" => s.complete

\* Runs are numbered, and no two publishers have the same one.
RunsAreNumbered ==
  /\ \A p \in Publishers : pub[p].run <= runs
  /\ \A p, q \in Publishers : p # q /\ pub[p].run = pub[q].run => pub[p].run = 0

\* A complete snapshot is whole, downloadable, and no token opens it.
Whole(v, s, b) ==
  s.complete => /\ s.rows = Image(v, s.profile)
                /\ v \in b /\ s.token = 0 /\ s.generation # 0

PublishInv ==
  /\ TypeOK
  /\ RunsAreNumbered
  /\ \A p \in Publishers : RunSound(pub[p], staged[pub[p].version], bundles)
  /\ \A v \in Versions : Whole(v, staged[v], bundles)

-----------------------------------------------------------------------------
(* How a step disturbs the invariant                                        *)

(* What a run relies on is not lost when a bundle is added.                 *)
LEMMA BundlesStay ==
  ASSUME NEW r, NEW s, NEW v, NEW b, NEW c, b \subseteq c
  PROVE  /\ RunSound(r, s, b) => RunSound(r, s, c)
         /\ Whole(v, s, b) => Whole(v, s, c)
BY DEF RunSound, Whole

(* A publisher moves within its run, or ends it: runs keep their numbers.   *)
LEMMA NumbersStay ==
  ASSUME PublishInv, NEW p \in Publishers, NEW r \in RunState,
         pub' = [pub EXCEPT ![p] = r], runs' = runs, r.run \in {0, pub[p].run}
  PROVE  /\ pub' \in [Publishers -> RunState]
         /\ pub'[p] = r /\ \A q \in Publishers : q # p => pub'[q] = pub[q]
         /\ RunsAreNumbered'
<1>1. pub \in [Publishers -> RunState] /\ runs \in Nat
  BY CloudAssumption DEF PublishInv, TypeOK
<1>2. pub'[p] = r /\ \A q \in Publishers : q # p => pub'[q] = pub[q]
  BY <1>1
<1>3. pub' \in [Publishers -> RunState]
  BY <1>1
<1>4. RunsAreNumbered
  BY DEF PublishInv
<1>5. RunsAreNumbered'
  BY <1>1, <1>2, <1>4 DEF RunsAreNumbered
<1>6. QED
  BY <1>2, <1>3, <1>5

(* A run of no snapshot is at rest, so nothing is asked of its staging.     *)
LEMMA IdleIsSound ==
  ASSUME NEW r, NEW s, NEW t, NEW b, RunSound(r, s, b), r.version \notin Versions
  PROVE  RunSound(r, t, b)
BY DEF RunSound, Position, RowsSent, Uploaded, Known, Ended

(* A publisher moves and no snapshot is staged.                             *)
LEMMA RunMoves ==
  ASSUME PublishInv, NEW p \in Publishers, NEW r \in RunState,
         pub' = [pub EXCEPT ![p] = r], r.run \in {0, pub[p].run},
         RunSound(r, staged[r.version], bundles'),
         bundles \subseteq bundles', bundles' \subseteq Versions,
         UNCHANGED <<archive, contract, staged, runs>>,
         serving' \in [version : 0..MaxVersion, run : 0..MaxRuns],
         faults' \in 0..MaxFaults
  PROVE  PublishInv'
<1>1. /\ pub' \in [Publishers -> RunState]
      /\ pub'[p] = r /\ \A q \in Publishers : q # p => pub'[q] = pub[q]
      /\ RunsAreNumbered'
  BY NumbersStay
<1>2. \A q \in Publishers : RunSound(pub'[q], staged[pub'[q].version], bundles')
  BY <1>1, BundlesStay DEF PublishInv
<1>3. \A v \in Versions : Whole(v, staged[v], bundles')
  BY BundlesStay DEF PublishInv
<1>4. TypeOK'
  BY <1>1 DEF PublishInv, TypeOK
<1>5. QED
  BY <1>1, <1>2, <1>3, <1>4 DEF PublishInv

(* A publisher moves by a request that changes the staging of its snapshot. *)
(* No other run relies on a snapshot that is not complete, and no other run *)
(* has the token that is left there.                                        *)
LEMMA StagingMoves ==
  ASSUME PublishInv, NEW p \in Publishers, NEW r \in RunState, NEW s \in Staging,
         Active(p), ~SnapshotActive(p),
         pub' = [pub EXCEPT ![p] = r], r.run \in {0, pub[p].run},
         r.version = pub[p].version,
         staged' = [staged EXCEPT ![pub[p].version] = s],
         s.token \in {0, pub[p].run},
         RunSound(r, s, bundles), Whole(pub[p].version, s, bundles),
         UNCHANGED <<archive, contract, bundles, serving, runs>>,
         faults' \in 0..MaxFaults
  PROVE  PublishInv'
<1> DEFINE v == pub[p].version
<1>1. /\ pub' \in [Publishers -> RunState]
      /\ pub'[p] = r /\ \A q \in Publishers : q # p => pub'[q] = pub[q]
      /\ RunsAreNumbered'
  BY NumbersStay
<1>2. v \in Versions /\ pub[p].run # 0 /\ staged \in [Versions -> Staging]
  BY DEF PublishInv, TypeOK, RunSound, Position, Active, Ended
<1>3. staged' \in [Versions -> Staging] /\ staged'[v] = s
      /\ \A w \in Versions : w # v => staged'[w] = staged[w]
  BY <1>2
<1>4. ASSUME NEW q \in Publishers PROVE RunSound(pub'[q], staged'[pub'[q].version], bundles)
  <2>1. CASE q = p
    BY <2>1, <1>1, <1>3
  <2>2. CASE q # p /\ pub[q].version = v
    <3>1. RunSound(pub[q], staged[v], bundles) /\ ~staged[v].complete
      BY <2>2 DEF PublishInv, SnapshotActive
    <3>2. pub[q].run # pub[p].run
      BY <2>2, <1>2 DEF PublishInv, RunsAreNumbered
    <3>3. pub[q].token # 0 => pub[q].token # s.token
      BY <3>1, <3>2 DEF RunSound, Position
    <3>4. RunSound(pub[q], s, bundles)
      BY <3>1, <3>3 DEF RunSound, RowsSent, Holds
    <3>5. QED
      BY <3>4, <2>2, <1>1, <1>3
  <2>3. CASE q # p /\ pub[q].version # v
    <3>1. RunSound(pub[q], staged[pub[q].version], bundles)
      BY DEF PublishInv
    <3>2. pub'[q] = pub[q]
      BY <2>3, <1>1
    <3>3. CASE pub[q].version \in Versions
      BY <3>1, <3>2, <3>3, <2>3, <1>3
    <3>4. CASE pub[q].version \notin Versions
      BY <3>1, <3>2, <3>4, IdleIsSound
    <3>5. QED
      BY <3>3, <3>4
  <2>4. QED
    BY <2>1, <2>2, <2>3
<1>5. \A w \in Versions : Whole(w, staged'[w], bundles)
  BY <1>3 DEF PublishInv
<1>6. TypeOK'
  BY <1>1, <1>3 DEF PublishInv, TypeOK
<1>7. QED
  BY <1>1, <1>4, <1>5, <1>6 DEF PublishInv

-----------------------------------------------------------------------------
(* The steps                                                                *)

LEMMA Bounds ==
  /\ Attempts \in Nat \ {0} /\ MaxLag \in Nat
  /\ MaxVersion \in Nat \ {0} /\ MaxRuns \in Nat /\ MaxFaults \in Nat
BY CloudAssumption

LEMMA RunIsTyped ==
  ASSUME NEW pc \in Ended \cup Running, NEW v \in 0..MaxVersion, NEW profile \in Profiles,
         NEW cutover \in BOOLEAN, NEW run \in 0..MaxRuns, NEW disturbed \in BOOLEAN
  PROVE  Run(pc, v, profile, cutover, run, disturbed) \in RunState
BY Bounds DEF Run, RunState

(* A run that failed relies on nothing.                                     *)
LEMMA FailedIsSound ==
  ASSUME NEW r \in RunState, r.version \in Versions, NEW disturbed \in BOOLEAN,
         NEW s, NEW b
  PROVE  /\ Failed(r, disturbed) \in RunState /\ Failed(r, disturbed).run = 0
         /\ Failed(r, disturbed).version = r.version
         /\ RunSound(Failed(r, disturbed), s, b)
<1>1. r.version \in 0..MaxVersion /\ r.profile \in Profiles
  BY DEF RunState
<1>2. Failed(r, disturbed) \in RunState
  <2>1. "failed" \in Ended \cup Running /\ FALSE \in BOOLEAN /\ 0 \in 0..MaxRuns
    BY Bounds DEF Ended
  <2>2. QED
    BY <1>1, <2>1, RunIsTyped DEF Failed
<1>3. QED
  BY <1>2 DEF Failed, Run, RunSound, Position, RowsSent, Ended, Uploaded, Known

LEMMA FailKeeps ==
  ASSUME PublishInv, NEW p \in Publishers, Active(p), NEW disturbed \in BOOLEAN,
         pub' = [pub EXCEPT ![p] = Failed(pub[p], disturbed)],
         UNCHANGED <<archive, contract, remote, runs>>, faults' \in 0..MaxFaults
  PROVE  PublishInv'
<1>1. pub[p] \in RunState /\ pub[p].version \in Versions
  BY DEF PublishInv, TypeOK, RunSound, Position, Active, Ended
<1>2. QED
  BY <1>1, FailedIsSound, RunMoves DEF remote, PublishInv, TypeOK

(* A run that succeeded relies on nothing.                                  *)
LEMMA SucceededIsSound ==
  ASSUME NEW r \in RunState, r.version \in Versions, NEW s, NEW b
  PROVE  /\ Succeeded(r) \in RunState /\ Succeeded(r).run = 0
         /\ RunSound(Succeeded(r), s, b)
<1>1. /\ r.version \in 0..MaxVersion /\ "plain" \in Profiles /\ r.cutover \in BOOLEAN
      /\ r.generation \in 0..MaxRuns
  BY DEF RunState, Profiles
<1>2. Run("done", r.version, "plain", r.cutover, 0, FALSE) \in RunState
  <2>1. "done" \in Ended \cup Running /\ FALSE \in BOOLEAN /\ 0 \in 0..MaxRuns
    BY Bounds DEF Ended
  <2>2. QED
    BY <1>1, <2>1, RunIsTyped
<1>3. Succeeded(r) \in RunState
  BY <1>1, <1>2 DEF Succeeded, RunState
<1>4. QED
  BY <1>3 DEF Succeeded, Run, RunSound, Position, RowsSent, Ended, Uploaded, Known

\* A run once its snapshot is staged under generation g.
StagedRun(r, g) ==
  [Run(IF r.cutover THEN "status" ELSE "output", r.version, r.profile, r.cutover, r.run, r.disturbed)
     EXCEPT !.generation = g]

(* A run adopts a generation that is staged with its profile.               *)
LEMMA StagedRunIsSound ==
  ASSUME NEW r \in RunState, r.version \in Versions, r.run # 0,
         NEW g \in 1..MaxRuns, NEW s, NEW b, s.complete, s.profile = r.profile, s.generation = g
  PROVE  /\ StagedRun(r, g) \in RunState /\ StagedRun(r, g).run = r.run
         /\ StagedRun(r, g).version = r.version /\ RunSound(StagedRun(r, g), s, b)
<1>1. /\ r.version \in 0..MaxVersion /\ r.profile \in Profiles /\ r.cutover \in BOOLEAN
      /\ r.run \in 0..MaxRuns /\ r.disturbed \in BOOLEAN
  BY DEF RunState
<1> DEFINE pc == IF r.cutover THEN "status" ELSE "output"
           q  == StagedRun(r, g)
<1>2. pc \in Ended \cup Running
  BY DEF Running
<1>3. Run(pc, r.version, r.profile, r.cutover, r.run, r.disturbed) \in RunState
  BY <1>1, <1>2, RunIsTyped
<1>4. q \in RunState
  BY <1>3, Bounds DEF RunState, StagedRun
<1>5. /\ q.pc = pc /\ q.version = r.version /\ q.profile = r.profile /\ q.cutover = r.cutover
      /\ q.run = r.run /\ q.generation = g /\ q.token = 0 /\ q.expected = 0
  BY DEF Run, StagedRun
<1>6. q.pc \in {"status", "output"} /\ (q.pc = "output" => ~q.cutover)
  BY <1>1, <1>5
<1> HIDE DEF pc, q
<1>7. QED
  <2>1. q \in RunState /\ q.run = r.run /\ q.version = r.version /\ RunSound(q, s, b)
    BY <1>4, <1>5, <1>6 DEF RunSound, Position, RowsSent, Holds, Ended, Uploaded, Known
  <2>2. QED
    BY <2>1 DEF q

(* A step to another program counter, and nothing else.                     *)
LEMMA GotoKeeps ==
  ASSUME PublishInv, NEW p \in Publishers, NEW pc \in Running, Goto(p, pc),
         RunSound([pub[p] EXCEPT !.pc = pc], staged[pub[p].version], bundles),
         UNCHANGED <<archive, contract, remote, runs, faults>>
  PROVE  PublishInv'
<1> DEFINE r == [pub[p] EXCEPT !.pc = pc]
<1>1. pub \in [Publishers -> RunState]
  BY DEF PublishInv, TypeOK
<1>2. r \in RunState /\ r.run = pub[p].run /\ r.version = pub[p].version
  BY <1>1 DEF RunState
<1>3. pub' = [pub EXCEPT ![p] = r]
  BY <1>1 DEF Goto
<1> HIDE DEF r
<1>4. RunSound(r, staged[r.version], bundles')
  BY <1>2 DEF remote, r
<1>5. QED
  BY <1>2, <1>3, <1>4, RunMoves DEF remote, PublishInv, TypeOK

(* A command is started: nobody has its number.                             *)
LEMMA FreezeKeeps ==
  ASSUME PublishInv, NEW p \in Publishers, NEW profile \in Profiles,
         NEW cutover \in BOOLEAN, NEW allow \in BOOLEAN, Freeze(p, profile, cutover, allow)
  PROVE  PublishInv'
<1> DEFINE alone == \A q \in Publishers : ~Active(q)
           r     == Run("probe", archive, profile, cutover, runs + 1, ~alone)
<1>1. /\ pub \in [Publishers -> RunState] /\ archive \in Versions /\ runs \in Nat
      /\ runs < MaxRuns /\ runs' = runs + 1 /\ ~Active(p)
  BY Bounds DEF PublishInv, TypeOK, Freeze
<1>2. r \in RunState
  <2>1. /\ "probe" \in Ended \cup Running /\ archive \in 0..MaxVersion
        /\ runs + 1 \in 0..MaxRuns /\ (~alone) \in BOOLEAN
    BY <1>1, Bounds DEF Running, Versions
  <2> HIDE DEF alone
  <2>2. QED
    BY <2>1, RunIsTyped
<1>3. /\ pub'[p] = r
      /\ \A q \in Publishers : q # p =>
           pub'[q] = [pub[q] EXCEPT !.disturbed = pub[q].disturbed \/ Active(q)]
      /\ DOMAIN pub' = Publishers /\ pub' = [q \in Publishers |-> pub'[q]]
  BY DEF Freeze, FrozenImage
<1>4. /\ r.pc = "probe" /\ r.version = archive /\ r.run = runs + 1 /\ r.generation = runs + 1
      /\ r.token = 0 /\ r.expected = 0 /\ r.set = 1 /\ r.sent = 0
  BY DEF Run
<1> HIDE DEF r
<1>5. \A q \in Publishers : q # p =>
        /\ pub'[q] \in RunState
        /\ pub'[q].run = pub[q].run
        /\ \A s : RunSound(pub[q], s, bundles) => RunSound(pub'[q], s, bundles)
        /\ pub'[q].version = pub[q].version
  <2>1. SUFFICES ASSUME NEW q \in Publishers, q # p
                 PROVE  /\ pub'[q] \in RunState
                        /\ pub'[q].run = pub[q].run
                        /\ \A s : RunSound(pub[q], s, bundles) => RunSound(pub'[q], s, bundles)
                        /\ pub'[q].version = pub[q].version
    OBVIOUS
  <2> DEFINE d == pub[q].disturbed \/ Active(q)
             u == [pub[q] EXCEPT !.disturbed = d]
  <2>2. pub'[q] = u /\ pub[q] \in RunState /\ d \in BOOLEAN
    BY <2>1, <1>1, <1>3
  <2> HIDE DEF d
  <2>3. /\ u \in RunState
        /\ u.pc = pub[q].pc /\ u.version = pub[q].version /\ u.run = pub[q].run
        /\ u.set = pub[q].set /\ u.sent = pub[q].sent /\ u.token = pub[q].token
        /\ u.profile = pub[q].profile /\ u.generation = pub[q].generation
        /\ u.expected = pub[q].expected /\ u.cutover = pub[q].cutover
    BY <2>2 DEF RunState
  <2>4. QED
    BY <2>2, <2>3 DEF RunSound, Position, RowsSent, Sent, Holds
<1>6. RunSound(r, staged[r.version], bundles)
  BY <1>1, <1>4, Bounds DEF RunSound, Position, RowsSent, Ended, Uploaded, Known
<1>7. pub' \in [Publishers -> RunState]
  BY <1>2, <1>3, <1>5
<1>8. RunsAreNumbered'
  <2>1. \A q \in Publishers : pub[q].run <= runs /\ pub[q].run \in Nat
    BY <1>1 DEF PublishInv, RunsAreNumbered, RunState
  <2>2. QED
    BY <2>1, <1>1, <1>3, <1>4, <1>5 DEF PublishInv, RunsAreNumbered
<1>9. \A q \in Publishers : RunSound(pub'[q], staged[pub'[q].version], bundles)
  BY <1>3, <1>5, <1>6 DEF PublishInv
<1>10. UNCHANGED <<archive, contract, staged, bundles, serving, faults>>
  BY DEF Freeze, remote
<1>11. runs' \in 0..MaxRuns
  BY <1>1, Bounds
<1>12. TypeOK'
  BY <1>7, <1>10, <1>11 DEF PublishInv, TypeOK
<1>13. QED
  BY <1>8, <1>9, <1>10, <1>12 DEF PublishInv

(* A run takes over what is staged for it.                                  *)
LEMMA AdoptKeeps ==
  ASSUME PublishInv, NEW p \in Publishers, Active(p), PublisherStatusMatches(p),
         AdoptGeneration(p), UNCHANGED <<archive, contract, remote, runs, faults>>
  PROVE  PublishInv'
<1> DEFINE s == staged[pub[p].version]
           r == StagedRun(pub[p], s.generation)
<1>1. /\ pub[p] \in RunState /\ pub[p].version \in Versions /\ pub[p].run # 0
      /\ s \in Staging /\ s.complete /\ s.profile = pub[p].profile
  <2>1. pub[p] \in RunState /\ pub[p].version \in Versions /\ pub[p].run # 0
    BY DEF PublishInv, TypeOK, RunSound, Position, Active, Ended
  <2>2. QED
    BY <2>1 DEF PublishInv, TypeOK, PublisherStatusMatches
<1>2. s.generation \in 1..MaxRuns
  BY <1>1, Bounds DEF PublishInv, Whole, Staging
<1>3. r \in RunState /\ r.run = pub[p].run /\ r.version = pub[p].version
      /\ RunSound(r, s, bundles)
  BY <1>1, <1>2, StagedRunIsSound
<1>4. pub' = [pub EXCEPT ![p] = r]
  BY DEF AdoptGeneration, StagedAs, StagedRun
<1> HIDE DEF r
<1>5. QED
  BY <1>3, <1>4, RunMoves DEF remote, PublishInv, TypeOK

LEMMA ProbeKeeps ==
  ASSUME PublishInv, NEW p \in Publishers, Probe(p) PROVE PublishInv'
<1>1. Active(p) /\ pub[p].pc = "probe"
  BY DEF Probe, Active, Ended
<1>2. CASE PublisherStatusMatches(p)
  BY <1>1, <1>2, AdoptKeeps DEF Probe
<1>3. CASE ~PublisherStatusMatches(p)
  <2>1. pub[p] \in RunState
    BY DEF PublishInv, TypeOK
  <2>2. RunSound([pub[p] EXCEPT !.pc = "upload"], staged[pub[p].version], bundles)
    BY <1>1, <2>1 DEF PublishInv, RunSound, Position, RowsSent, Ended, Uploaded, Known, RunState
  <2>3. QED
    BY <1>3, <2>2, GotoKeeps DEF Probe, Running
<1>4. QED
  BY <1>2, <1>3

LEMMA UploadKeeps ==
  ASSUME PublishInv, NEW p \in Publishers, Upload(p) PROVE PublishInv'
<1> DEFINE r == [pub[p] EXCEPT !.pc = "ingest"]
<1>1. pub \in [Publishers -> RunState] /\ pub[p].version \in Versions
  BY DEF PublishInv, TypeOK, RunSound, Position, Upload
<1>2. r \in RunState /\ r.run = pub[p].run /\ r.version = pub[p].version
  BY <1>1 DEF RunState, Running
<1>3. pub' = [pub EXCEPT ![p] = r]
  BY <1>1 DEF Goto, Upload
<1>4. RunSound(r, staged[r.version], bundles')
  <2>1. RunSound(pub[p], staged[pub[p].version], bundles) /\ pub[p].pc = "upload"
    BY DEF Upload, PublishInv
  <2>2. 1 \in DataSets /\ 0 \in 0..Len(RowBytes[1])
    BY DataSetsAreNumbered
  <2>3. /\ r.pc = "ingest" /\ r.version = pub[p].version /\ r.run = pub[p].run
        /\ r.set = pub[p].set /\ r.sent = pub[p].sent /\ r.token = pub[p].token
        /\ r.generation = pub[p].generation /\ r.expected = pub[p].expected
    BY <1>1 DEF RunState
  <2>4. r.version \in bundles'
    BY <2>3 DEF Upload
  <2> HIDE DEF r
  <2>5. QED
    BY <2>1, <2>2, <2>3, <2>4, <1>1 DEF RunSound, Position, RowsSent, Ended, Uploaded, Known
<1>5. bundles \subseteq bundles' /\ bundles' \subseteq Versions
  BY <1>1 DEF Upload, PublishInv, TypeOK
<1> HIDE DEF r
<1>6. QED
  BY <1>2, <1>3, <1>4, <1>5, RunMoves DEF Upload, PublishInv, TypeOK

LEMMA RefusedKeeps ==
  ASSUME PublishInv, NEW p \in Publishers, Refused(p) PROVE PublishInv'
<1>1. pub[p] \in RunState /\ Active(p)
  BY DEF PublishInv, TypeOK, Refused, Active, Ended
<1>2. CASE SnapshotActive(p)
  <2>1. RunSound([pub[p] EXCEPT !.pc = "recover"], staged[pub[p].version], bundles)
    BY <1>1, <1>2 DEF PublishInv, RunSound, Position, RowsSent, SnapshotActive, Ended, Uploaded, Known, RunState, Refused
  <2>2. QED
    BY <1>2, <2>1, GotoKeeps DEF Refused, Running
<1>3. CASE ~SnapshotActive(p)
  <2>1. pub' = [pub EXCEPT ![p] = Failed(pub[p], pub[p].disturbed)]
    BY <1>3 DEF Refused, Fail
  <2>2. pub[p].disturbed \in BOOLEAN /\ faults' \in 0..MaxFaults
    BY <1>1 DEF RunState, Refused, PublishInv, TypeOK
  <2>3. QED
    BY <1>1, <2>1, <2>2, FailKeeps DEF Refused
<1>4. QED
  BY <1>2, <1>3

LEMMA MeetResetKeeps ==
  ASSUME PublishInv, NEW p \in Publishers, MeetReset(p) PROVE PublishInv'
<1> DEFINE v == pub[p].version
           r == [pub[p] EXCEPT !.pc = "drain"]
           s == [staged[v] EXCEPT !.token = 0]
<1>1. /\ pub \in [Publishers -> RunState] /\ Active(p) /\ pub[p].pc = "ingest"
      /\ v \in Versions /\ staged \in [Versions -> Staging] /\ ~staged[v].complete
      /\ RunSound(pub[p], staged[v], bundles) /\ pub[p].token = 0
  BY DEF PublishInv, TypeOK, RunSound, Position, MeetReset, Active, Ended, Admitted,
         SnapshotActive, ResetNeeded
<1>2. /\ r \in RunState /\ r.run = pub[p].run /\ r.version = v /\ r.pc = "drain"
      /\ r.token = 0 /\ r.set = pub[p].set /\ r.sent = pub[p].sent
      /\ r.expected = pub[p].expected /\ r.generation = pub[p].generation
  BY <1>1 DEF RunState, Running
<1>3. s \in Staging /\ s.token = 0 /\ ~s.complete
  BY <1>1, Bounds DEF Staging
<1>4. pub' = [pub EXCEPT ![p] = r] /\ staged' = [staged EXCEPT ![v] = s]
  BY <1>1 DEF MeetReset, Goto
<1> HIDE DEF r, s
<1>5. RunSound(r, s, bundles)
  BY <1>1, <1>2, <1>3 DEF RunSound, Position, RowsSent, Ended, Uploaded, Known
<1>6. Whole(v, s, bundles)
  BY <1>3 DEF Whole
<1>7. QED
  BY <1>1, <1>2, <1>3, <1>4, <1>5, <1>6, StagingMoves
     DEF MeetReset, PublishInv, TypeOK, SnapshotActive

\* A staging area with other rows and another token.
Restaged(s, token, rows) == [s EXCEPT !.token = token, !.rows = rows]

LEMMA StagingFields ==
  ASSUME NEW s \in Staging, NEW rows \in SUBSET Row, NEW token \in 0..MaxRuns
  PROVE  /\ Restaged(s, token, rows) \in Staging
         /\ Restaged(s, token, rows).rows = rows /\ Restaged(s, token, rows).token = token
         /\ Restaged(s, token, rows).complete = s.complete
BY DEF Staging, Restaged

LEMMA DrainKeeps ==
  ASSUME PublishInv, NEW p \in Publishers, Drain(p) PROVE PublishInv'
<1> DEFINE v == pub[p].version
<1>1. /\ pub \in [Publishers -> RunState] /\ Active(p) /\ pub[p].pc = "drain"
      /\ v \in Versions /\ staged \in [Versions -> Staging] /\ ~staged[v].complete
      /\ RunSound(pub[p], staged[v], bundles) /\ pub[p].token = 0
  BY DEF PublishInv, TypeOK, RunSound, Position, Drain, Active, Ended, Admitted, SnapshotActive
<1>2. CASE staged[v].rows = {}
  <2>1. 1 \in DataSets /\ 0 \in 0..Len(RowBytes[1])
    BY DataSetsAreNumbered
  <2>2. RunSound([pub[p] EXCEPT !.pc = "ingest"], staged[v], bundles)
    BY <1>1, <2>1 DEF RunSound, Position, RowsSent, Ended, Uploaded, Known, RunState
  <2>3. QED
    BY <1>2, <2>2, GotoKeeps DEF Drain, Running, remote
<1>3. CASE staged[v].rows # {}
  <2>1. PICK d \in DataSets :
          staged' = [staged EXCEPT ![v].token = 0, ![v].rows = {r \in @ : r.set # d}]
    BY <1>3 DEF Drain
  <2> DEFINE rows == {r \in staged[v].rows : r.set # d}
             s    == Restaged(staged[v], 0, rows)
  <2>2. rows \in SUBSET Row
    BY <1>1 DEF Staging
  <2>3. staged' = [staged EXCEPT ![v] = s]
    BY <1>1, <2>1 DEF Restaged
  <2> HIDE DEF rows
  <2>4. s \in Staging /\ s.token = 0 /\ ~s.complete
    <3>1. staged[v] \in Staging /\ ~staged[v].complete
      BY <1>1
    <3> HIDE DEF v
    <3>2. QED
      BY <3>1, <2>2, Bounds, StagingFields
  <2>5. pub' = [pub EXCEPT ![p] = pub[p]] /\ pub[p] \in RunState
    BY <1>1, <1>3 DEF Drain
  <2> HIDE DEF s
  <2>6. RunSound(pub[p], s, bundles) /\ Whole(v, s, bundles)
    BY <1>1, <2>4 DEF RunSound, RowsSent, Known, Whole
  <2>7. QED
    BY <1>1, <2>3, <2>4, <2>5, <2>6, StagingMoves DEF Drain, PublishInv, TypeOK, SnapshotActive
<1>4. QED
  BY <1>2, <1>3

(* A request is accepted: the rows of the image so far are there, and after *)
(* it those of the next batch.                                              *)
LEMMA AcceptedRows ==
  ASSUME PublishInv, NEW p \in Publishers, pub[p].pc = "ingest",
         Admitted(p), ~ResetNeeded(p)
  PROVE  staged[pub[p].version].rows
           = Prefix(pub[p].version, pub[p].profile, pub[p].set, pub[p].sent)
<1> DEFINE s == staged[pub[p].version]
<1>1. RunSound(pub[p], s, bundles)
  BY DEF PublishInv
<1>2. CASE pub[p].token = 0
  BY <1>1, <1>2, NothingSent DEF ResetNeeded, RunSound, Position
<1>3. CASE pub[p].token # 0
  BY <1>1, <1>3 DEF Admitted, TokenRefused, RunSound, RowsSent, Sent
<1>4. QED
  BY <1>2, <1>3

LEMMA BatchMoves ==
  ASSUME PublishInv, NEW p \in Publishers, pub[p].pc = "ingest",
         NEW rows, rows = Prefix(pub[p].version, pub[p].profile, pub[p].set,
                                 pub[p].sent + BatchSize(pub[p].set, pub[p].sent))
  PROVE  LET r == AfterBatch(p)
         IN /\ r \in RunState /\ r.run = pub[p].run /\ r.version = pub[p].version
            /\ r.token = pub[p].run /\ r.pc \in {"ingest", "complete"}
            /\ rows = Sent(r)
            /\ Position(r)
<1> DEFINE run  == [pub[p] EXCEPT !.token = pub[p].run]
           d    == pub[p].set
           sent == pub[p].sent + BatchSize(d, pub[p].sent)
           r    == AfterBatch(p)
<1>1. pub[p] \in RunState /\ Position(pub[p])
  BY DEF PublishInv, TypeOK, RunSound
<1>2. d \in DataSets /\ pub[p].sent \in 0..Len(RowBytes[d])
  BY <1>1 DEF Position
<1>3. sent \in 0..Len(RowBytes[d]) /\ Len(RowBytes[d]) \in Nat
  <2>1. BatchSize(d, pub[p].sent) \in Nat /\ pub[p].sent + BatchSize(d, pub[p].sent) <= Len(RowBytes[d])
    BY <1>2, BatchFits
  <2>2. Len(RowBytes[d]) \in Nat
    BY <1>2, DataSetsAreNumbered
  <2>3. QED
    BY <1>2, <2>1, <2>2
<1>4. d \in Nat /\ d + 1 \in Nat /\ d <= Len(RowBytes) /\ Len(RowBytes) \in Nat
      /\ (d < Len(RowBytes) => d + 1 \in DataSets)
  BY <1>2, DataSetsAreNumbered
<1>5. run \in RunState /\ run.set = d /\ run.sent = pub[p].sent /\ pub[p].pc = "ingest"
  BY <1>1 DEF RunState
<1>6. r = IF sent < Len(RowBytes[d]) THEN [run EXCEPT !.sent = sent]
          ELSE IF d < Len(RowBytes) THEN [run EXCEPT !.set = d + 1, !.sent = 0]
          ELSE [run EXCEPT !.pc = "complete", !.sent = 0]
  BY <1>5 DEF AfterBatch
<1> HIDE DEF sent, r
<1>7. /\ r \in RunState /\ r.run = pub[p].run /\ r.version = pub[p].version
      /\ r.token = pub[p].run /\ r.pc \in {"ingest", "complete"}
      /\ r.profile = pub[p].profile /\ r.expected = pub[p].expected
      /\ r.generation = pub[p].generation
  <2>1. CASE sent < Len(RowBytes[d])
    <3>1. sent \in Nat
      BY <1>3
    <3>2. run \in RunState /\ run.pc = "ingest" /\ run.run = pub[p].run
          /\ run.version = pub[p].version /\ run.token = pub[p].run
          /\ run.profile = pub[p].profile /\ run.expected = pub[p].expected
          /\ run.generation = pub[p].generation
      BY <1>1, <1>5 DEF RunState
    <3>3. r = [run EXCEPT !.sent = sent]
      BY <1>6, <2>1
    <3> HIDE DEF run, d
    <3>4. QED
      BY <3>1, <3>2, <3>3 DEF RunState
  <2>2. CASE ~(sent < Len(RowBytes[d])) /\ d < Len(RowBytes)
    BY <1>1, <1>4, <1>5, <1>6, <2>2 DEF RunState
  <2>3. CASE ~(sent < Len(RowBytes[d])) /\ ~(d < Len(RowBytes))
    <3>1. "complete" \in Running
      BY DEF Running
    <3>2. QED
      BY <1>1, <1>5, <1>6, <2>3, <3>1 DEF RunState
  <2>4. QED
    BY <2>1, <2>2, <2>3
<1>8. CASE sent < Len(RowBytes[d])
  <2>1. r.pc = "ingest" /\ r.set = d /\ r.sent = sent
    BY <1>1, <1>6, <1>8 DEF RunState
  <2>2. rows = Sent(r)
    BY <1>7, <2>1 DEF Sent, sent
  <2>3. Position(r)
    BY <1>1, <1>2, <1>3, <1>7, <2>1 DEF Position, Ended
  <2>4. QED
    BY <1>7, <2>2, <2>3 DEF r
<1>9. CASE sent = Len(RowBytes[d]) /\ d < Len(RowBytes)
  <2>1. r.pc = "ingest" /\ r.set = d + 1 /\ r.sent = 0
    BY SMTT(30), <1>1, <1>6, <1>9, <1>3, <1>4 DEF RunState
  <2>2. rows = Sent(r)
    BY <1>2, <1>7, <1>9, <2>1, WholeSet DEF Sent, sent
  <2>3. Position(r)
    BY <1>1, <1>4, <1>9, <1>7, <2>1, DataSetsAreNumbered DEF Position, Ended
  <2>4. QED
    BY <1>7, <2>2, <2>3 DEF r
<1>10. CASE sent = Len(RowBytes[d]) /\ d = Len(RowBytes)
  <2>1. r.pc = "complete"
    BY <1>1, <1>6, <1>10, <1>3, <1>4 DEF RunState
  <2>2. rows = Sent(r)
    BY ZenonT(60), <1>2, <1>7, <1>10, <2>1, WholeSet DEF Sent, sent
  <2>3. Position(r)
    BY <1>1, <1>7, <2>1 DEF Position, Ended
  <2>4. QED
    BY <1>7, <2>2, <2>3 DEF r
<1>11. QED
  BY <1>3, <1>4, <1>8, <1>9, <1>10

LEMMA IngestKeeps ==
  ASSUME PublishInv, NEW p \in Publishers, Ingest(p) PROVE PublishInv'
<1> DEFINE v     == pub[p].version
           d     == pub[p].set
           batch == Batch(v, d, pub[p].sent, pub[p].profile)
           rows  == staged[v].rows \cup batch
           s     == Restaged(staged[v], pub[p].run, rows)
           r     == AfterBatch(p)
<1>1. /\ pub \in [Publishers -> RunState] /\ Active(p) /\ pub[p].pc = "ingest"
      /\ v \in Versions /\ staged \in [Versions -> Staging] /\ ~staged[v].complete
      /\ Admitted(p) /\ ~ResetNeeded(p)
  BY DEF PublishInv, TypeOK, RunSound, Position, Ingest, Active, Ended, Admitted, SnapshotActive
<1>2. /\ RunSound(pub[p], staged[v], bundles) /\ staged[v] \in Staging /\ pub[p] \in RunState
      /\ pub[p].run \in 0..MaxRuns /\ pub[p].profile \in Profiles
  BY <1>1 DEF PublishInv, RunState
<1>3. d \in DataSets /\ pub[p].sent \in 0..Len(RowBytes[d]) /\ v \in bundles
  BY <1>1, <1>2 DEF RunSound, Position, Uploaded
<1>4. batch \subseteq Row /\ rows = Prefix(v, pub[p].profile, d, pub[p].sent + BatchSize(d, pub[p].sent))
  <2>1. staged[v].rows = Prefix(v, pub[p].profile, d, pub[p].sent)
    BY <1>1, AcceptedRows
  <2>2. QED
    BY <2>1, <1>1, <1>2, <1>3, BatchExtendsPrefix
<1>5. rows \in SUBSET Row
  BY <1>2, <1>4 DEF Staging
<1>6. pub' = [pub EXCEPT ![p] = r] /\ staged' = [staged EXCEPT ![v] = s]
  BY <1>1 DEF Ingest, ExportSource, Restaged
<1> HIDE DEF batch
<1>7. /\ r \in RunState /\ r.run = pub[p].run /\ r.version = v
      /\ r.token = pub[p].run /\ r.pc \in {"ingest", "complete"}
      /\ rows = Sent(r) /\ Position(r)
  BY <1>1, <1>4, BatchMoves
<1> HIDE DEF rows
<1>8. /\ s \in Staging /\ s.token = pub[p].run /\ s.rows = rows /\ ~s.complete
  BY <1>1, <1>2, <1>5, StagingFields
<1> HIDE DEF r, s
<1>9. RunSound(r, s, bundles)
  BY <1>3, <1>7, <1>8 DEF RunSound, RowsSent, Uploaded, Known
<1>10. Whole(v, s, bundles)
  BY <1>8 DEF Whole
<1>11. QED
  BY <1>1, <1>6, <1>7, <1>8, <1>9, <1>10, StagingMoves DEF Ingest, PublishInv, TypeOK, SnapshotActive

LEMMA RejectRowsKeeps ==
  ASSUME PublishInv, NEW p \in Publishers, RejectRows(p) PROVE PublishInv'
<1> DEFINE v == pub[p].version
           s == Restaged(staged[v], pub[p].run, staged[v].rows)
           r == Failed(pub[p], TRUE)
<1>1. /\ pub \in [Publishers -> RunState] /\ Active(p)
      /\ v \in Versions /\ staged \in [Versions -> Staging] /\ ~staged[v].complete
      /\ faults' \in 0..MaxFaults
  BY Bounds DEF PublishInv, TypeOK, RunSound, Position, RejectRows, Active, Ended, Admitted, SnapshotActive
<1>2. staged[v] \in Staging /\ pub[p] \in RunState /\ pub[p].run \in 0..MaxRuns
      /\ staged[v].rows \in SUBSET Row
  BY <1>1 DEF RunState, Staging
<1>3. pub' = [pub EXCEPT ![p] = r] /\ staged' = [staged EXCEPT ![v] = s]
  BY <1>1, <1>2 DEF RejectRows, Restaged, Disrupt, Staging
<1>4. s \in Staging /\ s.token = pub[p].run /\ ~s.complete
  BY <1>1, <1>2, StagingFields
<1>5. r \in RunState /\ r.run = 0 /\ r.version = v /\ RunSound(r, s, bundles)
  BY <1>1, <1>2, FailedIsSound
<1> HIDE DEF r, s
<1>6. Whole(v, s, bundles)
  BY <1>4 DEF Whole
<1>7. QED
  BY <1>1, <1>3, <1>4, <1>5, <1>6, StagingMoves DEF RejectRows, SnapshotActive

(* The snapshot that is completed holds the image of its digest.            *)
LEMMA CompletedIsWhole ==
  ASSUME PublishInv, NEW p \in Publishers, Complete(p)
  PROVE  /\ staged[pub[p].version].rows = Image(pub[p].version, pub[p].profile)
         /\ pub[p].version \in bundles /\ pub[p].generation \in 1..MaxRuns
<1>1. /\ RunSound(pub[p], staged[pub[p].version], bundles) /\ pub[p].pc = "complete"
      /\ Admitted(p) /\ pub[p] \in RunState
  BY DEF PublishInv, TypeOK, Complete
<1>2. pub[p].token # 0 /\ staged[pub[p].version].token = pub[p].token /\ pub[p].generation # 0
  BY <1>1 DEF RunSound, Position, Admitted, TokenRefused, Ended
<1>3. QED
  BY <1>1, <1>2, Bounds DEF RunSound, RowsSent, Sent, Uploaded, RunState

\* A staging area completed under a profile and a generation.
Completed(s, profile, g) ==
  [s EXCEPT !.complete = TRUE, !.token = 0, !.profile = profile, !.generation = g]

LEMMA CompletedFields ==
  ASSUME NEW s \in Staging, NEW profile \in Profiles, NEW g \in 1..MaxRuns
  PROVE  LET u == Completed(s, profile, g)
         IN /\ u \in Staging /\ u.token = 0 /\ u.complete /\ u.profile = profile
            /\ u.generation = g /\ u.rows = s.rows
<1>1. Completed(s, profile, g).rows = s.rows
  BY DEF Staging, Completed
<1>2. LET u == Completed(s, profile, g)
      IN /\ u.token = 0 /\ u.complete /\ u.profile = profile
         /\ u.generation = g
  BY DEF Staging, Completed
<1>3. Completed(s, profile, g) \in Staging
  <2>1. 0 \in 0..MaxRuns /\ g \in 0..MaxRuns
    BY Bounds
  <2> DEFINE a == [s EXCEPT !.complete = TRUE, !.token = 0]
  <2>2. a \in Staging
    BY <2>1 DEF Staging
  <2>3. Completed(s, profile, g) = [a EXCEPT !.profile = profile, !.generation = g]
    BY DEF Completed, Staging
  <2> HIDE DEF a
  <2>4. QED
    BY <2>1, <2>2, <2>3 DEF Staging
<1>4. QED
  BY <1>1, <1>2, <1>3

LEMMA CompleteKeeps ==
  ASSUME PublishInv, NEW p \in Publishers, Complete(p) PROVE PublishInv'
<1> DEFINE v == pub[p].version
           s == Completed(staged[v], pub[p].profile, pub[p].generation)
           r == StagedRun(pub[p], pub[p].generation)
<1>1. /\ pub \in [Publishers -> RunState] /\ Active(p)
      /\ v \in Versions /\ staged \in [Versions -> Staging] /\ ~staged[v].complete
      /\ pub[p].run # 0
  BY DEF PublishInv, TypeOK, RunSound, Position, Complete, Active, Ended, Admitted, SnapshotActive
<1>2. staged[v] \in Staging /\ pub[p] \in RunState /\ pub[p].profile \in Profiles
  BY <1>1 DEF RunState
<1>3. /\ staged[v].rows = Image(v, pub[p].profile)
      /\ v \in bundles /\ pub[p].generation \in 1..MaxRuns
  BY CompletedIsWhole
<1>4. /\ s \in Staging /\ s.token = 0 /\ s.complete /\ s.profile = pub[p].profile
      /\ s.generation = pub[p].generation /\ s.rows = staged[v].rows
  BY <1>2, <1>3, CompletedFields
<1>5. pub' = [pub EXCEPT ![p] = r] /\ staged' = [staged EXCEPT ![v] = s]
  BY <1>1 DEF Complete, StagedAs, StagedRun, Completed
<1> HIDE DEF s
<1>6. r \in RunState /\ r.run = pub[p].run /\ r.version = v /\ RunSound(r, s, bundles)
  BY <1>1, <1>2, <1>3, <1>4, StagedRunIsSound
<1> HIDE DEF r
<1>7. Whole(v, s, bundles)
  BY <1>3, <1>4, Bounds DEF Whole
<1>8. QED
  BY <1>1, <1>4, <1>5, <1>6, <1>7, StagingMoves DEF Complete, PublishInv, TypeOK, SnapshotActive

LEMMA RecoverKeeps ==
  ASSUME PublishInv, NEW p \in Publishers, Recover(p) PROVE PublishInv'
<1>1. Active(p) /\ pub[p] \in RunState /\ pub[p].disturbed \in BOOLEAN /\ faults' \in 0..MaxFaults
  BY DEF Recover, Active, Ended, PublishInv, TypeOK, RunState
<1>2. CASE PublisherStatusMatches(p)
  BY <1>1, <1>2, AdoptKeeps DEF Recover
<1>3. CASE ~PublisherStatusMatches(p)
  BY <1>1, <1>3, FailKeeps DEF Recover, Fail
<1>4. QED
  BY <1>2, <1>3

LEMMA ReadStatusKeeps ==
  ASSUME PublishInv, NEW p \in Publishers, ReadStatus(p) PROVE PublishInv'
<1>1. /\ pub \in [Publishers -> RunState] /\ pub[p] \in RunState /\ pub[p].pc = "status"
      /\ RunSound(pub[p], staged[pub[p].version], bundles)
  BY DEF PublishInv, TypeOK, ReadStatus
<1>2. CASE Goto(p, "verify")
  <2>1. RunSound([pub[p] EXCEPT !.pc = "verify"], staged[pub[p].version], bundles)
    BY <1>1 DEF RunSound, Position, RowsSent, Holds, Ended, Uploaded, Known, RunState
  <2>2. QED
    BY <1>2, <2>1, GotoKeeps DEF ReadStatus, Running
<1>3. CASE /\ ReaderStatusMatches(p) => pub[p].lag < MaxLag
           /\ pub' = [pub EXCEPT ![p].pc = "cutover",
                        ![p].lag = @ + (IF ReaderStatusMatches(p) THEN 1 ELSE 0)]
  <2> DEFINE lag == pub[p].lag + (IF ReaderStatusMatches(p) THEN 1 ELSE 0)
             r   == [pub[p] EXCEPT !.pc = "cutover", !.lag = lag]
  <2>1. lag \in 0..MaxLag
    BY <1>1, <1>3, Bounds DEF RunState
  <2>2. pub' = [pub EXCEPT ![p] = r]
    BY <1>1, <1>3
  <2> HIDE DEF lag
  <2>3. r \in RunState
    BY <1>1, <2>1 DEF RunState, Running
  <2>4. r.run = pub[p].run /\ r.version = pub[p].version
        /\ RunSound(r, staged[pub[p].version], bundles)
    BY <1>1 DEF RunSound, Position, RowsSent, Holds, Ended, Uploaded, Known, RunState
  <2> HIDE DEF r
  <2>5. QED
    BY <2>2, <2>3, <2>4, RunMoves DEF ReadStatus, remote, PublishInv, TypeOK
<1>4. QED
  BY <1>2, <1>3 DEF ReadStatus

LEMMA CutOverKeeps ==
  ASSUME PublishInv, NEW p \in Publishers, CutOver(p) PROVE PublishInv'
<1> DEFINE r == [pub[p] EXCEPT !.pc = "verify", !.expected = pub[p].run]
<1>1. /\ pub \in [Publishers -> RunState] /\ pub[p] \in RunState /\ pub[p].pc = "cutover"
      /\ RunSound(pub[p], staged[pub[p].version], bundles)
  BY DEF PublishInv, TypeOK, CutOver
<1>2. pub' = [pub EXCEPT ![p] = r]
  BY <1>1 DEF CutOver
<1>3. r \in RunState /\ r.run = pub[p].run /\ r.version = pub[p].version
  BY <1>1 DEF RunState, Running
<1>4. RunSound(r, staged[pub[p].version], bundles)
  BY <1>1 DEF RunSound, Position, RowsSent, Holds, Ended, Uploaded, Known, RunState
<1>5. serving' \in [version : 0..MaxVersion, run : 0..MaxRuns]
  BY <1>1 DEF CutOver, RunState
<1> HIDE DEF r
<1>6. QED
  BY <1>2, <1>3, <1>4, <1>5, RunMoves DEF CutOver, PublishInv, TypeOK

LEMMA VerifyReaderKeeps ==
  ASSUME PublishInv, NEW p \in Publishers, VerifyReader(p) PROVE PublishInv'
<1>1. /\ pub \in [Publishers -> RunState] /\ pub[p] \in RunState /\ pub[p].pc = "verify"
      /\ RunSound(pub[p], staged[pub[p].version], bundles)
      /\ Active(p) /\ pub[p].disturbed \in BOOLEAN
  BY DEF PublishInv, TypeOK, VerifyReader, Active, Ended, RunState
<1>2. CASE Goto(p, "hydrate")
  <2>1. RunSound([pub[p] EXCEPT !.pc = "hydrate"], staged[pub[p].version], bundles)
    BY <1>1 DEF RunSound, Position, RowsSent, Holds, Ended, Uploaded, Known, RunState
  <2>2. QED
    BY <1>2, <2>1, GotoKeeps DEF VerifyReader, Running
<1>3. CASE /\ ReaderStatusMatches(p) => pub[p].lag < MaxLag
           /\ AttemptsLeft(p)
           /\ pub' = [pub EXCEPT ![p].tries = @ + 1,
                        ![p].lag = @ + (IF ReaderStatusMatches(p) THEN 1 ELSE 0)]
  <2> DEFINE lag == pub[p].lag + (IF ReaderStatusMatches(p) THEN 1 ELSE 0)
             r   == [pub[p] EXCEPT !.tries = pub[p].tries + 1, !.lag = lag]
  <2>1. lag \in 0..MaxLag /\ pub[p].tries + 1 \in 0..Attempts - 1
    BY <1>1, <1>3, Bounds DEF RunState, AttemptsLeft
  <2>2. pub' = [pub EXCEPT ![p] = r]
    BY <1>1, <1>3
  <2> HIDE DEF lag
  <2>3. r \in RunState
    BY <1>1, <2>1 DEF RunState
  <2>4. r.run = pub[p].run /\ r.version = pub[p].version
        /\ RunSound(r, staged[pub[p].version], bundles)
    BY <1>1 DEF RunSound, Position, RowsSent, Holds, Ended, Uploaded, Known, RunState
  <2> HIDE DEF r
  <2>5. QED
    BY <2>2, <2>3, <2>4, RunMoves DEF VerifyReader, remote, PublishInv, TypeOK
<1>4. CASE Fail(p)
  BY <1>1, <1>4, FailKeeps DEF VerifyReader, Fail, PublishInv, TypeOK
<1>5. QED
  BY <1>2, <1>3, <1>4 DEF VerifyReader

(* A command that succeeds.                                                 *)
LEMMA SuccessKeeps ==
  ASSUME PublishInv, NEW p \in Publishers, Active(p), pub' = [pub EXCEPT ![p] = Succeeded(pub[p])],
         UNCHANGED <<archive, contract, remote, runs, faults>>
  PROVE  PublishInv'
<1>1. pub[p] \in RunState /\ pub[p].version \in Versions
  BY DEF PublishInv, TypeOK, RunSound, Position, Active, Ended
<1>2. QED
  BY <1>1, SucceededIsSound, RunMoves DEF remote, PublishInv, TypeOK

LEMMA HydrateKeeps ==
  ASSUME PublishInv, NEW p \in Publishers, Hydrate(p) PROVE PublishInv'
<1>1. /\ Active(p) /\ pub[p] \in RunState /\ pub[p].disturbed \in BOOLEAN
      /\ faults' \in 0..MaxFaults
  BY DEF Hydrate, Active, Ended, PublishInv, TypeOK, RunState
<1>2. CASE Hydrated(p)
  BY <1>1, <1>2, SuccessKeeps DEF Hydrate
<1>3. CASE ~Hydrated(p)
  BY <1>1, <1>3, FailKeeps DEF Hydrate
<1>4. QED
  BY <1>2, <1>3

LEMMA PublishStep ==
  ASSUME PublishInv, [Next]_vars PROVE PublishInv'
<1>1. CASE UNCHANGED vars
  BY <1>1 DEF vars, PublishInv, TypeOK, RunsAreNumbered
<1>2. CASE Sync
  BY <1>2, Bounds DEF Sync, remote, PublishInv, TypeOK, RunsAreNumbered, Versions
<1>3. ASSUME NEW p \in Publishers, NEW profile \in Profiles, NEW cutover \in BOOLEAN,
             NEW allow \in BOOLEAN, Freeze(p, profile, cutover, allow)
      PROVE  PublishInv'
  BY <1>3, FreezeKeeps
<1>4. ASSUME NEW p \in Publishers, Step(p) PROVE PublishInv'
  <2>1. CASE Output(p)
    BY <2>1, SuccessKeeps DEF Output, Active, Ended
  <2>2. QED
    BY <1>4, <2>1, ProbeKeeps, UploadKeeps, RefusedKeeps, MeetResetKeeps, DrainKeeps,
       IngestKeeps, CompleteKeeps, RecoverKeeps, ReadStatusKeeps, CutOverKeeps,
       VerifyReaderKeeps, HydrateKeeps DEF Step
<1>5. ASSUME NEW p \in Publishers, Stop(p) PROVE PublishInv'
  <2>1. faults' \in 0..MaxFaults
    BY <1>5, Bounds DEF Stop, PublishInv, TypeOK
  <2>2. QED
    BY <1>5, <2>1, FailKeeps DEF Stop, Disrupt
<1>6. QED
  BY <1>1, <1>2, <1>3, <1>4, <1>5, RejectRowsKeeps DEF Next

LEMMA PublishStart == Init => PublishInv
<1>1. SUFFICES ASSUME Init PROVE PublishInv
  OBVIOUS
<1> DEFINE r == Run("idle", 0, "plain", FALSE, 0, FALSE)
<1>2. r \in RunState
  <2>1. /\ "idle" \in Ended \cup Running /\ 0 \in 0..MaxVersion /\ 0 \in 0..MaxRuns
        /\ FALSE \in BOOLEAN /\ "plain" \in Profiles
    BY Bounds DEF Ended, Profiles
  <2>2. QED
    BY <2>1, RunIsTyped
<1>3. r.pc = "idle" /\ r.run = 0 /\ r.token = 0 /\ r.expected = 0
  BY DEF Run
<1>4. pub = [p \in Publishers |-> r]
  BY <1>1 DEF Init
<1> HIDE DEF r
<1>5. \A s : RunSound(r, s, bundles)
  BY <1>3 DEF RunSound, Position, RowsSent, Ended, Uploaded, Known
<1>6. Empty \in Staging /\ ~Empty.complete
  BY Bounds DEF Empty, Staging, Profiles
<1>7. TypeOK
  <2>1. archive \in Versions /\ contract \in SUBSET Features
    BY <1>1, Bounds, CloudAssumption DEF Init, Versions
  <2>2. staged \in [Versions -> Staging] /\ pub \in [Publishers -> RunState]
    BY <1>1, <1>2, <1>4, <1>6 DEF Init
  <2>3. /\ bundles \subseteq Versions /\ serving \in [version : 0..MaxVersion, run : 0..MaxRuns]
        /\ runs \in 0..MaxRuns /\ faults \in 0..MaxFaults
    BY <1>1, Bounds DEF Init
  <2>4. QED
    BY <2>1, <2>2, <2>3 DEF TypeOK
<1>8. RunsAreNumbered
  <2>1. runs = 0 /\ \A p \in Publishers : pub[p].run = 0
    BY <1>1, <1>3, <1>4 DEF Init
  <2>2. QED
    BY <2>1 DEF RunsAreNumbered
<1>9. \A v \in Versions : Whole(v, staged[v], bundles)
  BY <1>1, <1>6 DEF Init, Whole
<1>10. QED
  BY <1>4, <1>5, <1>7, <1>8, <1>9 DEF PublishInv

LEMMA PublishInvariant == Spec => []PublishInv
BY PublishStart, PublishStep, PTL DEF Spec

(* Whatever the publishers do, runs and staging areas stay of their kind:   *)
(* tokens, generations and row positions stay within what was started.      *)
THEOREM CloudTypes == Spec => []TypeOK
<1>1. PublishInv => TypeOK
  BY DEF PublishInv
<1>2. QED
  BY <1>1, PublishInvariant, PTL

-----------------------------------------------------------------------------
(* A failure has a cause                                                    *)

\* What a run that nothing disturbed may rely on: its token is current, its
\* readers see it, and it spent no more attempts than the projection lagged.
Relies(r, s, served) ==
  /\ r.token # 0 /\ r.pc # "recover" => s.token = r.token
  /\ r.pc \in {"verify", "hydrate"} =>
       /\ served.version = r.version /\ r.expected \in {0, served.run}
       /\ Holds(r, s)
  /\ r.tries <= r.lag

Undisturbed(r) == r.pc \notin Ended /\ ~r.disturbed

Alone ==
  \A p \in Publishers : Undisturbed(pub[p]) =>
    /\ \A q \in Publishers : q # p => ~Active(q)
    /\ Relies(pub[p], staged[pub[p].version], serving)

CauseInv == Alone /\ FailureHasCause

\* A failed run was disturbed, or met its image under other capabilities.
HasCause(r, s) == r.disturbed \/ (s.complete /\ s.profile # r.profile)

(* While one publisher moves, no other one is undisturbed; and what was     *)
(* complete stays as it is.                                                 *)
LEMMA CauseMoves ==
  ASSUME PublishInv, CauseInv, NEW p \in Publishers, Active(p), NEW r,
         pub' = [pub EXCEPT ![p] = r],
         \A v \in Versions : staged[v].complete => staged'[v] = staged[v],
         Undisturbed(r) => /\ ~pub[p].disturbed
                           /\ Relies(r, staged'[r.version], serving'),
         r.pc = "failed" => HasCause(r, staged'[r.version])
  PROVE  CauseInv'
<1>1. pub \in [Publishers -> RunState]
  BY DEF PublishInv, TypeOK
<1>2. pub'[p] = r /\ \A q \in Publishers : q # p => pub'[q] = pub[q]
  BY <1>1
<1>3. Alone'
  <2>1. SUFFICES ASSUME NEW q \in Publishers, Undisturbed(pub'[q])
                 PROVE  /\ \A o \in Publishers : o # q => pub'[o].pc \in Ended
                        /\ Relies(pub'[q], staged'[pub'[q].version], serving')
    BY DEF Alone, Active
  <2>2. CASE q = p
    <3>1. Undisturbed(pub[p])
      BY <2>1, <2>2, <1>2 DEF Undisturbed, Active
    <3>2. QED
      BY <2>1, <2>2, <3>1, <1>2 DEF CauseInv, Alone, Active
  <2>3. CASE q # p
    BY <2>1, <2>3, <1>2 DEF CauseInv, Alone, Active
  <2>4. QED
    BY <2>2, <2>3
<1>4. FailureHasCause'
  <2>1. SUFFICES ASSUME NEW q \in Publishers, pub'[q].pc = "failed"
                 PROVE  HasCause(pub'[q], staged'[pub'[q].version])
    BY DEF FailureHasCause, HasCause
  <2>2. CASE q = p
    BY <2>1, <2>2, <1>2
  <2>3. CASE q # p
    <3>1. pub[q].pc = "failed" /\ pub'[q] = pub[q]
      BY <2>1, <2>3, <1>2
    <3>2. pub[q].version \in Versions
      BY <3>1 DEF PublishInv, RunSound, Position
    <3>3. HasCause(pub[q], staged[pub[q].version])
      BY <3>1 DEF CauseInv, FailureHasCause, HasCause
    <3>4. QED
      BY <3>1, <3>2, <3>3 DEF HasCause
  <2>4. QED
    BY <2>2, <2>3
<1>5. QED
  BY <1>3, <1>4 DEF CauseInv

LEMMA CauseFreeze ==
  ASSUME PublishInv, CauseInv, NEW p \in Publishers, NEW profile \in Profiles,
         NEW cutover \in BOOLEAN, NEW allow \in BOOLEAN, Freeze(p, profile, cutover, allow)
  PROVE  CauseInv'
<1> DEFINE alone == \A q \in Publishers : ~Active(q)
           r     == Run("probe", archive, profile, cutover, runs + 1, ~alone)
<1>1. pub \in [Publishers -> RunState]
  BY DEF PublishInv, TypeOK
<1>2. /\ pub'[p] = r /\ ~Active(p)
      /\ \A q \in Publishers : q # p =>
           pub'[q] = [pub[q] EXCEPT !.disturbed = pub[q].disturbed \/ Active(q)]
  BY DEF Freeze, FrozenImage
<1>3. \A q \in Publishers : q # p =>
        /\ pub'[q].pc = pub[q].pc /\ pub'[q].version = pub[q].version
        /\ pub'[q].profile = pub[q].profile
        /\ pub'[q].disturbed <=> (pub[q].disturbed \/ Active(q))
  <2>1. SUFFICES ASSUME NEW q \in Publishers, q # p
                 PROVE  /\ pub'[q].pc = pub[q].pc /\ pub'[q].version = pub[q].version
                        /\ pub'[q].profile = pub[q].profile
                        /\ pub'[q].disturbed <=> (pub[q].disturbed \/ Active(q))
    OBVIOUS
  <2> DEFINE d == pub[q].disturbed \/ Active(q)
  <2>2. pub'[q] = [pub[q] EXCEPT !.disturbed = d] /\ pub[q] \in RunState
    BY <2>1, <1>1, <1>2
  <2> HIDE DEF d
  <2>3. /\ pub'[q].pc = pub[q].pc /\ pub'[q].version = pub[q].version
        /\ pub'[q].profile = pub[q].profile /\ pub'[q].disturbed = d
    BY <2>2 DEF RunState
  <2>4. QED
    BY <2>3 DEF d
<1>4. /\ r.pc = "probe" /\ r.token = 0 /\ r.tries = 0 /\ r.lag = 0
      /\ r.disturbed = ~alone
  BY DEF Run
<1> HIDE DEF r, alone
<1>5. UNCHANGED <<staged, serving>>
  BY DEF Freeze, remote
<1>6. Alone'
  <2>1. SUFFICES ASSUME NEW q \in Publishers, Undisturbed(pub'[q])
                 PROVE  /\ \A o \in Publishers : o # q => pub'[o].pc \in Ended
                        /\ Relies(pub'[q], staged'[pub'[q].version], serving')
    BY DEF Alone, Active
  <2>2. q = p
    BY <2>1, <1>3 DEF Undisturbed, Active
  <2>3. alone
    BY <2>1, <2>2, <1>2, <1>4 DEF Undisturbed
  <2>4. QED
    BY <2>2, <2>3, <1>2, <1>3, <1>4 DEF Relies, alone, Active
<1>7. FailureHasCause'
  <2>1. SUFFICES ASSUME NEW q \in Publishers, pub'[q].pc = "failed"
                 PROVE  HasCause(pub'[q], staged[pub'[q].version])
    BY <1>5 DEF FailureHasCause, HasCause
  <2>2. q # p
    BY <2>1, <1>2, <1>4
  <2>3. HasCause(pub[q], staged[pub[q].version])
    BY <2>1, <2>2, <1>3 DEF CauseInv, FailureHasCause, HasCause
  <2>4. QED
    BY <2>2, <2>3, <1>3 DEF HasCause
<1>8. QED
  BY <1>6, <1>7 DEF CauseInv

LEMMA CauseFail ==
  ASSUME PublishInv, CauseInv, NEW p \in Publishers, Active(p), NEW disturbed,
         pub' = [pub EXCEPT ![p] = Failed(pub[p], disturbed)],
         \A v \in Versions : staged[v].complete => staged'[v] = staged[v],
         \/ disturbed
         \/ /\ staged[pub[p].version].complete
            /\ staged[pub[p].version].profile # pub[p].profile
  PROVE  CauseInv'
<1> DEFINE r == Failed(pub[p], disturbed)
<1>1. /\ r.pc = "failed" /\ r.version = pub[p].version /\ r.profile = pub[p].profile
      /\ r.disturbed = disturbed
  BY DEF Failed, Run
<1>2. pub[p].version \in Versions
  BY DEF PublishInv, RunSound, Position, Active, Ended
<1> HIDE DEF r
<1>3. HasCause(r, staged'[r.version])
  BY <1>1, <1>2 DEF HasCause
<1>4. ~Undisturbed(r)
  BY <1>1 DEF Undisturbed, Ended
<1>5. pub' = [pub EXCEPT ![p] = r]
  BY DEF r
<1>6. QED
  BY <1>3, <1>4, <1>5, CauseMoves

(* A run whose snapshot is staged under its profile asks for nothing more.  *)
LEMMA CauseStaged ==
  ASSUME PublishInv, CauseInv, NEW p \in Publishers, Active(p), NEW g,
         pub' = [pub EXCEPT ![p] = StagedRun(pub[p], g)],
         \A v \in Versions : staged[v].complete => staged'[v] = staged[v]
  PROVE  CauseInv'
<1> DEFINE r == StagedRun(pub[p], g)
<1>1. /\ r.pc \in {"status", "output"} /\ r.token = 0 /\ r.tries = 0 /\ r.lag = 0
      /\ r.disturbed = pub[p].disturbed
  BY DEF StagedRun, Run
<1> HIDE DEF r
<1>2. Undisturbed(r) => ~pub[p].disturbed
  BY <1>1 DEF Undisturbed
<1>3. Relies(r, staged'[r.version], serving')
  BY <1>1 DEF Relies
<1>4. r.pc # "failed"
  BY <1>1
<1>5. QED
  BY <1>2, <1>3, <1>4, CauseMoves DEF r

(* A run without a token moves on before the verification.                  *)
LEMMA CauseGoto ==
  ASSUME PublishInv, CauseInv, NEW p \in Publishers, Active(p), NEW pc,
         pc \in Running \ {"verify", "hydrate"}, Goto(p, pc),
         pub[p].token = 0 \/ pc = "recover",
         \A v \in Versions : staged[v].complete => staged'[v] = staged[v]
  PROVE  CauseInv'
<1> DEFINE r == [pub[p] EXCEPT !.pc = pc]
<1>1. pub \in [Publishers -> RunState] /\ pub[p] \in RunState
  BY DEF PublishInv, TypeOK
<1>2. /\ r.pc = pc /\ r.token = pub[p].token /\ r.tries = pub[p].tries /\ r.lag = pub[p].lag
      /\ r.disturbed = pub[p].disturbed
  BY <1>1 DEF RunState
<1>3. pub' = [pub EXCEPT ![p] = r]
  BY <1>1 DEF Goto
<1> HIDE DEF r
<1>4. Undisturbed(r) => Undisturbed(pub[p])
  BY <1>2 DEF Undisturbed, Active
<1>5. Undisturbed(pub[p]) => pub[p].tries <= pub[p].lag
  BY DEF CauseInv, Alone, Relies
<1>6. Undisturbed(r) => ~pub[p].disturbed /\ Relies(r, staged'[r.version], serving')
  BY <1>2, <1>4, <1>5 DEF Relies, Undisturbed
<1>7. r.pc # "failed"
  BY <1>2 DEF Running
<1>8. QED
  BY <1>3, <1>6, <1>7, CauseMoves

(* What an active run may rely on.                                          *)
LEMMA UndisturbedRelies ==
  ASSUME PublishInv, CauseInv, NEW p \in Publishers, Active(p)
  PROVE  /\ pub[p] \in RunState /\ pub[p].version \in Versions
         /\ staged[pub[p].version] \in Staging
         /\ RunSound(pub[p], staged[pub[p].version], bundles)
         /\ Whole(pub[p].version, staged[pub[p].version], bundles)
         /\ ~pub[p].disturbed => Relies(pub[p], staged[pub[p].version], serving)
BY DEF PublishInv, TypeOK, RunSound, Position, Active, Ended, CauseInv, Alone, Undisturbed

LEMMA CauseProbe ==
  ASSUME PublishInv, CauseInv, NEW p \in Publishers, Probe(p) PROVE CauseInv'
<1>1. Active(p) /\ pub[p].pc = "probe" /\ staged' = staged
  BY DEF Probe, Active, Ended, remote
<1>2. pub[p].token = 0
  BY <1>1, UndisturbedRelies DEF RunSound, Position
<1>3. CASE PublisherStatusMatches(p)
  BY <1>1, <1>3, CauseStaged DEF Probe, AdoptGeneration, StagedAs, StagedRun
<1>4. CASE ~PublisherStatusMatches(p)
  BY <1>1, <1>2, <1>4, CauseGoto DEF Probe, Running
<1>5. QED
  BY <1>3, <1>4

LEMMA CauseUpload ==
  ASSUME PublishInv, CauseInv, NEW p \in Publishers, Upload(p) PROVE CauseInv'
<1>1. Active(p) /\ pub[p].pc = "upload" /\ staged' = staged
  BY DEF Upload, Active, Ended
<1>2. pub[p].token = 0
  BY <1>1, UndisturbedRelies DEF RunSound, Position
<1>3. QED
  BY <1>1, <1>2, CauseGoto DEF Upload, Running

(* Nobody takes the token of an undisturbed run.                            *)
LEMMA CauseRefused ==
  ASSUME PublishInv, CauseInv, NEW p \in Publishers, Refused(p) PROVE CauseInv'
<1>1. Active(p) /\ staged' = staged /\ pub[p].pc # "recover"
  BY DEF Refused, Active, Ended, remote
<1>2. CASE SnapshotActive(p)
  BY <1>1, <1>2, CauseGoto DEF Refused, Running
<1>3. CASE ~SnapshotActive(p)
  <2>1. TokenRefused(p) /\ pub' = [pub EXCEPT ![p] = Failed(pub[p], pub[p].disturbed)]
    BY <1>3 DEF Refused, Fail
  <2>2. pub[p].disturbed
    BY <1>1, <2>1, UndisturbedRelies DEF TokenRefused, Relies
  <2>3. QED
    BY <1>1, <2>1, <2>2, CauseFail
<1>4. QED
  BY <1>2, <1>3

LEMMA CauseMeetReset ==
  ASSUME PublishInv, CauseInv, NEW p \in Publishers, MeetReset(p) PROVE CauseInv'
<1>1. Active(p) /\ pub[p].token = 0 /\ Goto(p, "drain") /\ ~staged[pub[p].version].complete
      /\ staged' = [staged EXCEPT ![pub[p].version].token = 0]
  BY DEF MeetReset, Active, Ended, ResetNeeded, Admitted, SnapshotActive
<1>2. \A v \in Versions : staged[v].complete => staged'[v] = staged[v]
  BY <1>1 DEF PublishInv, TypeOK
<1>3. QED
  BY <1>1, <1>2, CauseGoto DEF Running

LEMMA CauseDrain ==
  ASSUME PublishInv, CauseInv, NEW p \in Publishers, Drain(p) PROVE CauseInv'
<1> DEFINE v == pub[p].version
<1>1. Active(p) /\ pub[p].pc = "drain" /\ ~staged[v].complete
  BY DEF Drain, Active, Ended, Admitted, SnapshotActive
<1>2. pub[p].token = 0
  BY <1>1, UndisturbedRelies DEF RunSound, Position
<1>3. CASE staged[v].rows = {}
  <2>1. Goto(p, "ingest") /\ staged' = staged
    BY <1>3 DEF Drain
  <2>2. QED
    BY <1>1, <1>2, <2>1, CauseGoto DEF Running
<1>4. CASE staged[v].rows # {}
  <2>1. PICK d \in DataSets :
          staged' = [staged EXCEPT ![v].token = 0, ![v].rows = {r \in @ : r.set # d}]
    BY <1>4 DEF Drain
  <2>2. \A w \in Versions : staged[w].complete => staged'[w] = staged[w]
    BY <1>1, <2>1 DEF PublishInv, TypeOK
  <2>3. pub' = [pub EXCEPT ![p] = pub[p]]
    BY <1>4 DEF Drain, PublishInv, TypeOK
  <2>4. Undisturbed(pub[p]) => Relies(pub[p], staged'[pub[p].version], serving')
    BY <1>1, <1>2 DEF CauseInv, Alone, Relies
  <2>5. QED
    BY <1>1, <2>2, <2>3, <2>4, CauseMoves DEF Undisturbed
<1>5. QED
  BY <1>3, <1>4

LEMMA CauseIngest ==
  ASSUME PublishInv, CauseInv, NEW p \in Publishers, Ingest(p) PROVE CauseInv'
<1> DEFINE v    == pub[p].version
           rows == staged[v].rows \cup Batch(v, pub[p].set, pub[p].sent, pub[p].profile)
           s    == Restaged(staged[v], pub[p].run, rows)
           r    == AfterBatch(p)
<1>1. Active(p) /\ ~staged[v].complete /\ pub[p].pc = "ingest"
  BY DEF Ingest, Active, Ended, Admitted, SnapshotActive
<1>2. /\ pub[p] \in RunState /\ v \in Versions /\ staged[v] \in Staging
      /\ staged \in [Versions -> Staging]
  BY <1>1, UndisturbedRelies DEF PublishInv, TypeOK
<1>3. staged' = [staged EXCEPT ![v] = s] /\ pub' = [pub EXCEPT ![p] = r]
  BY <1>2 DEF Ingest, ExportSource, Restaged
<1>4. s.token = pub[p].run
  BY <1>2 DEF Restaged, Staging
<1> HIDE DEF rows, s
<1>5. /\ r.token = pub[p].run /\ r.version = v /\ r.pc \in {"ingest", "complete"}
      /\ r.tries = pub[p].tries /\ r.lag = pub[p].lag /\ r.disturbed = pub[p].disturbed
  BY <1>1, <1>2 DEF AfterBatch, RunState
<1> HIDE DEF r
<1>6. /\ staged'[v].token = r.token
      /\ \A w \in Versions : staged[w].complete => staged'[w] = staged[w]
  BY <1>1, <1>2, <1>3, <1>4, <1>5
<1>7. Undisturbed(r) => ~pub[p].disturbed /\ pub[p].tries <= pub[p].lag
  BY <1>1, <1>5, UndisturbedRelies DEF Undisturbed, Relies
<1>8. Undisturbed(r) => Relies(r, staged'[r.version], serving')
  BY <1>5, <1>6, <1>7 DEF Relies
<1>9. QED
  BY <1>1, <1>3, <1>5, <1>6, <1>7, <1>8, CauseMoves

LEMMA CauseRejectRows ==
  ASSUME PublishInv, CauseInv, NEW p \in Publishers, RejectRows(p) PROVE CauseInv'
<1>1. Active(p) /\ ~staged[pub[p].version].complete
      /\ staged' = [staged EXCEPT ![pub[p].version].token = pub[p].run]
      /\ pub' = [pub EXCEPT ![p] = Failed(pub[p], TRUE)]
  BY DEF RejectRows, Active, Ended, Admitted, SnapshotActive, Disrupt
<1>2. \A v \in Versions : staged[v].complete => staged'[v] = staged[v]
  BY <1>1 DEF PublishInv, TypeOK
<1>3. QED
  BY <1>1, <1>2, CauseFail

LEMMA CauseComplete ==
  ASSUME PublishInv, CauseInv, NEW p \in Publishers, Complete(p) PROVE CauseInv'
<1>1. /\ Active(p) /\ ~staged[pub[p].version].complete
      /\ staged' = [staged EXCEPT ![pub[p].version] =
                      Completed(@, pub[p].profile, pub[p].generation)]
      /\ pub' = [pub EXCEPT ![p] = StagedRun(pub[p], pub[p].generation)]
  BY DEF Complete, Active, Ended, Admitted, SnapshotActive, StagedAs, StagedRun, Completed
<1>2. \A v \in Versions : staged[v].complete => staged'[v] = staged[v]
  BY <1>1 DEF PublishInv, TypeOK
<1>3. QED
  BY <1>1, <1>2, CauseStaged

(* Who recovers met a complete snapshot; if it cannot be adopted, it was    *)
(* staged under other capabilities.                                         *)
LEMMA CauseRecover ==
  ASSUME PublishInv, CauseInv, NEW p \in Publishers, Recover(p) PROVE CauseInv'
<1>1. Active(p) /\ staged' = staged /\ staged[pub[p].version].complete
  BY DEF Recover, Active, Ended, remote, PublishInv, RunSound
<1>2. CASE PublisherStatusMatches(p)
  BY <1>1, <1>2, CauseStaged DEF Recover, AdoptGeneration, StagedAs, StagedRun
<1>3. CASE ~PublisherStatusMatches(p)
  <2>1. staged[pub[p].version].profile # pub[p].profile
    BY <1>1, <1>3 DEF PublisherStatusMatches
  <2>2. pub' = [pub EXCEPT ![p] = Failed(pub[p], pub[p].disturbed)]
    BY <1>3 DEF Recover, Fail
  <2>3. QED
    BY <1>1, <2>1, <2>2, CauseFail
<1>4. QED
  BY <1>2, <1>3

LEMMA ReaderMatches ==
  ASSUME NEW p \in Publishers
  PROVE  ReaderStatusMatches(p) <=>
           /\ serving.version = pub[p].version /\ pub[p].expected \in {0, serving.run}
           /\ Holds(pub[p], staged[pub[p].version])
BY DEF ReaderStatusMatches, PublisherStatusMatches, CutoverMatches, CoverageMatches, Holds

LEMMA CauseReadStatus ==
  ASSUME PublishInv, CauseInv, NEW p \in Publishers, ReadStatus(p) PROVE CauseInv'
<1>1. Active(p) /\ staged' = staged /\ serving' = serving /\ pub[p].pc = "status"
  BY DEF ReadStatus, Active, Ended, remote
<1>2. /\ pub[p] \in RunState /\ pub[p].token = 0 /\ pub \in [Publishers -> RunState]
      /\ ~pub[p].disturbed => pub[p].tries <= pub[p].lag
  BY <1>1, UndisturbedRelies DEF RunSound, Position, Relies, PublishInv, TypeOK
<1>3. CASE ReaderStatusMatches(p) /\ Goto(p, "verify")
  <2> DEFINE r == [pub[p] EXCEPT !.pc = "verify"]
  <2>1. pub' = [pub EXCEPT ![p] = r]
    BY <1>2, <1>3 DEF Goto
  <2>2. /\ r.pc = "verify" /\ r.version = pub[p].version /\ r.token = pub[p].token
        /\ r.expected = pub[p].expected /\ r.tries = pub[p].tries /\ r.lag = pub[p].lag
        /\ r.disturbed = pub[p].disturbed /\ r.profile = pub[p].profile
        /\ r.generation = pub[p].generation
    BY <1>2 DEF RunState
  <2> HIDE DEF r
  <2>3. Undisturbed(r) => ~pub[p].disturbed /\ Relies(r, staged'[r.version], serving')
    BY <1>1, <1>2, <1>3, <2>2, ReaderMatches DEF Undisturbed, Relies, Holds
  <2>4. QED
    BY <1>1, <2>1, <2>2, <2>3, CauseMoves
<1>4. CASE /\ ReaderStatusMatches(p) => pub[p].lag < MaxLag
           /\ pub' = [pub EXCEPT ![p].pc = "cutover",
                        ![p].lag = @ + (IF ReaderStatusMatches(p) THEN 1 ELSE 0)]
  <2> DEFINE lag == pub[p].lag + (IF ReaderStatusMatches(p) THEN 1 ELSE 0)
             r   == [pub[p] EXCEPT !.pc = "cutover", !.lag = lag]
  <2>1. lag \in Nat /\ lag >= pub[p].lag /\ pub[p].lag \in Nat /\ pub[p].tries \in Nat
    BY <1>2 DEF RunState
  <2>2. pub' = [pub EXCEPT ![p] = r]
    BY <1>2, <1>4
  <2> HIDE DEF lag
  <2>3. /\ r.pc = "cutover" /\ r.token = 0 /\ r.tries = pub[p].tries /\ r.lag = lag
        /\ r.disturbed = pub[p].disturbed
    BY <1>2 DEF RunState
  <2> HIDE DEF r
  <2>4. Undisturbed(r) => ~pub[p].disturbed /\ Relies(r, staged'[r.version], serving')
    BY <1>2, <2>1, <2>3 DEF Undisturbed, Relies
  <2>5. QED
    BY <1>1, <2>2, <2>3, <2>4, CauseMoves
<1>5. QED
  BY <1>3, <1>4 DEF ReadStatus

LEMMA CauseCutOver ==
  ASSUME PublishInv, CauseInv, NEW p \in Publishers, CutOver(p) PROVE CauseInv'
<1> DEFINE r == [pub[p] EXCEPT !.pc = "verify", !.expected = pub[p].run]
<1>1. /\ Active(p) /\ staged' = staged /\ pub[p].pc = "cutover"
      /\ serving' = [version |-> pub[p].version, run |-> pub[p].run]
  BY DEF CutOver, Active, Ended
<1>2. /\ pub[p] \in RunState /\ pub[p].token = 0 /\ pub \in [Publishers -> RunState]
      /\ Holds(pub[p], staged[pub[p].version])
      /\ ~pub[p].disturbed => pub[p].tries <= pub[p].lag
  BY <1>1, UndisturbedRelies DEF RunSound, Position, Relies, PublishInv, TypeOK, Known
<1>3. pub' = [pub EXCEPT ![p] = r]
  BY <1>2 DEF CutOver
<1>4. /\ r.pc = "verify" /\ r.version = pub[p].version /\ r.token = pub[p].token
      /\ r.expected = pub[p].run /\ r.tries = pub[p].tries /\ r.lag = pub[p].lag
      /\ r.disturbed = pub[p].disturbed /\ r.profile = pub[p].profile
      /\ r.generation = pub[p].generation
  BY <1>2 DEF RunState
<1> HIDE DEF r
<1>5. Undisturbed(r) => ~pub[p].disturbed /\ Relies(r, staged'[r.version], serving')
  BY <1>1, <1>2, <1>4 DEF Undisturbed, Relies, Holds
<1>6. QED
  BY <1>1, <1>3, <1>4, <1>5, CauseMoves

(* An undisturbed run is read back correctly, unless the projection lags.   *)
LEMMA CauseVerifyReader ==
  ASSUME MaxLag < Attempts, PublishInv, CauseInv, NEW p \in Publishers, VerifyReader(p)
  PROVE  CauseInv'
<1>1. Active(p) /\ staged' = staged /\ serving' = serving /\ pub[p].pc = "verify"
  BY DEF VerifyReader, Active, Ended, remote
<1>2. /\ pub[p] \in RunState /\ pub[p].token = 0 /\ pub \in [Publishers -> RunState]
      /\ ~pub[p].disturbed => /\ pub[p].tries <= pub[p].lag /\ ReaderStatusMatches(p)
                              /\ Relies(pub[p], staged[pub[p].version], serving)
  BY <1>1, UndisturbedRelies, ReaderMatches DEF RunSound, Position, Relies, PublishInv, TypeOK
<1>3. CASE Goto(p, "hydrate")
  <2> DEFINE r == [pub[p] EXCEPT !.pc = "hydrate"]
  <2>1. pub' = [pub EXCEPT ![p] = r]
    BY <1>2, <1>3 DEF Goto
  <2>2. /\ r.pc = "hydrate" /\ r.version = pub[p].version /\ r.token = pub[p].token
        /\ r.expected = pub[p].expected /\ r.tries = pub[p].tries /\ r.lag = pub[p].lag
        /\ r.disturbed = pub[p].disturbed /\ r.profile = pub[p].profile
        /\ r.generation = pub[p].generation
    BY <1>2 DEF RunState
  <2> HIDE DEF r
  <2>3. Undisturbed(r) => ~pub[p].disturbed /\ Relies(r, staged'[r.version], serving')
    BY <1>1, <1>2, <2>2 DEF Undisturbed, Relies, Holds
  <2>4. QED
    BY <1>1, <2>1, <2>2, <2>3, CauseMoves
<1>4. CASE pub' = [pub EXCEPT ![p].tries = @ + 1,
                     ![p].lag = @ + (IF ReaderStatusMatches(p) THEN 1 ELSE 0)]
  <2> DEFINE lag == pub[p].lag + (IF ReaderStatusMatches(p) THEN 1 ELSE 0)
             r   == [pub[p] EXCEPT !.tries = pub[p].tries + 1, !.lag = lag]
  <2>1. pub[p].lag \in Nat /\ pub[p].tries \in Nat
    BY <1>2 DEF RunState
  <2>2. pub' = [pub EXCEPT ![p] = r]
    BY <1>2, <1>4
  <2>3. ~pub[p].disturbed => lag = pub[p].lag + 1
    BY <1>2
  <2> HIDE DEF lag
  <2>4. /\ r.pc = "verify" /\ r.version = pub[p].version /\ r.token = pub[p].token
        /\ r.expected = pub[p].expected /\ r.tries = pub[p].tries + 1 /\ r.lag = lag
        /\ r.disturbed = pub[p].disturbed /\ r.profile = pub[p].profile
        /\ r.generation = pub[p].generation
    BY <1>1, <1>2 DEF RunState
  <2> HIDE DEF r
  <2>5. Undisturbed(r) => r.tries <= r.lag
    BY <1>2, <2>1, <2>3, <2>4 DEF Undisturbed
  <2>6. Undisturbed(r) => ~pub[p].disturbed /\ Relies(r, staged'[r.version], serving')
    BY <1>1, <1>2, <2>4, <2>5 DEF Undisturbed, Relies, Holds
  <2>7. QED
    BY <1>1, <2>2, <2>4, <2>6, CauseMoves
<1>5. CASE Fail(p) /\ ~AttemptsLeft(p) /\ (ReaderStatusMatches(p) => pub[p].lag < MaxLag)
  <2>1. pub[p].lag \in Nat /\ pub[p].tries \in Nat
    BY <1>2 DEF RunState
  <2>2. pub[p].disturbed
    BY <1>2, <1>5, <2>1, Bounds DEF AttemptsLeft
  <2>3. QED
    BY <1>1, <1>5, <2>2, CauseFail DEF Fail
<1>6. QED
  BY <1>3, <1>4, <1>5 DEF VerifyReader

(* A run that succeeds.                                                     *)
LEMMA CauseSuccess ==
  ASSUME PublishInv, CauseInv, NEW p \in Publishers, Active(p), staged' = staged,
         pub' = [pub EXCEPT ![p] = Succeeded(pub[p])]
  PROVE  CauseInv'
<1>1. Succeeded(pub[p]).pc = "done"
  BY DEF Succeeded, Run
<1>2. QED
  BY <1>1, CauseMoves DEF Undisturbed, Ended

LEMMA CauseHydrate ==
  ASSUME PublishInv, CauseInv, NEW p \in Publishers, Hydrate(p) PROVE CauseInv'
<1>1. Active(p) /\ staged' = staged /\ pub[p].pc = "hydrate"
  BY DEF Hydrate, Active, Ended, remote
<1>2. CASE Hydrated(p)
  BY <1>1, <1>2, CauseSuccess DEF Hydrate
<1>3. CASE ~Hydrated(p)
  <2>1. Holds(pub[p], staged[pub[p].version]) /\ pub[p].version \in bundles
    BY <1>1, UndisturbedRelies DEF RunSound, Known, Holds, Whole
  <2>2. pub[p].disturbed
    BY <1>1, <1>3, <2>1, UndisturbedRelies
       DEF Relies, Holds, Hydrated, PublisherStatusMatches, CoverageMatches, DigestMatches
  <2>3. QED
    BY <1>1, <1>3, <2>2, CauseFail DEF Hydrate
<1>4. QED
  BY <1>2, <1>3

LEMMA CauseStep ==
  ASSUME MaxLag < Attempts, PublishInv, CauseInv, [Next]_vars PROVE CauseInv'
<1>1. CASE UNCHANGED vars
  BY <1>1 DEF vars, CauseInv, Alone, FailureHasCause, Active
<1>2. CASE Sync
  BY <1>2 DEF Sync, remote, CauseInv, Alone, FailureHasCause, Active
<1>3. ASSUME NEW p \in Publishers, NEW profile \in Profiles, NEW cutover \in BOOLEAN,
             NEW allow \in BOOLEAN, Freeze(p, profile, cutover, allow)
      PROVE  CauseInv'
  BY <1>3, CauseFreeze
<1>4. ASSUME NEW p \in Publishers, Step(p) PROVE CauseInv'
  <2>1. CASE Output(p)
    BY <2>1, CauseSuccess DEF Output, Active, Ended, remote
  <2>2. QED
    BY <1>4, <2>1, CauseProbe, CauseUpload, CauseRefused, CauseMeetReset, CauseDrain,
       CauseIngest, CauseComplete, CauseRecover, CauseReadStatus, CauseCutOver,
       CauseVerifyReader, CauseHydrate DEF Step
<1>5. ASSUME NEW p \in Publishers, Stop(p) PROVE CauseInv'
  BY <1>5, CauseFail DEF Stop, Disrupt, remote
<1>6. QED
  BY <1>1, <1>2, <1>3, <1>4, <1>5, CauseRejectRows DEF Next

(* A run that no other run overlapped and that met no fault succeeds,       *)
(* whatever earlier runs left behind, unless its image was staged under     *)
(* other capabilities: provided that the verification reads the status more *)
(* often than the reader projection lags in a run.                          *)
THEOREM FailuresHaveCause ==
  ASSUME MaxLag < Attempts PROVE Spec => []FailureHasCause
<1>1. Init => CauseInv
  <2>1. SUFFICES ASSUME Init PROVE CauseInv
    OBVIOUS
  <2>2. \A p \in Publishers : pub[p].pc = "idle"
    BY <2>1 DEF Init, Run
  <2>3. QED
    BY <2>2 DEF CauseInv, Alone, FailureHasCause, Undisturbed, Ended
<1>2. PublishInv /\ CauseInv /\ [Next]_vars => CauseInv'
  BY CauseStep
<1>3. CauseInv => FailureHasCause
  BY DEF CauseInv
<1>4. QED
  BY <1>1, <1>2, <1>3, PublishInvariant, PTL DEF Spec

-----------------------------------------------------------------------------
(* The promise of SnapshotArchive                                           *)

\* What a reader of the archive sees of a snapshot, and of a command.
Entry(v, s, b) ==
  IF s.complete
  THEN [profile |-> s.profile, generation |-> s.generation, rows |-> s.rows, hydrates |-> v \in b]
  ELSE NotStaged

ReportOf(r) ==
  IF r.pc = "done"
  THEN [how |-> IF r.cutover THEN "published" ELSE "staged",
        snapshot |-> r.version, generation |-> r.generation]
  ELSE NoReport

LEMMA ArchiveView ==
  /\ Catalog = [v \in Versions |-> Entry(v, staged[v], bundles)]
  /\ Catalog' = [v \in Versions |-> Entry(v, staged'[v], bundles')]
  /\ Reports = [p \in Publishers |-> ReportOf(pub[p])]
  /\ Reports' = [p \in Publishers |-> ReportOf(pub'[p])]
BY DEF Catalog, Reports, Entry, ReportOf

(* Staging that stays incomplete is not seen, and a bundle of a complete    *)
(* snapshot was there before.                                               *)
LEMMA CatalogStays ==
  ASSUME PublishInv, bundles \subseteq bundles',
         \A v \in Versions : \/ staged'[v] = staged[v]
                             \/ ~staged[v].complete /\ ~staged'[v].complete
  PROVE  Catalog' = Catalog
<1>1. \A v \in Versions : Entry(v, staged'[v], bundles') = Entry(v, staged[v], bundles)
  <2>1. SUFFICES ASSUME NEW v \in Versions
                 PROVE  Entry(v, staged'[v], bundles') = Entry(v, staged[v], bundles)
    OBVIOUS
  <2>2. CASE staged[v].complete
    BY <2>2 DEF PublishInv, Whole, Entry
  <2>3. CASE ~staged[v].complete
    BY <2>3 DEF Entry
  <2>4. QED
    BY <2>2, <2>3
<1>2. QED
  BY <1>1, ArchiveView

(* An active run that does not succeed reports nothing.                     *)
LEMMA ReportsStay ==
  ASSUME PublishInv, NEW p \in Publishers, Active(p), NEW r, r.pc # "done",
         pub' = [pub EXCEPT ![p] = r]
  PROVE  Reports' = Reports
<1>1. pub'[p] = r /\ \A q \in Publishers : q # p => pub'[q] = pub[q]
  BY DEF PublishInv, TypeOK
<1>2. pub[p].pc # "done"
  BY DEF Active, Ended
<1>3. \A q \in Publishers : ReportOf(pub'[q]) = ReportOf(pub[q])
  BY <1>1, <1>2 DEF ReportOf
<1>4. QED
  BY <1>3, ArchiveView

LEMMA StutterOf ==
  ASSUME Catalog' = Catalog, Reports' = Reports, serving' = serving
  PROVE  UNCHANGED Promise!archiveVars
BY DEF Promise!archiveVars

LEMMA PromiseStart == Init => Promise!Init
<1>1. SUFFICES ASSUME Init PROVE Promise!Init
  OBVIOUS
<1>2. \A v \in Versions : Entry(v, staged[v], bundles) = NotStaged
  BY <1>1 DEF Init, Entry, Empty
<1>3. \A p \in Publishers : ReportOf(pub[p]) = NoReport
  BY <1>1 DEF Init, ReportOf, Run
<1>4. serving.version = 0
  BY <1>1 DEF Init
<1>5. QED
  BY <1>2, <1>3, <1>4, ArchiveView DEF Promise!Init

(* A step of a run before its end shows nothing to the readers.             *)
LEMMA HiddenMove ==
  ASSUME PublishInv, NEW p \in Publishers, Active(p), NEW r, r.pc # "done",
         pub' = [pub EXCEPT ![p] = r], bundles \subseteq bundles', serving' = serving,
         \A v \in Versions : \/ staged'[v] = staged[v]
                             \/ ~staged[v].complete /\ ~staged'[v].complete
  PROVE  UNCHANGED Promise!archiveVars
BY CatalogStays, ReportsStay, StutterOf

LEMMA HiddenGoto ==
  ASSUME PublishInv, NEW p \in Publishers, Active(p), NEW pc, pc # "done", Goto(p, pc),
         bundles \subseteq bundles', serving' = serving,
         \A v \in Versions : \/ staged'[v] = staged[v]
                             \/ ~staged[v].complete /\ ~staged'[v].complete
  PROVE  UNCHANGED Promise!archiveVars
<1>1. pub' = [pub EXCEPT ![p] = [pub[p] EXCEPT !.pc = pc]] /\ pub[p] \in RunState
  BY DEF Goto, PublishInv, TypeOK
<1>2. [pub[p] EXCEPT !.pc = pc].pc # "done"
  BY <1>1 DEF RunState
<1>3. QED
  BY <1>1, <1>2, HiddenMove

LEMMA HiddenFail ==
  ASSUME PublishInv, NEW p \in Publishers, Active(p), NEW disturbed,
         pub' = [pub EXCEPT ![p] = Failed(pub[p], disturbed)],
         bundles' = bundles, serving' = serving,
         \A v \in Versions : \/ staged'[v] = staged[v]
                             \/ ~staged[v].complete /\ ~staged'[v].complete
  PROVE  UNCHANGED Promise!archiveVars
<1>1. Failed(pub[p], disturbed).pc # "done"
  BY DEF Failed, Run
<1>2. QED
  BY <1>1, HiddenMove

LEMMA HiddenStaged ==
  ASSUME PublishInv, NEW p \in Publishers, Active(p), AdoptGeneration(p),
         UNCHANGED remote
  PROVE  UNCHANGED Promise!archiveVars
<1>1. StagedRun(pub[p], staged[pub[p].version].generation).pc # "done"
  BY DEF StagedRun, Run
<1>2. QED
  BY <1>1, HiddenMove DEF AdoptGeneration, StagedAs, StagedRun, remote

(* What is requested for a snapshot that is not complete leaves it so.      *)
LEMMA StillIncomplete ==
  ASSUME PublishInv, NEW p \in Publishers,
         MeetReset(p) \/ Drain(p) \/ Ingest(p) \/ RejectRows(p)
  PROVE  \A v \in Versions : \/ staged'[v] = staged[v]
                             \/ ~staged[v].complete /\ ~staged'[v].complete
<1>1. staged \in [Versions -> Staging] /\ ~staged[pub[p].version].complete
  BY DEF PublishInv, TypeOK, MeetReset, Drain, Ingest, RejectRows, Admitted, SnapshotActive
<1>2. CASE MeetReset(p) \/ RejectRows(p)
  <2>1. PICK t : staged' = [staged EXCEPT ![pub[p].version].token = t]
    BY <1>2 DEF MeetReset, RejectRows
  <2>2. QED
    BY <1>1, <2>1 DEF Staging
<1>3. CASE Drain(p)
  <2>1. CASE staged' = staged
    BY <2>1
  <2>2. CASE staged' # staged
    <3>1. PICK d \in DataSets : staged' = [staged EXCEPT ![pub[p].version].token = 0,
                 ![pub[p].version].rows = {r \in @ : r.set # d}]
      BY <1>3, <2>2 DEF Drain
    <3>2. QED
      BY <1>1, <3>1 DEF Staging
  <2>3. QED
    BY <2>1, <2>2
<1>4. CASE Ingest(p)
  <2>1. PICK rows : staged' = [staged EXCEPT ![pub[p].version].rows = @ \cup rows,
                                            ![pub[p].version].token = pub[p].run]
    BY <1>4 DEF Ingest
  <2>2. QED
    BY <1>1, <2>1 DEF Staging
<1>5. QED
  BY <1>2, <1>3, <1>4

(* A snapshot is staged.                                                    *)
LEMMA CompleteStages ==
  ASSUME PublishInv, NEW p \in Publishers, Complete(p)
  PROVE  Promise!Stage(pub[p].version)
<1> DEFINE v == pub[p].version
           s == Completed(staged[v], pub[p].profile, pub[p].generation)
<1>1. /\ Active(p) /\ v \in Versions /\ ~staged[v].complete /\ staged[v] \in Staging
      /\ pub[p].profile \in Profiles /\ staged \in [Versions -> Staging]
  BY DEF Complete, Active, Ended, Admitted, SnapshotActive, PublishInv, TypeOK, RunSound,
         Position, RunState
<1>2. /\ staged[v].rows = Image(v, pub[p].profile) /\ v \in bundles
      /\ pub[p].generation \in 1..MaxRuns
  BY CompletedIsWhole
<1>3. staged' = [staged EXCEPT ![v] = s] /\ UNCHANGED <<bundles, serving>>
      /\ pub' = [pub EXCEPT ![p] = StagedRun(pub[p], pub[p].generation)]
  BY DEF Complete, Completed, StagedAs, StagedRun
<1>4. /\ s.complete /\ s.profile = pub[p].profile /\ s.generation = pub[p].generation
      /\ s.rows = Image(v, pub[p].profile)
  BY <1>1, <1>2, CompletedFields
<1> HIDE DEF s
<1>5. Entry(v, staged[v], bundles) = NotStaged
  BY <1>1 DEF Entry
<1> DEFINE whole == [profile |-> pub[p].profile, generation |-> pub[p].generation,
                     rows |-> Image(v, pub[p].profile), hydrates |-> TRUE]
<1>6. Entry(v, s, bundles) = whole
  BY <1>2, <1>4 DEF Entry
<1> HIDE DEF whole
<1>7. Catalog' = [Catalog EXCEPT ![v] = whole]
  <2>1. \A w \in Versions : w # v => staged'[w] = staged[w]
    BY <1>1, <1>3
  <2>2. staged'[v] = s
    BY <1>1, <1>3
  <2>3. Catalog' = [w \in Versions |-> IF w = v THEN whole ELSE Catalog[w]]
    BY <1>3, <1>6, <2>1, <2>2, ArchiveView
  <2>4. QED
    BY <1>1, <2>3, ArchiveView
<1>8. Catalog[v] = NotStaged
  BY <1>1, <1>5, ArchiveView
<1>9. Reports' = Reports
  <2>1. StagedRun(pub[p], pub[p].generation).pc # "done"
    BY DEF StagedRun, Run
  <2>2. QED
    BY <1>1, <1>3, <2>1, ReportsStay
<1>10. QED
  BY <1>1, <1>2, <1>3, <1>7, <1>8, <1>9 DEF Promise!Stage, whole

\* A snapshot of the catalog has a profile.
LEMMA CompleteIsStaged ==
  ASSUME PublishInv, NEW v \in Versions, staged[v].complete
  PROVE  Catalog[v] # NotStaged /\ Catalog[v].generation = staged[v].generation
<1>1. Catalog[v].profile = staged[v].profile /\ Catalog[v].generation = staged[v].generation
  BY ArchiveView DEF Entry
<1>2. staged[v].profile # "none" /\ NotStaged.profile = "none"
  BY DEF PublishInv, TypeOK, Staging, Profiles, NotStaged
<1>3. QED
  BY <1>1, <1>2

(* The readers are moved.                                                   *)
LEMMA CutOverMoves ==
  ASSUME PublishInv, NEW p \in Publishers, CutOver(p)
  PROVE  Promise!CutOver(pub[p].version)
<1> DEFINE r == [pub[p] EXCEPT !.pc = "verify", !.expected = pub[p].run]
<1>1. /\ Active(p) /\ pub[p].version \in Versions /\ staged[pub[p].version].complete
      /\ pub \in [Publishers -> RunState] /\ UNCHANGED <<staged, bundles>>
      /\ serving'.version = pub[p].version
  BY DEF CutOver, Active, Ended, PublishInv, TypeOK, RunSound, Position, PublisherStatusMatches
<1>2. pub' = [pub EXCEPT ![p] = r] /\ r.pc # "done"
  BY <1>1 DEF CutOver, RunState
<1>3. Catalog' = Catalog
  BY <1>1, CatalogStays
<1>4. Reports' = Reports
  BY <1>1, <1>2, ReportsStay
<1>5. Catalog[pub[p].version] # NotStaged
  BY <1>1, CompleteIsStaged
<1>6. QED
  BY <1>1, <1>3, <1>4, <1>5 DEF Promise!CutOver

(* A command reports what is staged; after a cutover, what is served.       *)
LEMMA SuccessReports ==
  ASSUME PublishInv, NEW p \in Publishers, Active(p), pub' = [pub EXCEPT ![p] = Succeeded(pub[p])],
         UNCHANGED remote, Holds(pub[p], staged[pub[p].version]),
         pub[p].cutover => serving.version = pub[p].version
  PROVE  Promise!Report(p)
<1> DEFINE v   == pub[p].version
           r   == Succeeded(pub[p])
           how == IF pub[p].cutover THEN "published" ELSE "staged"
           new == [how |-> how, snapshot |-> v, generation |-> Catalog[v].generation]
<1>1. v \in Versions /\ pub \in [Publishers -> RunState]
  BY DEF PublishInv, TypeOK, RunSound, Position, Active, Ended
<1>2. UNCHANGED <<staged, bundles, serving>>
  BY DEF remote
<1>3. Catalog' = Catalog
  BY <1>2, CatalogStays
<1>4. Catalog[v] # NotStaged /\ Catalog[v].generation = pub[p].generation
  BY <1>1, CompleteIsStaged DEF Holds
<1>5. /\ r.pc = "done" /\ r.cutover = pub[p].cutover /\ r.version = v
      /\ r.generation = pub[p].generation
  BY DEF Succeeded, Run
<1> HIDE DEF r
<1>6. ReportOf(r) = new
  BY <1>4, <1>5 DEF ReportOf
<1> HIDE DEF new
<1>7. Reports' = [Reports EXCEPT ![p] = new]
  <2>1. pub'[p] = r /\ \A q \in Publishers : q # p => pub'[q] = pub[q]
    BY <1>1 DEF r
  <2>2. Reports' = [q \in Publishers |-> IF q = p THEN new ELSE Reports[q]]
    BY <1>6, <2>1, ArchiveView
  <2>3. QED
    BY <2>2, ArchiveView
<1>8. how \in {"staged", "published"} /\ (how = "published" => serving.version = v)
  OBVIOUS
<1>9. QED
  BY <1>1, <1>2, <1>3, <1>4, <1>7, <1>8 DEF Promise!Report, new

(* A new command withdraws the report of the one before.                    *)
LEMMA FreezeWithdraws ==
  ASSUME PublishInv, NEW p \in Publishers, NEW profile \in Profiles,
         NEW cutover \in BOOLEAN, NEW allow \in BOOLEAN, Freeze(p, profile, cutover, allow)
  PROVE  Promise!Withdraw(p)
<1>1. /\ pub \in [Publishers -> RunState] /\ UNCHANGED <<staged, bundles, serving>>
  BY DEF PublishInv, TypeOK, Freeze, remote
<1>2. \A q \in Publishers : q # p =>
           pub'[q] = [pub[q] EXCEPT !.disturbed = pub[q].disturbed \/ Active(q)]
  BY DEF Freeze
<1>3. pub'[p].pc = "probe"
  BY DEF Freeze, Run
<1>4. \A q \in Publishers : q # p => ReportOf(pub'[q]) = ReportOf(pub[q])
  <2>1. SUFFICES ASSUME NEW q \in Publishers, q # p
                 PROVE  ReportOf(pub'[q]) = ReportOf(pub[q])
    OBVIOUS
  <2> DEFINE d == pub[q].disturbed \/ Active(q)
  <2>2. pub'[q] = [pub[q] EXCEPT !.disturbed = d] /\ pub[q] \in RunState
    BY <2>1, <1>1, <1>2
  <2> HIDE DEF d
  <2>3. /\ pub'[q].pc = pub[q].pc /\ pub'[q].version = pub[q].version
        /\ pub'[q].cutover = pub[q].cutover /\ pub'[q].generation = pub[q].generation
    BY <2>2 DEF RunState
  <2>4. QED
    BY <2>3 DEF ReportOf
<1>5. ReportOf(pub'[p]) = NoReport
  BY <1>3 DEF ReportOf
<1>6. Reports' = [Reports EXCEPT ![p] = NoReport]
  <2>1. Reports' = [q \in Publishers |-> IF q = p THEN NoReport ELSE Reports[q]]
    BY <1>4, <1>5, ArchiveView
  <2>2. QED
    BY <2>1, ArchiveView
<1>7. Catalog' = Catalog
  BY <1>1, CatalogStays
<1>8. QED
  BY <1>1, <1>6, <1>7 DEF Promise!Withdraw

(* What a publisher does shows as one step of the archive, or as none.      *)
LEMMA StepShows ==
  ASSUME PublishInv, NEW p \in Publishers, Step(p)
  PROVE  [Promise!Next]_(Promise!archiveVars)
<1>1. RunSound(pub[p], staged[pub[p].version], bundles) /\ pub[p] \in RunState
      /\ (Active(p) => pub[p].version \in Versions)
  BY DEF PublishInv, TypeOK, RunSound, Position, Active, Ended
<1>2. CASE Probe(p)
  BY <1>2, HiddenStaged, HiddenGoto DEF Probe, Active, Ended, remote
<1>3. CASE Upload(p)
  <2>1. Active(p) /\ Goto(p, "ingest") /\ bundles \subseteq bundles' /\ UNCHANGED <<staged, serving>>
    BY <1>3 DEF Upload, Active, Ended
  <2>2. QED
    BY <2>1, HiddenGoto
<1>4. CASE Refused(p)
  <2>1. Active(p) /\ UNCHANGED <<staged, bundles, serving>>
        /\ (Goto(p, "recover") \/ Fail(p))
    BY <1>4 DEF Refused, Active, Ended, remote
  <2>2. QED
    BY <2>1, HiddenGoto, HiddenFail DEF Fail
<1>5. CASE MeetReset(p)
  <2>1. Active(p) /\ Goto(p, "drain") /\ UNCHANGED <<bundles, serving>>
    BY <1>5 DEF MeetReset, Active, Ended
  <2>2. QED
    BY <1>5, <2>1, HiddenGoto, StillIncomplete
<1>6. CASE Drain(p)
  <2>1. Active(p) /\ UNCHANGED <<bundles, serving>> /\ (Goto(p, "ingest") \/ pub' = pub)
    BY <1>6 DEF Drain, Active, Ended
  <2>2. CASE pub' = pub
    <3>1. Reports' = Reports
      BY <2>2 DEF Reports
    <3>2. QED
      BY <1>6, <2>1, <3>1, CatalogStays, StillIncomplete, StutterOf
  <2>3. QED
    BY <1>6, <2>1, <2>2, HiddenGoto, StillIncomplete
<1>7. CASE Ingest(p)
  <2>1. Active(p) /\ UNCHANGED <<bundles, serving>> /\ pub' = [pub EXCEPT ![p] = AfterBatch(p)]
        /\ pub[p].pc = "ingest"
    BY <1>7 DEF Ingest, Active, Ended
  <2>2. AfterBatch(p).pc # "done"
    BY <1>1, <2>1 DEF AfterBatch, RunState
  <2>3. QED
    BY <1>7, <2>1, <2>2, HiddenMove, StillIncomplete
<1>8. CASE Complete(p)
  <2>1. pub[p].version \in Versions
    BY <1>1, <1>8 DEF Complete, Active, Ended
  <2>2. QED
    BY <1>8, <2>1, CompleteStages DEF Promise!Next
<1>9. CASE Recover(p)
  <2>1. Active(p) /\ UNCHANGED remote /\ UNCHANGED <<staged, bundles, serving>>
        /\ (AdoptGeneration(p) \/ Fail(p))
    BY <1>9 DEF Recover, Active, Ended, remote
  <2>2. QED
    BY <2>1, HiddenStaged, HiddenFail DEF Fail
<1>10. CASE ReadStatus(p)
  <2>1. Active(p) /\ UNCHANGED <<staged, bundles, serving>> /\ pub \in [Publishers -> RunState]
    BY <1>10 DEF ReadStatus, Active, Ended, remote, PublishInv, TypeOK
  <2>2. CASE Goto(p, "verify")
    BY <2>1, <2>2, HiddenGoto
  <2>3. CASE pub' = [pub EXCEPT ![p].pc = "cutover",
                     ![p].lag = @ + (IF ReaderStatusMatches(p) THEN 1 ELSE 0)]
    <3> DEFINE lag == pub[p].lag + (IF ReaderStatusMatches(p) THEN 1 ELSE 0)
               r   == [pub[p] EXCEPT !.pc = "cutover", !.lag = lag]
    <3>1. pub' = [pub EXCEPT ![p] = r]
      BY <2>1, <2>3
    <3> HIDE DEF lag
    <3>2. r.pc # "done"
      BY <2>1 DEF RunState
    <3> HIDE DEF r
    <3>3. QED
      BY <2>1, <3>1, <3>2, HiddenMove
  <2>4. QED
    BY <1>10, <2>2, <2>3 DEF ReadStatus
<1>11. CASE CutOver(p)
  <2>1. pub[p].version \in Versions
    BY <1>1, <1>11 DEF CutOver, Active, Ended
  <2>2. QED
    BY <1>11, <2>1, CutOverMoves DEF Promise!Next
<1>12. CASE VerifyReader(p)
  <2>1. Active(p) /\ UNCHANGED <<staged, bundles, serving>> /\ pub \in [Publishers -> RunState]
        /\ pub[p].pc = "verify"
    BY <1>12 DEF VerifyReader, Active, Ended, remote, PublishInv, TypeOK
  <2>2. CASE Goto(p, "hydrate")
    BY <2>1, <2>2, HiddenGoto
  <2>3. CASE pub' = [pub EXCEPT ![p].tries = @ + 1,
                     ![p].lag = @ + (IF ReaderStatusMatches(p) THEN 1 ELSE 0)]
    <3> DEFINE lag == pub[p].lag + (IF ReaderStatusMatches(p) THEN 1 ELSE 0)
               r   == [pub[p] EXCEPT !.tries = pub[p].tries + 1, !.lag = lag]
    <3>1. pub' = [pub EXCEPT ![p] = r]
      BY <2>1, <2>3
    <3> HIDE DEF lag
    <3>2. r.pc # "done"
      BY <2>1 DEF RunState
    <3> HIDE DEF r
    <3>3. QED
      BY <2>1, <3>1, <3>2, HiddenMove
  <2>4. CASE Fail(p)
    BY <2>1, <2>4, HiddenFail DEF Fail
  <2>5. QED
    BY <1>12, <2>2, <2>3, <2>4 DEF VerifyReader
<1>13. CASE Hydrate(p)
  <2>1. Active(p) /\ UNCHANGED remote /\ UNCHANGED <<staged, bundles, serving>>
        /\ pub[p].pc = "hydrate"
    BY <1>13 DEF Hydrate, Active, Ended, remote
  <2>2. CASE Hydrated(p)
    <3>1. Holds(pub[p], staged[pub[p].version]) /\ serving.version = pub[p].version
      BY <1>1, <2>1, <2>2 DEF RunSound, Known, Hydrated, DigestMatches
    <3>2. Promise!Report(p)
      BY <1>13, <2>1, <2>2, <3>1, SuccessReports DEF Hydrate
    <3>3. QED
      BY <3>2 DEF Promise!Next
  <2>3. CASE ~Hydrated(p)
    BY <1>13, <2>1, <2>3, HiddenFail DEF Hydrate
  <2>4. QED
    BY <2>2, <2>3
<1>14. CASE Output(p)
  <2>1. Active(p) /\ UNCHANGED remote /\ pub' = [pub EXCEPT ![p] = Succeeded(pub[p])]
        /\ Holds(pub[p], staged[pub[p].version]) /\ ~pub[p].cutover
    BY <1>1, <1>14 DEF Output, Active, Ended, remote, RunSound, Position, Known
  <2>2. Promise!Report(p)
    BY <2>1, SuccessReports
  <2>3. QED
    BY <2>2 DEF Promise!Next
<1>15. QED
  BY <1>2, <1>3, <1>4, <1>5, <1>6, <1>7, <1>8, <1>9, <1>10, <1>11, <1>12, <1>13, <1>14 DEF Step

LEMMA NextShows ==
  ASSUME PublishInv, [Next]_vars
  PROVE  [Promise!Next]_(Promise!archiveVars)
<1>1. CASE UNCHANGED vars \/ Sync
  <2>1. UNCHANGED <<staged, bundles, serving, pub>>
    BY <1>1 DEF vars, Sync, remote
  <2>2. QED
    BY <2>1, StutterOf DEF Catalog, Reports
<1>2. ASSUME NEW p \in Publishers, NEW profile \in Profiles, NEW cutover \in BOOLEAN,
             NEW allow \in BOOLEAN, Freeze(p, profile, cutover, allow)
      PROVE  [Promise!Next]_(Promise!archiveVars)
  BY <1>2, FreezeWithdraws DEF Promise!Next
<1>3. ASSUME NEW p \in Publishers, RejectRows(p)
      PROVE  [Promise!Next]_(Promise!archiveVars)
  BY <1>3, StillIncomplete, HiddenFail DEF RejectRows, Disrupt, Active, Ended
<1>4. ASSUME NEW p \in Publishers, Stop(p)
      PROVE  [Promise!Next]_(Promise!archiveVars)
  BY <1>4, HiddenFail DEF Stop, Disrupt, remote
<1>5. QED
  BY <1>1, <1>2, <1>3, <1>4, StepShows DEF Next

(* The publishers and the remote keep the promise of SnapshotArchive: a     *)
(* snapshot becomes complete once, whole and downloadable; readers move     *)
(* only between complete snapshots; a command that succeeds names the       *)
(* generation that is staged and, after a cutover, has seen its own image   *)
(* served.                                                                  *)
THEOREM PublicationRefines == Spec => PublicationKeepsPromise
<1>1. Init => Promise!Init
  BY PromiseStart
<1>2. PublishInv /\ [Next]_vars => [Promise!Next]_(Promise!archiveVars)
  BY NextShows
<1>3. QED
  BY <1>1, <1>2, PublishInvariant, PTL DEF Spec, PublicationKeepsPromise, Promise!Spec

=============================================================================
