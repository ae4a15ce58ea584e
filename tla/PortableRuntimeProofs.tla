----------------------- MODULE PortableRuntimeProofs -----------------------
(***************************************************************************)
(* What TLAPS proves of PortableRuntime, for any number of processes,      *)
(* published versions, local writes, killed merges and crashes.            *)
(***************************************************************************)
EXTENDS PortableRuntime, TLAPS

\* A version whose own manifest describes it.
SoundVersion(v) == v \in 1..Latest /\ (WithManifest => published[v] = v)

\* Every manifest the publisher ever commits was made for its version.
ManifestsSound ==
    \A v \in 1..Latest :
        published[v] \in 1..Latest /\ published[published[v]] = published[v]

\* A manifest of the checkout was published, and its database is complete or torn.
CheckoutSound ==
    /\ checkout.head \in 1..Latest
    /\ checkout.db \in 1..Latest \cup {Torn}
    /\ checkout.man \in 1..Latest /\ published[checkout.man] = checkout.man

MirrorSound ==
    mirror # Absent => SoundVersion(mirror.base) /\ mirror.local <= commits

\* What a process holds: a commit while git runs, any database of the checkout
\* before the copy is checked, a sound one after; and a mirror once it is there.
HoldsSound(r) ==
    /\ r.pc \in Merging  => r.held \in 1..Latest
    /\ r.pc = "copied"   => r.held \in 1..Latest \cup {Torn}
    /\ r.pc = "install"  => SoundVersion(r.held)
    /\ r.pc \in {"health", "mark", "stamp", "ready", "open"} => mirror # Absent

ProcessesSound == \A p \in Procs : HoldsSound(proc[p])

\* The inductive invariant.
MirrorInv ==
    /\ TypeOK
    /\ ManifestsSound
    /\ CheckoutSound
    /\ MirrorSound
    /\ ProcessesSound

-----------------------------------------------------------------------------
(* A database that passes the check against a manifest of the checkout is   *)
(* sound: that manifest describes the version it was made for.              *)
LEMMA ValidIsSound ==
    ASSUME MirrorInv, NEW v \in 1..Latest \cup {Torn}, Valid(v, checkout.man)
    PROVE  SoundVersion(v)
BY DEF MirrorInv, CheckoutSound, Valid, SoundVersion

(* A process moves: the others hold what they held.                         *)
LEMMA ProcessMoves ==
    ASSUME MirrorInv, NEW p \in Procs, NEW r \in Process,
           proc' = [proc EXCEPT ![p] = r],
           HoldsSound(r),
           UNCHANGED <<published, mirror>>
    PROVE  proc' \in [Procs -> Process] /\ ProcessesSound'
<1>1. proc \in [Procs -> Process]
  BY DEF MirrorInv, TypeOK
<1>2. proc' \in [Procs -> Process]
  BY <1>1
<1>3. ASSUME NEW q \in Procs PROVE HoldsSound(proc[q])'
  <2>1. HoldsSound(proc'[q])
    BY <1>1 DEF MirrorInv, ProcessesSound
  <2>2. QED
    BY <2>1 DEF HoldsSound, SoundVersion, Latest
<1>4. QED
  BY <1>2, <1>3 DEF ProcessesSound

(* Nothing but a process and the lock files moves.                          *)
LEMMA OnlyProcessMoves ==
    ASSUME MirrorInv, NEW p \in Procs, NEW r \in Process,
           proc' = [proc EXCEPT ![p] = r],
           HoldsSound(r),
           UNCHANGED <<published, checkout, mirror, newer, commits>>,
           gitLock' \in Procs \cup {None}, refreshLock' \in Procs \cup {None},
           attempted' \in BOOLEAN, verified' \in BOOLEAN,
           kills' \in 0..MaxKills, crashes' \in 0..MaxCrashes
    PROVE  MirrorInv'
<1>1. proc' \in [Procs -> Process] /\ ProcessesSound'
  BY ProcessMoves
<1>2. TypeOK'
  BY <1>1 DEF MirrorInv, TypeOK, Latest
<1>3. ManifestsSound' /\ CheckoutSound' /\ MirrorSound'
  BY DEF MirrorInv, ManifestsSound, CheckoutSound, MirrorSound, SoundVersion, Latest
<1>4. QED
  BY <1>1, <1>2, <1>3 DEF MirrorInv

(* Moving to a place where a process holds nothing.                         *)
Free == {"idle", "due", "stale", "lock", "refresh", "finish", "check", "source",
         "repair", "pull", "unrepaired", "recheck", "reclone", "recloned", "copy"}

LEMMA FreeHolds ==
    ASSUME NEW r \in Process, r.pc \in Free
    PROVE  HoldsSound(r)
BY DEF HoldsSound, Free, Merging

(* The record of a process, changed in its place.                           *)
Moved(p, step) == [proc[p] EXCEPT !.pc = step]

LEMMA MovedIs ==
    ASSUME MirrorInv, NEW p \in Procs, NEW step \in Free
    PROVE  /\ proc[p] \in Process /\ HoldsSound(proc[p])
           /\ Moved(p, step) \in Process /\ HoldsSound(Moved(p, step))
           /\ At(p, step) = [proc EXCEPT ![p] = Moved(p, step)]
<1>1. proc[p] \in Process /\ HoldsSound(proc[p])
  BY DEF MirrorInv, TypeOK, ProcessesSound
<1>2. Moved(p, step) \in Process /\ Moved(p, step).pc = step
  BY <1>1 DEF Moved, Process, Free, Merging
<1>3. At(p, step) = [proc EXCEPT ![p] = Moved(p, step)]
  BY DEF At, Moved
<1>4. QED
  BY <1>1, <1>2, <1>3, FreeHolds

LEMMA ToFree ==
    ASSUME MirrorInv, NEW p \in Procs, NEW step \in Free,
           proc' = At(p, step),
           UNCHANGED <<published, checkout, mirror, newer, commits>>,
           gitLock' \in Procs \cup {None}, refreshLock' \in Procs \cup {None},
           attempted' \in BOOLEAN, verified' \in BOOLEAN,
           kills' \in 0..MaxKills, crashes' \in 0..MaxCrashes
    PROVE  MirrorInv'
BY MovedIs, OnlyProcessMoves

-----------------------------------------------------------------------------
(* The refresh.                                                             *)
LEMMA RefreshKeeps ==
    ASSUME MirrorInv, NEW p \in Procs, RefreshStep(p)
    PROVE  MirrorInv'
<1> USE DEF MirrorInv, TypeOK, Bounded
<1>1. CASE RefreshNotDue(p)
  BY <1>1, ToFree DEF RefreshNotDue, Free
<1>2. CASE SeeRefreshLock(p)
  BY <1>2, ToFree DEF SeeRefreshLock, Free
<1>3. CASE RemoveStaleLock(p)
  BY <1>3, ToFree DEF RemoveStaleLock, Free
<1>4. CASE TakeRefreshLock(p)
  <2> DEFINE r == [proc[p] EXCEPT !.pc = "refresh", !.saved = verified]
  <2>1. proc[p] \in Process
    BY DEF MirrorInv, TypeOK
  <2>2. r \in Process /\ r.pc = "refresh"
    BY <2>1 DEF Process
  <2>3. HoldsSound(r)
    BY <2>2, FreeHolds DEF Free
  <2>4. proc' = [proc EXCEPT ![p] = r]
    BY <1>4 DEF TakeRefreshLock
  <2>5. QED
    BY <1>4, <2>2, <2>3, <2>4, OnlyProcessMoves DEF TakeRefreshLock
<1>5. CASE RefreshLockBusy(p)
  BY <1>5, ToFree DEF RefreshLockBusy, Free
<1>6. CASE AlreadyRefreshed(p)
  BY <1>6, ToFree DEF AlreadyRefreshed, Free
<1>7. CASE RefreshFails(p)
  BY <1>7, ToFree DEF RefreshFails, Free
<1>8. CASE FinishRefresh(p)
  <2>1. proc[p].saved \in BOOLEAN
    BY DEF Process
  <2>2. QED
    BY <1>8, <2>1, ToFree DEF FinishRefresh, Free
<1>9. QED
  BY <1>1, <1>2, <1>3, <1>4, <1>5, <1>6, <1>7, <1>8 DEF RefreshStep

-----------------------------------------------------------------------------
(* All processes as a step leaves them, and the files it wrote.             *)
AllSound(ps) == ps \in [Procs -> Process] /\ \A q \in Procs : HoldsSound(ps[q])

LEMMA FilesMove ==
    ASSUME MirrorInv, AllSound(proc'),
           UNCHANGED <<published, mirror, commits>>,
           CheckoutSound',
           checkout' \in [head : 1..Latest, db : 1..Latest \cup {Torn},
                          man : 1..Latest, present : BOOLEAN],
           gitLock' \in Procs \cup {None}, refreshLock' \in Procs \cup {None},
           attempted' \in BOOLEAN, newer' \in BOOLEAN, verified' \in BOOLEAN,
           kills' \in 0..MaxKills, crashes' \in 0..MaxCrashes
    PROVE  MirrorInv'
<1>1. ProcessesSound'
  BY DEF AllSound, ProcessesSound, HoldsSound, SoundVersion, Latest
<1>2. TypeOK'
  BY DEF MirrorInv, TypeOK, AllSound, Latest
<1>3. ManifestsSound' /\ MirrorSound'
  BY DEF MirrorInv, ManifestsSound, MirrorSound, SoundVersion, Latest
<1>4. QED
  BY <1>1, <1>2, <1>3 DEF MirrorInv

(* Setting flags changes nothing a process holds.                           *)
LEMMA FlagsKeep ==
    ASSUME NEW ps, AllSound(ps)
    PROVE  AllSound(AfterSource(ps)) /\ AllSound(AfterManifest(ps)) /\ AllSound(AfterMirror(ps))
<1>1. ASSUME NEW q \in Procs, NEW b \in BOOLEAN, NEW c \in BOOLEAN
      PROVE  /\ [ps[q] EXCEPT !.behind = b] \in Process
             /\ [ps[q] EXCEPT !.seen = b, !.saved = c] \in Process
             /\ [ps[q] EXCEPT !.saved = b] \in Process
             /\ HoldsSound([ps[q] EXCEPT !.behind = b])
             /\ HoldsSound([ps[q] EXCEPT !.seen = b, !.saved = c])
             /\ HoldsSound([ps[q] EXCEPT !.saved = b])
  <2>1. ps[q] \in Process /\ HoldsSound(ps[q])
    BY DEF AllSound
  <2>2. /\ [ps[q] EXCEPT !.behind = b] \in Process
        /\ [ps[q] EXCEPT !.seen = b, !.saved = c] \in Process
        /\ [ps[q] EXCEPT !.saved = b] \in Process
    BY <2>1 DEF Process
  <2>3. ASSUME NEW r, r.pc = ps[q].pc, r.held = ps[q].held PROVE HoldsSound(r)
    BY <2>1, <2>3 DEF HoldsSound
  <2>4. /\ HoldsSound([ps[q] EXCEPT !.behind = b])
        /\ HoldsSound([ps[q] EXCEPT !.seen = b, !.saved = c])
        /\ HoldsSound([ps[q] EXCEPT !.saved = b])
    <3>1. /\ [ps[q] EXCEPT !.behind = b].pc = ps[q].pc
          /\ [ps[q] EXCEPT !.behind = b].held = ps[q].held
          /\ [ps[q] EXCEPT !.seen = b, !.saved = c].pc = ps[q].pc
          /\ [ps[q] EXCEPT !.seen = b, !.saved = c].held = ps[q].held
          /\ [ps[q] EXCEPT !.saved = b].pc = ps[q].pc
          /\ [ps[q] EXCEPT !.saved = b].held = ps[q].held
      BY <2>1 DEF Process
    <3>2. QED
      BY <2>3, <3>1
  <2>5. QED
    BY <2>2, <2>4
<1>2. QED
  BY <1>1 DEF AllSound, AfterSource, AfterManifest, AfterMirror

LEMMA OneMoves ==
    ASSUME MirrorInv, NEW p \in Procs, NEW r \in Process, HoldsSound(r)
    PROVE  AllSound([proc EXCEPT ![p] = r])
BY DEF MirrorInv, TypeOK, ProcessesSound, AllSound

(* While git runs a process holds the commit it merges.                     *)
LEMMA MergeMoves ==
    ASSUME MirrorInv, NEW p \in Procs, proc[p].pc \in Merging, NEW step \in Merging
    PROVE  AllSound(At(p, step))
<1> DEFINE r == [proc[p] EXCEPT !.pc = step]
<1>1. proc[p] \in Process /\ HoldsSound(proc[p])
  BY DEF MirrorInv, TypeOK, ProcessesSound
<1>2. r \in Process
  BY <1>1 DEF Process, Merging
<1>3. HoldsSound(r)
  BY <1>1 DEF HoldsSound, Merging, Process
<1>4. At(p, step) = [proc EXCEPT ![p] = r]
  BY DEF At
<1>5. QED
  BY <1>2, <1>3, <1>4, OneMoves

LEMMA FreeMoves ==
    ASSUME MirrorInv, NEW p \in Procs, NEW step \in Free
    PROVE  AllSound(At(p, step))
BY MovedIs, OneMoves

-----------------------------------------------------------------------------
(* Git.                                                                     *)
LEMMA GitKeeps ==
    ASSUME MirrorInv, NEW p \in Procs, GitStep(p)
    PROVE  MirrorInv'
<1>0. /\ proc[p] \in Process
      /\ proc[p].pc \in Merging => proc[p].held \in 1..Latest
      /\ AfterPull(p) \in Free
  BY DEF MirrorInv, TypeOK, ProcessesSound, HoldsSound, AfterPull, Free
<1>00. Latest \in 1..MaxPublishes
  BY DEF MirrorInv, TypeOK
<1>1. CASE StartMerge(p)
  <2> DEFINE r == [proc[p] EXCEPT !.pc = "merge", !.held = Latest]
  <2>0. Latest \in 0..MaxPublishes \cup {Torn} /\ "merge" \in Merging
    BY <1>00, RuntimeAssumption DEF Merging
  <2>1. r \in Process /\ r.pc = "merge" /\ r.held = Latest
    BY <1>0, <2>0 DEF Process
  <2>2. HoldsSound(r)
    BY <2>1, <1>00 DEF HoldsSound
  <2>3. proc' = [proc EXCEPT ![p] = r]
    BY <1>1 DEF StartMerge
  <2>4. AllSound(proc')
    BY <2>1, <2>2, <2>3, OneMoves
  <2>5. CheckoutSound'
    BY <1>1 DEF StartMerge, MirrorInv, CheckoutSound, Latest
  <2>6. QED
    BY <1>1, <2>4, <2>5, FilesMove DEF StartMerge, MirrorInv, TypeOK, Bounded
<1>2. CASE UpToDate(p)
  BY <1>0, <1>2, ToFree DEF UpToDate, MirrorInv, TypeOK, Bounded
<1>3. CASE WriteDatabase(p)
  <2>1. AllSound(proc')
    BY <1>3, MergeMoves, FlagsKeep DEF WriteDatabase, Merging
  <2>2. CheckoutSound'
    BY <1>3 DEF WriteDatabase, MirrorInv, CheckoutSound, TypeOK, Latest
  <2>3. QED
    BY <1>3, <2>1, <2>2, FilesMove DEF WriteDatabase, MirrorInv, TypeOK, Bounded
<1>4. CASE DatabaseWritten(p)
  <2>1. AllSound(proc')
    BY <1>4, MergeMoves, FlagsKeep DEF DatabaseWritten, Merging
  <2>2. proc[p].held \in 1..Latest
    BY <1>0, <1>4 DEF DatabaseWritten, Merging
  <2>3. CheckoutSound'
    BY <1>4, <2>2 DEF DatabaseWritten, MirrorInv, CheckoutSound, TypeOK, Latest
  <2>4. QED
    BY <1>4, <2>1, <2>2, <2>3, FilesMove DEF DatabaseWritten, MirrorInv, TypeOK, Bounded
<1>5. CASE WriteManifest(p)
  <2>1. AllSound(proc')
    BY <1>5, MergeMoves, FlagsKeep DEF WriteManifest, Merging
  <2>2. proc[p].held \in 1..Latest
    BY <1>0, <1>5 DEF WriteManifest, Merging
  <2>3. published[proc[p].held] \in 1..Latest
        /\ published[published[proc[p].held]] = published[proc[p].held]
    BY <2>2 DEF MirrorInv, ManifestsSound
  <2>4. CheckoutSound'
    BY <1>5, <2>3 DEF WriteManifest, MirrorInv, CheckoutSound, TypeOK, Latest
  <2>5. QED
    BY <1>5, <2>1, <2>3, <2>4, FilesMove DEF WriteManifest, MirrorInv, TypeOK, Bounded
<1>6. CASE MoveHead(p)
  <2>1. AllSound(proc')
    BY <1>0, <1>6, FreeMoves DEF MoveHead
  <2>2. proc[p].held \in 1..Latest
    BY <1>0, <1>6 DEF MoveHead, Merging
  <2>3. CheckoutSound'
    BY <1>6, <2>2 DEF MoveHead, MirrorInv, CheckoutSound, TypeOK, Latest
  <2>4. QED
    BY <1>6, <2>1, <2>2, <2>3, FilesMove DEF MoveHead, MirrorInv, TypeOK, Bounded
<1>7. CASE MergeOrphaned(p)
  BY <1>0, <1>7, ToFree DEF MergeOrphaned, MirrorInv, TypeOK, Bounded
<1>8. QED
  BY <1>1, <1>2, <1>3, <1>4, <1>5, <1>6, <1>7 DEF GitStep

-----------------------------------------------------------------------------
(* The mirror.                                                              *)

(* A process moves to a place where there is a mirror.                      *)
LEMMA ToMirror ==
    ASSUME MirrorInv, NEW p \in Procs, mirror # Absent,
           NEW step \in {"health", "mark", "ready"}
    PROVE  /\ Moved(p, step) \in Process /\ HoldsSound(Moved(p, step))
           /\ At(p, step) = [proc EXCEPT ![p] = Moved(p, step)]
<1>1. proc[p] \in Process
  BY DEF MirrorInv, TypeOK
<1>2. Moved(p, step) \in Process /\ Moved(p, step).pc = step
  BY <1>1 DEF Moved, Process
<1>3. HoldsSound(Moved(p, step))
  BY <1>2 DEF HoldsSound, Merging
<1>4. QED
  BY <1>2, <1>3 DEF At, Moved

(* A process returns.                                                       *)
LEMMA Returns ==
    ASSUME MirrorInv, NEW p \in Procs, NEW r \in {"ok", "error"}
    PROVE  /\ [proc[p] EXCEPT !.pc = "idle", !.result = r] \in Process
           /\ HoldsSound([proc[p] EXCEPT !.pc = "idle", !.result = r])
           /\ Return(p, r) = [proc EXCEPT ![p] = [proc[p] EXCEPT !.pc = "idle", !.result = r]]
<1> DEFINE s == [proc[p] EXCEPT !.pc = "idle", !.result = r]
<1>1. proc[p] \in Process
  BY DEF MirrorInv, TypeOK
<1>2. s \in Process /\ s.pc = "idle"
  BY <1>1 DEF Process
<1>3. HoldsSound(s)
  BY <1>2, FreeHolds DEF Free
<1>4. QED
  BY <1>2, <1>3 DEF Return

LEMMA MirrorKeeps ==
    ASSUME MirrorInv, NEW p \in Procs, MirrorStep(p)
    PROVE  MirrorInv'
<1>0. /\ proc[p] \in Process /\ HoldsSound(proc[p])
      /\ gitLock \in Procs \cup {None} /\ refreshLock \in Procs \cup {None}
      /\ attempted \in BOOLEAN /\ verified \in BOOLEAN
      /\ kills \in 0..MaxKills /\ crashes \in 0..MaxCrashes
  BY DEF MirrorInv, TypeOK, ProcessesSound
<1>1. CASE NeedsCopy(p)
  BY <1>0, <1>1, ToFree DEF NeedsCopy, Free, Bounded
<1>2. CASE CachedHealth(p)
  <2> DEFINE step == IF verified THEN "ready" ELSE "health"
             r == [proc[p] EXCEPT !.pc = step, !.seen = TRUE]
  <2>1. r \in Process /\ r.pc = step
    BY <1>0 DEF Process
  <2>2. HoldsSound(r)
    BY <1>2, <2>1 DEF CachedHealth, HoldsSound, Merging
  <2>3. proc' = [proc EXCEPT ![p] = r]
    BY <1>2 DEF CachedHealth
  <2>4. QED
    BY <1>0, <1>2, <2>1, <2>2, <2>3, OnlyProcessMoves DEF CachedHealth, Bounded
<1>3. CASE ValidateMirror(p)
  <2>1. mirror # Absent
    BY <1>0, <1>3 DEF ValidateMirror, HoldsSound
  <2>2. CASE MirrorMatches
    BY <1>0, <1>3, <2>1, <2>2, ToMirror, OnlyProcessMoves DEF ValidateMirror, Bounded
  <2>3. CASE ~MirrorMatches
    BY <1>0, <1>3, <2>3, ToFree DEF ValidateMirror, Free, Bounded
  <2>4. QED
    BY <2>2, <2>3
<1>4. CASE MarkVerified(p)
  <2>1. mirror # Absent /\ proc[p].seen \in BOOLEAN
    BY <1>0, <1>4 DEF MarkVerified, HoldsSound, Process
  <2>2. QED
    BY <1>0, <1>4, <2>1, ToMirror, OnlyProcessMoves DEF MarkVerified, Bounded
<1>5. CASE CheckSource(p)
  <2>1. CASE Valid(checkout.db, checkout.man)
    BY <1>0, <1>5, <2>1, ToFree DEF CheckSource, Free, Bounded
  <2>2. CASE ~Valid(checkout.db, checkout.man)
    <3> DEFINE r == [proc[p] EXCEPT !.pc = "repair", !.repairing = TRUE]
    <3>1. r \in Process /\ r.pc = "repair"
      BY <1>0 DEF Process
    <3>2. HoldsSound(r)
      BY <3>1, FreeHolds DEF Free
    <3>3. proc' = [proc EXCEPT ![p] = r]
      BY <1>5, <2>2 DEF CheckSource
    <3>4. QED
      BY <1>0, <1>5, <3>1, <3>2, <3>3, OnlyProcessMoves DEF CheckSource, Bounded
  <2>3. QED
    BY <2>1, <2>2
<1>6. CASE ReadSource(p)
  <2> DEFINE r == [proc[p] EXCEPT !.pc = "copied", !.held = checkout.db]
  <2>0. checkout.db \in 1..Latest \cup {Torn} /\ Latest \in 1..MaxPublishes
    BY DEF MirrorInv, CheckoutSound, TypeOK
  <2>1. checkout.db \in 0..MaxPublishes \cup {Torn}
    BY <2>0, RuntimeAssumption
  <2>2. r \in Process /\ r.pc = "copied" /\ r.held = checkout.db
    BY <1>0, <2>1 DEF Process
  <2>3. HoldsSound(r)
    BY <2>0, <2>2 DEF HoldsSound, Merging
  <2>4. proc' = [proc EXCEPT ![p] = r]
    BY <1>6 DEF ReadSource
  <2>5. QED
    BY <1>0, <1>6, <2>2, <2>3, <2>4, OnlyProcessMoves DEF ReadSource, Bounded
<1>7. CASE ValidateCopy(p)
  <2>1. CASE Valid(proc[p].held, checkout.man)
    <3> DEFINE r == [proc[p] EXCEPT !.pc = "install", !.behind = FALSE]
    <3>1. SoundVersion(proc[p].held)
      BY <1>0, <1>7, <2>1, ValidIsSound DEF ValidateCopy, HoldsSound
    <3>2. r \in Process /\ r.pc = "install" /\ r.held = proc[p].held
      BY <1>0 DEF Process
    <3>3. HoldsSound(r)
      BY <3>1, <3>2 DEF HoldsSound, Merging
    <3>4. proc' = [proc EXCEPT ![p] = r]
      BY <1>7, <2>1 DEF ValidateCopy
    <3>5. QED
      BY <1>0, <1>7, <3>2, <3>3, <3>4, OnlyProcessMoves DEF ValidateCopy, Bounded
  <2>2. CASE ~Valid(proc[p].held, checkout.man)
    BY <1>0, <1>7, <2>2, Returns, OnlyProcessMoves DEF ValidateCopy, Bounded
  <2>3. QED
    BY <2>1, <2>2
<1>8. CASE Install(p)
  <2>1. SoundVersion(proc[p].held)
    BY <1>0, <1>8 DEF Install, HoldsSound
  <2>2. mirror' = [base |-> proc[p].held, local |-> 0]
    BY <1>8 DEF Install
  <2>3. Latest \in 1..MaxPublishes /\ commits \in Nat /\ MaxCommits \in Nat
    BY RuntimeAssumption DEF MirrorInv, TypeOK
  <2>4. mirror' \in Mirrors /\ MirrorSound' /\ mirror' # Absent
    <3>1. proc[p].held \in 1..Latest
      BY <2>1 DEF SoundVersion
    <3>2. mirror'.base = proc[p].held /\ mirror'.local = 0
      BY <2>2
    <3>3. mirror' \in [base : Nat \cup {Torn}, local : Nat]
      BY <2>2, <2>3, <3>1
    <3>4. mirror' \in Mirrors /\ mirror' # Absent
      BY <2>2, <2>3, <3>1, <3>3, RuntimeAssumption DEF Mirrors
    <3>5. published' = published /\ commits' = commits
      BY <1>8 DEF Install, Bounded
    <3>6. MirrorSound'
      BY <2>1, <2>3, <3>2, <3>5 DEF MirrorSound, SoundVersion, Latest
    <3>7. QED
      BY <3>4, <3>6
  <2>5. ASSUME NEW q \in Procs
        PROVE  proc'[q] \in Process /\ HoldsSound(proc[q])'
    <3> DEFINE r == [proc[q] EXCEPT !.saved = FALSE, !.live = FALSE]
               s == [proc[q] EXCEPT !.pc = "stamp", !.saved = FALSE, !.live = FALSE]
    <3>1. proc[q] \in Process /\ HoldsSound(proc[q])
      BY DEF MirrorInv, TypeOK, ProcessesSound
    <3>2. proc'[q] = IF q = p THEN s ELSE r
      BY <1>8 DEF Install, AfterMirror, At, MirrorInv, TypeOK
    <3>3. /\ r \in Process /\ r.pc = proc[q].pc /\ r.held = proc[q].held
          /\ s \in Process /\ s.pc = "stamp"
      BY <3>1 DEF Process
    <3>4. published' = published
      BY <1>8 DEF Install
    <3>5. HoldsSound(proc[q])'
      BY <2>4, <3>1, <3>2, <3>3, <3>4 DEF HoldsSound, SoundVersion, Latest, Merging
    <3>6. QED
      BY <3>2, <3>3, <3>5
  <2>6. proc' \in [Procs -> Process]
    BY <1>8, <2>5 DEF Install
  <2>7. TypeOK'
    BY <1>0, <1>8, <2>4, <2>6 DEF Install, MirrorInv, TypeOK, Bounded, Latest, Process
  <2>8. ManifestsSound' /\ CheckoutSound'
    BY <1>8 DEF Install, MirrorInv, ManifestsSound, CheckoutSound, Latest
  <2>9. QED
    BY <2>4, <2>5, <2>7, <2>8 DEF MirrorInv, ProcessesSound
<1>9. CASE StampMirror(p)
  <2>1. mirror # Absent
    BY <1>0, <1>9 DEF StampMirror, HoldsSound
  <2>2. QED
    BY <1>0, <1>9, <2>1, ToMirror, OnlyProcessMoves DEF StampMirror, Bounded
<1>10. CASE ReadMirror(p)
  BY <1>0, <1>10, Returns, OnlyProcessMoves DEF ReadMirror, Bounded
<1>11. CASE OpenMirror(p)
  <2> DEFINE r == [proc[p] EXCEPT !.pc = "open", !.live = TRUE]
  <2>1. mirror # Absent
    BY <1>0, <1>11 DEF OpenMirror, HoldsSound
  <2>2. r \in Process /\ r.pc = "open"
    BY <1>0 DEF Process
  <2>3. HoldsSound(r)
    BY <2>1, <2>2 DEF HoldsSound, Merging
  <2>4. proc' = [proc EXCEPT ![p] = r]
    BY <1>11 DEF OpenMirror
  <2>5. QED
    BY <1>0, <1>11, <2>2, <2>3, <2>4, OnlyProcessMoves DEF OpenMirror, Bounded
<1>12. CASE CloseMirror(p)
  <2> DEFINE r == [proc[p] EXCEPT !.pc = "idle", !.live = FALSE, !.result = "ok"]
  <2>1. r \in Process /\ r.pc = "idle"
    BY <1>0 DEF Process
  <2>2. HoldsSound(r)
    BY <2>1, FreeHolds DEF Free
  <2>3. proc' = [proc EXCEPT ![p] = r]
    BY <1>12 DEF CloseMirror
  <2>4. QED
    BY <1>0, <1>12, <2>1, <2>2, <2>3, OnlyProcessMoves DEF CloseMirror, Bounded
<1>13. QED
  BY <1>1, <1>2, <1>3, <1>4, <1>5, <1>6, <1>7, <1>8, <1>9, <1>10, <1>11, <1>12
  DEF MirrorStep

-----------------------------------------------------------------------------
(* Repairs and reclones.                                                    *)

LEMMA RepairKeeps ==
    ASSUME MirrorInv, NEW p \in Procs, RepairStep(p)
    PROVE  MirrorInv'
<1>0. /\ proc[p] \in Process /\ HoldsSound(proc[p])
      /\ gitLock \in Procs \cup {None} /\ refreshLock \in Procs \cup {None}
      /\ attempted \in BOOLEAN /\ verified \in BOOLEAN
      /\ kills \in 0..MaxKills /\ crashes \in 0..MaxCrashes
      /\ Latest \in 1..MaxPublishes /\ AllSound(proc)
  BY DEF MirrorInv, TypeOK, ProcessesSound, AllSound
<1>1. CASE RepairReset(p)
  <2>1. AllSound(proc')
    BY <1>1, FreeMoves, FlagsKeep DEF RepairReset, Free
  <2>2. checkout.head \in 1..Latest /\ published[checkout.head] \in 1..Latest
        /\ published[published[checkout.head]] = published[checkout.head]
    BY DEF MirrorInv, CheckoutSound, ManifestsSound
  <2>3. CheckoutSound'
    BY <1>1, <2>2 DEF RepairReset, MirrorInv, CheckoutSound, TypeOK, Latest
  <2>4. QED
    BY <1>0, <1>1, <2>1, <2>2, <2>3, FilesMove DEF RepairReset, MirrorInv, TypeOK, Bounded
<1>2. CASE RepairClean(p)
  BY <1>0, <1>2, ToFree DEF RepairClean, Free, Bounded
<1>3. CASE RepairFails(p)
  BY <1>0, <1>3, ToFree DEF RepairFails, Free, Bounded
<1>4. CASE UseMirrorUnrepaired(p)
  <2>1. CASE mirror # Absent
    BY <1>0, <1>4, <2>1, ToMirror, OnlyProcessMoves DEF UseMirrorUnrepaired, Bounded
  <2>2. CASE mirror = Absent
    BY <1>0, <1>4, <2>2, Returns, OnlyProcessMoves DEF UseMirrorUnrepaired, Bounded
  <2>3. QED
    BY <2>1, <2>2
<1>5. CASE CheckRepaired(p)
  BY <1>0, <1>5, ToFree DEF CheckRepaired, Free, Bounded
<1>6. CASE StartReclone(p)
  <2>1. AllSound(proc')
    BY <1>6, FreeMoves DEF StartReclone, Free
  <2>2. CheckoutSound'
    BY <1>6 DEF StartReclone, MirrorInv, CheckoutSound, TypeOK, Latest
  <2>3. QED
    BY <1>0, <1>6, <2>1, <2>2, FilesMove DEF StartReclone, MirrorInv, TypeOK, Bounded
<1>7. CASE Recloned(p)
  <2> DEFINE ps == AfterSource(AfterManifest(proc))
             good == [ps[p] EXCEPT !.pc = "copy"]
             bad  == [ps[p] EXCEPT !.pc = "idle", !.result = "error"]
  <2>1. AllSound(ps)
    BY <1>0, FlagsKeep
  <2>2. ps[p] \in Process
    BY <2>1 DEF AllSound
  <2>3. /\ good \in Process /\ good.pc = "copy"
        /\ bad \in Process /\ bad.pc = "idle"
    BY <2>2 DEF Process
  <2>4. HoldsSound(good) /\ HoldsSound(bad)
    BY <2>3, FreeHolds DEF Free
  <2>5. proc' = [ps EXCEPT ![p] = good] \/ proc' = [ps EXCEPT ![p] = bad]
    BY <1>7 DEF Recloned
  <2>6. AllSound(proc')
    BY <2>1, <2>3, <2>4, <2>5 DEF AllSound
  <2>7. published[Latest] \in 1..Latest /\ published[published[Latest]] = published[Latest]
    BY <1>0 DEF MirrorInv, ManifestsSound
  <2>8. CheckoutSound'
    BY <1>0, <1>7, <2>7 DEF Recloned, CheckoutSound, Latest
  <2>9. checkout' \in [head : 1..Latest, db : 1..Latest \cup {Torn},
                       man : 1..Latest, present : BOOLEAN]
    BY <1>0, <1>7, <2>7 DEF Recloned
  <2>10. /\ UNCHANGED <<published, refreshLock, attempted, mirror, commits, kills, crashes>>
         /\ gitLock' = None /\ newer' = TRUE /\ verified' = FALSE
    BY <1>7 DEF Recloned, Bounded
  <2>11. QED
    BY <1>0, <2>6, <2>8, <2>9, <2>10, FilesMove DEF MirrorInv, TypeOK
<1>8. CASE RecloneFails(p)
  <2> DEFINE r == [proc[p] EXCEPT !.pc = "idle", !.result = "error"]
  <2>0. r \in Process /\ r.pc = "idle"
    BY <1>0 DEF Process
  <2>01. HoldsSound(r)
    BY <2>0, FreeHolds DEF Free
  <2>02. proc' = [proc EXCEPT ![p] = r]
    BY <1>8 DEF RecloneFails, Return
  <2>1. AllSound(proc')
    BY <2>0, <2>01, <2>02, OneMoves
  <2>2. CheckoutSound'
    BY <1>8 DEF RecloneFails, MirrorInv, CheckoutSound, TypeOK, Latest
  <2>3. QED
    BY <1>0, <1>8, <2>1, <2>2, FilesMove DEF RecloneFails, MirrorInv, TypeOK, Bounded
<1>9. CASE SourceMissing(p)
  BY <1>0, <1>9, Returns, OnlyProcessMoves DEF SourceMissing, Bounded
<1>10. QED
  BY <1>1, <1>2, <1>3, <1>4, <1>5, <1>6, <1>7, <1>8, <1>9 DEF RepairStep

-----------------------------------------------------------------------------
(* The publisher, the commands, and what interrupts them.                   *)

LEMMA PublishKeeps ==
    ASSUME MirrorInv, Publish
    PROVE  MirrorInv'
<1>1. /\ published \in Seq(1..MaxPublishes) /\ Latest \in 1..MaxPublishes
      /\ Latest < MaxPublishes /\ MaxPublishes \in Nat
  BY RuntimeAssumption DEF MirrorInv, TypeOK, Publish
<1>2. PICK man \in {Latest + 1} \cup (IF MayForget THEN {published[Latest]} ELSE {}) :
          published' = Append(published, man)
  BY DEF Publish
<1>3. published[Latest] \in 1..Latest /\ published[published[Latest]] = published[Latest]
  BY <1>1 DEF MirrorInv, ManifestsSound
<1>4. man \in 1..(Latest + 1) /\ man \in 1..MaxPublishes
      /\ (man = Latest + 1 \/ man = published[Latest])
  BY <1>1, <1>2, <1>3
<1>5. /\ published' \in Seq(1..MaxPublishes) /\ Latest' = Latest + 1
      /\ published'[Latest + 1] = man
      /\ \A v \in 1..Latest : published'[v] = published[v]
  BY <1>1, <1>2, <1>4 DEF Latest
<1>6. ASSUME NEW v \in 1..Latest'
      PROVE  published'[v] \in 1..Latest' /\ published'[published'[v]] = published'[v]
  <2>1. CASE v \in 1..Latest
    <3>1. published[v] \in 1..Latest /\ published[published[v]] = published[v]
      BY <2>1 DEF MirrorInv, ManifestsSound
    <3>2. published'[v] = published[v] /\ published'[published[v]] = published[published[v]]
      BY <1>5, <2>1, <3>1
    <3>3. QED
      BY <1>1, <1>5, <3>1, <3>2
  <2>2. CASE v = Latest + 1
    BY <1>1, <1>3, <1>4, <1>5, <2>2
  <2>3. QED
    BY <1>1, <1>5, <1>6, <2>1, <2>2
<1>7. ASSUME NEW v, SoundVersion(v) PROVE SoundVersion(v)'
  BY <1>1, <1>5, <1>7 DEF SoundVersion
<1>8. UNCHANGED <<checkout, gitLock, refreshLock, attempted, mirror, newer,
                  verified, proc, commits, kills, crashes>>
  BY DEF Publish, Bounded
<1>9. TypeOK'
  <2>1. 1..Latest \subseteq 1..Latest' /\ Latest' \in 1..MaxPublishes
    BY <1>1, <1>5
  <2>2. checkout \in [head : 1..Latest, db : 1..Latest \cup {Torn},
                      man : 1..Latest, present : BOOLEAN]
    BY DEF MirrorInv, TypeOK
  <2>3. checkout' \in [head : 1..Latest', db : 1..Latest' \cup {Torn},
                       man : 1..Latest', present : BOOLEAN]
    BY <1>8, <2>1, <2>2
  <2>4. QED
    BY <1>5, <1>8, <2>1, <2>3 DEF MirrorInv, TypeOK
<1>10. ManifestsSound'
  BY <1>6 DEF ManifestsSound
<1>11. CheckoutSound' /\ MirrorSound'
  <2>1. 1..Latest \subseteq 1..Latest'
    BY <1>1, <1>5
  <2>2. CheckoutSound
    BY DEF MirrorInv
  <2>3. published'[checkout.man] = published[checkout.man]
    BY <1>5, <2>2 DEF CheckoutSound
  <2>4. CheckoutSound'
    BY <1>8, <2>1, <2>2, <2>3 DEF CheckoutSound
  <2>5. mirror # Absent => SoundVersion(mirror.base)' /\ mirror.local <= commits
    BY <1>7, <1>8 DEF MirrorInv, MirrorSound
  <2>6. MirrorSound'
    BY <1>8, <2>5 DEF MirrorSound, SoundVersion
  <2>7. QED
    BY <2>4, <2>6
<1>12. ASSUME NEW p \in Procs PROVE HoldsSound(proc[p])'
  <2>1. HoldsSound(proc[p])
    BY DEF MirrorInv, ProcessesSound
  <2>2. QED
    BY <1>1, <1>5, <1>7, <1>8, <2>1 DEF HoldsSound, Merging
<1>13. QED
  BY <1>9, <1>10, <1>11, <1>12 DEF MirrorInv, ProcessesSound

LEMMA CommandKeeps ==
    ASSUME MirrorInv, NEW p \in Procs,
           \/ \E kind \in {"read", "write"} : Call(p, kind)
           \/ CallWithoutCheckout(p) \/ MergeKilled(p) \/ Crash(p)
    PROVE  MirrorInv'
<1>0. /\ proc[p] \in Process /\ HoldsSound(proc[p])
      /\ gitLock \in Procs \cup {None} /\ refreshLock \in Procs \cup {None}
      /\ attempted \in BOOLEAN /\ verified \in BOOLEAN
      /\ kills \in 0..MaxKills /\ crashes \in 0..MaxCrashes
      /\ MaxKills \in Nat /\ MaxCrashes \in Nat
  BY RuntimeAssumption DEF MirrorInv, TypeOK, ProcessesSound
<1>1. ASSUME NEW kind \in {"read", "write"}, Call(p, kind) PROVE MirrorInv'
  <2> DEFINE step == IF kind = "read" THEN "due" ELSE "check"
             r == [proc[p] EXCEPT !.pc = step, !.kind = kind, !.result = "none",
                                  !.repairing = FALSE]
  <2>1. r \in Process /\ r.pc = step
    BY <1>0 DEF Process
  <2>2. HoldsSound(r)
    BY <2>1, FreeHolds DEF Free
  <2>3. proc' = [proc EXCEPT ![p] = r]
    BY <1>1 DEF Call
  <2>4. QED
    BY <1>0, <1>1, <2>1, <2>2, <2>3, OnlyProcessMoves DEF Call, Bounded
<1>2. CASE CallWithoutCheckout(p)
  <2> DEFINE r == [proc[p] EXCEPT !.result = "bypassed"]
  <2>1. r \in Process /\ r.pc = "idle"
    BY <1>0, <1>2 DEF Process, CallWithoutCheckout
  <2>2. HoldsSound(r)
    BY <2>1, FreeHolds DEF Free
  <2>3. proc' = [proc EXCEPT ![p] = r]
    BY <1>2 DEF CallWithoutCheckout
  <2>4. QED
    BY <1>0, <1>2, <2>1, <2>2, <2>3, OnlyProcessMoves DEF CallWithoutCheckout, Bounded
<1>3. CASE MergeKilled(p)
  <2>1. kills' \in 0..MaxKills
    BY <1>0, <1>3 DEF MergeKilled
  <2>2. QED
    BY <1>0, <1>3, <2>1, ToFree DEF MergeKilled, Free
<1>4. CASE Crash(p)
  <2> DEFINE r == [proc[p] EXCEPT !.pc = "idle", !.live = FALSE, !.result = "killed"]
  <2>1. r \in Process /\ r.pc = "idle"
    BY <1>0 DEF Process
  <2>2. HoldsSound(r)
    BY <2>1, FreeHolds DEF Free
  <2>3. proc' = [proc EXCEPT ![p] = r]
    BY <1>4 DEF Crash
  <2>4. crashes' \in 0..MaxCrashes
    BY <1>0, <1>4 DEF Crash
  <2>5. QED
    BY <1>0, <1>4, <2>1, <2>2, <2>3, <2>4, OnlyProcessMoves DEF Crash
<1>5. QED
  BY <1>1, <1>2, <1>3, <1>4

LEMMA CommitKeeps ==
    ASSUME MirrorInv, NEW p \in Procs, CommitLocally(p)
    PROVE  MirrorInv'
<1>0. /\ proc[p] \in Process /\ HoldsSound(proc[p]) /\ proc[p].pc = "open"
      /\ commits \in 0..MaxCommits /\ MaxCommits \in Nat /\ commits < MaxCommits
      /\ mirror \in Mirrors /\ AllSound(proc)
  BY RuntimeAssumption DEF MirrorInv, TypeOK, ProcessesSound, CommitLocally, AllSound
<1>1. mirror # Absent /\ SoundVersion(mirror.base) /\ mirror.local <= commits
  BY <1>0 DEF HoldsSound, MirrorInv, MirrorSound
<1>2. mirror \in [base : 1..MaxPublishes, local : 0..MaxCommits]
  BY <1>0, <1>1 DEF Mirrors
<1>3. commits' = commits + 1 /\ commits' \in 0..MaxCommits
  BY <1>0 DEF CommitLocally
<1>4. published' = published /\ checkout' = checkout
  BY DEF CommitLocally
<1>5. mirror' \in Mirrors /\ mirror' # Absent /\ MirrorSound'
  <2>1. mirror' = [mirror EXCEPT !.local = @ + 1] \/ mirror' = mirror
    BY DEF CommitLocally
  <2>2. /\ mirror' \in [base : 1..MaxPublishes, local : 0..MaxCommits]
        /\ mirror'.base = mirror.base /\ mirror'.local <= commits'
    BY <1>0, <1>1, <1>2, <1>3, <2>1
  <2>3. mirror' # Absent
    BY <2>2, RuntimeAssumption
  <2>4. QED
    BY <1>1, <1>4, <2>2, <2>3 DEF Mirrors, MirrorSound, SoundVersion, Latest
<1>6. AllSound(proc')
  BY <1>0, FlagsKeep DEF CommitLocally
<1>7. ProcessesSound'
  BY <1>1, <1>4, <1>5, <1>6 DEF AllSound, ProcessesSound, HoldsSound, SoundVersion, Latest
<1>8. TypeOK'
  BY <1>3, <1>4, <1>5, <1>6 DEF CommitLocally, MirrorInv, TypeOK, AllSound, Latest
<1>9. ManifestsSound' /\ CheckoutSound'
  BY <1>4 DEF MirrorInv, ManifestsSound, CheckoutSound, Latest
<1>10. QED
  BY <1>5, <1>7, <1>8, <1>9 DEF MirrorInv

-----------------------------------------------------------------------------
(* The theorems.                                                            *)

LEMMA InitSound == ASSUME MaxPublishes >= 1, Init PROVE MirrorInv
<1>1. /\ MaxPublishes \in Nat /\ MaxCommits \in Nat /\ MaxKills \in Nat /\ MaxCrashes \in Nat
      /\ published = <<1>> /\ Latest = 1 /\ mirror = Absent
  BY RuntimeAssumption DEF Init, Latest
<1>2. ASSUME NEW p \in Procs PROVE proc[p] \in Process /\ proc[p].pc = "idle"
  BY <1>1 DEF Init, Process
<1>3. proc \in [Procs -> Process] /\ ProcessesSound
  BY <1>2, FreeHolds DEF Init, ProcessesSound, Free
<1>4. TypeOK
  <2>1. published \in Seq(1..MaxPublishes) /\ Latest \in 1..MaxPublishes
    BY <1>1
  <2>2. checkout \in [head : 1..Latest, db : 1..Latest \cup {Torn},
                      man : 1..Latest, present : BOOLEAN]
    BY <1>1 DEF Init
  <2>3. mirror \in Mirrors
    BY <1>1 DEF Mirrors
  <2>4. commits \in 0..MaxCommits /\ kills \in 0..MaxKills /\ crashes \in 0..MaxCrashes
    BY <1>1 DEF Init
  <2>5. QED
    BY <1>3, <2>1, <2>2, <2>3, <2>4 DEF Init, TypeOK
<1>5. ManifestsSound /\ CheckoutSound /\ MirrorSound
  BY <1>1 DEF Init, ManifestsSound, CheckoutSound, MirrorSound
<1>6. QED
  BY <1>3, <1>4, <1>5 DEF MirrorInv

LEMMA NextSound == ASSUME MirrorInv, [Next]_vars PROVE MirrorInv'
<1>1. CASE Publish
  BY <1>1, PublishKeeps
<1>2. ASSUME NEW p \in Procs, NEW kind \in {"read", "write"}, Call(p, kind) PROVE MirrorInv'
  BY <1>2, CommandKeeps
<1>3. ASSUME NEW p \in Procs, CallWithoutCheckout(p) \/ MergeKilled(p) \/ Crash(p)
      PROVE  MirrorInv'
  BY <1>3, CommandKeeps
<1>4. ASSUME NEW p \in Procs, Step(p) PROVE MirrorInv'
  BY <1>4, RefreshKeeps, GitKeeps, MirrorKeeps, RepairKeeps DEF Step
<1>5. ASSUME NEW p \in Procs, CommitLocally(p) PROVE MirrorInv'
  BY <1>5, CommitKeeps
<1>6. CASE UNCHANGED vars
  BY <1>6 DEF vars, Bounded, MirrorInv, TypeOK, ManifestsSound, CheckoutSound, MirrorSound,
              ProcessesSound, HoldsSound, SoundVersion, Latest
<1>7. QED
  BY <1>1, <1>2, <1>3, <1>4, <1>5, <1>6 DEF Next

(* The variables keep their types, whatever the bounds.                     *)
THEOREM RuntimeTypes == ASSUME MaxPublishes >= 1 PROVE Spec => []TypeOK
<1>1. Init => MirrorInv
  BY InitSound
<1>2. MirrorInv /\ [Next]_vars => MirrorInv'
  BY NextSound
<1>3. MirrorInv => TypeOK
  BY DEF MirrorInv
<1>4. QED
  BY <1>1, <1>2, <1>3, PTL DEF Spec

(* Whatever processes pull, repair, reclone, copy, are killed or crash, the  *)
(* mirror is never torn nor a version its own manifest does not describe.    *)
THEOREM MirrorAlwaysKnownGood == ASSUME MaxPublishes >= 1 PROVE Spec => []MirrorKnownGood
<1>1. Init => MirrorInv
  BY InitSound
<1>2. MirrorInv /\ [Next]_vars => MirrorInv'
  BY NextSound
<1>3. MirrorInv => MirrorKnownGood
  BY DEF MirrorInv, MirrorSound, SoundVersion, MirrorKnownGood
<1>4. QED
  BY <1>1, <1>2, <1>3, PTL DEF Spec

-----------------------------------------------------------------------------
(* One process at a time.                                                   *)

Solo == WithManifest /\ \A p, q \in Procs : p = q

Pristine == mirror # Absent => mirror.local = 0

\* What a process holds is the database of the checkout, and the stamps it has
\* read or is about to write are those of a mirror without local writes.
HoldsCurrent(r) ==
    /\ r.saved \/ r.pc \in {"mark", "stamp"} => Pristine
    /\ r.pc = "copied" => r.held = checkout.db
    /\ r.pc = "install" /\ ~r.behind => r.held = checkout.db

\* A mirror that is not older than the source and was not written to since is
\* a copy of it: only a local write makes an old mirror look young.
SettledInv ==
    /\ mirror # Absent /\ ~newer /\ mirror.local = 0 => mirror.base = checkout.db
    /\ verified => Pristine
    /\ \A p \in Procs : HoldsCurrent(proc[p])

(* The process goes where it holds nothing, and neither the mirror nor, with *)
(* the mirror staying young, the source changes.                            *)
LEMMA SettledMoves ==
    ASSUME Solo, SettledInv, NEW p \in Procs,
           mirror' = mirror,
           newer' \/ (newer' = newer /\ checkout'.db = checkout.db),
           verified' => verified \/ proc[p].saved,
           proc'[p].saved => verified \/ proc[p].saved,
           proc'[p].pc \notin {"mark", "stamp", "copied", "install"}
    PROVE  SettledInv'
<1>1. Pristine' = Pristine
  BY DEF Pristine
<1>2. verified \/ proc[p].saved => Pristine
  BY DEF SettledInv, HoldsCurrent
<1>3. \A q \in Procs : q = p
  BY DEF Solo
<1>4. HoldsCurrent(proc[p])'
  BY <1>1, <1>2 DEF HoldsCurrent
<1>5. QED
  BY <1>1, <1>2, <1>3, <1>4 DEF SettledInv

(* The same when only its place in the code changes.                        *)
LEMMA SettledAt ==
    ASSUME MirrorInv, Solo, SettledInv, NEW p \in Procs, NEW step,
           proc' = At(p, step), step \notin {"mark", "stamp", "copied", "install"},
           mirror' = mirror, newer' = newer, checkout'.db = checkout.db,
           verified' => verified \/ proc[p].saved
    PROVE  SettledInv'
<1>1. proc[p] \in Process /\ proc \in [Procs -> Process]
  BY DEF MirrorInv, TypeOK
<1>2. proc'[p].pc = step /\ proc'[p].saved = proc[p].saved
  BY <1>1 DEF At, Process
<1>3. QED
  BY <1>2, SettledMoves

(* Flags set after a change of files leave the place of a process, and no    *)
(* stamp is read by that.                                                    *)
LEMMA FlagsForget ==
    ASSUME NEW ps \in [Procs -> Process], NEW p \in Procs
    PROVE  /\ AfterSource(ps) \in [Procs -> Process]
           /\ AfterManifest(ps) \in [Procs -> Process]
           /\ AfterMirror(ps) \in [Procs -> Process]
           /\ AfterSource(ps)[p].pc = ps[p].pc /\ AfterSource(ps)[p].saved = ps[p].saved
           /\ AfterManifest(ps)[p].pc = ps[p].pc /\ AfterManifest(ps)[p].saved = FALSE
           /\ AfterMirror(ps)[p].pc = ps[p].pc /\ AfterMirror(ps)[p].saved = FALSE
<1>1. ASSUME NEW q \in Procs
      PROVE  /\ [ps[q] EXCEPT !.behind = TRUE] \in Process
             /\ [ps[q] EXCEPT !.seen = FALSE, !.saved = FALSE] \in Process
             /\ [ps[q] EXCEPT !.saved = FALSE] \in Process
             /\ [ps[q] EXCEPT !.behind = TRUE].pc = ps[q].pc
             /\ [ps[q] EXCEPT !.behind = TRUE].saved = ps[q].saved
             /\ [ps[q] EXCEPT !.seen = FALSE, !.saved = FALSE].pc = ps[q].pc
             /\ [ps[q] EXCEPT !.seen = FALSE, !.saved = FALSE].saved = FALSE
             /\ [ps[q] EXCEPT !.saved = FALSE].pc = ps[q].pc
             /\ [ps[q] EXCEPT !.saved = FALSE].saved = FALSE
  <2>1. ps[q] \in Process
    OBVIOUS
  <2>2. QED
    BY <2>1 DEF Process
<1>2. QED
  BY <1>1 DEF AfterSource, AfterManifest, AfterMirror

LEMMA AtIs ==
    ASSUME MirrorInv, NEW p \in Procs,
           NEW step \in Free \cup Merging \cup {"health", "mark", "ready"}
    PROVE  /\ At(p, step) \in [Procs -> Process]
           /\ At(p, step)[p].pc = step
           /\ At(p, step)[p].saved = proc[p].saved
<1>1. proc[p] \in Process /\ proc \in [Procs -> Process]
  BY DEF MirrorInv, TypeOK
<1>2. [proc[p] EXCEPT !.pc = step] \in Process
  BY <1>1 DEF Process, Free, Merging
<1>3. QED
  BY <1>1, <1>2 DEF At, Process

LEMMA RefreshSettles ==
    ASSUME MirrorInv, Solo, SettledInv, NEW p \in Procs, RefreshStep(p)
    PROVE  SettledInv'
<1>0. proc[p] \in Process /\ proc \in [Procs -> Process]
  BY DEF MirrorInv, TypeOK
<1>1. CASE TakeRefreshLock(p)
  <2>1. proc'[p].pc = "refresh" /\ proc'[p].saved = verified
    BY <1>0, <1>1 DEF TakeRefreshLock, Process
  <2>2. QED
    BY <1>1, <2>1, SettledMoves DEF TakeRefreshLock
<1>2. CASE FinishRefresh(p)
  BY <1>2, SettledAt DEF FinishRefresh
<1>3. CASE RefreshNotDue(p) \/ RefreshLockBusy(p) \/ AlreadyRefreshed(p) \/ RefreshFails(p)
           \/ SeeRefreshLock(p) \/ RemoveStaleLock(p)
  BY <1>3, SettledAt DEF RefreshNotDue, RefreshLockBusy, AlreadyRefreshed, RefreshFails,
     SeeRefreshLock, RemoveStaleLock
<1>4. QED
  BY <1>1, <1>2, <1>3 DEF RefreshStep

LEMMA GitSettles ==
    ASSUME MirrorInv, Solo, SettledInv, NEW p \in Procs, GitStep(p)
    PROVE  SettledInv'
<1>0. /\ proc[p] \in Process /\ proc \in [Procs -> Process]
      /\ AfterPull(p) \in Free /\ AfterPull(p) \notin {"mark", "stamp", "copied", "install"}
  BY DEF MirrorInv, TypeOK, AfterPull, Free
<1>1. CASE StartMerge(p)
  <2>1. proc'[p].pc = "merge" /\ proc'[p].saved = proc[p].saved
    BY <1>0, <1>1 DEF StartMerge, Process
  <2>2. QED
    BY <1>1, <2>1, SettledMoves DEF StartMerge
<1>2. CASE UpToDate(p) \/ MergeOrphaned(p)
  BY <1>0, <1>2, SettledAt DEF UpToDate, MergeOrphaned
<1>3. CASE WriteDatabase(p)
  <2>1. proc'[p].pc = "writing" /\ proc'[p].saved = proc[p].saved
    <3>1. /\ At(p, "writing") \in [Procs -> Process]
          /\ At(p, "writing")[p].pc = "writing"
          /\ At(p, "writing")[p].saved = proc[p].saved
      BY AtIs DEF Merging
    <3>2. /\ AfterSource(At(p, "writing"))[p].pc = "writing"
          /\ AfterSource(At(p, "writing"))[p].saved = proc[p].saved
      BY <3>1, FlagsForget
    <3>3. QED
      BY <1>3, <3>2 DEF WriteDatabase
  <2>2. QED
    BY <1>3, <2>1, SettledMoves DEF WriteDatabase
<1>4. CASE DatabaseWritten(p)
  <2>1. proc'[p].pc = "manifest" /\ proc'[p].saved = proc[p].saved
    <3>1. /\ At(p, "manifest") \in [Procs -> Process]
          /\ At(p, "manifest")[p].pc = "manifest"
          /\ At(p, "manifest")[p].saved = proc[p].saved
      BY AtIs DEF Merging
    <3>2. /\ AfterSource(At(p, "manifest"))[p].pc = "manifest"
          /\ AfterSource(At(p, "manifest"))[p].saved = proc[p].saved
      BY <3>1, FlagsForget
    <3>3. QED
      BY <1>4, <3>2 DEF DatabaseWritten
  <2>2. QED
    BY <1>4, <2>1, SettledMoves DEF DatabaseWritten
<1>5. CASE WriteManifest(p)
  <2>1. proc'[p].pc = "head" /\ (proc'[p].saved => proc[p].saved)
    <3>1. /\ At(p, "head") \in [Procs -> Process]
          /\ At(p, "head")[p].pc = "head"
          /\ At(p, "head")[p].saved = proc[p].saved
      BY AtIs DEF Merging
    <3>2. /\ AfterManifest(At(p, "head"))[p].pc = "head"
          /\ AfterManifest(At(p, "head"))[p].saved = FALSE
      BY <3>1, FlagsForget
    <3>3. proc' \in {At(p, "head"), AfterManifest(At(p, "head"))}
      BY <1>5 DEF WriteManifest
    <3>4. QED
      BY <3>1, <3>2, <3>3
  <2>2. mirror' = mirror /\ newer' = newer /\ (verified' => verified) /\ checkout'.db = checkout.db
    BY <1>5 DEF WriteManifest, MirrorInv, TypeOK
  <2>3. QED
    BY <2>1, <2>2, SettledMoves
<1>6. CASE MoveHead(p)
  <2>1. checkout'.db = checkout.db
    BY <1>6 DEF MoveHead, MirrorInv, TypeOK
  <2>2. QED
    BY <1>0, <1>6, <2>1, SettledAt DEF MoveHead
<1>7. QED
  BY <1>1, <1>2, <1>3, <1>4, <1>5, <1>6 DEF GitStep

(* The mirror is copied, checked, stamped and opened.                       *)
LEMMA MirrorSettles ==
    ASSUME MirrorInv, Solo, SettledInv, NEW p \in Procs, MirrorStep(p)
    PROVE  SettledInv'
<1>0. /\ proc[p] \in Process /\ proc \in [Procs -> Process] /\ HoldsCurrent(proc[p])
      /\ newer \in BOOLEAN /\ verified \in BOOLEAN
  BY DEF MirrorInv, TypeOK, SettledInv
<1>00. \A q \in Procs : q = p
  BY DEF Solo
<1>1. CASE NeedsCopy(p)
  BY <1>1, SettledAt DEF NeedsCopy
<1>2. CASE CachedHealth(p)
  <2>1. proc'[p].pc \in {"ready", "health"} /\ proc'[p].saved = proc[p].saved
    BY <1>0, <1>2 DEF CachedHealth, Process
  <2>2. QED
    BY <1>2, <2>1, SettledMoves DEF CachedHealth
<1>3. CASE ValidateMirror(p)
  <2>1. CASE MirrorMatches
    <3>1. /\ proc'[p].pc = "mark"
          /\ UNCHANGED <<mirror, newer, verified, checkout>>
      BY <1>0, <1>3, <2>1, AtIs DEF ValidateMirror
    <3>2. Pristine
      BY <2>1 DEF MirrorMatches, Pristine, Solo
    <3>3. HoldsCurrent(proc[p])'
      BY <3>1, <3>2 DEF HoldsCurrent, Pristine
    <3>4. QED
      BY <1>00, <3>1, <3>3 DEF SettledInv, Pristine
  <2>2. CASE ~MirrorMatches
    BY <1>3, <2>2, SettledAt DEF ValidateMirror
  <2>3. QED
    BY <2>1, <2>2
<1>4. CASE MarkVerified(p)
  <2>1. /\ proc'[p].pc = "ready" /\ proc'[p].saved = proc[p].saved
        /\ UNCHANGED <<mirror, newer, checkout>>
    BY <1>4, AtIs DEF MarkVerified
  <2>2. Pristine
    BY <1>0, <1>4 DEF MarkVerified, HoldsCurrent
  <2>3. HoldsCurrent(proc[p])'
    BY <2>1, <2>2 DEF HoldsCurrent, Pristine
  <2>4. QED
    BY <1>00, <2>1, <2>2, <2>3 DEF SettledInv, Pristine
<1>5. CASE CheckSource(p)
  <2>1. proc'[p].pc \in {"copy", "repair"} /\ proc'[p].saved = proc[p].saved
    <3>1. CASE Valid(checkout.db, checkout.man)
      BY <1>5, <3>1, AtIs DEF CheckSource, Free
    <3>2. CASE ~Valid(checkout.db, checkout.man)
      BY <1>0, <1>5, <3>2 DEF CheckSource, Process
    <3>3. QED
      BY <3>1, <3>2
  <2>2. QED
    BY <1>5, <2>1, SettledMoves DEF CheckSource
<1>6. CASE ReadSource(p)
  <2>1. /\ proc'[p].pc = "copied" /\ proc'[p].saved = proc[p].saved
        /\ proc'[p].held = checkout.db
        /\ UNCHANGED <<mirror, newer, verified, checkout>>
    BY <1>0, <1>6 DEF ReadSource, Process
  <2>2. HoldsCurrent(proc[p])'
    BY <1>0, <2>1 DEF HoldsCurrent, Pristine
  <2>3. QED
    BY <1>00, <2>1, <2>2 DEF SettledInv, Pristine
<1>7. CASE ValidateCopy(p)
  <2>1. CASE Valid(proc[p].held, checkout.man)
    <3>1. /\ proc'[p].pc = "install" /\ proc'[p].saved = proc[p].saved
          /\ proc'[p].held = proc[p].held /\ proc[p].held = checkout.db
          /\ UNCHANGED <<mirror, newer, verified, checkout>>
      BY <1>0, <1>7, <2>1 DEF ValidateCopy, Process, HoldsCurrent
    <3>2. HoldsCurrent(proc[p])'
      BY <1>0, <3>1 DEF HoldsCurrent, Pristine
    <3>3. QED
      BY <1>00, <3>1, <3>2 DEF SettledInv, Pristine
  <2>2. CASE ~Valid(proc[p].held, checkout.man)
    <3>1. proc'[p].pc = "idle" /\ proc'[p].saved = proc[p].saved
      BY <1>0, <1>7, <2>2 DEF ValidateCopy, Return, Process
    <3>2. QED
      BY <1>7, <3>1, SettledMoves DEF ValidateCopy
  <2>3. QED
    BY <2>1, <2>2
<1>8. CASE Install(p)
  <2> DEFINE m == [base |-> proc[p].held, local |-> 0]
  <2>1. mirror' = m /\ newer' = proc[p].behind /\ verified' = FALSE /\ checkout' = checkout
    BY <1>8 DEF Install
  <2>2. proc'[p].pc = "stamp" /\ proc'[p].saved = FALSE
    <3>1. /\ AfterMirror([proc EXCEPT ![p].pc = "stamp"])[p] \in Process
          /\ AfterMirror([proc EXCEPT ![p].pc = "stamp"])[p].pc = "stamp"
          /\ AfterMirror([proc EXCEPT ![p].pc = "stamp"])[p].saved = FALSE
      <4>1. [proc EXCEPT ![p].pc = "stamp"] \in [Procs -> Process]
            /\ [proc EXCEPT ![p].pc = "stamp"][p].pc = "stamp"
        <5>1. [proc[p] EXCEPT !.pc = "stamp"] \in Process
          BY <1>0 DEF Process
        <5>2. QED
          BY <1>0, <5>1 DEF Process
      <4>2. QED
        BY <4>1, FlagsForget
    <3>2. proc'[p] = [AfterMirror([proc EXCEPT ![p].pc = "stamp"])[p] EXCEPT !.live = FALSE]
      BY <1>8 DEF Install, At
    <3>3. QED
      BY <3>1, <3>2 DEF Process
  <2>3. mirror'.local = 0 /\ Pristine' /\ mirror'.base = proc[p].held
    BY <2>1 DEF Pristine
  <2>4. proc[p].pc = "install" /\ (~proc[p].behind => proc[p].held = checkout.db)
    BY <1>0, <1>8 DEF Install, HoldsCurrent
  <2>5. HoldsCurrent(proc[p])'
    BY <2>2, <2>3 DEF HoldsCurrent
  <2>6. QED
    BY <1>00, <2>1, <2>3, <2>4, <2>5 DEF SettledInv
<1>9. CASE StampMirror(p)
  <2>1. /\ proc'[p].pc = "ready"
        /\ UNCHANGED <<mirror, newer, checkout>>
    BY <1>9, AtIs DEF StampMirror
  <2>2. Pristine
    BY <1>0, <1>9 DEF StampMirror, HoldsCurrent
  <2>3. HoldsCurrent(proc[p])'
    BY <2>1, <2>2 DEF HoldsCurrent, Pristine
  <2>4. QED
    BY <1>00, <2>1, <2>2, <2>3 DEF SettledInv, Pristine
<1>10. CASE ReadMirror(p) \/ OpenMirror(p) \/ CloseMirror(p)
  <2>1. proc'[p].pc \in {"idle", "open"} /\ proc'[p].saved = proc[p].saved
    BY <1>0, <1>10 DEF ReadMirror, OpenMirror, CloseMirror, Return, Process
  <2>2. QED
    BY <1>10, <2>1, SettledMoves DEF ReadMirror, OpenMirror, CloseMirror
<1>11. QED
  BY <1>1, <1>2, <1>3, <1>4, <1>5, <1>6, <1>7, <1>8, <1>9, <1>10 DEF MirrorStep

LEMMA RepairSettles ==
    ASSUME MirrorInv, Solo, SettledInv, NEW p \in Procs, RepairStep(p)
    PROVE  SettledInv'
<1>0. proc[p] \in Process /\ proc \in [Procs -> Process]
  BY DEF MirrorInv, TypeOK
<1>1. CASE RepairReset(p)
  <2>1. proc'[p].pc = "pull" /\ proc'[p].saved = FALSE
    <3>1. At(p, "pull") \in [Procs -> Process] /\ At(p, "pull")[p].pc = "pull"
      BY AtIs DEF Free
    <3>2. /\ AfterManifest(At(p, "pull")) \in [Procs -> Process]
          /\ AfterManifest(At(p, "pull"))[p].pc = "pull"
          /\ AfterManifest(At(p, "pull"))[p].saved = FALSE
      BY <3>1, FlagsForget
    <3>3. /\ AfterSource(AfterManifest(At(p, "pull")))[p].pc = "pull"
          /\ AfterSource(AfterManifest(At(p, "pull")))[p].saved = FALSE
      BY <3>2, FlagsForget
    <3>4. QED
      BY <1>1, <3>3 DEF RepairReset
  <2>2. QED
    BY <1>1, <2>1, SettledMoves DEF RepairReset
<1>2. CASE RepairClean(p) \/ RepairFails(p)
  BY <1>2, SettledAt DEF RepairClean, RepairFails
<1>3. CASE CheckRepaired(p)
  <2>1. PICK step \in {"copy", "reclone"} : proc' = At(p, step)
    BY <1>3 DEF CheckRepaired
  <2>2. QED
    BY <1>3, <2>1, SettledAt DEF CheckRepaired
<1>4. CASE StartReclone(p)
  <2>1. checkout'.db = checkout.db
    BY <1>4 DEF StartReclone, MirrorInv, TypeOK
  <2>2. QED
    BY <1>4, <2>1, SettledAt DEF StartReclone
<1>5. CASE UseMirrorUnrepaired(p) \/ RecloneFails(p) \/ SourceMissing(p)
  <2>1. proc'[p].pc \in {"ready", "idle"} /\ proc'[p].saved = proc[p].saved
    BY <1>0, <1>5 DEF UseMirrorUnrepaired, RecloneFails, SourceMissing, At, Return, Process
  <2>2. checkout'.db = checkout.db
    BY <1>5 DEF UseMirrorUnrepaired, RecloneFails, SourceMissing, MirrorInv, TypeOK
  <2>3. QED
    BY <1>5, <2>1, <2>2, SettledMoves DEF UseMirrorUnrepaired, RecloneFails, SourceMissing
<1>6. CASE Recloned(p)
  <2> DEFINE ps == AfterSource(AfterManifest(proc))
  <2>1. ps \in [Procs -> Process] /\ ps[p].saved = FALSE
    <3>1. /\ AfterManifest(proc) \in [Procs -> Process]
          /\ AfterManifest(proc)[p].saved = FALSE
      BY <1>0, FlagsForget
    <3>2. QED
      BY <3>1, FlagsForget
  <2>2. \/ proc' = [ps EXCEPT ![p].pc = "copy"]
        \/ proc' = [ps EXCEPT ![p].pc = "idle", ![p].result = "error"]
    BY <1>6 DEF Recloned
  <2>3. ps[p] \in Process
    BY <2>1
  <2> HIDE DEF ps
  <2>4. proc'[p].pc \in {"copy", "idle"} /\ proc'[p].saved = FALSE
    BY <2>1, <2>2, <2>3 DEF Process
  <2>5. QED
    BY <1>6, <2>4, SettledMoves DEF Recloned
<1>7. QED
  BY <1>1, <1>2, <1>3, <1>4, <1>5, <1>6 DEF RepairStep

(* Commands start, commit, are interrupted; the publisher pushes.           *)
LEMMA CommandSettles ==
    ASSUME MirrorInv, Solo, SettledInv, NEW p \in Procs,
           \/ \E kind \in {"read", "write"} : Call(p, kind)
           \/ CallWithoutCheckout(p) \/ MergeKilled(p) \/ Crash(p) \/ CommitLocally(p)
    PROVE  SettledInv'
<1>0. proc[p] \in Process /\ proc \in [Procs -> Process] /\ HoldsSound(proc[p])
  BY DEF MirrorInv, TypeOK, ProcessesSound
<1>00. \A q \in Procs : q = p
  BY DEF Solo
<1>1. ASSUME NEW kind \in {"read", "write"}, Call(p, kind) PROVE SettledInv'
  <2>1. proc'[p].pc \in {"due", "check"} /\ proc'[p].saved = proc[p].saved
    BY <1>0, <1>1 DEF Call, Process
  <2>2. QED
    BY <1>1, <2>1, SettledMoves DEF Call
<1>2. CASE CallWithoutCheckout(p) \/ Crash(p)
  <2>1. proc'[p].pc = "idle" /\ proc'[p].saved = proc[p].saved
    BY <1>0, <1>2 DEF CallWithoutCheckout, Crash, Process
  <2>2. QED
    BY <1>2, <2>1, SettledMoves DEF CallWithoutCheckout, Crash
<1>3. CASE MergeKilled(p)
  <2>1. PICK step \in {"unrepaired", "finish"} : proc' = At(p, step)
    BY <1>3 DEF MergeKilled
  <2>2. QED
    BY <1>3, <2>1, SettledAt DEF MergeKilled
<1>4. CASE CommitLocally(p)
  <2>1. CASE proc[p].live
    <3>1. /\ mirror' = [mirror EXCEPT !.local = @ + 1] /\ verified' = FALSE
          /\ proc' = AfterMirror(proc) /\ proc[p].pc = "open"
      BY <1>4, <2>1 DEF CommitLocally
    <3>2. proc'[p].pc = "open" /\ proc'[p].saved = FALSE
      BY <1>0, <3>1, FlagsForget
    <3>3. mirror' # Absent => mirror'.local # 0
      <4>1. mirror # Absent
        BY <1>0, <3>1 DEF HoldsSound
      <4>2. mirror \in [base : 1..MaxPublishes, local : 0..MaxCommits]
        BY <4>1 DEF MirrorInv, TypeOK, Mirrors
      <4>3. mirror'.local = mirror.local + 1 /\ mirror.local \in Nat
        BY <3>1, <4>2
      <4>4. QED
        BY <4>3
    <3>4. HoldsCurrent(proc[p])'
      BY <3>2 DEF HoldsCurrent
    <3>5. QED
      BY <1>00, <3>1, <3>3, <3>4 DEF SettledInv
  <2>2. CASE ~proc[p].live
    <3>1. UNCHANGED <<mirror, newer, verified, proc, checkout>>
      BY <1>4, <2>2 DEF CommitLocally
    <3>2. QED
      BY <3>1 DEF SettledInv, HoldsCurrent, Pristine
  <2>3. QED
    BY <2>1, <2>2
<1>5. QED
  BY <1>1, <1>2, <1>3, <1>4

LEMMA NextSettles ==
    ASSUME MirrorInv, Solo, SettledInv, [Next]_vars
    PROVE  SettledInv'
<1>1. CASE Publish \/ UNCHANGED vars
  <2>1. UNCHANGED <<mirror, newer, verified, proc, checkout>>
    BY <1>1 DEF Publish, vars
  <2>2. QED
    BY <2>1 DEF SettledInv, HoldsCurrent, Pristine
<1>2. ASSUME NEW p \in Procs, Step(p) PROVE SettledInv'
  BY <1>2, RefreshSettles, GitSettles, MirrorSettles, RepairSettles DEF Step
<1>3. ASSUME NEW p \in Procs,
             \/ \E kind \in {"read", "write"} : Call(p, kind)
             \/ CallWithoutCheckout(p) \/ MergeKilled(p) \/ Crash(p) \/ CommitLocally(p)
      PROVE  SettledInv'
  BY <1>3, CommandSettles
<1>4. QED
  BY <1>1, <1>2, <1>3 DEF Next

(* SettledMirrorIsCurrent: when commands run one after the other and the     *)
(* publisher commits a manifest, a mirror the next command would neither     *)
(* copy nor check again is the database of the checkout, whatever merges and *)
(* processes were killed, and whatever manifests the publisher forgot.       *)
THEOREM SettledMirrorsAreCurrent ==
    ASSUME MaxPublishes >= 1, Solo
    PROVE  Spec => []SettledMirrorIsCurrent
<1>1. Init => MirrorInv /\ SettledInv
  <2>1. Init => MirrorInv
    BY InitSound
  <2>2. Init => SettledInv
    BY DEF Init, SettledInv, HoldsCurrent, Pristine
  <2>3. QED
    BY <2>1, <2>2
<1>2. MirrorInv /\ SettledInv /\ [Next]_vars => MirrorInv' /\ SettledInv'
  BY NextSound, NextSettles
<1>3. MirrorInv /\ SettledInv => SettledMirrorIsCurrent
  BY DEF SettledInv, Pristine, SettledMirrorIsCurrent, Solo
<1>4. QED
  BY <1>1, <1>2, <1>3, PTL DEF Spec

-----------------------------------------------------------------------------
(* What one process at a time finds on its way to an answer.                *)

Alone == \A p, q \in Procs : p = q

AllSoundlyPublished == \A v \in 1..Latest : published[v] = v

\* The checkout is away only while it is recloned, or after a crash in that; the
\* files a repair leaves are those of a commit; a source is copied, and a copy
\* checked, while it passes; and a reclone means that something unsound was pushed.
Answering(p) ==
    /\ proc[p].pc \notin {"idle", "recloned"} => checkout.present
    /\ proc[p].pc \in Merging => gitLock = p
    /\ proc[p].pc \in {"manifest", "head"} => checkout.db = proc[p].held
    /\ proc[p].pc = "head" => checkout.man = published[proc[p].held]
    /\ proc[p].pc = "pull" => Clean
    /\ proc[p].pc = "recheck" /\ AllSoundlyPublished => Valid(checkout.db, checkout.man)
    /\ proc[p].pc \in {"reclone", "recloned"} => ~AllSoundlyPublished
    /\ proc[p].pc = "copy" => Valid(checkout.db, checkout.man)
    /\ proc[p].pc = "copied" => Valid(proc[p].held, checkout.man)

AnswerInv == \A p \in Procs : Answering(p)

\* A step of p that fails no command it should have answered.
Answers(p) ==
    mirror # Absent /\ AllSoundlyPublished
    => ~(proc'[p].result = "error" /\ proc[p].result # "error")

\* Where nothing is asked of the checkout but that it is there.
Quiet == {"due", "stale", "lock", "refresh", "finish", "check", "health", "mark",
          "source", "repair", "unrepaired", "install", "stamp", "ready", "open"}

NoFailure == {"none", "ok", "bypassed", "killed"}

LEMMA QuietAnswers ==
    ASSUME Alone, NEW p \in Procs,
           proc'[p].pc = "idle" \/ (proc'[p].pc \in Quiet /\ checkout'.present),
           proc'[p].result \in {proc[p].result} \cup NoFailure
    PROVE  AnswerInv' /\ Answers(p)
<1>1. Answering(p)'
  BY DEF Answering, Quiet, Merging
<1>2. AnswerInv'
  BY <1>1 DEF AnswerInv, Alone
<1>3. Answers(p)
  BY DEF Answers, NoFailure
<1>4. QED
  BY <1>2, <1>3

LEMMA AtAnswers ==
    ASSUME MirrorInv, NEW p \in Procs, NEW step
    PROVE  /\ At(p, step)[p].pc = step
           /\ At(p, step)[p].held = proc[p].held
           /\ At(p, step)[p].result = proc[p].result
<1>1. proc[p] \in Process /\ proc \in [Procs -> Process]
  BY DEF MirrorInv, TypeOK
<1>2. QED
  BY <1>1 DEF At, Process

LEMMA FlagsAnswer ==
    ASSUME NEW ps \in [Procs -> Process], NEW p \in Procs
    PROVE  /\ AfterSource(ps) \in [Procs -> Process]
           /\ AfterManifest(ps) \in [Procs -> Process]
           /\ AfterSource(ps)[p].pc = ps[p].pc
           /\ AfterSource(ps)[p].held = ps[p].held
           /\ AfterSource(ps)[p].result = ps[p].result
           /\ AfterManifest(ps)[p].pc = ps[p].pc
           /\ AfterManifest(ps)[p].held = ps[p].held
           /\ AfterManifest(ps)[p].result = ps[p].result
           /\ AfterMirror(ps)[p].pc = ps[p].pc
           /\ AfterMirror(ps)[p].held = ps[p].held
           /\ AfterMirror(ps)[p].result = ps[p].result
<1>1. ps[p] \in Process
  OBVIOUS
<1>2. /\ AfterSource(ps)[p] = [ps[p] EXCEPT !.behind = TRUE]
      /\ AfterManifest(ps)[p] = [ps[p] EXCEPT !.seen = FALSE, !.saved = FALSE]
      /\ AfterMirror(ps)[p] = [ps[p] EXCEPT !.saved = FALSE]
  BY DEF AfterSource, AfterManifest, AfterMirror
<1>3. QED
  BY <1>1, <1>2, FlagsForget DEF Process

LEMMA RefreshAnswers ==
    ASSUME Alone, MirrorInv, AnswerInv, NEW p \in Procs, RefreshStep(p)
    PROVE  AnswerInv' /\ Answers(p)
<1>0. proc[p] \in Process /\ proc \in [Procs -> Process] /\ Answering(p)
  BY DEF MirrorInv, TypeOK, AnswerInv
<1>1. CASE TakeRefreshLock(p)
  <2>1. /\ proc'[p].pc = "refresh" /\ proc'[p].result = proc[p].result /\ checkout'.present
    BY <1>0, <1>1 DEF TakeRefreshLock, Answering, Process
  <2>2. QED
    BY <2>1, QuietAnswers DEF Quiet
<1>2. CASE ~TakeRefreshLock(p)
  <2>1. checkout'.present
    BY <1>0, <1>2 DEF RefreshStep, FinishRefresh, RefreshNotDue, RefreshLockBusy,
       AlreadyRefreshed, RefreshFails, SeeRefreshLock, RemoveStaleLock, Answering
  <2>2. PICK step \in Quiet : proc' = At(p, step)
    BY <1>2 DEF RefreshStep, FinishRefresh, RefreshNotDue, RefreshLockBusy,
       AlreadyRefreshed, RefreshFails, SeeRefreshLock, RemoveStaleLock, Quiet
  <2>3. QED
    BY <2>1, <2>2, AtAnswers, QuietAnswers
<1>3. QED
  BY <1>1, <1>2

(* What a pull leaves, of a commit of a publisher that pushed sound ones.   *)
LEMMA PulledIsValid ==
    ASSUME MirrorInv, NEW v \in 1..Latest, AllSoundlyPublished
    PROVE  Valid(v, published[v])
<1>1. v # Torn
  BY RuntimeAssumption DEF MirrorInv, TypeOK
<1>2. QED
  BY <1>1 DEF Valid, AllSoundlyPublished

LEMMA GitAnswers ==
    ASSUME Alone, MirrorInv, AnswerInv, NEW p \in Procs, GitStep(p)
    PROVE  AnswerInv' /\ Answers(p)
<1>0. /\ proc[p] \in Process /\ proc \in [Procs -> Process] /\ Answering(p)
      /\ proc[p].pc \in Merging => proc[p].held \in 1..Latest
      /\ checkout.head \in 1..Latest
      /\ checkout \in [head : 1..Latest, db : 1..Latest \cup {Torn},
                       man : 1..Latest, present : BOOLEAN]
  BY DEF MirrorInv, TypeOK, AnswerInv, ProcessesSound, HoldsSound, CheckoutSound
<1>00. \A q \in Procs : q = p
  BY DEF Alone
<1>000. /\ "writing" \in Free \cup Merging /\ "manifest" \in Free \cup Merging
        /\ "head" \in Free \cup Merging
  BY DEF Merging
<1>1. CASE StartMerge(p)
  <2>1. /\ proc'[p].pc = "merge" /\ proc'[p].result = proc[p].result
        /\ gitLock' = p /\ checkout'.present
    BY <1>0, <1>1 DEF StartMerge, Process
  <2>2. Answering(p)'
    BY <2>1 DEF Answering
  <2>3. QED
    BY <1>00, <2>1, <2>2 DEF AnswerInv, Answers
<1>2. CASE UpToDate(p)
  <2>1. /\ proc'[p].pc \in {"recheck", "finish"} /\ proc'[p].result = proc[p].result
        /\ UNCHANGED <<checkout, published>>
    BY <1>2, AtAnswers DEF UpToDate, AfterPull
  <2>2. Clean /\ checkout.present
    BY <1>0, <1>2 DEF UpToDate, Answering
  <2>3. AllSoundlyPublished => Valid(checkout.db, checkout.man)
    BY <1>0, <2>2, PulledIsValid DEF Clean
  <2>4. Answering(p)'
    BY <2>1, <2>2, <2>3 DEF Answering, AllSoundlyPublished, Valid, Latest, Merging
  <2>5. QED
    BY <1>00, <2>1, <2>4 DEF AnswerInv, Answers
<1>3. CASE WriteDatabase(p)
  <2>1. /\ At(p, "writing") \in [Procs -> Process] /\ proc' = AfterSource(At(p, "writing"))
        /\ gitLock' = p /\ checkout'.present
    BY <1>0, <1>000, <1>3, AtIs DEF WriteDatabase, Answering, Merging
  <2>2. proc'[p].pc = "writing" /\ proc'[p].result = proc[p].result
    BY <2>1, AtAnswers, FlagsAnswer
  <2>3. Answering(p)'
    BY <2>1, <2>2 DEF Answering
  <2>4. QED
    BY <1>00, <2>2, <2>3 DEF AnswerInv, Answers
<1>4. CASE DatabaseWritten(p)
  <2>1. /\ At(p, "manifest") \in [Procs -> Process] /\ proc' = AfterSource(At(p, "manifest"))
        /\ gitLock' = p /\ checkout'.present /\ checkout'.db = proc[p].held
    BY <1>0, <1>000, <1>4, AtIs DEF DatabaseWritten, Answering, Merging
  <2>2. /\ proc'[p].pc = "manifest" /\ proc'[p].result = proc[p].result
        /\ proc'[p].held = proc[p].held
    BY <2>1, AtAnswers, FlagsAnswer
  <2>3. Answering(p)'
    BY <2>1, <2>2 DEF Answering
  <2>4. QED
    BY <1>00, <2>2, <2>3 DEF AnswerInv, Answers
<1>5. CASE WriteManifest(p)
  <2>1. /\ At(p, "head") \in [Procs -> Process]
        /\ proc' \in {At(p, "head"), AfterManifest(At(p, "head"))}
        /\ gitLock' = p /\ checkout'.present /\ checkout'.db = proc[p].held
        /\ checkout'.man = published[proc[p].held] /\ published' = published
    BY <1>0, <1>000, <1>5, AtIs DEF WriteManifest, Answering, Merging
  <2>2. /\ proc'[p].pc = "head" /\ proc'[p].result = proc[p].result
        /\ proc'[p].held = proc[p].held
    BY <2>1, AtAnswers, FlagsAnswer
  <2>3. Answering(p)'
    BY <2>1, <2>2 DEF Answering
  <2>4. QED
    BY <1>00, <2>2, <2>3 DEF AnswerInv, Answers
<1>6. CASE MoveHead(p)
  <2>1. /\ proc'[p].pc \in {"recheck", "finish"} /\ proc'[p].result = proc[p].result
        /\ published' = published
    BY <1>6, AtAnswers DEF MoveHead, AfterPull
  <2>2. /\ checkout'.present /\ checkout'.db = proc[p].held
        /\ checkout'.man = published[proc[p].held] /\ proc[p].held \in 1..Latest
    BY <1>0, <1>6 DEF MoveHead, Answering, Merging
  <2>3. AllSoundlyPublished => Valid(checkout'.db, checkout'.man)
    BY <2>2, PulledIsValid
  <2>4. Answering(p)'
    BY <2>1, <2>2, <2>3 DEF Answering, AllSoundlyPublished, Valid, Latest, Merging
  <2>5. QED
    BY <1>00, <2>1, <2>4 DEF AnswerInv, Answers
<1>7. CASE MergeOrphaned(p)
  BY <1>0, <1>7 DEF MergeOrphaned, Answering
<1>8. QED
  BY <1>1, <1>2, <1>3, <1>4, <1>5, <1>6, <1>7 DEF GitStep

LEMMA MirrorAnswers ==
    ASSUME Alone, MirrorInv, AnswerInv, NEW p \in Procs, MirrorStep(p)
    PROVE  AnswerInv' /\ Answers(p)
<1>0. proc[p] \in Process /\ proc \in [Procs -> Process] /\ Answering(p)
  BY DEF MirrorInv, TypeOK, AnswerInv
<1>00. \A q \in Procs : q = p
  BY DEF Alone
<1>1. CASE NeedsCopy(p) \/ ValidateMirror(p) \/ MarkVerified(p) \/ StampMirror(p)
  <2>1. checkout'.present
    BY <1>0, <1>1 DEF NeedsCopy, ValidateMirror, MarkVerified, StampMirror, Answering
  <2>2. PICK step \in Quiet : proc' = At(p, step)
    BY <1>1 DEF NeedsCopy, ValidateMirror, MarkVerified, StampMirror, Quiet
  <2>3. QED
    BY <2>1, <2>2, AtAnswers, QuietAnswers
<1>2. CASE CachedHealth(p)
  <2>1. /\ proc'[p].pc \in {"ready", "health"} /\ proc'[p].result = proc[p].result
        /\ checkout'.present
    BY <1>0, <1>2 DEF CachedHealth, Process
  <2>2. QED
    BY <2>1, QuietAnswers DEF Quiet
<1>3. CASE CheckSource(p)
  <2>1. CASE Valid(checkout.db, checkout.man)
    <3>1. /\ proc'[p].pc = "copy" /\ proc'[p].result = proc[p].result
          /\ checkout' = checkout /\ checkout.present
      BY <1>3, <2>1, AtAnswers DEF CheckSource
    <3>2. Answering(p)'
      BY <2>1, <3>1 DEF Answering, Valid, Merging
    <3>3. QED
      BY <1>00, <3>1, <3>2 DEF AnswerInv, Answers
  <2>2. CASE ~Valid(checkout.db, checkout.man)
    <3>1. /\ proc'[p].pc = "repair" /\ proc'[p].result = proc[p].result /\ checkout'.present
      BY <1>0, <1>3, <2>2 DEF CheckSource, Process
    <3>2. QED
      BY <3>1, QuietAnswers DEF Quiet
  <2>3. QED
    BY <2>1, <2>2
<1>4. CASE ReadSource(p)
  <2>1. /\ proc'[p].pc = "copied" /\ proc'[p].result = proc[p].result
        /\ proc'[p].held = checkout.db /\ checkout' = checkout /\ checkout.present
    BY <1>0, <1>4 DEF ReadSource, Process
  <2>2. Valid(checkout.db, checkout.man)
    BY <1>0, <1>4 DEF ReadSource, Answering
  <2>3. Answering(p)'
    BY <2>1, <2>2 DEF Answering, Valid, Merging
  <2>4. QED
    BY <1>00, <2>1, <2>3 DEF AnswerInv, Answers
<1>5. CASE ValidateCopy(p)
  <2>1. Valid(proc[p].held, checkout.man)
    BY <1>0, <1>5 DEF ValidateCopy, Answering
  <2>2. /\ proc'[p].pc = "install" /\ proc'[p].result = proc[p].result /\ checkout'.present
    BY <1>0, <1>5, <2>1 DEF ValidateCopy, Process
  <2>3. QED
    BY <2>2, QuietAnswers DEF Quiet
<1>6. CASE Install(p)
  <2>1. checkout'.present
    BY <1>0, <1>6 DEF Install, Answering
  <2>2. At(p, "stamp") \in [Procs -> Process]
    <3>1. [proc[p] EXCEPT !.pc = "stamp"] \in Process
      BY <1>0 DEF Process
    <3>2. QED
      BY <1>0, <3>1 DEF At
  <2>3. /\ AfterMirror(At(p, "stamp"))[p].pc = "stamp"
        /\ AfterMirror(At(p, "stamp"))[p].result = proc[p].result
    BY <2>2, AtAnswers, FlagsAnswer
  <2>4. AfterMirror(At(p, "stamp"))[p] \in Process
    BY <2>2, FlagsForget
  <2>5. proc'[p] = [AfterMirror(At(p, "stamp"))[p] EXCEPT !.live = FALSE]
    BY <1>6 DEF Install
  <2>6. proc'[p].pc = "stamp" /\ proc'[p].result = proc[p].result
    BY <2>3, <2>4, <2>5 DEF Process
  <2>7. QED
    BY <2>1, <2>6, QuietAnswers DEF Quiet
<1>7. CASE ReadMirror(p) \/ OpenMirror(p) \/ CloseMirror(p)
  <2>1. /\ proc'[p].pc \in {"idle", "open"}
        /\ proc'[p].result \in {proc[p].result} \cup NoFailure
    BY <1>0, <1>7 DEF ReadMirror, OpenMirror, CloseMirror, Return, Process, NoFailure
  <2>2. checkout'.present
    BY <1>0, <1>7 DEF ReadMirror, OpenMirror, CloseMirror, Answering
  <2>3. QED
    BY <2>1, <2>2, QuietAnswers DEF Quiet
<1>8. QED
  BY <1>1, <1>2, <1>3, <1>4, <1>5, <1>6, <1>7 DEF MirrorStep

LEMMA RepairAnswers ==
    ASSUME Alone, MirrorInv, AnswerInv, NEW p \in Procs, RepairStep(p)
    PROVE  AnswerInv' /\ Answers(p)
<1>0. /\ proc[p] \in Process /\ proc \in [Procs -> Process] /\ Answering(p)
      /\ checkout.head \in 1..Latest /\ Latest \in 1..Latest
      /\ checkout \in [head : 1..Latest, db : 1..Latest \cup {Torn},
                       man : 1..Latest, present : BOOLEAN]
  BY DEF MirrorInv, TypeOK, AnswerInv, CheckoutSound
<1>00. \A q \in Procs : q = p
  BY DEF Alone
<1>1. CASE RepairReset(p)
  <2>1. /\ checkout' = [checkout EXCEPT !.db = checkout.head, !.man = published[checkout.head]]
        /\ published' = published /\ checkout.present
        /\ proc' = AfterSource(AfterManifest(At(p, "pull")))
    BY <1>1 DEF RepairReset
  <2>2. Clean' /\ checkout'.present
    BY <1>0, <2>1 DEF Clean
  <2>3. At(p, "pull") \in [Procs -> Process]
    BY AtIs DEF Free
  <2>4. AfterManifest(At(p, "pull")) \in [Procs -> Process]
    BY <2>3, FlagsAnswer
  <2>5. proc'[p].pc = "pull" /\ proc'[p].result = proc[p].result
    BY <2>1, <2>3, <2>4, AtAnswers, FlagsAnswer
  <2>6. Answering(p)'
    BY <2>2, <2>5 DEF Answering, Merging
  <2>7. QED
    BY <1>00, <2>5, <2>6 DEF AnswerInv, Answers
<1>2. CASE RepairClean(p)
  <2>1. /\ proc'[p].pc = "pull" /\ proc'[p].result = proc[p].result
        /\ UNCHANGED <<checkout, published>> /\ checkout.present /\ Clean
    BY <1>2, AtAnswers DEF RepairClean
  <2>2. Answering(p)'
    BY <2>1 DEF Answering, Clean, Merging
  <2>3. QED
    BY <1>00, <2>1, <2>2 DEF AnswerInv, Answers
<1>3. CASE RepairFails(p)
  <2>1. /\ proc'[p].pc = "unrepaired" /\ proc'[p].result = proc[p].result
        /\ checkout'.present
    BY <1>0, <1>3, AtAnswers DEF RepairFails, Answering
  <2>2. QED
    BY <2>1, QuietAnswers DEF Quiet
<1>4. CASE UseMirrorUnrepaired(p)
  <2>1. checkout'.present
    BY <1>0, <1>4 DEF UseMirrorUnrepaired, Answering
  <2>2. CASE mirror # Absent
    <3>1. proc'[p].pc = "ready" /\ proc'[p].result = proc[p].result
      BY <1>4, <2>2, AtAnswers DEF UseMirrorUnrepaired
    <3>2. QED
      BY <2>1, <3>1, QuietAnswers DEF Quiet
  <2>3. CASE mirror = Absent
    <3>1. proc'[p].pc = "idle"
      BY <1>0, <1>4, <2>3 DEF UseMirrorUnrepaired, Return, Process
    <3>2. Answering(p)'
      BY <3>1 DEF Answering, Merging
    <3>3. QED
      BY <1>00, <2>3, <3>2 DEF AnswerInv, Answers
  <2>4. QED
    BY <2>2, <2>3
<1>5. CASE CheckRepaired(p)
  <2>1. /\ proc'[p].pc = IF Valid(checkout.db, checkout.man) THEN "copy" ELSE "reclone"
        /\ proc'[p].result = proc[p].result
        /\ UNCHANGED <<checkout, published>> /\ checkout.present
    BY <1>5, AtAnswers DEF CheckRepaired
  <2>2. AllSoundlyPublished => Valid(checkout.db, checkout.man)
    BY <1>0, <1>5 DEF CheckRepaired, Answering
  <2>3. Answering(p)'
    BY <2>1, <2>2 DEF Answering, AllSoundlyPublished, Valid, Latest, Merging
  <2>4. QED
    BY <1>00, <2>1, <2>3 DEF AnswerInv, Answers
<1>6. CASE StartReclone(p)
  <2>1. /\ proc'[p].pc = "recloned" /\ proc'[p].result = proc[p].result
        /\ published' = published /\ ~AllSoundlyPublished
    BY <1>0, <1>6, AtAnswers DEF StartReclone, Answering
  <2>2. Answering(p)'
    BY <2>1 DEF Answering, AllSoundlyPublished, Latest, Merging
  <2>3. QED
    BY <1>00, <2>1, <2>2 DEF AnswerInv, Answers
<1>7. CASE Recloned(p)
  <2> DEFINE ps == AfterSource(AfterManifest(proc))
  <2>1. ps \in [Procs -> Process] /\ ps[p] \in Process
    <3>1. AfterManifest(proc) \in [Procs -> Process]
      BY <1>0, FlagsAnswer
    <3>2. QED
      BY <3>1, FlagsAnswer
  <2>2. /\ checkout' = [head |-> Latest, db |-> Latest, man |-> published[Latest],
                        present |-> TRUE]
        /\ proc' = IF Valid(Latest, published[Latest])
                   THEN [ps EXCEPT ![p].pc = "copy"]
                   ELSE [ps EXCEPT ![p].pc = "idle", ![p].result = "error"]
        /\ ~AllSoundlyPublished
    BY <1>0, <1>7 DEF Recloned, Answering
  <2> HIDE DEF ps
  <2>3. /\ proc'[p].pc \in {"copy", "idle"}
        /\ proc'[p].pc = "copy" => Valid(Latest, published[Latest])
    BY <2>1, <2>2 DEF Process
  <2>4. Answering(p)'
    BY <2>2, <2>3 DEF Answering, Valid, Merging
  <2>5. QED
    BY <1>00, <2>2, <2>4 DEF AnswerInv, Answers
<1>8. CASE RecloneFails(p)
  <2>1. proc'[p].pc = "idle" /\ ~AllSoundlyPublished
    BY <1>0, <1>8 DEF RecloneFails, Return, Process, Answering
  <2>2. Answering(p)'
    BY <2>1 DEF Answering, Merging
  <2>3. QED
    BY <1>00, <2>1, <2>2 DEF AnswerInv, Answers
<1>9. CASE SourceMissing(p)
  BY <1>0, <1>9 DEF SourceMissing, Answering
<1>10. QED
  BY <1>1, <1>2, <1>3, <1>4, <1>5, <1>6, <1>7, <1>8, <1>9 DEF RepairStep

LEMMA CommandAnswers ==
    ASSUME Alone, MirrorInv, AnswerInv, NEW p \in Procs,
           \/ \E kind \in {"read", "write"} : Call(p, kind)
           \/ CallWithoutCheckout(p) \/ MergeKilled(p) \/ Crash(p) \/ CommitLocally(p)
    PROVE  AnswerInv' /\ Answers(p)
<1>0. proc[p] \in Process /\ proc \in [Procs -> Process] /\ Answering(p)
  BY DEF MirrorInv, TypeOK, AnswerInv
<1>1. ASSUME NEW kind \in {"read", "write"}, Call(p, kind) PROVE AnswerInv' /\ Answers(p)
  <2>1. /\ proc'[p].pc \in {"due", "check"} /\ proc'[p].result = "none" /\ checkout'.present
    BY <1>0, <1>1 DEF Call, Process
  <2>2. QED
    BY <2>1, QuietAnswers DEF Quiet, NoFailure
<1>2. CASE CallWithoutCheckout(p) \/ Crash(p)
  <2>1. proc'[p].pc = "idle" /\ proc'[p].result \in NoFailure
    BY <1>0, <1>2 DEF CallWithoutCheckout, Crash, Process, NoFailure
  <2>2. QED
    BY <2>1, QuietAnswers
<1>3. CASE MergeKilled(p)
  <2>1. /\ proc'[p].pc \in {"unrepaired", "finish"} /\ proc'[p].result = proc[p].result
    BY <1>3, AtAnswers DEF MergeKilled
  <2>2. checkout'.present
    BY <1>0, <1>3 DEF MergeKilled, Answering, Merging
  <2>3. QED
    BY <2>1, <2>2, QuietAnswers DEF Quiet
<1>4. CASE CommitLocally(p)
  <2>1. proc' \in {proc, AfterMirror(proc)} /\ proc[p].pc = "open" /\ checkout' = checkout
    BY <1>4 DEF CommitLocally
  <2>2. proc'[p].pc = "open" /\ proc'[p].result = proc[p].result
    BY <1>0, <2>1, FlagsAnswer
  <2>3. checkout'.present
    BY <1>0, <2>1 DEF Answering
  <2>4. QED
    BY <2>2, <2>3, QuietAnswers DEF Quiet
<1>5. QED
  BY <1>1, <1>2, <1>3, <1>4

(* The publisher takes nothing back that it pushed.                         *)
LEMMA PublishAnswers ==
    ASSUME MirrorInv, AnswerInv, Publish
    PROVE  AnswerInv'
<1>1. published \in Seq(1..MaxPublishes) /\ Latest \in Nat
  BY RuntimeAssumption DEF MirrorInv, TypeOK
<1>2. PICK man : published' = Append(published, man)
  BY DEF Publish
<1>3. /\ Latest' = Latest + 1 /\ 1..Latest \subseteq 1..Latest'
      /\ \A v \in 1..Latest : published'[v] = published[v]
  BY <1>1, <1>2 DEF Latest
<1>4. AllSoundlyPublished' => AllSoundlyPublished
  BY <1>3 DEF AllSoundlyPublished
<1>5. UNCHANGED <<checkout, gitLock, proc>>
  BY DEF Publish
<1>6. published'[checkout.head] = published[checkout.head]
  BY <1>3 DEF MirrorInv, CheckoutSound
<1>7. ASSUME NEW p \in Procs PROVE Answering(p)'
  <2>1. Answering(p) /\ (proc[p].pc \in Merging => proc[p].held \in 1..Latest)
    BY DEF AnswerInv, MirrorInv, ProcessesSound, HoldsSound
  <2>2. proc[p].pc = "head" => published'[proc[p].held] = published[proc[p].held]
    BY <1>3, <2>1 DEF Merging
  <2>3. Clean' = Clean
    BY <1>5, <1>6 DEF Clean
  <2>4. QED
    BY <1>4, <1>5, <2>1, <2>2, <2>3 DEF Answering, Valid
<1>8. QED
  BY <1>7 DEF AnswerInv

LEMMA NextAnswers ==
    ASSUME Alone, MirrorInv, AnswerInv, [Next]_vars
    PROVE  AnswerInv' /\ (\A p \in Procs : Answers(p))
<1>1. CASE Publish
  BY <1>1, PublishAnswers DEF Publish, Answers
<1>2. CASE UNCHANGED vars
  <2>1. UNCHANGED <<published, checkout, gitLock, proc>>
    BY <1>2 DEF vars
  <2>2. QED
    BY <2>1 DEF AnswerInv, Answering, Clean, Valid, AllSoundlyPublished, Latest, Answers
<1>3. ASSUME NEW p \in Procs, Step(p) PROVE AnswerInv' /\ (\A q \in Procs : Answers(q))
  BY <1>3, RefreshAnswers, GitAnswers, MirrorAnswers, RepairAnswers DEF Step, Alone
<1>4. ASSUME NEW p \in Procs,
             \/ \E kind \in {"read", "write"} : Call(p, kind)
             \/ CallWithoutCheckout(p) \/ MergeKilled(p) \/ Crash(p) \/ CommitLocally(p)
      PROVE  AnswerInv' /\ (\A q \in Procs : Answers(q))
  BY <1>4, CommandAnswers DEF Alone
<1>5. QED
  BY <1>1, <1>2, <1>3, <1>4 DEF Next

(* ReadsAnswer: when commands run one after the other, one that finds a      *)
(* mirror fails only after the publisher has pushed an unsound commit: not   *)
(* because the remote is away, nor after killed merges, crashes in a repair  *)
(* or a reclone, or local writes.                                           *)
THEOREM ReadsAreAnswered ==
    ASSUME MaxPublishes >= 1, Alone
    PROVE  Spec => ReadsAnswer
<1>1. Init => MirrorInv /\ AnswerInv
  <2>1. Init => MirrorInv
    BY InitSound
  <2>2. Init => AnswerInv
    <3>1. SUFFICES ASSUME Init, NEW p \in Procs PROVE Answering(p)
      BY DEF AnswerInv
    <3>2. proc[p].pc = "idle"
      BY <3>1 DEF Init
    <3>3. QED
      BY <3>2 DEF Answering, Merging
  <2>3. QED
    BY <2>1, <2>2
<1>2. MirrorInv /\ AnswerInv /\ [Next]_vars => MirrorInv' /\ AnswerInv'
  BY NextSound, NextAnswers
<1>3. MirrorInv /\ AnswerInv /\ [Next]_vars =>
        [\A p \in Procs :
           /\ mirror # Absent
           /\ \A v \in 1..Latest : published[v] = v
           => ~(proc'[p].result = "error" /\ proc[p].result # "error")]_vars
  BY NextAnswers DEF Answers, AllSoundlyPublished
<1>4. QED
  BY <1>1, <1>2, <1>3, PTL DEF Spec, ReadsAnswer

=============================================================================
