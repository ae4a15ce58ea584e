-------------------------- MODULE PortableRuntime --------------------------
(***************************************************************************)
(* The runtime mirror of a portable store (src/internal/cli/runtime.go).   *)
(* A portable store is a Git checkout holding a database and its manifest. *)
(* Commands never open that database: every command first brings a private *)
(* copy, the mirror, up to date and then opens the mirror.  Read-only      *)
(* commands also fast-forward the checkout.  Several gitcrawl processes do *)
(* this at once on the same files, with no lock but the refresh lock file  *)
(* and Git's own index.lock.                                               *)
(*                                                                         *)
(* A process step is a step of refreshPortableRuntimeDB between two places *)
(* where another process may interleave.  Git rewrites the database before *)
(* the manifest, and moves HEAD last.                                      *)
(*                                                                         *)
(* File times are kept as what the code asks of them: `newer` (the source  *)
(* database is younger than the mirror), `verified` (the health stamps in  *)
(* .portable-refresh.json are those of the mirror and of the manifest) and *)
(* the flags of a process that record whether what it read is still so.    *)
(*                                                                         *)
(* Left out: damage of the mirror by the file system, checkouts that are   *)
(* not marked as portable stores (never repaired), the copies kept as      *)
(* evidence, refusals of os calls other than those named below.            *)
(***************************************************************************)
EXTENDS Naturals, Sequences

CONSTANTS
    Procs,          \* gitcrawl processes sharing one configuration
    None,           \* no process
    Torn,           \* a database file git has not finished writing
    Absent,         \* no mirror yet
    WithManifest,   \* whether the publisher commits a manifest
    MayForget,      \* whether it sometimes forgets to commit the new manifest
    MaxPublishes,   \* bound on the commits of the publisher
    MaxCommits,     \* bound on local writes to the mirror
    MaxKills,       \* bound on merges killed by their deadline
    MaxCrashes      \* bound on processes killed

ASSUME RuntimeAssumption ==
    /\ None \notin Procs
    /\ WithManifest \in BOOLEAN /\ MayForget \in BOOLEAN
    /\ MaxPublishes \in Nat /\ MaxCommits \in Nat
    /\ MaxKills \in Nat /\ MaxCrashes \in Nat
    /\ Torn \notin Nat
    /\ Absent \notin [base : Nat \cup {Torn}, local : Nat]

VARIABLES
    published,   \* published[v]: the version the manifest of commit v describes
    checkout,    \* the working tree, its HEAD, and whether its directory exists
    gitLock,     \* the process whose git created index.lock
    refreshLock, \* the process that created .portable-refresh.json.lock
    attempted,   \* the state file records a refresh, failed or not
    mirror,      \* the version the mirror was copied from, and local writes in it
    newer,       \* the source database is younger than the mirror
    verified,    \* the health stamps are those of the mirror and the manifest
    proc,        \* the processes
    commits, kills, crashes   \* how much of the bounds is used

vars == <<published, checkout, gitLock, refreshLock, attempted, mirror, newer,
          verified, proc, commits, kills, crashes>>

Bounded == <<commits, kills, crashes>>

Latest == Len(published)

\* What git is doing, in order: index.lock taken, the database being written,
\* written, the manifest written.
Merging == {"merge", "writing", "manifest", "head"}

\* A process: where it is, the command it serves, the file or commit it holds,
\* and whether what it read is still so.
Process ==
    [ pc : {"idle", "due", "stale", "lock", "refresh", "finish", "check",
            "health", "mark", "source", "repair", "pull", "unrepaired",
            "recheck", "reclone", "recloned", "copy", "copied", "install",
            "stamp", "ready", "open"} \cup Merging,
      kind      : {"read", "write"},
      held      : 0..MaxPublishes \cup {Torn},
      behind    : BOOLEAN,  \* the source changed after the copy was closed
      seen      : BOOLEAN,  \* the manifest is the one whose stamp it took
      saved     : BOOLEAN,  \* the state it read holds current health stamps
      repairing : BOOLEAN,  \* git runs for a repair, not for a refresh
      live      : BOOLEAN,  \* the database it has open is still the mirror
      result    : {"none", "ok", "error", "bypassed", "killed"} ]

Mirrors == {Absent} \cup [base : 1..MaxPublishes, local : 0..MaxCommits]

(* Mutant: nothing is checked.                                              *)
NotChecked(db, man) == TRUE

\* validatePortableSQLiteFile: quick_check, then the manifest of the source.
Valid(db, man) == db # Torn /\ (WithManifest => db = man)

\* The mirror against the manifest: local writes change its hash.
MirrorMatches ==
    /\ Valid(mirror.base, checkout.man)
    /\ WithManifest => mirror.local = 0

\* gitWorktreeClean: the files are those of HEAD.
Clean == checkout.db = checkout.head /\ checkout.man = published[checkout.head]

\* removeStaleGitIndexLock removes a lock no process has open.
StaleGitLock == gitLock # None /\ proc[gitLock].pc \notin Merging

-----------------------------------------------------------------------------
(* Processes after a change of the files.                                  *)

At(p, step)   == [proc EXCEPT ![p].pc = step]
Return(p, r)  == [proc EXCEPT ![p].pc = "idle", ![p].result = r]

AfterSource(ps)   == [q \in Procs |-> [ps[q] EXCEPT !.behind = TRUE]]
AfterManifest(ps) == [q \in Procs |-> [ps[q] EXCEPT !.seen = FALSE, !.saved = FALSE]]
AfterMirror(ps)   == [q \in Procs |-> [ps[q] EXCEPT !.saved = FALSE]]

-----------------------------------------------------------------------------
Init ==
    /\ published = <<1>>
    /\ checkout = [head |-> 1, db |-> 1, man |-> 1, present |-> TRUE]
    /\ gitLock = None
    /\ refreshLock = None
    /\ attempted = FALSE
    /\ mirror = Absent
    /\ newer = TRUE
    /\ verified = FALSE
    /\ proc = [p \in Procs |->
                [pc |-> "idle", kind |-> "read", held |-> 0, behind |-> FALSE,
                 seen |-> FALSE, saved |-> FALSE, repairing |-> FALSE,
                 live |-> FALSE, result |-> "none"]]
    /\ commits = 0 /\ kills = 0 /\ crashes = 0

\* The publisher pushes a database, with its manifest or, having forgotten to
\* add it, with the manifest of the commit before.
Publish ==
    /\ Latest < MaxPublishes
    /\ \E man \in {Latest + 1} \cup (IF MayForget THEN {published[Latest]} ELSE {}) :
           published' = Append(published, man)
    /\ UNCHANGED <<checkout, gitLock, refreshLock, attempted, mirror, newer,
                   verified, proc, Bounded>>

\* A command starts.  openLocalRuntimeReadOnly refreshes, openLocalRuntime not.
Call(p, kind) ==
    /\ proc[p].pc = "idle"
    /\ checkout.present
    /\ proc' = [proc EXCEPT ![p].pc = IF kind = "read" THEN "due" ELSE "check",
                            ![p].kind = kind, ![p].result = "none",
                            ![p].repairing = FALSE]
    /\ UNCHANGED <<published, checkout, gitLock, refreshLock, attempted, mirror,
                   newer, verified, Bounded>>

\* While the checkout is moved away there is no portable store to see: the
\* command works on the configured path instead of the mirror.
CallWithoutCheckout(p) ==
    /\ proc[p].pc = "idle"
    /\ ~checkout.present
    /\ proc' = [proc EXCEPT ![p].result = "bypassed"]
    /\ UNCHANGED <<published, checkout, gitLock, refreshLock, attempted, mirror,
                   newer, verified, Bounded>>

-----------------------------------------------------------------------------
(* refreshPortableStoreForDBIfDue.                                         *)

\* A refresh that succeeded or failed a short while ago is not repeated.
RefreshNotDue(p) ==
    /\ proc[p].pc = "due" /\ attempted
    /\ proc' = At(p, "check")
    /\ UNCHANGED <<published, checkout, gitLock, refreshLock, attempted, mirror,
                   newer, verified, Bounded>>

(* Mutant: an old lock is never removed.                                    *)
LockNeverStale(p) ==
    /\ proc[p].pc = "due"
    /\ proc' = At(p, "lock")
    /\ UNCHANGED <<published, checkout, gitLock, refreshLock, attempted, mirror,
                   newer, verified, Bounded>>

\* The lock file is looked at: it may have outlived any holder, because a
\* holder may have crashed, be stopped, or check a slow working tree.
SeeRefreshLock(p) ==
    /\ proc[p].pc = "due"
    /\ \/ proc' = At(p, "lock")
       \/ refreshLock # None /\ proc' = At(p, "stale")
    /\ UNCHANGED <<published, checkout, gitLock, refreshLock, attempted, mirror,
                   newer, verified, Bounded>>

\* It is removed by its name, whoever holds it by now.
RemoveStaleLock(p) ==
    /\ proc[p].pc = "stale"
    /\ refreshLock' = None
    /\ proc' = At(p, "lock")
    /\ UNCHANGED <<published, checkout, gitLock, attempted, mirror, newer,
                   verified, Bounded>>

\* The state is read again under the lock; its health stamps are written back
\* at the end as they were read here.
TakeRefreshLock(p) ==
    /\ proc[p].pc = "lock" /\ refreshLock = None
    /\ refreshLock' = p
    /\ proc' = [proc EXCEPT ![p].pc = "refresh", ![p].saved = verified]
    /\ UNCHANGED <<published, checkout, gitLock, attempted, mirror, newer,
                   verified, Bounded>>

RefreshLockBusy(p) ==
    /\ proc[p].pc = "lock" /\ refreshLock # None
    /\ proc' = At(p, "check")
    /\ UNCHANGED <<published, checkout, gitLock, refreshLock, attempted, mirror,
                   newer, verified, Bounded>>

\* Another process refreshed before the lock was taken.
AlreadyRefreshed(p) ==
    /\ proc[p].pc = "refresh" /\ attempted
    /\ refreshLock' = None
    /\ proc' = At(p, "check")
    /\ UNCHANGED <<published, checkout, gitLock, attempted, mirror, newer,
                   verified, Bounded>>

\* The checkout is dirty, index.lock is there, or the remote does not answer.
RefreshFails(p) ==
    /\ proc[p].pc = "refresh"
    /\ proc' = At(p, "finish")
    /\ UNCHANGED <<published, checkout, gitLock, refreshLock, attempted, mirror,
                   newer, verified, Bounded>>

\* The outcome is recorded, with the stamps read at the start, and the lock is
\* removed by its name.
FinishRefresh(p) ==
    /\ proc[p].pc = "finish"
    /\ attempted' = TRUE
    /\ verified' = proc[p].saved
    /\ refreshLock' = None
    /\ proc' = At(p, "check")
    /\ UNCHANGED <<published, checkout, gitLock, mirror, newer, Bounded>>

-----------------------------------------------------------------------------
(* fastForwardGitCheckout, for a refresh or for a repair.                  *)

\* A refresh wants a clean tree and meets any index.lock as an error; a repair
\* removes an index.lock that no process has open.
MayPull(p) ==
    \/ proc[p].pc = "refresh" /\ Clean /\ gitLock = None
    \/ proc[p].pc = "pull" /\ (gitLock = None \/ StaleGitLock)

AfterPull(p) == IF proc[p].repairing THEN "recheck" ELSE "finish"

\* The fetch succeeded and the merge has something to do.
StartMerge(p) ==
    /\ MayPull(p) /\ checkout.present
    /\ checkout.head # Latest
    /\ gitLock' = p
    /\ proc' = [proc EXCEPT ![p].pc = "merge", ![p].held = Latest]
    /\ UNCHANGED <<published, checkout, refreshLock, attempted, mirror, newer,
                   verified, Bounded>>

UpToDate(p) ==
    /\ proc[p].pc = "pull" \/ (proc[p].pc = "refresh" /\ Clean)
    /\ checkout.head = Latest
    /\ proc' = At(p, AfterPull(p))
    /\ UNCHANGED <<published, checkout, gitLock, refreshLock, attempted, mirror,
                   newer, verified, Bounded>>

WriteDatabase(p) ==
    /\ proc[p].pc = "merge" /\ gitLock = p
    /\ checkout' = [checkout EXCEPT !.db = Torn]
    /\ newer' = TRUE
    /\ proc' = AfterSource(At(p, "writing"))
    /\ UNCHANGED <<published, gitLock, refreshLock, attempted, mirror, verified,
                   Bounded>>

DatabaseWritten(p) ==
    /\ proc[p].pc = "writing" /\ gitLock = p
    /\ checkout' = [checkout EXCEPT !.db = proc[p].held]
    /\ newer' = TRUE
    /\ proc' = AfterSource(At(p, "manifest"))
    /\ UNCHANGED <<published, gitLock, refreshLock, attempted, mirror, verified,
                   Bounded>>

\* Git leaves a manifest alone that the commit does not change.
WriteManifest(p) ==
    /\ proc[p].pc = "manifest" /\ gitLock = p
    /\ LET man == published[proc[p].held] IN
       IF man = checkout.man
       THEN /\ proc' = At(p, "head")
            /\ UNCHANGED <<checkout, verified>>
       ELSE /\ checkout' = [checkout EXCEPT !.man = man]
            /\ verified' = FALSE
            /\ proc' = AfterManifest(At(p, "head"))
    /\ UNCHANGED <<published, gitLock, refreshLock, attempted, mirror, newer,
                   Bounded>>

MoveHead(p) ==
    /\ proc[p].pc = "head" /\ gitLock = p
    /\ checkout' = [checkout EXCEPT !.head = proc[p].held]
    /\ gitLock' = None
    /\ proc' = At(p, AfterPull(p))
    /\ UNCHANGED <<published, refreshLock, attempted, mirror, newer, verified,
                   Bounded>>

\* The deadline kills git wherever it is: index.lock and the files stay.
MergeKilled(p) ==
    /\ proc[p].pc \in Merging /\ kills < MaxKills
    /\ proc' = At(p, IF proc[p].repairing THEN "unrepaired" ELSE "finish")
    /\ kills' = kills + 1
    /\ UNCHANGED <<published, checkout, gitLock, refreshLock, attempted, mirror,
                   newer, verified, commits, crashes>>

\* A reclone moved the directory away under a running git: what git does there
\* is of no effect any more.
MergeOrphaned(p) ==
    /\ proc[p].pc \in Merging /\ gitLock # p
    /\ proc' = At(p, AfterPull(p))
    /\ UNCHANGED <<published, checkout, gitLock, refreshLock, attempted, mirror,
                   newer, verified, Bounded>>

-----------------------------------------------------------------------------
(* refreshPortableRuntimeDB: is the mirror to be copied?                   *)

NeedsCopy(p) ==
    /\ proc[p].pc = "check" /\ checkout.present
    /\ mirror = Absent \/ newer
    /\ proc' = At(p, "source")
    /\ UNCHANGED <<published, checkout, gitLock, refreshLock, attempted, mirror,
                   newer, verified, Bounded>>

\* The stamp of the manifest is taken; when the stamps on record are current
\* the mirror is not looked at.
CachedHealth(p) ==
    /\ proc[p].pc = "check" /\ checkout.present
    /\ mirror # Absent /\ ~newer
    /\ proc' = [proc EXCEPT ![p].pc = IF verified THEN "ready" ELSE "health",
                            ![p].seen = TRUE]
    /\ UNCHANGED <<published, checkout, gitLock, refreshLock, attempted, mirror,
                   newer, verified, Bounded>>

ValidateMirror(p) ==
    /\ proc[p].pc = "health" /\ checkout.present
    /\ proc' = At(p, IF MirrorMatches THEN "mark" ELSE "source")
    /\ UNCHANGED <<published, checkout, gitLock, refreshLock, attempted, mirror,
                   newer, verified, Bounded>>

\* The stamps recorded are those of the mirror as it is now and of the manifest
\* as it was when its stamp was taken.
MarkVerified(p) ==
    /\ proc[p].pc = "mark"
    /\ verified' = proc[p].seen
    /\ proc' = At(p, "ready")
    /\ UNCHANGED <<published, checkout, gitLock, refreshLock, attempted, mirror,
                   newer, Bounded>>

CheckSource(p) ==
    /\ proc[p].pc = "source" /\ checkout.present
    /\ proc' = IF Valid(checkout.db, checkout.man)
               THEN At(p, "copy")
               ELSE [proc EXCEPT ![p].pc = "repair", ![p].repairing = TRUE]
    /\ UNCHANGED <<published, checkout, gitLock, refreshLock, attempted, mirror,
                   newer, verified, Bounded>>

-----------------------------------------------------------------------------
(* repairMalformedPortableStoreForDB, recloneMalformedPortableStoreForDB.  *)

\* git reset --hard HEAD, one step: the files of HEAD are put back.  A lock no
\* process has open is removed first.
RepairReset(p) ==
    /\ proc[p].pc = "repair" /\ checkout.present
    /\ gitLock = None \/ StaleGitLock
    /\ ~Clean
    /\ gitLock' = None
    /\ checkout' = [checkout EXCEPT !.db = checkout.head,
                                    !.man = published[checkout.head]]
    /\ newer' = TRUE
    /\ verified' = FALSE
    /\ proc' = AfterSource(AfterManifest(At(p, "pull")))
    /\ UNCHANGED <<published, refreshLock, attempted, mirror, Bounded>>

RepairClean(p) ==
    /\ proc[p].pc = "repair" /\ checkout.present
    /\ Clean
    /\ proc' = At(p, "pull")
    /\ UNCHANGED <<published, checkout, gitLock, refreshLock, attempted, mirror,
                   newer, verified, Bounded>>

\* The reset or the merge meets an index.lock, or the remote does not answer.
RepairFails(p) ==
    /\ \/ proc[p].pc = "repair" /\ gitLock # None
       \/ proc[p].pc = "pull"
    /\ proc' = At(p, "unrepaired")
    /\ UNCHANGED <<published, checkout, gitLock, refreshLock, attempted, mirror,
                   newer, verified, Bounded>>

(* Mutant: a failed repair fails the command.                               *)
FailUnrepaired(p) ==
    /\ proc[p].pc = "unrepaired"
    /\ proc' = Return(p, "error")
    /\ UNCHANGED <<published, checkout, gitLock, refreshLock, attempted, mirror,
                   newer, verified, Bounded>>

\* A failed repair leaves a sound mirror in use.
UseMirrorUnrepaired(p) ==
    /\ proc[p].pc = "unrepaired"
    /\ proc' = IF mirror # Absent THEN At(p, "ready") ELSE Return(p, "error")
    /\ UNCHANGED <<published, checkout, gitLock, refreshLock, attempted, mirror,
                   newer, verified, Bounded>>

CheckRepaired(p) ==
    /\ proc[p].pc = "recheck" /\ checkout.present
    /\ proc' = At(p, IF Valid(checkout.db, checkout.man) THEN "copy" ELSE "reclone")
    /\ UNCHANGED <<published, checkout, gitLock, refreshLock, attempted, mirror,
                   newer, verified, Bounded>>

\* The checkout is moved away, then cloned again.
StartReclone(p) ==
    /\ proc[p].pc = "reclone" /\ checkout.present
    /\ checkout' = [checkout EXCEPT !.present = FALSE]
    /\ proc' = At(p, "recloned")
    /\ UNCHANGED <<published, gitLock, refreshLock, attempted, mirror, newer,
                   verified, Bounded>>

Recloned(p) ==
    /\ proc[p].pc = "recloned"
    /\ checkout' = [head |-> Latest, db |-> Latest, man |-> published[Latest],
                    present |-> TRUE]
    /\ gitLock' = None
    /\ newer' = TRUE
    /\ verified' = FALSE
    /\ LET ps == AfterSource(AfterManifest(proc)) IN
       proc' = IF Valid(Latest, published[Latest])
               THEN [ps EXCEPT ![p].pc = "copy"]
               ELSE [ps EXCEPT ![p].pc = "idle", ![p].result = "error"]
    /\ UNCHANGED <<published, refreshLock, attempted, mirror, Bounded>>

\* The clone failed: the checkout is moved back.
RecloneFails(p) ==
    /\ proc[p].pc = "recloned"
    /\ checkout' = [checkout EXCEPT !.present = TRUE]
    /\ proc' = Return(p, "error")
    /\ UNCHANGED <<published, gitLock, refreshLock, attempted, mirror, newer,
                   verified, Bounded>>

\* Another process has moved the checkout away.
SourceMissing(p) ==
    /\ proc[p].pc \in {"check", "health", "source", "repair", "recheck",
                       "reclone", "copy", "copied"}
    /\ ~checkout.present
    /\ proc' = Return(p, "error")
    /\ UNCHANGED <<published, checkout, gitLock, refreshLock, attempted, mirror,
                   newer, verified, Bounded>>

-----------------------------------------------------------------------------
(* copySQLiteFileAtomicVerified and what follows it.                       *)

\* The source is opened: git replaces files, so this is the content copied.
ReadSource(p) ==
    /\ proc[p].pc = "copy" /\ checkout.present
    /\ proc' = [proc EXCEPT ![p].pc = "copied", ![p].held = checkout.db]
    /\ UNCHANGED <<published, checkout, gitLock, refreshLock, attempted, mirror,
                   newer, verified, Bounded>>

(* Mutant: only the source is validated, not its copy.                      *)
TrustCopy(p) ==
    /\ proc[p].pc = "copied" /\ checkout.present
    /\ proc' = [proc EXCEPT ![p].pc = "install", ![p].behind = FALSE]
    /\ UNCHANGED <<published, checkout, gitLock, refreshLock, attempted, mirror,
                   newer, verified, Bounded>>

\* The copy is closed, which sets its time, and checked against the manifest
\* beside the source.
ValidateCopy(p) ==
    /\ proc[p].pc = "copied" /\ checkout.present
    /\ proc' = IF Valid(proc[p].held, checkout.man)
               THEN [proc EXCEPT ![p].pc = "install", ![p].behind = FALSE]
               ELSE Return(p, "error")
    /\ UNCHANGED <<published, checkout, gitLock, refreshLock, attempted, mirror,
                   newer, verified, Bounded>>

\* The rename: whoever has the old mirror open keeps a file without a name.  The
\* removal of the old -wal and -shm files, which follows, is part of the step.
Install(p) ==
    /\ proc[p].pc = "install"
    /\ mirror' = [base |-> proc[p].held, local |-> 0]
    /\ newer' = proc[p].behind
    /\ verified' = FALSE
    /\ proc' = [q \in Procs |-> [AfterMirror(At(p, "stamp"))[q] EXCEPT !.live = FALSE]]
    /\ UNCHANGED <<published, checkout, gitLock, refreshLock, attempted, Bounded>>

\* markPortableMirrorHealthVerified: the stamp of the manifest is taken here,
\* not when the copy was checked against it.
StampMirror(p) ==
    /\ proc[p].pc = "stamp"
    /\ verified' = TRUE
    /\ proc' = At(p, "ready")
    /\ UNCHANGED <<published, checkout, gitLock, refreshLock, attempted, mirror,
                   newer, Bounded>>

-----------------------------------------------------------------------------
(* The command opens the mirror.                                           *)

ReadMirror(p) ==
    /\ proc[p].pc = "ready" /\ proc[p].kind = "read"
    /\ proc' = Return(p, "ok")
    /\ UNCHANGED <<published, checkout, gitLock, refreshLock, attempted, mirror,
                   newer, verified, Bounded>>

OpenMirror(p) ==
    /\ proc[p].pc = "ready" /\ proc[p].kind = "write"
    /\ proc' = [proc EXCEPT ![p].pc = "open", ![p].live = TRUE]
    /\ UNCHANGED <<published, checkout, gitLock, refreshLock, attempted, mirror,
                   newer, verified, Bounded>>

(* Mutant: the stamps do not hold the time of the mirror.                   *)
CommitUnnoticed(p) ==
    /\ proc[p].pc = "open" /\ commits < MaxCommits
    /\ commits' = commits + 1
    /\ IF proc[p].live
       THEN mirror' = [mirror EXCEPT !.local = @ + 1] /\ newer' = FALSE
       ELSE UNCHANGED <<mirror, newer>>
    /\ UNCHANGED <<published, checkout, gitLock, refreshLock, attempted, verified,
                   proc, kills, crashes>>

\* A local write (an embedding, an override) changes the mirror and its time;
\* after a rename it changes a file nobody will read.
CommitLocally(p) ==
    /\ proc[p].pc = "open" /\ commits < MaxCommits
    /\ commits' = commits + 1
    /\ IF proc[p].live
       THEN /\ mirror' = [mirror EXCEPT !.local = @ + 1]
            /\ newer' = FALSE
            /\ verified' = FALSE
            /\ proc' = AfterMirror(proc)
       ELSE UNCHANGED <<mirror, newer, verified, proc>>
    /\ UNCHANGED <<published, checkout, gitLock, refreshLock, attempted, kills,
                   crashes>>

CloseMirror(p) ==
    /\ proc[p].pc = "open"
    /\ proc' = [proc EXCEPT ![p].pc = "idle", ![p].live = FALSE, ![p].result = "ok"]
    /\ UNCHANGED <<published, checkout, gitLock, refreshLock, attempted, mirror,
                   newer, verified, Bounded>>

\* A process is killed: its lock files stay.  A git it runs has a process group
\* of its own and ends its merge, as if the process had been killed after it.
Crash(p) ==
    /\ proc[p].pc \notin Merging \cup {"idle"} /\ crashes < MaxCrashes
    /\ crashes' = crashes + 1
    /\ proc' = [proc EXCEPT ![p].pc = "idle", ![p].live = FALSE, ![p].result = "killed"]
    /\ UNCHANGED <<published, checkout, gitLock, refreshLock, attempted, mirror,
                   newer, verified, commits, kills>>

-----------------------------------------------------------------------------
RefreshStep(p) ==
    \/ RefreshNotDue(p) \/ SeeRefreshLock(p) \/ RemoveStaleLock(p)
    \/ TakeRefreshLock(p) \/ RefreshLockBusy(p) \/ AlreadyRefreshed(p)
    \/ RefreshFails(p) \/ FinishRefresh(p)

GitStep(p) ==
    \/ StartMerge(p) \/ UpToDate(p) \/ WriteDatabase(p) \/ DatabaseWritten(p)
    \/ WriteManifest(p) \/ MoveHead(p) \/ MergeOrphaned(p)

MirrorStep(p) ==
    \/ NeedsCopy(p) \/ CachedHealth(p) \/ ValidateMirror(p) \/ MarkVerified(p)
    \/ CheckSource(p) \/ ReadSource(p) \/ ValidateCopy(p) \/ Install(p)
    \/ StampMirror(p) \/ ReadMirror(p) \/ OpenMirror(p) \/ CloseMirror(p)

RepairStep(p) ==
    \/ RepairReset(p) \/ RepairClean(p) \/ RepairFails(p)
    \/ UseMirrorUnrepaired(p) \/ CheckRepaired(p) \/ StartReclone(p)
    \/ Recloned(p) \/ RecloneFails(p) \/ SourceMissing(p)

Step(p) == RefreshStep(p) \/ GitStep(p) \/ MirrorStep(p) \/ RepairStep(p)

Next ==
    \/ Publish
    \/ \E p \in Procs :
        \/ \E kind \in {"read", "write"} : Call(p, kind)
        \/ CallWithoutCheckout(p)
        \/ Step(p)
        \/ CommitLocally(p) \/ MergeKilled(p) \/ Crash(p)

Spec == Init /\ [][Next]_vars

\* A refresh that comes to its git commands has an outcome.
RefreshOutcome(p) ==
    proc[p].pc = "refresh" /\ (StartMerge(p) \/ UpToDate(p) \/ RefreshFails(p))

\* Read-only commands keep being run, a process that is not killed goes on, the
\* time between refreshes passes, locks grow old enough to be removed, and the
\* remote does not fail forever.
Fairness ==
    \A p \in Procs :
        /\ WF_vars(Step(p))
        /\ SF_vars(Call(p, "read"))
        /\ SF_vars(SeeRefreshLock(p) /\ proc'[p].pc = "stale")
        /\ SF_vars(SeeRefreshLock(p) /\ proc'[p].pc = "lock")
        /\ SF_vars(StartMerge(p))
        /\ SF_vars(RefreshOutcome(p))
        /\ SF_vars(RepairReset(p))

FairSpec == Spec /\ Fairness

-----------------------------------------------------------------------------
(* Properties.                                                             *)

\* The variables keep their types (the state of one refresh of the mirror).
TypeOK ==
    /\ published \in Seq(1..MaxPublishes) /\ Latest \in 1..MaxPublishes
    /\ checkout \in [head : 1..Latest, db : 1..Latest \cup {Torn},
                     man : 1..Latest, present : BOOLEAN]
    /\ gitLock \in Procs \cup {None} /\ refreshLock \in Procs \cup {None}
    /\ attempted \in BOOLEAN /\ newer \in BOOLEAN /\ verified \in BOOLEAN
    /\ mirror \in Mirrors
    /\ proc \in [Procs -> Process]
    /\ commits \in 0..MaxCommits /\ kills \in 0..MaxKills /\ crashes \in 0..MaxCrashes

\* The mirror is never a torn database, nor one its own commit's manifest does
\* not describe: every copy is checked before the rename, whatever pulls,
\* repairs and kills happen between the copy and the check.
MirrorKnownGood ==
    mirror # Absent =>
        /\ mirror.base \in 1..Latest
        /\ WithManifest => published[mirror.base] = mirror.base

\* When no command is running and the next one would neither copy nor check
\* again, the mirror is the database of the checkout.
SettledMirrorIsCurrent ==
    /\ \A p \in Procs : proc[p].pc = "idle"
    /\ checkout.present /\ mirror # Absent /\ ~newer
    /\ WithManifest => verified
    => mirror.base = checkout.db

\* While the publisher pushes sound commits and there is a mirror, no command
\* fails: not when the remote is away, not after killed merges or processes.
ReadsAnswer ==
    [][\A p \in Procs :
          /\ mirror # Absent
          /\ \A v \in 1..Latest : published[v] = v
          => ~(proc'[p].result = "error" /\ proc[p].result # "error")]_vars

\* Readers get what the publisher pushed last, if it is sound, also after a
\* process died with the refresh lock in its hands: unless it died while it
\* replaced the checkout, or git was killed and its index.lock stays.
EventuallyFresh ==
    <>[](published[Latest] = Latest /\ checkout.present /\ kills = 0
            => mirror # Absent /\ mirror.base = Latest)

=============================================================================
