----------------------------- MODULE DetailFill -----------------------------
(***************************************************************************)
(* The command "fill-pr-details" (internal/cli/app.go), run again and       *)
(* again, by hand or on a schedule, until every pull request of the archive *)
(* has its details.  A run lists the pull requests without details once and *)
(* syncs them in batches, each with a guarded client of its own; a batch    *)
(* fetches everything before it stores anything (internal/syncer), and is   *)
(* lost whole when a request fails or the token's reserve is reached.       *)
(*                                                                         *)
(* The requests for the rows of a batch are one here, and so are those for  *)
(* a pull request's details.  Of the order of observations, which           *)
(* ObservationOrder and ThreadObservation model, only what can make a run   *)
(* discard a pull request is kept: another process that observed it after   *)
(* the batch took its sequence.                                             *)
(***************************************************************************)
EXTENDS TokenReserve, SequencesExt

CONSTANTS
  PRs,        \* numbers of the archive's pull requests
  Batch,      \* --batch-size
  Repeaters,  \* processes that run it again and again; the others run it once
  LimitOf,    \* --limit of each process, 0 for none
  MaxFaults   \* bound on failed requests, delays and killed commands

ASSUME FillAssumption ==
  /\ Resources = {"core", "graphql"}
  /\ PRs \subseteq Nat \ {0} /\ IsFiniteSet(PRs)
  /\ Batch \in Nat \ {0} /\ LimitOf \in [Clients -> Nat] /\ Repeaters \subseteq Clients /\ MaxFaults \in Nat

VARIABLES
  details,   \* pull requests with a row in pull_request_details
  run,       \* the command of each client's process
  later,     \* pull requests observed after the sequence of a process's batch
  once,      \* processes that have run the command and will not again
  faults

systemVars == <<tokenVars, details, run, later, once, faults>>
fillVars == <<details, run, later, once, faults>>

(* "at" is the index of the batch in "numbers", "done" its requests that    *)
(* were answered, "earlier" the processes whose sequence came before.       *)
Run == [phase : {"idle", "fetch", "persist"}, numbers : Seq(PRs), at : Nat,
        done : Nat, earlier : SUBSET Clients]

NoRun == [phase |-> "idle", numbers |-> <<>>, at |-> 0, done |-> 0, earlier |-> {}]

FillTypeOK ==
  /\ TokenTypeOK
  /\ details \subseteq PRs /\ once \subseteq Clients
  /\ run \in [Clients -> Run]
  /\ later \in [Clients -> SUBSET PRs]
  /\ faults \in 0..MaxFaults

FillInit ==
  /\ TokenInit
  /\ details = {} /\ once = {}
  /\ run = [c \in Clients |-> NoRun]
  /\ later = [c \in Clients |-> {}]
  /\ faults = 0

-----------------------------------------------------------------------------
(* The requests of a batch *)

BatchOf(r) == SubSeq(r.numbers, r.at + 1,
                     IF r.at + Batch < Len(r.numbers) THEN r.at + Batch
                     ELSE Len(r.numbers))

(* The rows of the repository and of the issues are asked first, and then   *)
(* for each pull request its review threads and its details.                *)
Requests(batch) == 1 + 2 * Len(batch)

ResourceOf(done) == IF done % 2 = 1 THEN "graphql" ELSE "core"

(* The pull request whose failure is recorded, none for the rows.           *)
SubjectOf(batch, done) == IF done = 0 THEN {} ELSE {batch[(done + 1) \div 2]}

(* Mutant: an absent limit is passed to the query as zero.                  *)
AlwaysLimited(limit, all) == IF limit > Len(all) THEN all ELSE SubSeq(all, 1, limit)

Limited(limit, all) ==
  IF limit = 0 \/ limit > Len(all) THEN all ELSE SubSeq(all, 1, limit)

(* The newest first.                                                        *)
NewestFirst(prs) ==
  {order \in SetToSeqs(prs) : \A i, j \in DOMAIN order : i < j => order[i] > order[j]}

MissingNumbers(limit) == {Limited(limit, all) : all \in NewestFirst(PRs \ details)}

Faulty == faults < MaxFaults /\ faults' = faults + 1

Fetching(c) == run[c].phase = "fetch" /\ run[c].at < Len(run[c].numbers)

-----------------------------------------------------------------------------
(* A run *)

(* A command without missing pull requests ends at once.                    *)
Start(c) ==
  /\ run[c].phase = "idle" /\ c \notin once
  /\ \E numbers \in MissingNumbers(LimitOf[c]) :
       /\ numbers # <<>>
       /\ run' = [run EXCEPT ![c] = [NoRun EXCEPT !.phase = "fetch", !.numbers = numbers]]
  /\ once' = once \cup ({c} \ Repeaters)
  /\ UNCHANGED <<tokenVars, details, later, faults>>

Fetch(c) ==
  /\ Fetching(c) /\ run[c].done < Requests(BatchOf(run[c]))
  /\ Ask(c, ResourceOf(run[c].done))
  /\ UNCHANGED fillVars

Fetched(c) ==
  /\ Answer(c, "none")
  /\ run' = [run EXCEPT ![c].done = @ + 1]
  /\ UNCHANGED <<details, later, once, faults>>

Waiting(c) ==
  /\ Expired(c) \/ Grant(c) \/ Refuse(c) \/ Exhausted(c) \/ Retry(c)
  /\ UNCHANGED fillVars

Troubled(c) ==
  /\ Answer(c, "failed") \/ Delayed(c) \/ Breaks(c)
  /\ Faulty
  /\ UNCHANGED <<details, run, later, once>>

(* Another observation of these pull requests takes the next sequence.      *)
Observed(prs, by, who) ==
  later' = [q \in Clients |-> IF q = by THEN {}
                              ELSE IF q \in who THEN later[q] \cup prs ELSE later[q]]

(* A request failed, or was refused to keep the reserve: the sync stores    *)
(* nothing of the batch.  For the review threads and the details it records *)
(* the failure, which observes the pull request's thread.  The command      *)
(* ends, with its report when it was the reserve.                           *)
AbortBatch(c) ==
  LET subject == SubjectOf(BatchOf(run[c]), run[c].done) IN
  /\ request[c].step \in {"refused", "failed"}
  /\ Observed(subject, c, {q \in Clients : run[q].phase = "persist"})
  /\ run' = [run EXCEPT ![c] = NoRun]
  /\ Drop(c)
  /\ UNCHANGED <<details, once, faults>>

(* The batch is complete and takes its observation sequence.                *)
Allocate(c) ==
  /\ Fetching(c) /\ run[c].done = Requests(BatchOf(run[c]))
  /\ run' = [run EXCEPT ![c].phase = "persist", ![c].done = 0,
               ![c].earlier = {q \in Clients \ {c} : run[q].phase = "persist"}]
  /\ UNCHANGED <<tokenVars, details, later, once, faults>>

(* One transaction stores the batch, but for pull requests that were        *)
(* observed later, unless their row on GitHub is newer than that one.       *)
PersistBatch(c) ==
  \E skipped \in SUBSET (later[c] \cap ToSet(BatchOf(run[c]))) :
    LET stored == ToSet(BatchOf(run[c])) \ skipped IN
    /\ run[c].phase = "persist"
    /\ details' = details \cup stored
    /\ Observed(stored, c, run[c].earlier)
    /\ run' = [q \in Clients |->
         IF q = c THEN [run[c] EXCEPT !.phase = "fetch", !.at = @ + Batch, !.earlier = {}]
         ELSE [run[q] EXCEPT !.earlier = @ \ {c}]]
    /\ UNCHANGED <<tokenVars, once, faults>>

(* The command reports Selected, Filled and Remaining.                      *)
Finish(c) ==
  /\ run[c].phase = "fetch" /\ run[c].at >= Len(run[c].numbers)
  /\ run' = [run EXCEPT ![c] = NoRun]
  /\ UNCHANGED <<tokenVars, details, later, once, faults>>

(* The command is killed, or a statement of its own fails.                  *)
Kill(c) ==
  /\ run[c].phase # "idle" /\ Faulty
  /\ run' = [q \in Clients |-> IF q = c THEN NoRun
                               ELSE [run[q] EXCEPT !.earlier = @ \ {c}]]
  /\ later' = [later EXCEPT ![c] = {}]
  /\ Drop(c)
  /\ UNCHANGED <<details, once>>

Others == \E r \in Resources : OtherSpends(r) /\ UNCHANGED fillVars

(* A window lasts an hour: that it ends while a client reads /rate_limit a  *)
(* second time, because a window had just ended, is one of the faults.      *)
Reading(r) == \E c \in Clients : /\ request[c].step = "check" /\ request[c].again
                                 /\ request[c].resource = r

Window(r) == Reset(r) /\ ~Reading(r) /\ UNCHANGED fillVars

ShortWindow(r) ==
  Reset(r) /\ Reading(r) /\ Faulty /\ UNCHANGED <<details, run, later, once>>

Progress(c) ==
  \/ Fetch(c) \/ Fetched(c) \/ Waiting(c) \/ AbortBatch(c)
  \/ Allocate(c) \/ PersistBatch(c) \/ Finish(c)

FillNext ==
  \/ \E c \in Clients : Start(c) \/ Progress(c) \/ Troubled(c) \/ Kill(c)
  \/ \E r \in Resources : Window(r) \/ ShortWindow(r)
  \/ Others

FillSpec == FillInit /\ [][FillNext]_systemVars

(* GitHub answers, its windows end, a command goes on while it runs, and    *)
(* the command is run again while pull requests lack details.               *)
Fairness ==
  /\ \A c \in Clients : WF_systemVars(Progress(c))
  /\ WF_systemVars(\E c \in Clients : Start(c))
  /\ \A r \in Resources : WF_systemVars(Window(r))

FairSpec == FillSpec /\ Fairness

-----------------------------------------------------------------------------
(* The fill is resumable (CHANGELOG.md): when a window has room for two     *)
(* batches beside what other programs spend, and one process goes on to run *)
(* the command, every pull request gets its details, whatever runs were     *)
(* refused, failed or discarded what they had fetched.                      *)
EventuallyFilled == <>(details = PRs)
=============================================================================
