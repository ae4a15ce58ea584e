-------------------------- MODULE DurableClusters --------------------------
(***************************************************************************)
(* Durable clusters and the maintainer's overrides on them: clustering runs *)
(* compute their clusters from the threads they read and save them later,   *)
(* in one transaction, among governance commands and threads that close and *)
(* reopen (internal/store/clusters.go, internal/cli/app.go).                *)
(*                                                                         *)
(* A cluster's stable key is derived from the thread that represented it    *)
(* when it was first saved, so clusters are named by that thread; threads   *)
(* are their numbers.                                                       *)
(***************************************************************************)
EXTENDS Naturals, Sequences, FiniteSets, FiniteSetsExt

CONSTANTS
  Threads,    \* thread numbers, which order threads and name clusters
  Runners,    \* processes that may run "cluster" or "refresh" at the same time
  MaxRuns,    \* bound on the clustering runs started
  MaxEdits    \* bound on governance commands and thread state changes

ASSUME ClusterAssumption ==
  /\ Threads \subseteq Nat \ {0} /\ IsFiniteSet(Threads)
  /\ MaxRuns \in Nat /\ MaxEdits \in Nat

VARIABLES
  open,       \* threads that are open on GitHub and not closed locally
  group,      \* cluster_groups and cluster_closures
  member,     \* cluster_memberships
  override,   \* cluster_overrides
  run,        \* the clusters each runner has computed and not saved yet
  seen,       \* the clusters the last step saved; read by properties only
  runs,       \* clustering runs started so far, for the bound
  edits       \* governance commands and thread changes so far, for the bound

vars == <<open, group, member, override, run, seen, runs, edits>>

-----------------------------------------------------------------------------

NoThread == 0

Group  == [status : {"none", "active", "closed"}, closedLocally : BOOLEAN,
           rep : Threads \cup {NoThread}]
Member == [state : {"none", "active", "removed", "excluded"}, role : {"canonical", "related"}]

Actions == {"exclude", "include", "canonical"}

(* DurableClusterInput; a member that is not the input's canonical one is   *)
(* "related".                                                               *)
Input == [key : Threads, rep : Threads, canonical : SUBSET Threads, members : SUBSET Threads]

Idle == [mode |-> "idle"]

Pending == [mode : {"complete", "partial"}, inputs : Seq(Input)]

Archive == [group |-> group, member |-> member]

Exists(c)         == group[c].status # "none"
ActiveGroup(a, c) == a.group[c].status = "active"

ActiveMembers(a, c) == {t \in Threads : a.member[c][t].state = "active"}
Canonicals(a, c)    == {t \in Threads : a.member[c][t].role = "canonical"}

(* durableVisibleMemberPredicate: a thread that is canonical in another     *)
(* active cluster shows there only.                                         *)
Visible(a, c) ==
  {t \in ActiveMembers(a, c) \cap open :
     \/ t \in Canonicals(a, c)
     \/ \A d \in Threads \ {c} :
          ActiveGroup(a, d) => t \notin ActiveMembers(a, d) \cap Canonicals(a, d)}

-----------------------------------------------------------------------------
(* Representatives and overrides.  "first" stands for the order of scores   *)
(* among members of one role, which the model does not keep.                *)

Preferred(ts, first) == IF first \in ts THEN first ELSE Min(ts)

BestMember(a, c, first) ==
  LET visible   == Visible(a, c)
      canonical == visible \cap Canonicals(a, c)
  IN IF visible = {} THEN NoThread
     ELSE IF canonical # {} THEN Preferred(canonical, first)
     ELSE Preferred(visible, first)

ensureActiveClusterRepresentative(a, c, first) ==
  IF ActiveGroup(a, c) /\ a.group[c].rep \notin Visible(a, c)
  THEN [a EXCEPT !.group[c].rep = BestMember(a, c, first)]
  ELSE a

Overridden(c, action) == {t \in Threads : action \in override[c][t]}

(* One row per member, active or not, with a new state.                     *)
WithStates(a, c, state) ==
  [a EXCEPT !.member[c] = [t \in Threads |-> [a.member[c][t] EXCEPT !.state = state[t]]]]

(* Roles among the active members, as set by a canonical member.            *)
WithCanonical(a, c, p) ==
  [a EXCEPT !.member[c] = [t \in Threads |->
     IF t \in ActiveMembers(a, c)
     THEN [a.member[c][t] EXCEPT !.role = IF t = p THEN "canonical" ELSE "related"]
     ELSE a.member[c][t]]]

(* Mutant: the canonical override is not applied to what a run saves.       *)
StatesOnly(a, c, first) ==
  ensureActiveClusterRepresentative(
    WithStates(a, c, [t \in Threads |->
      CASE t \in Overridden(c, "include") -> "active"
        [] t \in Overridden(c, "exclude") -> "excluded"
        [] OTHER -> a.member[c][t].state]), c, first)

applyClusterOverrides(a, c, first) ==
  LET stated == WithStates(a, c, [t \in Threads |->
                  CASE t \in Overridden(c, "include") -> "active"
                    [] t \in Overridden(c, "exclude") -> "excluded"
                    [] OTHER -> a.member[c][t].state])
      pinned == Overridden(c, "canonical")
      roled  == IF pinned = {} THEN stated
                ELSE WithCanonical(stated, c, CHOOSE p \in pinned : TRUE)
      unset  == IF pinned # {} /\ ActiveGroup(roled, c)
                THEN [roled EXCEPT !.group[c].rep = NoThread] ELSE roled
  IN ensureActiveClusterRepresentative(unset, c, first)

-----------------------------------------------------------------------------
(* Clustering runs *)

(* buildDurableClusterInputs over the threads it read: any partition of     *)
(* them, each block with a representative, which is the lower number when   *)
(* the block has two threads and any of them when it has more.              *)
Clusterings(threads) ==
  {f \in [threads -> threads] : \A t \in threads :
     /\ f[f[t]] = f[t]
     /\ Cardinality({u \in threads : f[u] = f[t]}) <= 2 => f[t] <= t}

(* Mutant: the input is built without its representative.                   *)
InputWithoutRep(f, r) ==
  [key |-> r, rep |-> NoThread, canonical |-> {r}, members |-> {t \in DOMAIN f : f[t] = r}]

InputOf(f, r) ==
  [key |-> r, rep |-> r, canonical |-> {r}, members |-> {t \in DOMAIN f : f[t] = r}]

(* Larger clusters first, then by representative.                           *)
InputOrder(x, y) ==
  \/ Cardinality(x.members) > Cardinality(y.members)
  \/ Cardinality(x.members) = Cardinality(y.members) /\ x.rep < y.rep

(* The sequence of the inputs in that order, as the one element of a set.   *)
Inputs(f) ==
  LET inputs == {InputOf(f, f[t]) : t \in DOMAIN f}
  IN {s \in [1..Cardinality(inputs) -> inputs] :
        \A i, j \in DOMAIN s : i < j => InputOrder(s[i], s[j])}

(* A run is complete when it covers every open thread and nothing else, and *)
(* partial when it is limited, lacks vectors or takes closed threads too.   *)
BuildClusters(r) ==
  /\ run[r] = Idle
  /\ runs < MaxRuns
  /\ \/ \E f \in Clusterings(open) : \E s \in Inputs(f) :
          run' = [run EXCEPT ![r] = [mode |-> "complete", inputs |-> s]]
     \/ \E threads \in SUBSET Threads : \E f \in Clusterings(threads) : \E s \in Inputs(f) :
          run' = [run EXCEPT ![r] = [mode |-> "partial", inputs |-> s]]
  /\ runs' = runs + 1
  /\ seen' = {}
  /\ UNCHANGED <<open, group, member, override, edits>>

(* The active clusters that hold a member of the input.                     *)
Identities(a, in) ==
  {c \in Threads : ActiveGroup(a, c) /\ ActiveMembers(a, c) \cap in.members # {}}

(* reconcilePartialDurableClusterInput, where one identity at most overlaps.*)
Reconciled(a, in) ==
  IF Identities(a, in) = {} THEN in
  ELSE LET c   == CHOOSE c \in Identities(a, in) : TRUE
           rep == IF a.group[c].rep = NoThread THEN in.rep ELSE a.group[c].rep
       IN [in EXCEPT !.key = c, !.rep = rep, !.canonical = {rep}]

upsertDurableCluster(a, in) ==
  IF a.group[in.key].closedLocally THEN a
  ELSE [a EXCEPT !.group[in.key] = [@ EXCEPT !.status = "active", !.rep = in.rep]]

upsertMembers(a, in) ==
  [a EXCEPT !.member[in.key] = [t \in Threads |->
     IF t \in in.members
     THEN [state |-> "active", role |-> IF t \in in.canonical THEN "canonical" ELSE "related"]
     ELSE @[t]]]

(* Mutant: every run prunes the members it did not see.                     *)
PruneAlways(a, in, mode) ==
  WithStates(a, in.key, [t \in Threads |->
    IF t \in ActiveMembers(a, in.key) \ in.members THEN "removed" ELSE a.member[in.key][t].state])

(* markMissingClusterMembersRemoved *)
pruneMembers(a, in, mode) ==
  IF mode = "partial" THEN a
  ELSE WithStates(a, in.key, [t \in Threads |->
         IF t \in ActiveMembers(a, in.key) \ in.members THEN "removed"
         ELSE a.member[in.key][t].state])

SaveOne(a, in, mode, first) ==
  applyClusterOverrides(
    pruneMembers(upsertMembers(upsertDurableCluster(a, in), in), in, mode), in.key, first)

(* markMissingDurableClustersRetired *)
retireMissing(a, saved, mode) ==
  IF mode = "partial" THEN a
  ELSE [a EXCEPT !.group = [c \in Threads |->
          IF ActiveGroup(a, c) /\ c \notin saved
          THEN [a.group[c] EXCEPT !.status = "closed"] ELSE a.group[c]]]

(* One input, against what the earlier ones left; a partial one that        *)
(* overlaps two active clusters fails the save.                             *)
SaveInput(done, in, mode, first) ==
  LET keyed == IF mode = "partial" THEN Reconciled(done.archive, in) ELSE in
  IN IF done.failed \/ (mode = "partial" /\ Cardinality(Identities(done.archive, in)) > 1)
     THEN [done EXCEPT !.failed = TRUE]
     ELSE [archive |-> SaveOne(done.archive, keyed, mode, first),
           seen |-> done.seen \cup {keyed.key}, failed |-> FALSE]

(* saveDurableClusters: the inputs in turn ...                              *)
SaveInputs(inputs, mode, first) ==
  LET done[n \in 0..Len(inputs)] ==
        IF n = 0 THEN [archive |-> Archive, seen |-> {}, failed |-> FALSE]
        ELSE SaveInput(done[n - 1], inputs[n], mode, first)
  IN done[Len(inputs)]

(* ... then the clusters not seen are retired and the representatives of    *)
(* those seen are chosen again, which shows in none of the others.          *)
ensureRepresentatives(a, clusters, first) ==
  [a EXCEPT !.group = [c \in Threads |->
     IF c \in clusters THEN ensureActiveClusterRepresentative(a, c, first).group[c]
     ELSE a.group[c]]]

Saved(r, first) ==
  LET saved == SaveInputs(run[r].inputs, run[r].mode, first)
  IN [saved EXCEPT !.archive =
        ensureRepresentatives(retireMissing(@, saved.seen, run[r].mode), saved.seen, first)]

(* The transaction of a run; a save that failed is rolled back.             *)
Save(r) ==
  /\ run[r] # Idle
  /\ \E first \in Threads :
       LET result == Saved(r, first)
       IN IF result.failed
          THEN /\ seen' = {}
               /\ UNCHANGED <<group, member>>
          ELSE /\ group' = result.archive.group
               /\ member' = result.archive.member
               /\ seen' = result.seen
  /\ run' = [run EXCEPT ![r] = Idle]
  /\ UNCHANGED <<open, override, runs, edits>>

(* A run that fails or is killed before its transaction.                    *)
AbortRun(r) ==
  /\ run[r] # Idle
  /\ run' = [run EXCEPT ![r] = Idle]
  /\ seen' = {}
  /\ UNCHANGED <<open, group, member, override, runs, edits>>

-----------------------------------------------------------------------------
(* Governance commands, and threads that close and reopen *)

Edit ==
  /\ edits < MaxEdits
  /\ edits' = edits + 1
  /\ seen' = {}
  /\ UNCHANGED <<run, runs>>

CloseOrReopenThread(t) ==
  /\ Edit
  /\ open' = IF t \in open THEN open \ {t} ELSE open \cup {t}
  /\ UNCHANGED <<group, member, override>>

CloseClusterLocally(c) ==
  /\ Edit
  /\ Exists(c)
  /\ group' = [group EXCEPT ![c].status = "closed", ![c].closedLocally = TRUE]
  /\ UNCHANGED <<open, member, override>>

ReopenClusterLocally(c) ==
  /\ Edit
  /\ Exists(c)
  /\ group' = [group EXCEPT ![c].status = "active", ![c].closedLocally = FALSE]
  /\ UNCHANGED <<open, member, override>>

(* A member's state and overrides change and the representative follows.    *)
OverrideMember(c, t, state, actions) ==
  /\ Edit
  /\ member[c][t].state # "none"
  /\ override' = [override EXCEPT ![c][t] = actions]
  /\ \E first \in Threads :
       LET a == ensureActiveClusterRepresentative(
                  [Archive EXCEPT !.member[c][t].state = state], c, first)
       IN group' = a.group /\ member' = a.member
  /\ UNCHANGED open

ExcludeClusterMemberLocally(c, t) == OverrideMember(c, t, "excluded", {"exclude"})

(* Mutant: a member that is included again keeps its exclusion.             *)
IncludeKeepsExclusion(c, t) == OverrideMember(c, t, "active", override[c][t] \cup {"include"})

IncludeClusterMemberLocally(c, t) ==
  OverrideMember(c, t, "active", (override[c][t] \ {"exclude"}) \cup {"include"})

SetClusterCanonicalLocally(c, t) ==
  /\ Edit
  /\ t \in ActiveMembers(Archive, c)
  /\ member' = WithCanonical(Archive, c, t).member
  /\ group' = [group EXCEPT ![c].rep = t]
  /\ override' = [override EXCEPT ![c] = [u \in Threads |->
       IF u = t THEN (@[u] \ {"exclude"}) \cup {"canonical"} ELSE @[u] \ {"canonical"}]]
  /\ UNCHANGED open

-----------------------------------------------------------------------------

Init ==
  /\ open = Threads
  /\ group = [c \in Threads |-> [status |-> "none", closedLocally |-> FALSE, rep |-> NoThread]]
  /\ member = [c \in Threads |-> [t \in Threads |-> [state |-> "none", role |-> "related"]]]
  /\ override = [c \in Threads |-> [t \in Threads |-> {}]]
  /\ run = [r \in Runners |-> Idle]
  /\ seen = {}
  /\ runs = 0
  /\ edits = 0

Next ==
  \/ \E r \in Runners : BuildClusters(r) \/ Save(r) \/ AbortRun(r)
  \/ \E t \in Threads : CloseOrReopenThread(t)
  \/ \E c \in Threads : CloseClusterLocally(c) \/ ReopenClusterLocally(c)
  \/ \E c, t \in Threads :
       \/ ExcludeClusterMemberLocally(c, t)
       \/ IncludeClusterMemberLocally(c, t)
       \/ SetClusterCanonicalLocally(c, t)

Spec == Init /\ [][Next]_vars

-----------------------------------------------------------------------------
(* Properties *)

(* Groups, memberships, overrides and pending runs hold values of their     *)
(* type.                                                                    *)
TypeOK ==
  /\ open \subseteq Threads
  /\ group \in [Threads -> Group]
  /\ member \in [Threads -> [Threads -> Member]]
  /\ override \in [Threads -> [Threads -> SUBSET Actions]]
  /\ run \in [Runners -> {Idle} \cup Pending]
  /\ seen \subseteq Threads
  /\ runs \in Nat /\ edits \in Nat

(* What a maintainer decided holds whatever runs save, until a maintainer   *)
(* takes it back: an excluded thread is not a member, and a cluster closed  *)
(* locally stays closed (docs/clustering.md:175, CHANGELOG.md:178).         *)
DecisionsHold ==
  /\ \A c, t \in Threads :
       "exclude" \in override[c][t] =>
         member[c][t].state = "excluded" /\ override[c][t] = {"exclude"}
  /\ \A c \in Threads : group[c].closedLocally => group[c].status = "closed"

(* A cluster that a run has just saved is represented by one of its visible *)
(* open members, if it has any, and by the thread a maintainer pinned, as   *)
(* long as that is one of them (CHANGELOG.md:168, docs/clustering.md:175).  *)
RepresentativesHold ==
  \A c \in seen : ActiveGroup(Archive, c) =>
    LET pinned == Overridden(c, "canonical") \cap ActiveMembers(Archive, c) \cap open
    IN IF Visible(Archive, c) = {} THEN group[c].rep = NoThread
       ELSE /\ group[c].rep \in Visible(Archive, c)
            /\ pinned # {} => group[c].rep \in pinned

(* What a run did not see stays as it was when the run is partial: it takes *)
(* no thread out of a cluster and closes none (CHANGELOG.md:63,             *)
(* docs/clustering.md:55).  A complete run leaves no thread an active       *)
(* member of two active clusters, unless a maintainer included it.          *)
KeepsTheRest ==
  \A c \in Threads :
    /\ ActiveMembers(Archive, c) \subseteq ActiveMembers(Archive', c)
    /\ ActiveGroup(Archive, c) => ActiveGroup(Archive', c)

Partitions ==
  \A t, c, d \in Threads :
    c # d /\ ActiveGroup(Archive', c) /\ ActiveGroup(Archive', d)
      /\ t \in ActiveMembers(Archive', c) \cap ActiveMembers(Archive', d)
    => "include" \in override[c][t] \cup override[d][t]

RunsKeepTheirScope ==
  [][\A r \in Runners : run[r] # Idle /\ run'[r] = Idle =>
       IF run[r].mode = "partial" THEN KeepsTheRest ELSE seen' # {} => Partitions]_vars

=============================================================================
