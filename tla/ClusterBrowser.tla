--------------------------- MODULE ClusterBrowser ---------------------------
(***************************************************************************)
(* The interactive cluster browser (internal/cli/tui.go).  One Update loop  *)
(* handles keys, the mouse, timers and the answers of background loads, one *)
(* message at a time; other processes change the archive between any two.   *)
(* What is on screen was read at different times: the list of clusters, the *)
(* cached details, the neighbours.  A governance command chosen in a menu   *)
(* acts on what is selected when it is confirmed.                           *)
(*                                                                         *)
(* Clusters are durable ones; layout, scrolling inside a pane, help and the *)
(* clipboard are left out.                                                  *)
(***************************************************************************)
EXTENDS Integers, FiniteSets, SequencesExt

CONSTANTS
  Repos,      \* repositories of the archive
  Clusters,   \* cluster ids
  RepoOf,     \* the repository of each cluster
  Members,    \* the threads that are or were members of each cluster
  Matching,   \* the clusters whose title matches the query that is typed
  Published,  \* the clusters of the archive a remote refresh copies
  Limits,     \* values of --limit to start with; 0 is none given
  MaxKeys,    \* bound on keys, clicks and turns of the wheel outside confirmations
  MaxEdits,   \* bound on changes to the archive
  MaxLoads    \* bound on neighbour loads started

Threads == UNION {Members[c] : c \in Clusters}

ASSUME BrowserAssumption ==
  /\ Clusters \subseteq Nat \ {0} /\ Threads \subseteq Nat \ {0}
  /\ IsFiniteSet(Clusters) /\ Clusters # {} /\ \A c \in Clusters : IsFiniteSet(Members[c])
  /\ RepoOf \in [Clusters -> Repos]
  /\ \A c, d \in Clusters : c # d => Members[c] \cap Members[d] = {}
  /\ Matching \subseteq Clusters /\ Published \subseteq Clusters
  /\ Limits \subseteq Nat /\ MaxKeys \in Nat /\ MaxEdits \in Nat /\ MaxLoads \in Nat

VARIABLES
  archive,    \* the files: the one the browser started on and its replacement
  file,       \* the file other processes open
  remote,     \* the background refresh of a portable store
  view,       \* what the browser has loaded and selected
  confirm,    \* the open confirmation menu: what its label names
  settling,   \* the wheel moved the selection and its timer still runs
  flight,     \* neighbour loads started and not answered
  neighbors,  \* neighborCache
  acted,      \* for each thread, the last local close or exclusion; for properties
  keys, edits, loads

vars == <<archive, file, remote, view, confirm, settling, flight, neighbors, acted, keys, edits, loads>>

-----------------------------------------------------------------------------

NoThread == 0
None     == [id |-> 0]
Unlimited == Cardinality(Clusters)

Files == {1, 2}

Archive == [groups : SUBSET Clusters, closed : SUBSET Clusters, excluded : SUBSET Threads,
            hidden : SUBSET Threads, updated : [Clusters -> 0..MaxEdits]]
Summary == [id : Clusters, closed : BOOLEAN, count : Nat, updated : 0..MaxEdits]
Detail  == [id : Clusters, summary : Summary, excluded : SUBSET Threads, hidden : SUBSET Threads]
Load    == [thread : Threads, repo : Repos, file : Files, at : 0..MaxEdits, wanted : BOOLEAN]
Entry   == [id : {1}, repo : Repos, file : Files, at : 0..MaxEdits]
Actions == {"close thread", "reopen thread", "close cluster", "reopen cluster",
            "exclude", "include", "canonical"}

ClusterOf(t) == CHOOSE c \in Clusters : t \in Members[c]
Least(ts)    == CHOOSE t \in ts : \A u \in ts : t <= u
Ids(list)    == {list[i].id : i \in DOMAIN list}

(* A set as a list: the element at i is the one with i - 1 others before it. *)
Arranged(S, before) ==
  [i \in 1..Cardinality(S) |-> CHOOSE x \in S : Cardinality({y \in S : <<y, x>> \in before}) = i - 1]

(* The elements of a list at some of its places.                            *)
Chosen(list, places) ==
  LET order == Arranged(places, {p \in places \X places : p[1] < p[2]})
  IN [i \in DOMAIN order |-> list[order[i]]]

-----------------------------------------------------------------------------
(* What the store answers.                                                  *)

Active(a, c) == Members[c] \ a.excluded

(* A listing that hides closed clusters counts the visible members only.    *)
Summarized(a, c, all) ==
  [id |-> c, closed |-> c \in a.closed, updated |-> a.updated[c],
   count |-> Cardinality(IF all THEN Active(a, c) ELSE Active(a, c) \ a.hidden)]

Cut(list, limit) == SubSeq(list, 1, IF limit < Len(list) THEN limit ELSE Len(list))

Listed(a, repo, all, size, limit, sort) ==
  LET rows == {s \in {Summarized(a, c, all) : c \in {d \in a.groups : RepoOf[d] = repo}} :
                 (all \/ ~s.closed) /\ s.count >= size}
      Above(s, u) ==
        IF sort = "size" THEN s.count > u.count \/ (s.count = u.count /\ s.id < u.id)
        ELSE s.updated > u.updated \/ (s.updated = u.updated /\ s.id > u.id)
  IN Cut(Arranged(rows, {p \in rows \X rows : Above(p[1], p[2])}), limit)

(* clusterSummaryByID: a cluster whose members are all closed is closed.    *)
Detailed(a, c) ==
  LET s == Summarized(a, c, TRUE)
  IN [id |-> c, excluded |-> Members[c] \cap a.excluded, hidden |-> Members[c] \cap a.hidden,
      summary |-> [s EXCEPT !.closed = @ \/ (s.count > 0 /\ Active(a, c) \subseteq a.hidden)]]

(* The local commands, as far as the browser can tell; whether one changes  *)
(* the representative, and updated_at with it, depends on scores.           *)
Edited(a, action, c, t, moved) ==
  LET touched == [a EXCEPT !.updated[c] = edits + 1]
  IN CASE action = "close cluster"  -> [touched EXCEPT !.closed = @ \cup {c}]
       [] action = "reopen cluster" -> [touched EXCEPT !.closed = @ \ {c}]
       [] action = "canonical"      -> [touched EXCEPT !.excluded = @ \ {t}]
       [] action = "exclude"        -> [IF moved THEN touched ELSE a EXCEPT !.excluded = @ \cup {t}]
       [] action = "include"        -> [IF moved THEN touched ELSE a EXCEPT !.excluded = @ \ {t}]
       [] action = "close thread"   -> [a EXCEPT !.hidden = @ \cup {t}]
       [] action = "reopen thread"  -> [a EXCEPT !.hidden = @ \ {t}]

-----------------------------------------------------------------------------
(* What the browser does with it.                                           *)

Current(v) == IF v.selected \in DOMAIN v.clusters THEN v.clusters[v.selected].id ELSE None.id

memberVisible(d, t, all) == all \/ t \notin d.excluded \cup d.hidden
Rows(d, all) == {t \in Members[d.id] : memberVisible(d, t, all)}

(* Mutant: a reload starts at the first member.                             *)
NotRestored(v, t) == v
Restored(v, t)    == IF t \in v.rows THEN [v EXCEPT !.member = t] ELSE v

(* Members are rebuilt from the last detail, whether or not it still shows. *)
sortMembers(v) ==
  LET rows == IF v.detail = None THEN {} ELSE Rows(v.detail, v.showClosed)
  IN Restored([v EXCEPT !.rows = rows, !.member = IF rows = {} THEN NoThread ELSE Least(rows)],
              v.member)

loadSelectedCluster(v, a) ==
  LET blank == [v EXCEPT !.member = NoThread, !.rows = {}, !.hasDetail = FALSE]
      c == Current(v)
      same == v.hasDetail /\ v.detail.id = c
  IN IF c = None.id \/ (v.cache[c] = None /\ c \notin a.groups) THEN blank
     ELSE LET d == IF v.cache[c] # None THEN v.cache[c] ELSE Detailed(a, c)
              shown == sortMembers([blank EXCEPT !.cache[c] = d, !.detail = d, !.hasDetail = TRUE])
          IN IF same THEN Restored(shown, v.member) ELSE shown

(* A stable sort.                                                           *)
sortClusters(list, sort) ==
  LET Above(s, u) == \/ sort = "size" /\ s.count > u.count
                     \/ (sort = "size" => s.count = u.count) /\ s.updated > u.updated
      First(i, j) == Above(list[i], list[j]) \/ (~Above(list[j], list[i]) /\ i < j)
      order == Arranged(DOMAIN list, {p \in (DOMAIN list) \X (DOMAIN list) : First(p[1], p[2])})
  IN [i \in DOMAIN list |-> list[order[i]]]

(* Mutant: the index stays when the cluster is no longer listed.            *)
IndexStays(v, c, otherwise) ==
  IF c \in Ids(v.clusters) THEN [v EXCEPT !.selected = CHOOSE i \in DOMAIN v.clusters : v.clusters[i].id = c]
  ELSE v

At(v, c, otherwise) ==
  [v EXCEPT !.selected = IF c \in Ids(v.clusters) THEN CHOOSE i \in DOMAIN v.clusters : v.clusters[i].id = c
                         ELSE otherwise]

Sorted(v, sort) == At([v EXCEPT !.sort = sort, !.clusters = sortClusters(@, sort)], Current(v), v.selected)

applyClusterFilters(v, a) ==
  LET Passes(s) == /\ v.showClosed \/ ~s.closed
                   /\ s.count >= v.minSize
                   /\ v.search => s.id \in Matching
      next == sortClusters(Chosen(v.all, {i \in DOMAIN v.all : Passes(v.all[i])}), v.sort)
      kept == IF v.limit > 0 THEN Cut(next, v.limit) ELSE next
  IN loadSelectedCluster(At([v EXCEPT !.clusters = kept], Current(v), 1), a)

relaxFiltersIfEmpty(v, a) ==
  IF v.clusters # <<>> \/ v.all = <<>> THEN v
  ELSE applyClusterFilters([v EXCEPT !.showClosed = TRUE, !.minSize = 1], a)

mergeClusterSummaries(primary, secondary) ==
  primary \o Chosen(secondary, {i \in DOMAIN secondary : secondary[i].id \notin Ids(primary)})

loadClusterSummariesFromStore(v, a) ==
  LET limit == IF v.limit > 0 THEN v.limit ELSE Unlimited
  IN mergeClusterSummaries(Listed(a, v.repo, v.showClosed, v.minSize, limit, v.sort),
                           Listed(a, v.repo, v.showClosed, 1, limit, v.sort))

(* Without a limit, a shorter answer does not drop what was loaded.         *)
Retained(v, list) ==
  IF v.limit = 0 /\ list # <<>> /\ Len(list) < Len(v.all) THEN mergeClusterSummaries(list, v.all) ELSE list

(* Mutant: the details already read are kept.                               *)
KeepDetails(v)   == v
ForgetDetails(v) == [v EXCEPT !.cache = [c \in Clusters |-> None]]

applyClusterRefresh(v, a, list) ==
  LET key == Current(v)
      before == IF v.hasDetail /\ v.detail.id = key THEN v.member ELSE NoThread
      all == Retained(v, list)
      shown == relaxFiltersIfEmpty(
                 applyClusterFilters([ForgetDetails(v) EXCEPT !.all = all, !.clusters = all], a), a)
  IN IF key \in Ids(shown.clusters)
     THEN Restored(loadSelectedCluster(At(shown, key, 1), a), before)
     ELSE shown

-----------------------------------------------------------------------------
(* The Update loop.                                                         *)

Store    == archive[view.file]
Cutover  == remote = "copied"
Sorts    == {"size", "recent"}

NoMenu == [action |-> "none"]
Menus  == [action : Actions, cluster : Clusters \cup {None.id}, thread : Threads \cup {NoThread},
           settled : BOOLEAN]

(* runTUI lists, newClusterBrowserModel filters and loads.                  *)
Opening(repo, limit, all, size) ==
  LET list == mergeClusterSummaries(
                Listed(archive[1], repo, all, size, IF limit > 0 THEN limit ELSE Unlimited, "size"),
                Listed(archive[1], repo, all, 1, Unlimited, "size"))
  IN applyClusterFilters(
       [file |-> 1, repo |-> repo, all |-> list, clusters |-> list, selected |-> 1,
        showClosed |-> all, minSize |-> size, sort |-> "size", limit |-> limit,
        search |-> FALSE, cache |-> [c \in Clusters |-> None],
        detail |-> None, hasDetail |-> FALSE, rows |-> {}, member |-> NoThread], archive[1])

Init ==
  /\ archive = [f \in Files |->
       [groups |-> IF f = 1 THEN Clusters ELSE Published, closed |-> {}, excluded |-> {},
        hidden |-> {}, updated |-> [c \in Clusters |-> 0]]]
  /\ file = 1 /\ keys = 0 /\ edits = 0 /\ loads = 0
  /\ remote \in {"none", "running"}
  /\ \E limit \in Limits, all \in BOOLEAN : view = Opening(RepoOf[Least(Clusters)], limit, all, 2)
  /\ confirm = NoMenu /\ settling = FALSE
  /\ flight = {} /\ neighbors = [t \in Threads |-> None]
  /\ acted = [t \in Threads |-> 0]

(* invalidateNeighborLoad: a newer sequence number is waited for.           *)
Unwanted == {[l EXCEPT !.wanted = FALSE] : l \in flight}

LoadsKept   == UNCHANGED <<flight, neighbors, loads>>
ArchiveKept == UNCHANGED <<archive, file, remote, acted, edits>>

(* A key of the list; none stops the timer of the wheel.                    *)
Pressed == confirm = NoMenu /\ keys < MaxKeys /\ keys' = keys + 1 /\ UNCHANGED confirm
Key     == Pressed /\ UNCHANGED settling

(* Refreshing reads the list again and gives up the neighbours on their way. *)
Refreshed(v) ==
  /\ view' = applyClusterRefresh(v, Store, loadClusterSummariesFromStore(v, Store))
  /\ flight' = Unwanted
  /\ UNCHANGED <<neighbors, loads>>

Signature(list) == [i \in DOMAIN list |-> <<list[i].id, list[i].count, list[i].updated>>]

(* Mutant: a tick does not wait for an open menu.                           *)
NeverBusy == TRUE
Idle      == confirm = NoMenu

AutoRefresh ==
  /\ Idle
  /\ IF Signature(loadClusterSummariesFromStore(view, Store)) = Signature(view.clusters)
     THEN UNCHANGED view /\ LoadsKept
     ELSE Refreshed(view)
  /\ UNCHANGED <<keys, settling, confirm>> /\ ArchiveKept

ManualRefresh == Key /\ Refreshed(view) /\ ArchiveKept

ToggleClosed ==
  /\ Key
  /\ Refreshed([view EXCEPT !.showClosed = ~@])
  /\ ArchiveKept

SelectCluster ==
  /\ Key
  /\ \E i \in DOMAIN view.clusters :
       view' = loadSelectedCluster([view EXCEPT !.selected = i], Store)
  /\ LoadsKept /\ ArchiveKept

(* A click on the heading of a group of members selects none of them.       *)
SelectMember ==
  /\ Key
  /\ \E t \in view.rows \cup {NoThread} : view' = [view EXCEPT !.member = t]
  /\ LoadsKept /\ ArchiveKept

SortClusters ==
  /\ Key
  /\ view' = loadSelectedCluster(Sorted(view, IF view.sort = "recent" THEN "size" ELSE "recent"), Store)
  /\ LoadsKept /\ ArchiveKept

SortMembers ==
  /\ Key
  /\ view' = sortMembers(view)
  /\ LoadsKept /\ ArchiveKept

ChangeMinSize ==
  /\ Key
  /\ view' = applyClusterFilters([view EXCEPT !.minSize = IF @ = 1 THEN 2 ELSE 1], Store)
  /\ LoadsKept /\ ArchiveKept

-----------------------------------------------------------------------------
(* The wheel: movements are collected for 16 ms, unless a key comes first,  *)
(* and the cluster they end on is loaded when the wheel has rested for 90.  *)

Settling(moves) == settling \/ moves

WheelScrolls ==
  /\ Pressed
  /\ \E i \in DOMAIN view.clusters :
       /\ view' = [view EXCEPT !.selected = i]
       /\ settling' = Settling(i # view.selected)
  /\ LoadsKept /\ ArchiveKept

WheelSettles ==
  /\ settling /\ settling' = FALSE
  /\ view' = loadSelectedCluster(view, Store)
  /\ UNCHANGED <<keys, confirm>> /\ LoadsKept /\ ArchiveKept

-----------------------------------------------------------------------------
(* The filter and the jump.                                                 *)

(* The filter applies while it is typed; Escape brings the last one back.   *)
FilterClusters ==
  /\ Key
  /\ \E query \in {view.search, ~view.search} :
       LET typed == applyClusterFilters([view EXCEPT !.search = ~@], Store)
       IN view' = applyClusterFilters([typed EXCEPT !.search = query], Store)
  /\ LoadsKept /\ ArchiveKept

selectClusterForJump(v, c, a) ==
  LET Select(w) == loadSelectedCluster(At(w, c, 1), a)
      s == v.all[CHOOSE i \in DOMAIN v.all : v.all[i].id = c]
      widened == applyClusterFilters(
        [v EXCEPT !.search = FALSE,
                  !.minSize = IF @ > s.count THEN 1 ELSE @,
                  !.showClosed = @ \/ s.closed,
                  !.limit = IF @ > 0 /\ Len(v.all) > @ THEN Len(v.all) ELSE @], a)
  IN IF c \in Ids(v.clusters) THEN Select(v)
     ELSE IF c \notin Ids(v.all) THEN v
     ELSE IF c \in Ids(widened.clusters) THEN Select(widened) ELSE widened

(* The clusters already loaded are asked first; of those without a detail   *)
(* only the representative is known.  A thread in no cluster of this        *)
(* repository is not found.                                                 *)
JumpTo(t) ==
  LET c == ClusterOf(t)
      loaded == (view.hasDetail /\ view.detail.id = c) \/ view.cache[c] # None
      d == Detailed(Store, c)
      found == [view EXCEPT !.cache[c] = d, !.all = IF c \in Ids(@) THEN @ ELSE Append(@, d.summary)]
      Land(v) == view' = Restored(selectClusterForJump(v, c, Store), t)
  IN \/ (loaded \/ c \in Ids(view.all)) /\ Land(view)
     \/ ~loaded /\ c \in Store.groups /\ RepoOf[c] = view.repo /\ Land(found)

Jump ==
  /\ Key
  /\ \E t \in Threads : JumpTo(t)
  /\ LoadsKept /\ ArchiveKept

-----------------------------------------------------------------------------
(* Neighbours are loaded in the background, one load at a time wanted.      *)

RequestNeighbors ==
  /\ Key /\ view.member # NoThread /\ loads < MaxLoads
  /\ loads' = loads + 1
  /\ flight' = Unwanted \cup {[thread |-> view.member, repo |-> view.repo, file |-> view.file,
                               at |-> edits, wanted |-> TRUE]}
  /\ UNCHANGED <<view, neighbors>> /\ ArchiveKept

(* Mutant: any answer is taken.                                             *)
AnyAnswer(l) == TRUE
Awaited(l)   == l.wanted

NeighborsLoaded(l) ==
  /\ flight' = flight \ {l}
  /\ \E ok \in BOOLEAN :
       neighbors' = IF Awaited(l) /\ ok
                    THEN [neighbors EXCEPT ![l.thread] = [id |-> 1, repo |-> l.repo, file |-> l.file, at |-> l.at]]
                    ELSE neighbors
  /\ UNCHANGED <<view, confirm, settling, keys, loads>> /\ ArchiveKept

-----------------------------------------------------------------------------
(* Menus.                                                                   *)

Offered(action) ==
  LET t == view.member
      excluded == t \in view.detail.excluded
      hidden == t \in view.detail.hidden
  IN CASE action = "close thread"   -> t # NoThread /\ ~hidden
       [] action = "reopen thread"  -> t # NoThread /\ hidden
       [] action = "exclude"        -> t # NoThread /\ Current(view) # None.id /\ ~excluded
       [] action = "canonical"      -> t # NoThread /\ Current(view) # None.id /\ ~excluded
       [] action = "include"        -> t # NoThread /\ Current(view) # None.id /\ excluded
       [] action = "close cluster"  -> Current(view) # None.id /\ ~view.clusters[view.selected].closed
       [] action = "reopen cluster" -> Current(view) # None.id /\ view.clusters[view.selected].closed

OpenConfirm ==
  /\ confirm = NoMenu
  /\ \E action \in Actions :
       /\ Offered(action)
       /\ confirm' = [action |-> action, cluster |-> Current(view), thread |-> view.member,
                      settled |-> ~settling]
  /\ UNCHANGED <<view, settling, keys>> /\ LoadsKept /\ ArchiveKept

CloseMenu ==
  /\ confirm # NoMenu /\ confirm' = NoMenu
  /\ UNCHANGED <<view, settling, keys>> /\ LoadsKept /\ ArchiveKept

(* The file of a refreshed store is opened for reading only.                *)
Writable == view.file = 1

(* clusterMemberThreadID: the thread must have a membership in the cluster. *)
Succeeds(action, c, t) ==
  /\ Writable
  /\ action \in {"close thread", "reopen thread"} \/ c \in Store.groups
  /\ action \in {"exclude", "include", "canonical"} => t \in Members[c]

Confirm ==
  /\ confirm # NoMenu /\ confirm' = NoMenu
  /\ edits < MaxEdits
  /\ LET action == confirm.action
         c == Current(view)
         t == view.member
         needed == CASE action \in {"close thread", "reopen thread"}   -> t # NoThread
                     [] action \in {"close cluster", "reopen cluster"} -> c # None.id
                     [] OTHER -> t # NoThread /\ c # None.id
     IN IF needed /\ Succeeds(action, c, t)
        THEN \E moved \in BOOLEAN :
               LET after == Edited(Store, action, c, t, moved)
               IN /\ archive' = [archive EXCEPT ![view.file] = after]
                  /\ edits' = edits + 1
                  /\ view' = applyClusterRefresh(view, after, loadClusterSummariesFromStore(view, after))
                  /\ IF action \in {"close thread", "exclude"}
                     THEN /\ neighbors' = [neighbors EXCEPT ![t] = None]
                          /\ acted' = [acted EXCEPT ![t] = edits + 1]
                     ELSE UNCHANGED <<neighbors, acted>>
        ELSE UNCHANGED <<archive, edits, view, neighbors, acted>>
  /\ flight' = Unwanted
  /\ UNCHANGED <<file, remote, settling, keys, loads>>

SwitchRepository(r) ==
  /\ Key
  /\ LET list == mergeClusterSummaries(
                   Listed(Store, r, view.showClosed, view.minSize, Unlimited, view.sort),
                   Listed(Store, r, view.showClosed, 1, Unlimited, view.sort))
         blank == [ForgetDetails(view) EXCEPT !.repo = r, !.all = list, !.clusters = list, !.search = FALSE,
                     !.selected = 1, !.detail = None, !.hasDetail = FALSE, !.rows = {}, !.member = NoThread]
     IN view' = relaxFiltersIfEmpty(applyClusterFilters(blank, Store), Store)
  /\ neighbors' = [t \in Threads |-> None]
  /\ flight' = Unwanted /\ UNCHANGED loads /\ ArchiveKept

-----------------------------------------------------------------------------
(* The background refresh of a portable store, and other processes.         *)

MirrorReplaced ==
  /\ remote = "running" /\ remote' = "copied" /\ file' = 2
  /\ UNCHANGED <<archive, view, confirm, settling, keys, acted, edits>> /\ LoadsKept

(* It may find nothing new, fail, or fail to open the file it copied.       *)
RefreshedWithoutReopening ==
  /\ remote # "none" /\ remote' = "none"
  /\ flight' \in IF Cutover THEN {Unwanted, flight} ELSE {flight}
  /\ UNCHANGED <<archive, file, view, confirm, settling, keys, neighbors, acted, edits, loads>>

Reopened ==
  /\ Cutover /\ remote' = "none"
  /\ LET v == [ForgetDetails(view) EXCEPT !.file = 2]
     IN view' = applyClusterRefresh(v, archive[2], loadClusterSummariesFromStore(v, archive[2]))
  /\ neighbors' = [t \in Threads |-> None]
  /\ flight' = Unwanted
  /\ UNCHANGED <<archive, file, confirm, settling, keys, acted, edits, loads>>

OtherProcessEdits ==
  /\ edits < MaxEdits
  /\ edits' = edits + 1
  /\ \E action \in Actions, t \in Threads, moved \in BOOLEAN :
       /\ ClusterOf(t) \in archive[file].groups
       /\ archive' = [archive EXCEPT ![file] = Edited(@, action, ClusterOf(t), t, moved)]
  /\ UNCHANGED <<file, remote, view, confirm, settling, keys, acted>> /\ LoadsKept

Next ==
  \/ AutoRefresh \/ ManualRefresh \/ ToggleClosed \/ SelectCluster \/ SelectMember
  \/ SortClusters \/ SortMembers \/ ChangeMinSize
  \/ WheelScrolls \/ WheelSettles \/ FilterClusters \/ Jump
  \/ RequestNeighbors
  \/ \E l \in flight : NeighborsLoaded(l)
  \/ OpenConfirm \/ CloseMenu \/ Confirm
  \/ \E r \in Repos : SwitchRepository(r)
  \/ MirrorReplaced \/ RefreshedWithoutReopening \/ Reopened \/ OtherProcessEdits

Spec == Init /\ [][Next]_vars

-----------------------------------------------------------------------------
(* Properties.                                                              *)

(* The shape of the browser's state and of the archive files.               *)
TypeOK ==
  /\ archive \in [Files -> Archive] /\ file \in Files /\ remote \in {"none", "running", "copied"}
  /\ view.clusters \in Seq(Summary) /\ view.all \in Seq(Summary)
  /\ view.cache \in [Clusters -> Detail \cup {None}] /\ view.detail \in Detail \cup {None}
  /\ view.clusters # <<>> => view.selected \in DOMAIN view.clusters
  /\ view.member \in view.rows \cup {NoThread} /\ view.sort \in Sorts
  /\ confirm \in Menus \cup {NoMenu} /\ settling \in BOOLEAN
  /\ flight \subseteq Load /\ neighbors \in [Threads -> Entry \cup {None}]

(* Whatever happened while neighbours were loading, those kept come from    *)
(* the file and the repository on screen, and from after the last time the  *)
(* thread was closed or excluded here; the list and the detail are of that  *)
(* repository too, and the members shown are those of the selected cluster, *)
(* except until the wheel settles.                                          *)
ShowsOneStore ==
  /\ \A c \in Ids(view.clusters) \cup Ids(view.all) : RepoOf[c] = view.repo
  /\ view.hasDetail =>
       /\ RepoOf[view.detail.id] = view.repo
       /\ Current(view) \in Clusters /\ view.detail.id # Current(view) => settling
  /\ \A t \in Threads : neighbors[t] # None =>
       /\ neighbors[t].repo = view.repo /\ neighbors[t].file = view.file
       /\ neighbors[t].at >= acted[t]

(* Nothing but the user leaves the selected cluster and member while both   *)
(* are shown: no refresh, new order, filter or answer that arrives, wherever *)
(* their rows have moved.  A jump to a thread ends on its cluster, and on   *)
(* the thread when it is shown, although filters, the limit or an older     *)
(* list may hide the cluster; only a row that counts no member, from when   *)
(* all were excluded, passes no filter.                                     *)
LeavesPlace ==
  LET c == Current(view)
  IN /\ view.hasDetail /\ view.detail.id = c /\ c \in Ids(view'.clusters)
     /\ \/ Current(view') # c
        \/ view.member \in view'.rows /\ view'.member # view.member

Counted(c) ==
  IF c \in Ids(view.all) THEN \A i \in DOMAIN view.all : view.all[i].id = c => view.all[i].count > 0
  ELSE Active(Store, c) # {}

Lands(t) ==
  Current(view') = ClusterOf(t) /\ (t \in view'.rows => view'.member = t)

SelectionFollowsUser ==
  [][ /\ LeavesPlace =>
           \/ SelectCluster \/ SelectMember \/ WheelScrolls \/ Jump
           \/ FilterClusters \/ \E r \in Repos : SwitchRepository(r)
      /\ \A t \in Threads : Key /\ JumpTo(t) /\ Counted(ClusterOf(t)) => Lands(t) ]_vars

(* A refresh on demand shows what the store holds now, in the list and in   *)
(* the members; only without a limit are clusters kept that it left out.    *)
RefreshIsCurrent ==
  [][ ManualRefresh =>
        /\ \A i \in DOMAIN view'.clusters :
             LET s == view'.clusters[i]
             IN \/ \E all \in BOOLEAN : s = Summarized(Store, s.id, all)
                \/ view.limit = 0 /\ s \in ToSet(view.all)
        /\ view.limit = 0 /\ ~view.search =>
             \A s \in ToSet(Listed(Store, view.repo, view.showClosed, view.minSize, Unlimited, view.sort)) :
               s.id \in Ids(view'.clusters)
        /\ view'.hasDetail => view'.detail = Detailed(Store, view'.detail.id) ]_vars

(* A confirmed command changes the cluster and the thread its menu named,   *)
(* whatever timers and answers arrived in between; a menu opened before the *)
(* wheel settled may name a member of the cluster it came from.             *)
ConfirmsWhatItNamed ==
  [][ confirm # NoMenu /\ confirm' = NoMenu /\ archive' # archive /\ confirm.settled
      => Current(view) = confirm.cluster /\ view.member = confirm.thread ]_vars

=============================================================================
