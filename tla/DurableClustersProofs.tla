----------------------- MODULE DurableClustersProofs -----------------------
(***************************************************************************)
(* What TLAPS proves of DurableClusters, for any number of threads,         *)
(* clustering runs, runners and governance commands.                       *)
(*                                                                         *)
(* A save is a fold over the clusters a run computed.  Each input touches   *)
(* one cluster, so what is proved of one input (SaveOne) and carried along  *)
(* the fold (FoldInv) is what holds of the save.                            *)
(***************************************************************************)
EXTENDS DurableClusters, FiniteSetTheorems, WellFoundedInduction, TLAPS

-----------------------------------------------------------------------------
(* Naturals                                                                 *)

(* Induction over the naturals, for a set instead of a predicate.           *)
LEMMA NatSetInduction ==
  ASSUME NEW S, S \subseteq Nat, 0 \in S, \A n \in S : n + 1 \in S
  PROVE  S = Nat
<1> DEFINE T == Nat \ S
<1>1. SUFFICES ASSUME T # {} PROVE FALSE
  OBVIOUS
<1>2. PICK n \in T : \A m \in T : ~(<<m, n>> \in OpToRel(<, Nat))
  BY <1>1, NatLessThanWellFounded, WFMin
<1>3. n # 0 /\ n - 1 \in Nat /\ n - 1 < n
  OBVIOUS
<1>4. <<n - 1, n>> \in OpToRel(<, Nat)
  BY <1>3 DEF OpToRel
<1>5. n - 1 \in S
  BY <1>2, <1>3, <1>4
<1>6. QED
  BY <1>3, <1>5

LEMMA MinIsMember ==
  ASSUME NEW S, S \subseteq Nat, S # {}
  PROVE  Min(S) \in S
<1>1. PICK n \in S : \A m \in S : ~(<<m, n>> \in OpToRel(<, Nat))
  BY NatLessThanWellFounded, WFMin
<1>2. \A m \in S : m < n => <<m, n>> \in OpToRel(<, Nat)
  BY DEF OpToRel
<1>3. \A m \in S : n <= m
  <2>1. \A m \in S : ~(m < n)
    BY <1>1, <1>2
  <2>2. QED
    BY <2>1
<1>4. QED
  BY <1>3 DEF Min

-----------------------------------------------------------------------------
(* One cluster of an archive                                                *)

Archives == [group : [Threads -> Group], member : [Threads -> [Threads -> Member]]]

States == {"none", "active", "removed", "excluded"}
Roles  == {"canonical", "related"}

\* Two archives that differ in one cluster only.
SameElsewhere(a, b, c) ==
  \A d \in Threads : d # c => b.group[d] = a.group[d] /\ b.member[d] = a.member[d]

WithRep(a, c, x) == [a EXCEPT !.group[c].rep = x]
WithMembers(a, c, m) == [a EXCEPT !.member[c] = m]
SetState(row, state) == [row EXCEPT !.state = state]
SetRole(row, role) == [row EXCEPT !.role = role]

LEMMA ArchiveParts ==
  ASSUME NEW a \in Archives, NEW c \in Threads
  PROVE  /\ a.group \in [Threads -> Group] /\ a.member \in [Threads -> [Threads -> Member]]
         /\ a.group[c] \in Group /\ a.member[c] \in [Threads -> Member]
         /\ a.group[c].status \in {"none", "active", "closed"}
         /\ a.group[c].closedLocally \in BOOLEAN /\ a.group[c].rep \in Threads \cup {NoThread}
         /\ \A t \in Threads : /\ a.member[c][t] \in Member
                               /\ a.member[c][t].state \in States
                               /\ a.member[c][t].role \in Roles
BY DEF Archives, Group, Member, States, Roles

LEMMA WithRepEffect ==
  ASSUME NEW a \in Archives, NEW c \in Threads, NEW x \in Threads \cup {NoThread}
  PROVE  LET b == WithRep(a, c, x)
         IN /\ b \in Archives /\ b.member = a.member /\ SameElsewhere(a, b, c)
            /\ b.group[c].status = a.group[c].status
            /\ b.group[c].closedLocally = a.group[c].closedLocally
            /\ b.group[c].rep = x
<1> DEFINE g == [a.group EXCEPT ![c].rep = x]
           b == WithRep(a, c, x)
<1>1. g \in [Threads -> Group]
  BY ArchiveParts DEF Group
<1>2. /\ g[c].status = a.group[c].status /\ g[c].closedLocally = a.group[c].closedLocally
      /\ g[c].rep = x /\ \A d \in Threads : d # c => g[d] = a.group[d]
  BY ArchiveParts DEF Group
<1>3. b = [a EXCEPT !.group = g]
  BY DEF WithRep, Archives
<1> HIDE DEF g
<1>4. b.group = g /\ b.member = a.member /\ b \in Archives
  BY <1>1, <1>3 DEF Archives
<1> HIDE DEF b
<1>5. QED
  BY <1>2, <1>4 DEF SameElsewhere, b

(* The best member is a visible one, a canonical one if there is one.       *)
LEMMA BestIsVisible ==
  ASSUME NEW a \in Archives, NEW c \in Threads, NEW first
  PROVE  /\ BestMember(a, c, first) \in Threads \cup {NoThread}
         /\ Visible(a, c) = {} => BestMember(a, c, first) = NoThread
         /\ Visible(a, c) # {} => BestMember(a, c, first) \in Visible(a, c)
         /\ Visible(a, c) \cap Canonicals(a, c) # {}
              => BestMember(a, c, first) \in Visible(a, c) \cap Canonicals(a, c)
<1>1. Visible(a, c) \subseteq Threads /\ Threads \subseteq Nat
  BY ClusterAssumption DEF Visible, ActiveMembers
<1>2. ASSUME NEW ts, ts \subseteq Threads, ts # {} PROVE Preferred(ts, first) \in ts
  <2>1. Min(ts) \in ts
    BY <1>1, <1>2, MinIsMember
  <2>2. QED
    BY <2>1 DEF Preferred
<1>3. QED
  BY <1>1, <1>2 DEF BestMember

(* What decides who is visible.                                             *)
LEMMA VisibleDepends ==
  ASSUME NEW a, NEW b, NEW c \in Threads, b.member = a.member,
         \A d \in Threads : b.group[d].status = a.group[d].status
  PROVE  Visible(b, c) = Visible(a, c) /\ Canonicals(b, c) = Canonicals(a, c)
         /\ ActiveMembers(b, c) = ActiveMembers(a, c)
BY DEF Visible, ActiveMembers, Canonicals, ActiveGroup

LEMMA EnsureEffect ==
  ASSUME NEW a \in Archives, NEW c \in Threads, NEW first
  PROVE  LET b == ensureActiveClusterRepresentative(a, c, first)
         IN /\ b \in Archives /\ b.member = a.member /\ SameElsewhere(a, b, c)
            /\ b.group[c].status = a.group[c].status
            /\ b.group[c].closedLocally = a.group[c].closedLocally
            /\ ActiveGroup(a, c) =>
                 b.group[c].rep = IF a.group[c].rep \in Visible(a, c) THEN a.group[c].rep
                                  ELSE BestMember(a, c, first)
<1>1. CASE ActiveGroup(a, c) /\ a.group[c].rep \notin Visible(a, c)
  <2>1. ensureActiveClusterRepresentative(a, c, first) = WithRep(a, c, BestMember(a, c, first))
    BY <1>1 DEF ensureActiveClusterRepresentative, WithRep
  <2>2. QED
    BY <1>1, <2>1, BestIsVisible, WithRepEffect
<1>2. CASE ~(ActiveGroup(a, c) /\ a.group[c].rep \notin Visible(a, c))
  BY <1>2 DEF ensureActiveClusterRepresentative, SameElsewhere
<1>3. QED
  BY <1>1, <1>2

(* An archive whose cluster c has other members.                            *)
LEMMA MembersEffect ==
  ASSUME NEW a \in Archives, NEW c \in Threads, NEW m \in [Threads -> Member]
  PROVE  LET b == WithMembers(a, c, m)
         IN b \in Archives /\ b.group = a.group /\ b.member[c] = m /\ SameElsewhere(a, b, c)
<1> DEFINE ms == [a.member EXCEPT ![c] = m]
           b  == WithMembers(a, c, m)
<1>1. ms \in [Threads -> [Threads -> Member]] /\ ms[c] = m
      /\ \A d \in Threads : d # c => ms[d] = a.member[d]
  BY ArchiveParts
<1>2. b = [a EXCEPT !.member = ms]
  BY DEF Archives, WithMembers
<1> HIDE DEF ms
<1>3. b.member = ms /\ b.group = a.group /\ b \in Archives
  BY <1>1, <1>2 DEF Archives
<1> HIDE DEF b
<1>4. QED
  BY <1>1, <1>3 DEF SameElsewhere, b

(* One row changes.                                                         *)
LEMMA RowEffect ==
  ASSUME NEW row \in Member, NEW state \in States, NEW role \in Roles
  PROVE  /\ SetState(row, state) \in Member
         /\ SetState(row, state).state = state /\ SetState(row, state).role = row.role
         /\ SetRole(row, role) \in Member
         /\ SetRole(row, role).role = role /\ SetRole(row, role).state = row.state
BY DEF Member, States, Roles, SetState, SetRole

LEMMA WithStatesEffect ==
  ASSUME NEW a \in Archives, NEW c \in Threads, NEW state \in [Threads -> States]
  PROVE  LET b == WithStates(a, c, state)
         IN /\ b \in Archives /\ b.group = a.group /\ SameElsewhere(a, b, c)
            /\ \A t \in Threads : /\ b.member[c][t].state = state[t]
                                  /\ b.member[c][t].role = a.member[c][t].role
<1> DEFINE m == [t \in Threads |-> SetState(a.member[c][t], state[t])]
<1>1. \A t \in Threads : m[t] \in Member /\ m[t].state = state[t]
                         /\ m[t].role = a.member[c][t].role
  BY ArchiveParts, RowEffect
<1>2. m \in [Threads -> Member]
  BY <1>1
<1>3. WithStates(a, c, state) = WithMembers(a, c, m)
  BY DEF WithStates, WithMembers, SetState
<1> HIDE DEF m
<1>4. QED
  BY <1>1, <1>2, <1>3, MembersEffect

LEMMA WithCanonicalEffect ==
  ASSUME NEW a \in Archives, NEW c \in Threads, NEW p
  PROVE  LET b == WithCanonical(a, c, p)
         IN /\ b \in Archives /\ b.group = a.group /\ SameElsewhere(a, b, c)
            /\ \A t \in Threads :
                 /\ b.member[c][t].state = a.member[c][t].state
                 /\ t \in ActiveMembers(a, c) =>
                      b.member[c][t].role = (IF t = p THEN "canonical" ELSE "related")
<1> DEFINE m == [t \in Threads |->
                   IF t \in ActiveMembers(a, c)
                   THEN SetRole(a.member[c][t], IF t = p THEN "canonical" ELSE "related")
                   ELSE a.member[c][t]]
<1>1. \A t \in Threads :
        /\ m[t] \in Member /\ m[t].state = a.member[c][t].state
        /\ t \in ActiveMembers(a, c) => m[t].role = (IF t = p THEN "canonical" ELSE "related")
  <2>1. SUFFICES ASSUME NEW t \in Threads
                 PROVE  /\ m[t] \in Member /\ m[t].state = a.member[c][t].state
                        /\ t \in ActiveMembers(a, c) =>
                             m[t].role = (IF t = p THEN "canonical" ELSE "related")
    OBVIOUS
  <2> DEFINE role == IF t = p THEN "canonical" ELSE "related"
  <2>2. role \in Roles /\ a.member[c][t] \in Member /\ a.member[c][t].state \in States
    BY ArchiveParts DEF Roles
  <2>3. m[t] = IF t \in ActiveMembers(a, c) THEN SetRole(a.member[c][t], role)
               ELSE a.member[c][t]
    OBVIOUS
  <2> HIDE DEF m, role
  <2>4. m[t] \in Member /\ m[t].state = a.member[c][t].state
        /\ (t \in ActiveMembers(a, c) => m[t].role = role)
    BY <2>2, <2>3, RowEffect
  <2>5. QED
    BY <2>4 DEF role
<1>2. m \in [Threads -> Member]
  BY <1>1
<1>3. WithCanonical(a, c, p) = WithMembers(a, c, m)
  BY DEF WithCanonical, WithMembers, SetRole
<1> HIDE DEF m
<1>4. QED
  BY <1>1, <1>2, <1>3, MembersEffect

-----------------------------------------------------------------------------
(* Overrides                                                                *)

\* An exclusion is the only override of its member, and one member at most is
\* pinned as the canonical one of a cluster.
OverridesSound ==
  /\ override \in [Threads -> [Threads -> SUBSET Actions]]
  /\ \A c, t \in Threads : "exclude" \in override[c][t] => override[c][t] = {"exclude"}
  /\ \A c, t, u \in Threads :
       "canonical" \in override[c][t] /\ "canonical" \in override[c][u] => t = u

\* What overrides make of the state of a member.
StateUnder(c, t, state) ==
  IF "include" \in override[c][t] THEN "active"
  ELSE IF "exclude" \in override[c][t] THEN "excluded" ELSE state

\* The pinned thread of a cluster, if it is a member and open, is its only
\* canonical member and represents it.
PinHolds(a, c) ==
  \A p \in Overridden(c, "canonical") \cap ActiveMembers(a, c) \cap open :
    /\ \A t \in ActiveMembers(a, c) : t \in Canonicals(a, c) <=> t = p
    /\ ActiveGroup(a, c) => a.group[c].rep = p

LEMMA StatesUnder ==
  ASSUME OverridesSound, NEW a \in Archives, NEW c \in Threads
  PROVE  LET state == [t \in Threads |->
                         CASE t \in Overridden(c, "include") -> "active"
                           [] t \in Overridden(c, "exclude") -> "excluded"
                           [] OTHER -> a.member[c][t].state]
         IN /\ state \in [Threads -> States]
            /\ \A t \in Threads : state[t] = StateUnder(c, t, a.member[c][t].state)
<1> DEFINE state == [t \in Threads |->
                         CASE t \in Overridden(c, "include") -> "active"
                           [] t \in Overridden(c, "exclude") -> "excluded"
                           [] OTHER -> a.member[c][t].state]
<1>1. \A t \in Threads : state[t] = StateUnder(c, t, a.member[c][t].state)
  <2>1. SUFFICES ASSUME NEW t \in Threads
                 PROVE  state[t] = StateUnder(c, t, a.member[c][t].state)
    OBVIOUS
  <2>2. /\ t \in Overridden(c, "include") <=> "include" \in override[c][t]
        /\ t \in Overridden(c, "exclude") <=> "exclude" \in override[c][t]
        /\ ~("include" \in override[c][t] /\ "exclude" \in override[c][t])
    BY DEF Overridden, OverridesSound
  <2>3. QED
    BY <2>2 DEF StateUnder
<1>2. \A t \in Threads : StateUnder(c, t, a.member[c][t].state) \in States
  BY ArchiveParts DEF StateUnder, States
<1>3. state \in [Threads -> States]
  BY <1>1, <1>2
<1>4. QED
  BY <1>1, <1>3

(* A thread that is a member, open and canonical is visible.                *)
LEMMA CanonicalIsVisible ==
  ASSUME NEW a, NEW c, NEW t \in ActiveMembers(a, c), t \in open, t \in Canonicals(a, c)
  PROVE  t \in Visible(a, c)
BY DEF Visible, ActiveMembers

LEMMA OverridesEffect ==
  ASSUME OverridesSound, NEW a \in Archives, NEW c \in Threads, NEW first
  PROVE  LET b == applyClusterOverrides(a, c, first)
         IN /\ b \in Archives /\ SameElsewhere(a, b, c)
            /\ b.group[c].status = a.group[c].status
            /\ b.group[c].closedLocally = a.group[c].closedLocally
            /\ \A t \in Threads :
                 b.member[c][t].state = StateUnder(c, t, a.member[c][t].state)
            /\ PinHolds(b, c)
<1> DEFINE state  == [t \in Threads |->
                         CASE t \in Overridden(c, "include") -> "active"
                           [] t \in Overridden(c, "exclude") -> "excluded"
                           [] OTHER -> a.member[c][t].state]
           pinned == Overridden(c, "canonical")
           p      == CHOOSE q \in pinned : TRUE
           stated == WithStates(a, c, state)
           roled  == IF pinned = {} THEN stated ELSE WithCanonical(stated, c, p)
           unset  == IF pinned # {} /\ ActiveGroup(roled, c)
                     THEN WithRep(roled, c, NoThread) ELSE roled
           b      == ensureActiveClusterRepresentative(unset, c, first)
<1>1. applyClusterOverrides(a, c, first) = b
  BY DEF applyClusterOverrides, WithRep
<1>2. state \in [Threads -> States]
      /\ \A t \in Threads : state[t] = StateUnder(c, t, a.member[c][t].state)
  BY StatesUnder
<1> HIDE DEF state
<1>3. /\ stated \in Archives /\ stated.group = a.group /\ SameElsewhere(a, stated, c)
      /\ \A t \in Threads : stated.member[c][t].state = StateUnder(c, t, a.member[c][t].state)
  BY <1>2, WithStatesEffect
<1> HIDE DEF stated
<1>4. /\ roled \in Archives /\ roled.group = stated.group /\ SameElsewhere(stated, roled, c)
      /\ \A t \in Threads : roled.member[c][t].state = stated.member[c][t].state
      /\ pinned # {} => \A t \in ActiveMembers(stated, c) :
                          roled.member[c][t].role = (IF t = p THEN "canonical" ELSE "related")
  <2>1. CASE pinned = {}
    BY <2>1, <1>3 DEF SameElsewhere
  <2>2. CASE pinned # {}
    <3>1. ActiveMembers(stated, c) \subseteq Threads
      BY DEF ActiveMembers
    <3>2. roled = WithCanonical(stated, c, p)
      BY <2>2
    <3> HIDE DEF roled, pinned, p
    <3>3. QED
      BY <3>1, <3>2, <1>3, WithCanonicalEffect
  <2>3. QED
    BY <2>1, <2>2
<1> HIDE DEF roled
<1>5. /\ unset \in Archives /\ unset.member = roled.member /\ SameElsewhere(roled, unset, c)
      /\ unset.group[c].status = roled.group[c].status
      /\ unset.group[c].closedLocally = roled.group[c].closedLocally
      /\ pinned # {} /\ ActiveGroup(unset, c) => unset.group[c].rep = NoThread
  <2>1. CASE pinned # {} /\ ActiveGroup(roled, c)
    BY <2>1, <1>4, WithRepEffect
  <2>2. CASE ~(pinned # {} /\ ActiveGroup(roled, c))
    BY <2>2, <1>4 DEF SameElsewhere
  <2>3. QED
    BY <2>1, <2>2
<1> HIDE DEF unset
<1>6. /\ b \in Archives /\ b.member = unset.member /\ SameElsewhere(unset, b, c)
      /\ b.group[c].status = unset.group[c].status
      /\ b.group[c].closedLocally = unset.group[c].closedLocally
      /\ ActiveGroup(unset, c) =>
           b.group[c].rep = IF unset.group[c].rep \in Visible(unset, c) THEN unset.group[c].rep
                            ELSE BestMember(unset, c, first)
  BY <1>5, EnsureEffect
<1> HIDE DEF b
<1>7. SameElsewhere(a, b, c)
  BY <1>3, <1>4, <1>5, <1>6 DEF SameElsewhere
<1>8. \A t \in Threads : b.member[c][t].state = StateUnder(c, t, a.member[c][t].state)
  BY <1>3, <1>4, <1>5, <1>6
<1>9. PinHolds(b, c)
  <2>1. SUFFICES ASSUME NEW q \in pinned \cap ActiveMembers(b, c) \cap open
                 PROVE  /\ \A t \in ActiveMembers(b, c) : t \in Canonicals(b, c) <=> t = q
                        /\ ActiveGroup(b, c) => b.group[c].rep = q
    BY DEF PinHolds
  <2>2. q = p
    <3>1. p \in pinned
      BY <2>1
    <3>2. QED
      BY <2>1, <3>1 DEF Overridden, OverridesSound
  <2> HIDE DEF p
  <2>3. ActiveMembers(b, c) = ActiveMembers(stated, c)
    BY <1>4, <1>5, <1>6 DEF ActiveMembers
  <2>4. \A t \in ActiveMembers(b, c) : t \in Canonicals(b, c) <=> t = q
    <3>1. SUFFICES ASSUME NEW t \in ActiveMembers(b, c) PROVE t \in Canonicals(b, c) <=> t = q
      OBVIOUS
    <3>2. b.member[c][t].role = IF t = q THEN "canonical" ELSE "related"
      BY <2>1, <2>2, <2>3, <3>1, <1>4, <1>5, <1>6
    <3>3. QED
      BY <3>1, <3>2 DEF Canonicals, ActiveMembers
  <2>5. ASSUME ActiveGroup(b, c) PROVE b.group[c].rep = q
    <3>1. ActiveGroup(unset, c) /\ unset.group[c].rep = NoThread
      BY <2>1, <2>5, <1>5, <1>6 DEF ActiveGroup
    <3>2. /\ ActiveMembers(unset, c) = ActiveMembers(b, c)
          /\ Canonicals(unset, c) = Canonicals(b, c)
      BY <1>6 DEF ActiveMembers, Canonicals
    <3>3. q \in Visible(unset, c) \cap Canonicals(unset, c)
      BY <2>1, <2>4, <3>2, CanonicalIsVisible
    <3>4. Visible(unset, c) \cap Canonicals(unset, c) \subseteq {q}
      BY <2>4, <3>2 DEF Visible
    <3>5. NoThread \notin Visible(unset, c)
      BY ClusterAssumption DEF Visible, ActiveMembers, NoThread
    <3>6. b.group[c].rep = BestMember(unset, c, first)
      BY <3>1, <3>5, <1>6
    <3>7. BestMember(unset, c, first) \in Visible(unset, c) \cap Canonicals(unset, c)
      BY <3>3, <1>5, BestIsVisible
    <3>8. QED
      BY <3>4, <3>6, <3>7
  <2>6. QED
    BY <2>4, <2>5
<1>10. QED
  BY <1>1, <1>3, <1>4, <1>5, <1>6, <1>7, <1>8, <1>9

-----------------------------------------------------------------------------
(* One input of a save                                                      *)

\* What maintainers decided, in an archive.
Decided(a) ==
  /\ \A c, t \in Threads : "exclude" \in override[c][t] => a.member[c][t].state = "excluded"
  /\ \A c \in Threads : a.group[c].closedLocally => a.group[c].status = "closed"

WithGroup(a, c, g) == [a EXCEPT !.group[c] = g]

LEMMA WithGroupEffect ==
  ASSUME NEW a \in Archives, NEW c \in Threads, NEW g \in Group
  PROVE  LET b == WithGroup(a, c, g)
         IN b \in Archives /\ b.member = a.member /\ b.group[c] = g /\ SameElsewhere(a, b, c)
<1> DEFINE gs == [a.group EXCEPT ![c] = g]
           b  == WithGroup(a, c, g)
<1>1. gs \in [Threads -> Group] /\ gs[c] = g /\ \A d \in Threads : d # c => gs[d] = a.group[d]
  BY ArchiveParts
<1>2. b = [a EXCEPT !.group = gs]
  BY DEF Archives, WithGroup
<1> HIDE DEF gs
<1>3. b.group = gs /\ b.member = a.member /\ b \in Archives
  BY <1>1, <1>2 DEF Archives
<1> HIDE DEF b
<1>4. QED
  BY <1>1, <1>3 DEF SameElsewhere, b

\* A cluster that a run found.
Found(g, rep) == [g EXCEPT !.status = "active", !.rep = rep]

LEMMA FoundEffect ==
  ASSUME NEW g \in Group, NEW rep \in Threads
  PROVE  /\ Found(g, rep) \in Group /\ Found(g, rep).status = "active"
         /\ Found(g, rep).closedLocally = g.closedLocally
BY DEF Group, Found

LEMMA UpsertEffect ==
  ASSUME NEW a \in Archives, NEW in \in Input
  PROVE  LET b == upsertDurableCluster(a, in)
             c == in.key
         IN /\ b \in Archives /\ b.member = a.member /\ SameElsewhere(a, b, c)
            /\ b.group[c].closedLocally = a.group[c].closedLocally
            /\ a.group[c].closedLocally => b.group[c] = a.group[c]
            /\ ActiveGroup(a, c) => ActiveGroup(b, c)
<1>1. in.key \in Threads /\ in.rep \in Threads
  BY DEF Input
<1>2. CASE a.group[in.key].closedLocally
  BY <1>2 DEF upsertDurableCluster, SameElsewhere
<1>3. CASE ~a.group[in.key].closedLocally
  <2>1. upsertDurableCluster(a, in) = WithGroup(a, in.key, Found(a.group[in.key], in.rep))
    BY <1>1, <1>3 DEF upsertDurableCluster, WithGroup, Found, Archives
  <2>2. /\ Found(a.group[in.key], in.rep) \in Group
        /\ Found(a.group[in.key], in.rep).status = "active"
        /\ Found(a.group[in.key], in.rep).closedLocally = a.group[in.key].closedLocally
    BY <1>1, ArchiveParts, FoundEffect
  <2>3. QED
    BY <1>1, <1>3, <2>1, <2>2, WithGroupEffect DEF ActiveGroup
<1>4. QED
  BY <1>2, <1>3

LEMMA UpsertMembersEffect ==
  ASSUME NEW a \in Archives, NEW in \in Input
  PROVE  LET b == upsertMembers(a, in)
             c == in.key
         IN /\ b \in Archives /\ b.group = a.group /\ SameElsewhere(a, b, c)
            /\ \A t \in Threads :
                 b.member[c][t].state = IF t \in in.members THEN "active" ELSE a.member[c][t].state
<1> DEFINE c == in.key
           m == [t \in Threads |->
                   IF t \in in.members
                   THEN [state |-> "active", role |-> IF t \in in.canonical THEN "canonical" ELSE "related"]
                   ELSE a.member[c][t]]
<1>1. c \in Threads
  BY DEF Input
<1>2. \A t \in Threads :
        /\ m[t] \in Member
        /\ m[t].state = IF t \in in.members THEN "active" ELSE a.member[c][t].state
  BY <1>1, ArchiveParts DEF Member
<1>3. m \in [Threads -> Member]
  BY <1>2
<1>4. upsertMembers(a, in) = WithMembers(a, c, m)
  BY <1>1 DEF upsertMembers, WithMembers, Archives
<1> HIDE DEF m
<1>5. QED
  BY <1>1, <1>2, <1>3, <1>4, MembersEffect

LEMMA PruneEffect ==
  ASSUME NEW a \in Archives, NEW in \in Input, NEW mode
  PROVE  LET b == pruneMembers(a, in, mode)
             c == in.key
         IN /\ b \in Archives /\ b.group = a.group /\ SameElsewhere(a, b, c)
            /\ \A t \in Threads :
                 b.member[c][t].state =
                   IF mode # "partial" /\ t \in ActiveMembers(a, c) \ in.members THEN "removed"
                   ELSE a.member[c][t].state
<1> DEFINE c     == in.key
           state == [t \in Threads |-> IF t \in ActiveMembers(a, c) \ in.members THEN "removed"
                                       ELSE a.member[c][t].state]
<1>1. c \in Threads
  BY DEF Input
<1>2. CASE mode = "partial"
  BY <1>2 DEF pruneMembers, SameElsewhere
<1>3. CASE mode # "partial"
  <2>1. state \in [Threads -> States]
    BY <1>1, ArchiveParts DEF States
  <2>2. \A t \in Threads : state[t] = IF t \in ActiveMembers(a, c) \ in.members THEN "removed"
                                      ELSE a.member[c][t].state
    OBVIOUS
  <2>3. pruneMembers(a, in, mode) = WithStates(a, c, state)
    BY <1>3 DEF pruneMembers
  <2> HIDE DEF state
  <2>4. QED
    BY <1>1, <1>3, <2>1, <2>2, <2>3, WithStatesEffect
<1>4. QED
  BY <1>2, <1>3

(* An input is saved in its cluster, under the decisions of the maintainers.*)
LEMMA SaveOneEffect ==
  ASSUME OverridesSound, NEW a \in Archives, Decided(a), NEW in \in Input, NEW mode, NEW first
  PROVE  LET b == SaveOne(a, in, mode, first)
             c == in.key
         IN /\ b \in Archives /\ SameElsewhere(a, b, c) /\ Decided(b) /\ PinHolds(b, c)
            /\ ActiveGroup(a, c) => ActiveGroup(b, c)
            /\ mode = "partial" => ActiveMembers(a, c) \subseteq ActiveMembers(b, c)
            /\ mode # "partial" =>
                 ActiveMembers(b, c) \subseteq in.members \cup Overridden(c, "include")
<1> DEFINE c        == in.key
           upserted == upsertDurableCluster(a, in)
           filed    == upsertMembers(upserted, in)
           pruned   == pruneMembers(filed, in, mode)
           b        == applyClusterOverrides(pruned, c, first)
<1>1. c \in Threads
  BY DEF Input
<1>2. SaveOne(a, in, mode, first) = b
  BY DEF SaveOne
<1>3. /\ upserted \in Archives /\ upserted.member = a.member /\ SameElsewhere(a, upserted, c)
      /\ upserted.group[c].closedLocally = a.group[c].closedLocally
      /\ a.group[c].closedLocally => upserted.group[c] = a.group[c]
      /\ ActiveGroup(a, c) => ActiveGroup(upserted, c)
  BY UpsertEffect
<1> HIDE DEF upserted
<1>4. /\ filed \in Archives /\ filed.group = upserted.group /\ SameElsewhere(upserted, filed, c)
      /\ \A t \in Threads :
           filed.member[c][t].state =
             IF t \in in.members THEN "active" ELSE upserted.member[c][t].state
  BY <1>3, UpsertMembersEffect
<1> HIDE DEF filed
<1>5. /\ pruned \in Archives /\ pruned.group = filed.group /\ SameElsewhere(filed, pruned, c)
      /\ \A t \in Threads :
           pruned.member[c][t].state =
             IF mode # "partial" /\ t \in ActiveMembers(filed, c) \ in.members THEN "removed"
             ELSE filed.member[c][t].state
  BY <1>4, PruneEffect
<1> HIDE DEF pruned
<1>6. /\ b \in Archives /\ SameElsewhere(pruned, b, c)
      /\ b.group[c].status = pruned.group[c].status
      /\ b.group[c].closedLocally = pruned.group[c].closedLocally
      /\ \A t \in Threads : b.member[c][t].state = StateUnder(c, t, pruned.member[c][t].state)
      /\ PinHolds(b, c)
  BY <1>1, <1>5, OverridesEffect
<1> HIDE DEF b
<1>7. SameElsewhere(a, b, c)
  BY <1>3, <1>4, <1>5, <1>6 DEF SameElsewhere
<1>8. \A t \in Threads :
        b.member[c][t].state =
          StateUnder(c, t, IF t \in in.members THEN "active"
                           ELSE IF mode # "partial" /\ a.member[c][t].state = "active" THEN "removed"
                           ELSE a.member[c][t].state)
  BY <1>3, <1>4, <1>5, <1>6 DEF ActiveMembers
<1>9. Decided(b)
  <2>1. ASSUME NEW d \in Threads, NEW t \in Threads, "exclude" \in override[d][t]
        PROVE  b.member[d][t].state = "excluded"
    <3>1. CASE d # c
      BY <2>1, <3>1, <1>7 DEF Decided, SameElsewhere
    <3>2. CASE d = c
      BY <2>1, <3>2, <1>8 DEF StateUnder, OverridesSound
    <3>3. QED
      BY <3>1, <3>2
  <2>2. ASSUME NEW d \in Threads, b.group[d].closedLocally
        PROVE  b.group[d].status = "closed"
    <3>1. CASE d # c
      BY <2>2, <3>1, <1>7 DEF Decided, SameElsewhere
    <3>2. CASE d = c
      BY <2>2, <3>2, <1>1, <1>3, <1>4, <1>5, <1>6 DEF Decided
    <3>3. QED
      BY <3>1, <3>2
  <2>3. QED
    BY <2>1, <2>2 DEF Decided
<1>10. ActiveGroup(a, c) => ActiveGroup(b, c)
  BY <1>3, <1>4, <1>5, <1>6 DEF ActiveGroup
<1>11. ASSUME mode = "partial" PROVE ActiveMembers(a, c) \subseteq ActiveMembers(b, c)
  <2>1. SUFFICES ASSUME NEW t \in Threads, a.member[c][t].state = "active"
                 PROVE  b.member[c][t].state = "active"
    BY DEF ActiveMembers
  <2>2. "exclude" \notin override[c][t]
    BY <1>1, <2>1 DEF Decided
  <2>3. QED
    BY <1>8, <1>11, <2>1, <2>2 DEF StateUnder
<1>12. ASSUME mode # "partial"
       PROVE  ActiveMembers(b, c) \subseteq in.members \cup Overridden(c, "include")
  <2>1. SUFFICES ASSUME NEW t \in Threads, b.member[c][t].state = "active",
                        t \notin in.members, "include" \notin override[c][t]
                 PROVE  FALSE
    BY DEF ActiveMembers, Overridden
  <2>2. QED
    BY <1>8, <1>12, <2>1 DEF StateUnder
<1>13. QED
  BY <1>2, <1>6, <1>7, <1>9, <1>10, <1>11, <1>12

-----------------------------------------------------------------------------
(* The inputs of a save, in turn                                            *)

Rekeyed(in, c, rep) == [in EXCEPT !.key = c, !.rep = rep, !.canonical = {rep}]

LEMMA RekeyedIsInput ==
  ASSUME NEW in \in Input, NEW c \in Threads, NEW rep \in Threads
  PROVE  Rekeyed(in, c, rep) \in Input
BY DEF Input, Rekeyed

LEMMA ReconciledIsInput ==
  ASSUME NEW a \in Archives, NEW in \in Input
  PROVE  Reconciled(a, in) \in Input
<1>1. CASE Identities(a, in) = {}
  BY <1>1 DEF Reconciled
<1>2. CASE Identities(a, in) # {}
  <2> DEFINE c   == CHOOSE c \in Identities(a, in) : TRUE
             rep == IF a.group[c].rep = NoThread THEN in.rep ELSE a.group[c].rep
  <2>1. c \in Threads
    BY <1>2 DEF Identities
  <2>2. Reconciled(a, in) = Rekeyed(in, c, rep)
    BY <1>2 DEF Reconciled, Rekeyed
  <2> HIDE DEF c
  <2>3. rep \in Threads
    BY <2>1, ArchiveParts DEF Input
  <2> HIDE DEF rep
  <2>4. QED
    BY <2>1, <2>2, <2>3, RekeyedIsInput
<1>3. QED
  BY <1>1, <1>2

\* What holds after any number of inputs.
FoldInv(done, inputs, mode) ==
  /\ done.archive \in Archives /\ done.seen \subseteq Threads /\ Decided(done.archive)
  /\ \A c \in done.seen : PinHolds(done.archive, c)
  /\ mode = "partial" => \A c \in Threads :
       /\ ActiveMembers(Archive, c) \subseteq ActiveMembers(done.archive, c)
       /\ ActiveGroup(Archive, c) => ActiveGroup(done.archive, c)
  /\ mode # "partial" => \A c \in done.seen : \E i \in DOMAIN inputs :
       /\ inputs[i].key = c
       /\ ActiveMembers(done.archive, c) \subseteq inputs[i].members \cup Overridden(c, "include")

\* A fold that goes on, and one that failed.
Done(a, clusters) == [archive |-> a, seen |-> clusters, failed |-> FALSE]
FailedSave(done) == [done EXCEPT !.failed = TRUE]

DoneRecords == [archive : Archives, seen : SUBSET Threads, failed : BOOLEAN]

LEMMA FailedSaveEffect ==
  ASSUME NEW done \in DoneRecords
  PROVE  FailedSave(done) \in DoneRecords /\ FailedSave(done).archive = done.archive
         /\ FailedSave(done).seen = done.seen
BY DEF DoneRecords, FailedSave

LEMMA PinStays ==
  ASSUME NEW a, NEW b, NEW c \in Threads, b.member[c] = a.member[c], b.group[c] = a.group[c],
         PinHolds(a, c)
  PROVE  PinHolds(b, c)
BY DEF PinHolds, ActiveMembers, Canonicals, ActiveGroup

LEMMA SaveInputKeeps ==
  ASSUME OverridesSound, NEW done \in DoneRecords, NEW inputs, NEW mode, NEW first,
         NEW i \in DOMAIN inputs, inputs[i] \in Input, FoldInv(done, inputs, mode)
  PROVE  LET next == SaveInput(done, inputs[i], mode, first)
         IN next \in DoneRecords /\ FoldInv(next, inputs, mode)
<1> DEFINE in    == inputs[i]
           a     == done.archive
           keyed == IF mode = "partial" THEN Reconciled(a, in) ELSE in
           c     == keyed.key
           b     == SaveOne(a, keyed, mode, first)
           next  == SaveInput(done, in, mode, first)
<1>1. a \in Archives /\ Decided(a) /\ done.seen \subseteq Threads
  BY DEF FoldInv
<1>2. keyed \in Input /\ (mode # "partial" => keyed = in)
  BY <1>1, ReconciledIsInput
<1>3. c \in Threads
  BY <1>2 DEF Input
<1>4. next = FailedSave(done) \/ next = Done(b, done.seen \cup {c})
  BY DEF SaveInput, Done, FailedSave
<1> HIDE DEF keyed
<1>5. /\ b \in Archives /\ SameElsewhere(a, b, c) /\ Decided(b) /\ PinHolds(b, c)
      /\ ActiveGroup(a, c) => ActiveGroup(b, c)
      /\ mode = "partial" => ActiveMembers(a, c) \subseteq ActiveMembers(b, c)
      /\ mode # "partial" =>
           ActiveMembers(b, c) \subseteq keyed.members \cup Overridden(c, "include")
  BY <1>1, <1>2, SaveOneEffect
<1> HIDE DEF next, b, c
<1>6. CASE next = FailedSave(done)
  <2>1. next \in DoneRecords /\ next.archive = a /\ next.seen = done.seen
    BY <1>6, FailedSaveEffect
  <2>2. FoldInv(next, inputs, mode)
    BY <2>1 DEF FoldInv
  <2>3. QED
    BY <2>1, <2>2 DEF next
<1>7. CASE next = Done(b, done.seen \cup {c})
  <2>1. next.archive = b /\ next.seen = done.seen \cup {c} /\ next \in DoneRecords
    BY <1>7, <1>3, <1>5, <1>1 DEF Done, DoneRecords
  <2>2. \A d \in Threads : d # c =>
          /\ ActiveMembers(b, d) = ActiveMembers(a, d)
          /\ ActiveGroup(b, d) <=> ActiveGroup(a, d)
    BY <1>5 DEF SameElsewhere, ActiveMembers, ActiveGroup
  <2>3. \A d \in next.seen : PinHolds(b, d)
    BY <1>1, <1>5, <2>1, PinStays DEF FoldInv, SameElsewhere
  <2>4. ASSUME mode = "partial", NEW d \in Threads
        PROVE  /\ ActiveMembers(Archive, d) \subseteq ActiveMembers(b, d)
               /\ ActiveGroup(Archive, d) => ActiveGroup(b, d)
    BY <2>4, <2>2, <1>5 DEF FoldInv
  <2>5. ASSUME mode # "partial", NEW d \in next.seen
        PROVE  \E j \in DOMAIN inputs :
                 /\ inputs[j].key = d
                 /\ ActiveMembers(b, d) \subseteq inputs[j].members \cup Overridden(d, "include")
    <3>1. CASE d = c
      <4>1. inputs[i].key = c /\ keyed.members = inputs[i].members
        BY <2>5, <1>2 DEF c
      <4>2. QED
        BY <3>1, <4>1, <2>5, <1>5
    <3>2. CASE d # c
      <4>1. d \in done.seen /\ d \in Threads
        BY <2>1, <2>5, <3>2, <1>1
      <4>2. PICK j \in DOMAIN inputs :
              /\ inputs[j].key = d
              /\ ActiveMembers(a, d) \subseteq inputs[j].members \cup Overridden(d, "include")
        BY <4>1, <2>5 DEF FoldInv
      <4>3. QED
        BY <2>2, <3>2, <4>1, <4>2
    <3>3. QED
      BY <3>1, <3>2
  <2>6. FoldInv(next, inputs, mode)
    BY <1>3, <1>1, <1>5, <2>1, <2>3, <2>4, <2>5 DEF FoldInv
  <2>7. QED
    BY <2>1, <2>6 DEF next
<1>8. QED
  BY <1>4, <1>6, <1>7

(* The fold over the inputs is a function of how many are saved.            *)
IsFold(f, inputs, m, mode, first) ==
  f = [n \in 0..m |-> IF n = 0 THEN Done(Archive, {})
                      ELSE SaveInput(f[n - 1], inputs[n], mode, first)]

LEMMA FoldExists ==
  ASSUME NEW inputs, NEW N \in Nat, NEW mode, NEW first
  PROVE  \E f : IsFold(f, inputs, N, mode, first)
<1> DEFINE Fold(f, m) ==
             f = [n \in 0..m |-> IF n = 0 THEN Done(Archive, {})
                                 ELSE SaveInput(f[n - 1], inputs[n], mode, first)]
           S == {m \in Nat : \E f : Fold(f, m)}
<1>1. 0 \in S
  <2>1. Fold([n \in 0..0 |-> Done(Archive, {})], 0)
    OBVIOUS
  <2>2. QED
    BY <2>1
<1>2. ASSUME NEW m \in S PROVE m + 1 \in S
  <2>1. m \in Nat /\ \E f : Fold(f, m)
    OBVIOUS
  <2>2. PICK f : Fold(f, m)
    BY <2>1
  <2> DEFINE g == [n \in 0..m + 1 |-> IF n <= m THEN f[n]
                                      ELSE SaveInput(f[m], inputs[m + 1], mode, first)]
  <2>3. \A n \in 0..m + 1 :
          g[n] = IF n = 0 THEN Done(Archive, {}) ELSE SaveInput(g[n - 1], inputs[n], mode, first)
    <3>1. SUFFICES ASSUME NEW n \in 0..m + 1
                   PROVE  g[n] = IF n = 0 THEN Done(Archive, {})
                                 ELSE SaveInput(g[n - 1], inputs[n], mode, first)
      OBVIOUS
    <3>2. CASE n <= m
      <4>1. n \in 0..m /\ (n # 0 => n - 1 \in 0..m + 1 /\ n - 1 <= m) /\ g[n] = f[n]
        BY <2>1, <3>1, <3>2
      <4>2. n # 0 => g[n - 1] = f[n - 1]
        BY <4>1
      <4>3. f[n] = IF n = 0 THEN Done(Archive, {}) ELSE SaveInput(f[n - 1], inputs[n], mode, first)
        BY <2>2, <4>1
      <4>4. QED
        BY <4>1, <4>2, <4>3
    <3>3. CASE ~(n <= m)
      <4>1. n = m + 1 /\ n # 0 /\ n - 1 = m /\ m \in 0..m + 1 /\ m <= m
        BY <2>1, <3>1, <3>3
      <4>2. g[n] = SaveInput(f[m], inputs[m + 1], mode, first) /\ g[m] = f[m]
        BY <3>3, <4>1
      <4>3. QED
        BY <4>1, <4>2
    <3>4. QED
      BY <3>2, <3>3
  <2>4. DOMAIN g = 0..m + 1 /\ g = [n \in 0..m + 1 |-> g[n]]
    OBVIOUS
  <2> HIDE DEF g
  <2>5. Fold(g, m + 1)
    BY <2>3, <2>4
  <2>6. QED
    BY <2>1, <2>5
<1>3. S = Nat
  <2>1. S \subseteq Nat
    OBVIOUS
  <2> HIDE DEF S
  <2>2. QED
    BY <1>1, <1>2, <2>1, NatSetInduction
<1>4. PICK f : Fold(f, N)
  BY <1>3
<1>5. IsFold(f, inputs, N, mode, first)
  BY <1>4 DEF IsFold
<1>6. QED
  BY <1>5

LEMMA SaveInputsEffect ==
  ASSUME OverridesSound, Archive \in Archives, Decided(Archive),
         NEW inputs \in Seq(Input), NEW mode, NEW first
  PROVE  /\ SaveInputs(inputs, mode, first) \in DoneRecords
         /\ FoldInv(SaveInputs(inputs, mode, first), inputs, mode)
<1> DEFINE N == Len(inputs)
           f == CHOOSE f : f = [n \in 0..N |-> IF n = 0 THEN Done(Archive, {})
                                   ELSE SaveInput(f[n - 1], inputs[n], mode, first)]
<1>1. N \in Nat /\ DOMAIN inputs = 1..N /\ \A i \in 1..N : inputs[i] \in Input
  OBVIOUS
<1> HIDE DEF N
<1>2. f = [n \in 0..N |-> IF n = 0 THEN Done(Archive, {})
                          ELSE SaveInput(f[n - 1], inputs[n], mode, first)]
  <2>1. PICK g : IsFold(g, inputs, N, mode, first)
    BY <1>1, FoldExists
  <2>2. g = [n \in 0..N |-> IF n = 0 THEN Done(Archive, {})
                            ELSE SaveInput(g[n - 1], inputs[n], mode, first)]
    BY <2>1 DEF IsFold
  <2>3. QED
    BY <2>2
<1>3. SaveInputs(inputs, mode, first) = f[N]
  BY DEF SaveInputs, N, Done
<1> HIDE DEF f
<1> DEFINE S == {n \in Nat : n <= N => f[n] \in DoneRecords /\ FoldInv(f[n], inputs, mode)}
<1>4. 0 \in S
  <2>1. f[0] = Done(Archive, {})
    BY <1>1, <1>2
  <2>2. Done(Archive, {}) \in DoneRecords /\ FoldInv(Done(Archive, {}), inputs, mode)
    BY DEF Done, DoneRecords, FoldInv
  <2>3. QED
    BY <2>1, <2>2
<1>5. ASSUME NEW n \in S PROVE n + 1 \in S
  <2>1. SUFFICES ASSUME n + 1 <= N
                 PROVE  f[n + 1] \in DoneRecords /\ FoldInv(f[n + 1], inputs, mode)
    OBVIOUS
  <2>2. n + 1 \in 1..N /\ n + 1 \in 0..N /\ n + 1 # 0 /\ (n + 1) - 1 = n
    BY <1>1, <2>1
  <2>3. f[n] \in DoneRecords /\ FoldInv(f[n], inputs, mode)
    BY <1>1, <2>1
  <2>4. f[n + 1] = SaveInput(f[n], inputs[n + 1], mode, first)
    BY <1>2, <2>2
  <2>5. QED
    BY <1>1, <2>2, <2>3, <2>4, SaveInputKeeps
<1>6. S = Nat
  <2>1. S \subseteq Nat
    OBVIOUS
  <2> HIDE DEF S
  <2>2. QED
    BY <1>4, <1>5, <2>1, NatSetInduction
<1>7. QED
  BY <1>1, <1>3, <1>6

-----------------------------------------------------------------------------
(* The end of a save                                                        *)

WithGroups(a, g) == [a EXCEPT !.group = g]
Retired(g) == [g EXCEPT !.status = "closed"]

LEMMA WithGroupsEffect ==
  ASSUME NEW a \in Archives, NEW g \in [Threads -> Group]
  PROVE  /\ WithGroups(a, g) \in Archives /\ WithGroups(a, g).group = g
         /\ WithGroups(a, g).member = a.member
BY DEF Archives, WithGroups

LEMMA RetiredEffect ==
  ASSUME NEW g \in Group
  PROVE  /\ Retired(g) \in Group /\ Retired(g).status = "closed"
         /\ Retired(g).closedLocally = g.closedLocally /\ Retired(g).rep = g.rep
BY DEF Group, Retired

LEMMA RetireEffect ==
  ASSUME NEW a \in Archives, NEW saved, NEW mode
  PROVE  LET b == retireMissing(a, saved, mode)
         IN /\ b \in Archives /\ b.member = a.member
            /\ \A c \in Threads :
                 /\ b.group[c].closedLocally = a.group[c].closedLocally
                 /\ b.group[c].rep = a.group[c].rep
                 /\ b.group[c].status =
                      IF mode # "partial" /\ a.group[c].status = "active" /\ c \notin saved
                      THEN "closed" ELSE a.group[c].status
<1>1. CASE mode = "partial"
  BY <1>1 DEF retireMissing
<1>2. CASE mode # "partial"
  <2> DEFINE g == [c \in Threads |-> IF ActiveGroup(a, c) /\ c \notin saved
                                     THEN Retired(a.group[c]) ELSE a.group[c]]
  <2>1. \A c \in Threads :
          /\ g[c] \in Group /\ g[c].closedLocally = a.group[c].closedLocally
          /\ g[c].rep = a.group[c].rep
          /\ g[c].status = IF a.group[c].status = "active" /\ c \notin saved
                           THEN "closed" ELSE a.group[c].status
    BY ArchiveParts, RetiredEffect DEF ActiveGroup
  <2>2. g \in [Threads -> Group]
    BY <2>1
  <2>3. retireMissing(a, saved, mode) = WithGroups(a, g)
    BY <1>2 DEF retireMissing, WithGroups, Retired
  <2> HIDE DEF g
  <2>4. QED
    BY <1>2, <2>1, <2>2, <2>3, WithGroupsEffect
<1>3. QED
  BY <1>1, <1>2

LEMMA EnsureAllEffect ==
  ASSUME NEW a \in Archives, NEW clusters, NEW first
  PROVE  LET b == ensureRepresentatives(a, clusters, first)
         IN /\ b \in Archives /\ b.member = a.member
            /\ \A c \in Threads :
                 /\ b.group[c].closedLocally = a.group[c].closedLocally
                 /\ b.group[c].status = a.group[c].status
                 /\ c \in clusters /\ ActiveGroup(a, c) =>
                      b.group[c].rep = IF a.group[c].rep \in Visible(a, c) THEN a.group[c].rep
                                       ELSE BestMember(a, c, first)
<1> DEFINE One(c) == ensureActiveClusterRepresentative(a, c, first)
           g == [c \in Threads |-> IF c \in clusters THEN One(c).group[c] ELSE a.group[c]]
<1>1. \A c \in Threads :
        /\ One(c) \in Archives
        /\ One(c).group[c].status = a.group[c].status
        /\ One(c).group[c].closedLocally = a.group[c].closedLocally
        /\ ActiveGroup(a, c) =>
             One(c).group[c].rep = IF a.group[c].rep \in Visible(a, c) THEN a.group[c].rep
                                   ELSE BestMember(a, c, first)
  BY EnsureEffect
<1> HIDE DEF One
<1>2. \A c \in Threads : One(c).group[c] \in Group /\ a.group[c] \in Group
  BY <1>1, ArchiveParts
<1>3. g \in [Threads -> Group]
  BY <1>2
<1>4. ensureRepresentatives(a, clusters, first) = WithGroups(a, g)
  BY DEF ensureRepresentatives, WithGroups, One
<1>5. \A c \in Threads :
        /\ g[c].closedLocally = a.group[c].closedLocally
        /\ g[c].status = a.group[c].status
        /\ c \in clusters /\ ActiveGroup(a, c) =>
             g[c].rep = IF a.group[c].rep \in Visible(a, c) THEN a.group[c].rep
                        ELSE BestMember(a, c, first)
  BY <1>1
<1> HIDE DEF g
<1>6. QED
  BY <1>3, <1>4, <1>5, WithGroupsEffect

\* A cluster that was saved is represented by a visible member, a pinned one
\* if there is one.
Represented(a, c) ==
  ActiveGroup(a, c) =>
    LET pinned == Overridden(c, "canonical") \cap ActiveMembers(a, c) \cap open
    IN IF Visible(a, c) = {} THEN a.group[c].rep = NoThread
       ELSE /\ a.group[c].rep \in Visible(a, c)
            /\ pinned # {} => a.group[c].rep \in pinned

SavedInv(a, clusters, inputs, mode) ==
  /\ a \in Archives /\ clusters \subseteq Threads /\ Decided(a)
  /\ \A c \in clusters : Represented(a, c)
  /\ mode = "partial" => \A c \in Threads :
       /\ ActiveMembers(Archive, c) \subseteq ActiveMembers(a, c)
       /\ ActiveGroup(Archive, c) => ActiveGroup(a, c)
  /\ mode # "partial" => \A c \in Threads : ActiveGroup(a, c) => \E i \in DOMAIN inputs :
       /\ inputs[i].key = c
       /\ ActiveMembers(a, c) \subseteq inputs[i].members \cup Overridden(c, "include")

LEMMA SavedEffect ==
  ASSUME OverridesSound, Archive \in Archives, Decided(Archive),
         NEW r, run[r].inputs \in Seq(Input), NEW first
  PROVE  SavedInv(Saved(r, first).archive, Saved(r, first).seen, run[r].inputs, run[r].mode)
<1> DEFINE mode    == run[r].mode
           inputs  == run[r].inputs
           saved   == SaveInputs(inputs, mode, first)
           a       == saved.archive
           retired == retireMissing(a, saved.seen, mode)
           b       == ensureRepresentatives(retired, saved.seen, first)
<1>1. saved \in DoneRecords /\ FoldInv(saved, inputs, mode)
  BY SaveInputsEffect
<1>2. Saved(r, first).archive = b /\ Saved(r, first).seen = saved.seen
  <2>1. Saved(r, first) = [saved EXCEPT !.archive = b]
    BY <1>1 DEF Saved, DoneRecords
  <2> HIDE DEF b, saved
  <2>2. QED
    BY <2>1, <1>1 DEF DoneRecords
<1> HIDE DEF saved
<1>3. a \in Archives /\ saved.seen \subseteq Threads /\ Decided(a)
  BY <1>1 DEF FoldInv
<1>4. /\ retired \in Archives /\ retired.member = a.member
      /\ \A c \in Threads :
           /\ retired.group[c].closedLocally = a.group[c].closedLocally
           /\ retired.group[c].rep = a.group[c].rep
           /\ retired.group[c].status =
                IF mode # "partial" /\ a.group[c].status = "active" /\ c \notin saved.seen
                THEN "closed" ELSE a.group[c].status
  BY <1>3, RetireEffect
<1> HIDE DEF retired
<1>5. /\ b \in Archives /\ b.member = retired.member
      /\ \A c \in Threads :
           /\ b.group[c].closedLocally = retired.group[c].closedLocally
           /\ b.group[c].status = retired.group[c].status
           /\ c \in saved.seen /\ ActiveGroup(retired, c) =>
                b.group[c].rep = IF retired.group[c].rep \in Visible(retired, c)
                                 THEN retired.group[c].rep ELSE BestMember(retired, c, first)
  BY <1>4, EnsureAllEffect
<1> HIDE DEF b
<1>6. Decided(b)
  <2>1. \A c \in Threads : b.group[c].closedLocally => b.group[c].status = "closed"
    BY <1>3, <1>4, <1>5 DEF Decided
  <2>2. QED
    BY <2>1, <1>3, <1>4, <1>5 DEF Decided
<1>7. ASSUME NEW c \in saved.seen PROVE Represented(b, c)
  <2>1. c \in Threads
    BY <1>3
  <2>2. SUFFICES ASSUME ActiveGroup(b, c)
                 PROVE  LET pinned == Overridden(c, "canonical") \cap ActiveMembers(b, c) \cap open
                        IN IF Visible(b, c) = {} THEN b.group[c].rep = NoThread
                           ELSE /\ b.group[c].rep \in Visible(b, c)
                                /\ pinned # {} => b.group[c].rep \in pinned
    BY DEF Represented
  <2>3. /\ ActiveGroup(retired, c) /\ ActiveGroup(a, c)
        /\ b.group[c].rep = IF a.group[c].rep \in Visible(retired, c)
                            THEN a.group[c].rep ELSE BestMember(retired, c, first)
    BY <2>1, <2>2, <1>4, <1>5 DEF ActiveGroup
  <2>4. Visible(b, c) = Visible(retired, c) /\ ActiveMembers(b, c) = ActiveMembers(a, c)
        /\ Canonicals(b, c) = Canonicals(a, c)
    <3>1. Visible(b, c) = Visible(retired, c)
      BY <2>1, <1>5, VisibleDepends
    <3>2. QED
      BY <3>1, <1>4, <1>5 DEF ActiveMembers, Canonicals
  <2>5. CASE Visible(b, c) = {}
    <3>1. b.group[c].rep = NoThread
      BY <2>1, <2>3, <2>4, <2>5, <1>4, BestIsVisible
    <3>2. QED
      BY <2>5, <3>1
  <2>6. CASE Visible(b, c) # {}
    <3>1. b.group[c].rep \in Visible(b, c)
      BY <2>1, <2>3, <2>4, <2>6, <1>4, BestIsVisible
    <3>2. ASSUME NEW p \in Overridden(c, "canonical") \cap ActiveMembers(b, c) \cap open
          PROVE  b.group[c].rep = p
      <4>1. a.group[c].rep = p /\ p \in Canonicals(a, c)
        BY <2>3, <2>4, <3>2, <1>1 DEF FoldInv, PinHolds
      <4>2. p \in Visible(b, c)
        BY <2>4, <3>2, <4>1, CanonicalIsVisible
      <4>3. QED
        BY <2>3, <2>4, <4>1, <4>2
    <3>3. QED
      BY <2>6, <3>1, <3>2
  <2>7. QED
    BY <2>5, <2>6
<1>8. \A c \in Threads : ActiveMembers(b, c) = ActiveMembers(a, c)
  BY <1>4, <1>5 DEF ActiveMembers
<1>9. ASSUME mode = "partial", NEW c \in Threads
      PROVE  /\ ActiveMembers(Archive, c) \subseteq ActiveMembers(b, c)
             /\ ActiveGroup(Archive, c) => ActiveGroup(b, c)
  <2>1. ActiveGroup(a, c) => ActiveGroup(b, c)
    BY <1>4, <1>5, <1>9 DEF ActiveGroup
  <2>2. QED
    BY <2>1, <1>1, <1>8, <1>9 DEF FoldInv
<1>10. ASSUME mode # "partial", NEW c \in Threads, ActiveGroup(b, c)
       PROVE  \E i \in DOMAIN inputs :
                /\ inputs[i].key = c
                /\ ActiveMembers(b, c) \subseteq inputs[i].members \cup Overridden(c, "include")
  <2>1. c \in saved.seen
    BY <1>4, <1>5, <1>10 DEF ActiveGroup
  <2>2. QED
    BY <2>1, <1>1, <1>8, <1>10 DEF FoldInv
<1>11. QED
  BY <1>2, <1>3, <1>5, <1>6, <1>7, <1>9, <1>10 DEF SavedInv

-----------------------------------------------------------------------------
(* The inductive invariant                                                  *)

\* The clusters of a complete run are disjoint.
Disjoint(inputs) ==
  \A i, j \in DOMAIN inputs :
    inputs[i].members \cap inputs[j].members # {} => inputs[i].key = inputs[j].key

RunsDisjoint == \A r \in Runners : run[r] # Idle /\ run[r].mode = "complete" => Disjoint(run[r].inputs)

\* Decisions hold in the archive because an exclusion excludes every other
\* override; what a run has computed is disjoint until it is saved.
ClusterInv ==
  /\ TypeOK
  /\ OverridesSound
  /\ Decided(Archive)
  /\ RunsDisjoint
  /\ \A c \in seen : Represented(Archive, c)

LEMMA ArchiveIsTyped ==
  ASSUME TypeOK PROVE Archive \in Archives
BY DEF TypeOK, Archive, Archives

LEMMA InputsSound ==
  ASSUME NEW threads \in SUBSET Threads, NEW f \in Clusterings(threads), NEW s \in Inputs(f)
  PROVE  s \in Seq(Input) /\ Disjoint(s)
<1> DEFINE inputs == {InputOf(f, f[t]) : t \in DOMAIN f}
           image  == [t \in DOMAIN f |-> InputOf(f, f[t])]
<1>1. f \in [threads -> threads]
  BY DEF Clusterings
<1>2. inputs \subseteq Input
  <2>1. \A r \in threads : InputOf(f, r) \in Input
    BY <1>1 DEF InputOf, Input
  <2>2. QED
    BY <1>1, <2>1
<1>3. Cardinality(inputs) \in Nat
  <2>1. IsFiniteSet(DOMAIN f)
    BY <1>1, FS_Subset, ClusterAssumption
  <2>2. image \in Surjection(DOMAIN f, inputs)
    BY DEF Surjection
  <2> HIDE DEF image, inputs
  <2>3. IsFiniteSet(inputs)
    BY <2>1, <2>2, FS_Surjection
  <2>4. QED
    BY <2>3, FS_CardinalityType
<1>4. s \in [1..Cardinality(inputs) -> inputs]
  BY DEF Inputs
<1>5. s \in Seq(Input)
  <2> HIDE DEF inputs
  <2>1. \A i \in 1..Cardinality(inputs) : s[i] \in Input
    BY <1>2, <1>4
  <2>2. s \in [1..Cardinality(inputs) -> Input]
    BY <1>4, <2>1
  <2>3. QED
    BY <1>3, <2>2
<1>6. ASSUME NEW i \in DOMAIN s, NEW j \in DOMAIN s, s[i].members \cap s[j].members # {}
      PROVE  s[i].key = s[j].key
  <2>1. s[i] \in inputs /\ s[j] \in inputs
    BY <1>4
  <2>2. PICK t \in DOMAIN f, u \in DOMAIN f : s[i] = InputOf(f, f[t]) /\ s[j] = InputOf(f, f[u])
    BY <2>1
  <2>3. \A x \in DOMAIN f : InputOf(f, f[x]).key = f[x]
          /\ InputOf(f, f[x]).members = {v \in DOMAIN f : f[v] = f[x]}
    BY DEF InputOf
  <2>4. QED
    BY <1>6, <2>2, <2>3
<1>7. QED
  BY <1>5, <1>6 DEF Disjoint

LEMMA ClusterInvInit == ASSUME Init PROVE ClusterInv
<1>1. TypeOK
  BY DEF Init, TypeOK, Group, Member
<1>2. OverridesSound /\ Decided(Archive)
  BY DEF Init, OverridesSound, Decided, Archive
<1>3. RunsDisjoint /\ seen = {}
  BY DEF Init, RunsDisjoint
<1>4. QED
  BY <1>1, <1>2, <1>3 DEF ClusterInv

(* Nobody's decisions change with the runs or the open threads.             *)
LEMMA DecisionsStay ==
  ASSUME ClusterInv, UNCHANGED <<group, member, override>>
  PROVE  OverridesSound' /\ Decided(Archive)'
BY DEF ClusterInv, OverridesSound, Decided, Archive

LEMMA BuildKeeps ==
  ASSUME ClusterInv, NEW r \in Runners, BuildClusters(r)
  PROVE  ClusterInv'
<1>1. PICK q \in Pending :
        /\ run' = [run EXCEPT ![r] = q]
        /\ q.mode = "complete" => Disjoint(q.inputs)
  <2> DEFINE Q(mode, s) == [mode |-> mode, inputs |-> s]
  <2>1. ASSUME NEW mode \in {"complete", "partial"}, NEW s \in Seq(Input)
        PROVE  Q(mode, s) \in Pending /\ Q(mode, s).inputs = s
    BY DEF Pending
  <2>2. CASE \E f \in Clusterings(open) : \E s \in Inputs(f) :
               run' = [run EXCEPT ![r] = Q("complete", s)]
    <3>1. PICK f \in Clusterings(open) : \E s \in Inputs(f) :
                 run' = [run EXCEPT ![r] = Q("complete", s)]
      BY <2>2
    <3>2. PICK s \in Inputs(f) : run' = [run EXCEPT ![r] = Q("complete", s)]
      BY <3>1
    <3>3. s \in Seq(Input) /\ Disjoint(s)
      BY InputsSound DEF ClusterInv, TypeOK
    <3> HIDE DEF Q
    <3>4. QED
      BY <2>1, <3>2, <3>3
  <2>3. CASE \E threads \in SUBSET Threads : \E f \in Clusterings(threads) : \E s \in Inputs(f) :
               run' = [run EXCEPT ![r] = Q("partial", s)]
    <3>1. PICK threads \in SUBSET Threads : \E f \in Clusterings(threads) : \E s \in Inputs(f) :
                 run' = [run EXCEPT ![r] = Q("partial", s)]
      BY <2>3
    <3>2. PICK f \in Clusterings(threads) : \E s \in Inputs(f) :
                 run' = [run EXCEPT ![r] = Q("partial", s)]
      BY <3>1
    <3>3. PICK s \in Inputs(f) : run' = [run EXCEPT ![r] = Q("partial", s)]
      BY <3>2
    <3>4. s \in Seq(Input) /\ Disjoint(s)
      BY InputsSound
    <3> HIDE DEF Q
    <3>5. QED
      BY <2>1, <3>3, <3>4
  <2>4. QED
    BY <2>2, <2>3 DEF BuildClusters
<1>2. /\ UNCHANGED <<open, group, member, override, edits>>
      /\ runs' = runs + 1 /\ seen' = {}
  BY DEF BuildClusters
<1>3. run \in [Runners -> {Idle} \cup Pending] /\ RunsDisjoint
  BY DEF ClusterInv, TypeOK
<1>4. \A k \in Runners : run'[k] = IF k = r THEN q ELSE run[k]
  BY <1>1, <1>3
<1>5. run' \in [Runners -> {Idle} \cup Pending]
  BY <1>1, <1>3
<1>6. TypeOK'
  BY <1>2, <1>5 DEF ClusterInv, TypeOK
<1>7. RunsDisjoint'
  BY <1>1, <1>3, <1>4 DEF RunsDisjoint
<1>8. QED
  BY <1>2, <1>6, <1>7, DecisionsStay DEF ClusterInv

LEMMA RunEnds ==
  ASSUME ClusterInv, NEW r \in Runners, run' = [run EXCEPT ![r] = Idle]
  PROVE  RunsDisjoint' /\ run' \in [Runners -> {Idle} \cup Pending]
BY DEF ClusterInv, TypeOK, RunsDisjoint

LEMMA AbortKeeps ==
  ASSUME ClusterInv, NEW r \in Runners, AbortRun(r)
  PROVE  ClusterInv'
<1>1. /\ UNCHANGED <<open, group, member, override, runs, edits>>
      /\ run' = [run EXCEPT ![r] = Idle] /\ seen' = {}
  BY DEF AbortRun
<1>2. TypeOK'
  BY <1>1, RunEnds DEF ClusterInv, TypeOK
<1>3. QED
  BY <1>1, <1>2, RunEnds, DecisionsStay DEF ClusterInv


LEMMA SaveLeaves ==
  ASSUME ClusterInv, NEW r \in Runners, Save(r)
  PROVE  /\ run[r] \in Pending
         /\ \/ seen' = {} /\ UNCHANGED <<group, member>>
            \/ SavedInv(Archive', seen', run[r].inputs, run[r].mode)
<1>1. run[r] \in Pending
  BY DEF Save, ClusterInv, TypeOK
<1>2. run[r].inputs \in Seq(Input)
  BY <1>1 DEF Pending
<1>3. PICK first \in Threads :
        IF Saved(r, first).failed
        THEN /\ seen' = {}
             /\ UNCHANGED <<group, member>>
        ELSE /\ group' = Saved(r, first).archive.group
             /\ member' = Saved(r, first).archive.member
             /\ seen' = Saved(r, first).seen
  BY DEF Save
<1>4. SavedInv(Saved(r, first).archive, Saved(r, first).seen, run[r].inputs, run[r].mode)
  BY <1>2, SavedEffect, ArchiveIsTyped DEF ClusterInv
<1>5. CASE ~Saved(r, first).failed
  <2> DEFINE a == Saved(r, first).archive
  <2>1. a \in Archives
    BY <1>4 DEF SavedInv
  <2>2. Archive' = [group |-> a.group, member |-> a.member]
    BY <1>3, <1>5 DEF Archive
  <2>3. Archive' = a
    <3> HIDE DEF a
    <3>1. QED
      BY <2>1, <2>2 DEF Archives
  <2>4. QED
    BY <1>1, <1>3, <1>4, <1>5, <2>3
<1>6. QED
  BY <1>1, <1>3, <1>5

LEMMA SaveKeeps ==
  ASSUME ClusterInv, NEW r \in Runners, Save(r)
  PROVE  ClusterInv'
<1>1. /\ run' = [run EXCEPT ![r] = Idle]
      /\ UNCHANGED <<open, override, runs, edits>>
  BY DEF Save
<1>2. OverridesSound'
  BY <1>1 DEF ClusterInv, OverridesSound
<1>3. CASE seen' = {} /\ UNCHANGED <<group, member>>
  <2>1. TypeOK'
    BY <1>1, <1>3, RunEnds DEF ClusterInv, TypeOK
  <2>2. QED
    BY <1>1, <1>3, <2>1, RunEnds, DecisionsStay DEF ClusterInv
<1>4. CASE SavedInv(Archive', seen', run[r].inputs, run[r].mode)
  <2>1. /\ Archive' \in Archives /\ seen' \subseteq Threads
        /\ \A c, t \in Threads :
             "exclude" \in override'[c][t] => member'[c][t].state = "excluded"
        /\ \A c \in Threads : group'[c].closedLocally => group'[c].status = "closed"
    BY <1>1, <1>4 DEF SavedInv, Decided, Archive
  <2>2. group' \in [Threads -> Group] /\ member' \in [Threads -> [Threads -> Member]]
    BY <2>1 DEF Archive, Archives
  <2>3. TypeOK'
    BY <1>1, <2>1, <2>2, RunEnds DEF ClusterInv, TypeOK
  <2>4. Decided(Archive)'
    BY <2>1 DEF Decided, Archive
  <2>5. (\A c \in seen : Represented(Archive, c))'
    BY <1>1, <1>4 DEF SavedInv, Represented, Visible, ActiveMembers, Canonicals, ActiveGroup,
                      Overridden, Archive
  <2>6. QED
    BY <1>1, <1>2, <2>3, <2>4, <2>5, RunEnds DEF ClusterInv
<1>5. QED
  BY <1>3, <1>4, SaveLeaves

-----------------------------------------------------------------------------
(* Governance                                                               *)

LEMMA EditFrame ==
  ASSUME ClusterInv, Edit,
         open' \subseteq Threads, Archive' \in Archives, OverridesSound', Decided(Archive)'
  PROVE  ClusterInv'
<1>1. group' \in [Threads -> Group] /\ member' \in [Threads -> [Threads -> Member]]
  BY DEF Archive, Archives
<1>2. TypeOK'
  BY <1>1 DEF ClusterInv, TypeOK, Edit, OverridesSound
<1>3. RunsDisjoint' /\ seen' = {}
  BY DEF ClusterInv, Edit, RunsDisjoint
<1>4. QED
  BY <1>2, <1>3 DEF ClusterInv

LEMMA ThreadsKeep ==
  ASSUME ClusterInv, NEW t \in Threads, CloseOrReopenThread(t)
  PROVE  ClusterInv'
<1>1. Archive' = Archive /\ open' \subseteq Threads /\ Edit
      /\ UNCHANGED <<group, member, override>>
  BY DEF CloseOrReopenThread, Archive, ClusterInv, TypeOK
<1>2. QED
  BY <1>1, DecisionsStay, EditFrame, ArchiveIsTyped DEF ClusterInv

(* A cluster is closed, or active again.                                    *)
LEMMA ClosingKeeps ==
  ASSUME ClusterInv, NEW c \in Threads, CloseClusterLocally(c) \/ ReopenClusterLocally(c)
  PROVE  ClusterInv'
<1> DEFINE Closed(g, status, locally) == [g EXCEPT !.status = status, !.closedLocally = locally]
<1>1. PICK status \in {"closed", "active"}, locally \in BOOLEAN :
        /\ group' = [group EXCEPT ![c].status = status, ![c].closedLocally = locally]
        /\ locally => status = "closed"
  BY DEF CloseClusterLocally, ReopenClusterLocally
<1>2. Edit /\ UNCHANGED <<open, member, override>>
  BY DEF CloseClusterLocally, ReopenClusterLocally
<1>3. group \in [Threads -> Group]
  BY DEF ClusterInv, TypeOK
<1>4. group' = [group EXCEPT ![c] = Closed(group[c], status, locally)]
  BY <1>1, <1>3
<1>5. /\ Closed(group[c], status, locally) \in Group
      /\ Closed(group[c], status, locally).status = status
      /\ Closed(group[c], status, locally).closedLocally = locally
  BY <1>3 DEF Group
<1> HIDE DEF Closed
<1>6. group' \in [Threads -> Group]
  BY <1>3, <1>4, <1>5
<1>7. \A d \in Threads : group'[d].closedLocally => group'[d].status = "closed"
  BY <1>1, <1>3, <1>4, <1>5 DEF ClusterInv, Decided, Archive
<1>8. Archive' \in Archives
  BY <1>2, <1>6 DEF ClusterInv, TypeOK, Archive, Archives
<1>9. OverridesSound' /\ Decided(Archive)'
  BY <1>2, <1>7 DEF ClusterInv, OverridesSound, Decided, Archive
<1>10. open' \subseteq Threads
  BY <1>2 DEF ClusterInv, TypeOK
<1>11. QED
  BY <1>2, <1>8, <1>9, <1>10, EditFrame

(* A member's state and its overrides change together.                      *)
LEMMA OverrideKeeps ==
  ASSUME ClusterInv, NEW c \in Threads, NEW t \in Threads,
         NEW state \in States, NEW actions \in SUBSET Actions,
         OverrideMember(c, t, state, actions),
         "exclude" \in actions => actions = {"exclude"} /\ state = "excluded",
         "canonical" \in actions => "canonical" \in override[c][t]
  PROVE  ClusterInv'
<1> DEFINE row == SetState(member[c][t], state)
           m   == [member[c] EXCEPT ![t] = row]
           a   == WithMembers(Archive, c, m)
<1>1. /\ Edit /\ open' = open
      /\ override' = [override EXCEPT ![c][t] = actions]
  BY DEF OverrideMember
<1>2. member \in [Threads -> [Threads -> Member]] /\ Archive \in Archives
  BY ArchiveIsTyped DEF ClusterInv, TypeOK
<1>3. row \in Member /\ row.state = state
  BY <1>2, RowEffect, ArchiveParts DEF Archive
<1>4. [Archive EXCEPT !.member[c][t].state = state] = a
  BY DEF WithMembers, SetState, Archive
<1> HIDE DEF row
<1>5. /\ m \in [Threads -> Member] /\ m[t] = row
      /\ \A u \in Threads : u # t => m[u] = member[c][u]
  BY <1>2, <1>3
<1>6. a \in Archives /\ a.group = Archive.group /\ a.member[c] = m /\ SameElsewhere(Archive, a, c)
  BY <1>2, <1>5, MembersEffect
<1> HIDE DEF m, a
<1>7. PICK first \in Threads :
        LET b == ensureActiveClusterRepresentative(a, c, first)
        IN group' = b.group /\ member' = b.member
  BY <1>4 DEF OverrideMember
<1> DEFINE b == ensureActiveClusterRepresentative(a, c, first)
<1>8. /\ b \in Archives /\ b.member = a.member /\ SameElsewhere(a, b, c)
      /\ b.group[c].status = a.group[c].status
      /\ b.group[c].closedLocally = a.group[c].closedLocally
  BY <1>6, EnsureEffect
<1>9. Archive' = [group |-> b.group, member |-> b.member]
  BY <1>7 DEF Archive
<1> HIDE DEF b
<1>10. Archive' = b
  BY <1>8, <1>9 DEF Archives
<1>11. \A d, u \in Threads : override'[d][u] = IF d = c /\ u = t THEN actions ELSE override[d][u]
  BY <1>1 DEF ClusterInv, TypeOK
<1>12. OverridesSound'
  <2>1. override' \in [Threads -> [Threads -> SUBSET Actions]]
    BY <1>1 DEF ClusterInv, TypeOK
  <2>2. QED
    BY <2>1, <1>11 DEF ClusterInv, OverridesSound
<1>13. \A d, u \in Threads : b.member[d][u] = IF d = c /\ u = t THEN row ELSE member[d][u]
  BY <1>5, <1>6, <1>8 DEF SameElsewhere, Archive
<1>14. \A d \in Threads : b.group[d].closedLocally => b.group[d].status = "closed"
  BY <1>6, <1>8 DEF SameElsewhere, ClusterInv, Decided
<1>15. Decided(Archive)'
  <2>1. \A d, u \in Threads : "exclude" \in override'[d][u] => b.member[d][u].state = "excluded"
    BY <1>3, <1>11, <1>13 DEF ClusterInv, Decided, Archive
  <2>2. QED
    BY <2>1, <1>10, <1>14 DEF Decided
<1>16. open' \subseteq Threads /\ Archive' \in Archives
  BY <1>1, <1>8, <1>10 DEF ClusterInv, TypeOK
<1>17. QED
  BY <1>1, <1>12, <1>15, <1>16, EditFrame

LEMMA CanonicalKeeps ==
  ASSUME ClusterInv, NEW c \in Threads, NEW t \in Threads, SetClusterCanonicalLocally(c, t)
  PROVE  ClusterInv'
<1> DEFINE a == WithCanonical(Archive, c, t)
           b == WithRep(a, c, t)
<1>1. /\ Edit /\ open' = open /\ t \in ActiveMembers(Archive, c)
      /\ member' = a.member /\ group' = [group EXCEPT ![c].rep = t]
      /\ override' = [override EXCEPT ![c] = [u \in Threads |->
           IF u = t THEN (@[u] \ {"exclude"}) \cup {"canonical"} ELSE @[u] \ {"canonical"}]]
  BY DEF SetClusterCanonicalLocally
<1>2. Archive \in Archives
  BY ArchiveIsTyped DEF ClusterInv
<1>3. /\ a \in Archives /\ a.group = Archive.group /\ SameElsewhere(Archive, a, c)
      /\ \A u \in Threads : a.member[c][u].state = member[c][u].state
  BY <1>2, WithCanonicalEffect DEF Archive
<1> HIDE DEF a
<1>4. /\ b \in Archives /\ b.member = a.member /\ SameElsewhere(a, b, c)
      /\ b.group[c].status = a.group[c].status
      /\ b.group[c].closedLocally = a.group[c].closedLocally
  BY <1>3, WithRepEffect
<1>5. Archive' = b
  <2>1. b.group = [a.group EXCEPT ![c].rep = t]
    BY <1>3 DEF WithRep, Archives
  <2>2. b.group = group'
    BY <1>1, <1>3, <2>1 DEF Archive
  <2>3. Archive' = [group |-> b.group, member |-> b.member]
    BY <1>1, <1>4, <2>2 DEF Archive
  <2> HIDE DEF b
  <2>4. QED
    BY <1>4, <2>3 DEF Archives
<1> HIDE DEF b
<1>6. \A d, u \in Threads :
        /\ d # c => override'[d][u] = override[d][u]
        /\ d = c /\ u # t => override'[d][u] = override[d][u] \ {"canonical"}
        /\ d = c /\ u = t =>
             override'[d][u] = (override[d][u] \ {"exclude"}) \cup {"canonical"}
  BY <1>1 DEF ClusterInv, TypeOK
<1>7. OverridesSound'
  <2>1. override' \in [Threads -> [Threads -> SUBSET Actions]]
    BY <1>1 DEF ClusterInv, TypeOK, Actions
  <2>2. \A d, u \in Threads : "exclude" \in override'[d][u] => override'[d][u] = {"exclude"}
    <3>1. SUFFICES ASSUME NEW d \in Threads, NEW u \in Threads, "exclude" \in override'[d][u]
                   PROVE  override'[d][u] = {"exclude"}
      OBVIOUS
    <3>2. override[d][u] = {"exclude"} /\ ~(d = c /\ u = t)
      BY <3>1, <1>6 DEF ClusterInv, OverridesSound
    <3>3. QED
      BY <3>2, <1>6
  <2>3. \A d, u, v \in Threads :
          "canonical" \in override'[d][u] /\ "canonical" \in override'[d][v] => u = v
    <3>1. \A u \in Threads : "canonical" \in override'[c][u] => u = t
      BY <1>6
    <3>2. QED
      BY <3>1, <1>6 DEF ClusterInv, OverridesSound
  <2>4. QED
    BY <2>1, <2>2, <2>3 DEF OverridesSound
<1>8. Decided(Archive)'
  <2>1. \A d, u \in Threads : b.member[d][u].state = member[d][u].state
    BY <1>3, <1>4 DEF SameElsewhere, Archive
  <2>2. \A d, u \in Threads : "exclude" \in override'[d][u] => "exclude" \in override[d][u]
    BY <1>6
  <2>3. \A d, u \in Threads : "exclude" \in override'[d][u] => b.member[d][u].state = "excluded"
    BY <2>1, <2>2 DEF ClusterInv, Decided, Archive
  <2>4. \A d \in Threads : b.group[d].closedLocally => b.group[d].status = "closed"
    BY <1>3, <1>4 DEF SameElsewhere, ClusterInv, Decided
  <2>5. QED
    BY <2>3, <2>4, <1>5 DEF Decided
<1>9. open' \subseteq Threads /\ Archive' \in Archives
  BY <1>1, <1>4, <1>5 DEF ClusterInv, TypeOK
<1>10. QED
  BY <1>1, <1>7, <1>8, <1>9, EditFrame

-----------------------------------------------------------------------------
(* The theorems                                                             *)

LEMMA ClusterInvStep == ASSUME ClusterInv, [Next]_vars PROVE ClusterInv'
<1>1. CASE UNCHANGED vars
  <2>1. UNCHANGED <<open, group, member, override, run, seen, runs, edits>>
    BY <1>1 DEF vars
  <2>2. QED
    BY <2>1 DEF ClusterInv, TypeOK, OverridesSound, Decided, RunsDisjoint, Represented, Archive,
                Visible, ActiveMembers, Canonicals, ActiveGroup, Overridden
<1>2. ASSUME NEW r \in Runners, BuildClusters(r) \/ Save(r) \/ AbortRun(r) PROVE ClusterInv'
  BY <1>2, BuildKeeps, SaveKeeps, AbortKeeps
<1>3. ASSUME NEW t \in Threads, CloseOrReopenThread(t) PROVE ClusterInv'
  BY <1>3, ThreadsKeep
<1>4. ASSUME NEW c \in Threads, CloseClusterLocally(c) \/ ReopenClusterLocally(c) PROVE ClusterInv'
  BY <1>4, ClosingKeeps
<1>5. ASSUME NEW c \in Threads, NEW t \in Threads, ExcludeClusterMemberLocally(c, t)
      PROVE  ClusterInv'
  <2>1. {"exclude"} \in SUBSET Actions /\ "excluded" \in States
    BY DEF Actions, States
  <2>2. QED
    BY <1>5, <2>1, OverrideKeeps DEF ExcludeClusterMemberLocally
<1>6. ASSUME NEW c \in Threads, NEW t \in Threads, IncludeClusterMemberLocally(c, t)
      PROVE  ClusterInv'
  <2> DEFINE actions == (override[c][t] \ {"exclude"}) \cup {"include"}
  <2>1. actions \in SUBSET Actions /\ "active" \in States
    BY DEF ClusterInv, TypeOK, Actions, States
  <2>2. "exclude" \notin actions /\ ("canonical" \in actions => "canonical" \in override[c][t])
    OBVIOUS
  <2>3. OverrideMember(c, t, "active", actions)
    BY <1>6 DEF IncludeClusterMemberLocally
  <2> HIDE DEF actions
  <2>4. QED
    BY <2>1, <2>2, <2>3, OverrideKeeps
<1>7. ASSUME NEW c \in Threads, NEW t \in Threads, SetClusterCanonicalLocally(c, t)
      PROVE  ClusterInv'
  BY <1>7, CanonicalKeeps
<1>8. QED
  BY <1>1, <1>2, <1>3, <1>4, <1>5, <1>6, <1>7 DEF Next

LEMMA ClusterInvHolds == Spec => []ClusterInv
BY ClusterInvInit, ClusterInvStep, PTL DEF Spec

(* TypeOK: groups, memberships, overrides and pending runs hold values of   *)
(* their type whatever is saved, overridden, closed or reopened.            *)
THEOREM ClusterTypes == Spec => []TypeOK
<1>1. ClusterInv => TypeOK
  BY DEF ClusterInv
<1>2. QED
  BY <1>1, ClusterInvHolds, PTL

(* DecisionsHold: no save, complete or partial, undoes an exclusion or      *)
(* activates a cluster that was closed locally (upsertDurableCluster,       *)
(* applyClusterOverrides), for any number of runners, clusters and inputs.  *)
THEOREM DecisionsAlwaysHold == Spec => []DecisionsHold
<1>1. ClusterInv => DecisionsHold
  BY DEF ClusterInv, DecisionsHold, OverridesSound, Decided, Archive
<1>2. QED
  BY <1>1, ClusterInvHolds, PTL

(* RepresentativesHold: a cluster just saved is represented by a visible    *)
(* member, by the pinned one where that is possible, although its           *)
(* representative was chosen before the later inputs were saved.            *)
THEOREM RepresentativesAlwaysHold == Spec => []RepresentativesHold
<1>1. ClusterInv => RepresentativesHold
  BY DEF ClusterInv, RepresentativesHold, Represented, Archive
<1>2. QED
  BY <1>1, ClusterInvHolds, PTL

(* A run that ends kept its scope: a save that saved nothing changed        *)
(* nothing; one that saved, a partial one kept every member and active      *)
(* cluster, a complete one left every active cluster the members of one of  *)
(* its disjoint inputs and those a maintainer included.                     *)
LEMMA EndKeepsScope ==
  ASSUME ClusterInv, NEW r \in Runners, Save(r) \/ AbortRun(r)
  PROVE  IF run[r].mode = "partial" THEN KeepsTheRest ELSE seen' # {} => Partitions
<1>1. CASE seen' = {} /\ UNCHANGED <<group, member>>
  BY <1>1 DEF KeepsTheRest, Archive, ActiveMembers, ActiveGroup
<1>2. CASE run[r] \in Pending /\ SavedInv(Archive', seen', run[r].inputs, run[r].mode)
  <2>1. CASE run[r].mode = "partial"
    BY <1>2, <2>1 DEF SavedInv, KeepsTheRest
  <2>2. CASE run[r].mode # "partial"
    <3>1. Disjoint(run[r].inputs)
      <4>1. run[r].mode = "complete" /\ run[r] # Idle
        BY <1>2, <2>2 DEF Pending, Idle
      <4>2. QED
        BY <4>1 DEF ClusterInv, RunsDisjoint
    <3>2. ASSUME NEW t \in Threads, NEW c \in Threads, NEW d \in Threads,
                 c # d, ActiveGroup(Archive', c), ActiveGroup(Archive', d),
                 t \in ActiveMembers(Archive', c) \cap ActiveMembers(Archive', d),
                 "include" \notin override[c][t] \cup override[d][t]
          PROVE  FALSE
      <4>1. PICK i \in DOMAIN run[r].inputs :
              /\ run[r].inputs[i].key = c
              /\ ActiveMembers(Archive', c)
                   \subseteq run[r].inputs[i].members \cup Overridden(c, "include")
        BY <1>2, <2>2, <3>2 DEF SavedInv
      <4>2. PICK j \in DOMAIN run[r].inputs :
              /\ run[r].inputs[j].key = d
              /\ ActiveMembers(Archive', d)
                   \subseteq run[r].inputs[j].members \cup Overridden(d, "include")
        BY <1>2, <2>2, <3>2 DEF SavedInv
      <4>3. t \in run[r].inputs[i].members \cap run[r].inputs[j].members
        BY <3>2, <4>1, <4>2 DEF Overridden
      <4>4. QED
        BY <3>1, <3>2, <4>1, <4>2, <4>3 DEF Disjoint
    <3>3. QED
      BY <2>2, <3>2 DEF Partitions
  <2>3. QED
    BY <2>1, <2>2
<1>3. QED
  BY <1>1, <1>2, SaveLeaves DEF AbortRun

(* RunsKeepTheirScope: what a run did not see is none of its business when  *)
(* it is partial, and is in one active cluster only when it is complete.    *)
THEOREM RunsAlwaysKeepTheirScope == Spec => RunsKeepTheirScope
<1> DEFINE Step == \A r \in Runners : run[r] # Idle /\ run'[r] = Idle =>
                     IF run[r].mode = "partial" THEN KeepsTheRest ELSE seen' # {} => Partitions
<1>1. ASSUME ClusterInv, [Next]_vars PROVE [Step]_vars
  <2>1. SUFFICES ASSUME NEW r \in Runners, run[r] # Idle, run'[r] = Idle, Next
                 PROVE  IF run[r].mode = "partial" THEN KeepsTheRest ELSE seen' # {} => Partitions
    BY <1>1
  <2>2. run \in [Runners -> {Idle} \cup Pending] /\ run' \in [Runners -> {Idle} \cup Pending]
    BY <1>1, ClusterInvStep DEF ClusterInv, TypeOK
  <2>3. ASSUME NEW k \in Runners, BuildClusters(k) PROVE FALSE
    <3>1. run[k] = Idle /\ k # r
      BY <2>1, <2>3 DEF BuildClusters
    <3>2. run'[r] = run[r]
      BY <2>2, <2>3, <3>1 DEF BuildClusters
    <3>3. QED
      BY <2>1, <3>2
  <2>4. ASSUME NEW k \in Runners, Save(k) \/ AbortRun(k)
        PROVE  IF run[r].mode = "partial" THEN KeepsTheRest ELSE seen' # {} => Partitions
    <3>1. run' = [run EXCEPT ![k] = Idle]
      BY <2>4 DEF Save, AbortRun
    <3>2. k = r
      BY <2>1, <2>2, <3>1
    <3>3. QED
      BY <1>1, <2>4, <3>2, EndKeepsScope
  <2>5. ASSUME Edit PROVE FALSE
    BY <2>1, <2>5 DEF Edit
  <2>6. QED
    BY <2>1, <2>3, <2>4, <2>5
       DEF Next, CloseOrReopenThread, CloseClusterLocally, ReopenClusterLocally,
           ExcludeClusterMemberLocally, IncludeClusterMemberLocally, OverrideMember,
           SetClusterCanonicalLocally
<1> HIDE DEF Step
<1>2. QED
  BY <1>1, ClusterInvHolds, PTL DEF Spec, RunsKeepTheirScope, Step

=============================================================================
