---------------------------- MODULE Agents_proofs ----------------------------
(***************************************************************************)
(* The agents under a REPL, for any number of processes, any configuration *)
(* and any file system: what their sandbox keeps from them, that a depth   *)
(* is never exceeded, that an offer to delegate is honoured and that each  *)
(* agent is reported once.                                                 *)
(*                                                                         *)
(* The ancestors of a process are a recursive function over the tree of    *)
(* processes.  First comes what holds of it in any tree without a cycle,   *)
(* above all what a fork adds and what the end of a process takes away     *)
(* (AboveGrown, AboveCut); then an invariant in four pieces: the tree has  *)
(* no cycle and its inner nodes are alive (TreeInv), what the walk of an   *)
(* agent has counted and has still to look at is all above it (WalkInv)    *)
(* and no more than the prompt above it said (OfferInv), and what the REPL *)
(* knows of can be found or is lost for good (ReportInv).                  *)
(***************************************************************************)
EXTENDS Agents, Selection_proofs, FiniteSetTheorems

(***************************************************************************)
(* The sandbox.                                                            *)
(***************************************************************************)

(* A rule for both forms of a path is a rule for the place it leads to.    *)
LEMMA RuledBoth ==
  ASSUME NEW paths \in SUBSET Path
  PROVE  Ruled(BothForms(paths)) = Ruled(paths)
BY SandboxAssumption DEF Ruled, BothForms

(* The sandbox of an agent takes access away and gives none: what a child  *)
(* of a sandboxed process may do, the process may do (main.rs).            *)
THEOREM SandboxNeverWidens ==
  ASSUME NEW access \in Allowed, NEW config, NEW p \in Path
  PROVE  Applied(access, config)[p] \subseteq access[p]
<1>1. CASE config.enabled /\ Kernel # "None"
  BY <1>1 DEF Applied, Narrowed
<1>2. CASE ~(config.enabled /\ Kernel # "None")
  BY <1>2 DEF Applied
<1> QED BY <1>1, <1>2

(* Where an active sandbox allows writing, there is a writable path of the *)
(* configuration at or above the place, or, under Seatbelt, one of those   *)
(* that are always writable.                                               *)
THEOREM WritesStayInside ==
  ASSUME NEW access \in Allowed, NEW config, config.enabled, Kernel # "None",
         config.writable \in SUBSET Path, config.readable \in SUBSET Path,
         NEW p \in Path, MayWrite(Applied(access, config), p)
  PROVE  \/ Under(p, BothForms(config.writable))
         \/ Kernel = "Seatbelt" /\ Under(p, System)
<1> DEFINE policy == FromConfig(config)
<1>1. "write" \in AccessOf(policy)[p]
  BY DEF MayWrite, Applied, Narrowed
<1>2. policy.writable = BothForms(config.writable)
  BY DEF FromConfig
<1> HIDE DEF policy
<1>3. CASE Kernel = "Landlock"
  <2>1. "write" \in LandlockAccess(policy)[p]
    BY <1>1, <1>3 DEF AccessOf
  <2>2. Under(p, Ruled(policy.writable))
    BY <2>1 DEF LandlockAccess
  <2>3. Under(p, Ruled(config.writable))
    BY <2>2, <1>2, RuledBoth
  <2>4. Ruled(config.writable) \subseteq BothForms(config.writable)
    BY DEF Ruled, BothForms
  <2> QED BY <2>3, <2>4 DEF Under
<1>4. CASE Kernel = "Seatbelt"
  <2>1. "write" \in SeatbeltAccess(policy)[p]
    BY <1>1, <1>4 DEF AccessOf
  <2>2. Under(p, policy.writable \cup System)
    BY <2>1 DEF SeatbeltAccess
  <2> QED BY <2>2, <1>2, <1>4 DEF Under
<1> QED BY <1>3, <1>4, SandboxAssumption

(* A denied path that is no symlink is out of reach, with all that it      *)
(* holds: under Seatbelt always, under Landlock unless a writable or       *)
(* readable path is at or above the place, as landlock.rs says of itself.  *)
THEOREM DeniedIsDenied ==
  ASSUME NEW access \in Allowed, NEW config, config.enabled, Kernel # "None",
         config.writable \in SUBSET Path, config.readable \in SUBSET Path,
         NEW p \in Path, Under(p, config.denied),
         Kernel = "Landlock" =>
           ~Under(p, Ruled(config.writable) \cup Ruled(config.readable))
  PROVE  Applied(access, config)[p] = {}
<1> DEFINE policy == FromConfig(config)
<1>1. /\ policy.writable = BothForms(config.writable)
      /\ policy.readable = BothForms(config.readable)
      /\ policy.denied = config.denied
  BY DEF FromConfig
<1>2. Applied(access, config)[p] = access[p] \cap AccessOf(policy)[p]
  BY DEF Applied, Narrowed
<1> HIDE DEF policy
<1>3. CASE Kernel = "Landlock"
  <2>1. ~Under(p, Ruled(policy.writable)) /\ ~Under(p, Ruled(policy.readable))
    BY <1>1, <1>3, RuledBoth DEF Under
  <2>2. LandlockAccess(policy)[p] = {}
    BY <2>1 DEF LandlockAccess
  <2> QED BY <1>2, <2>2, <1>3 DEF AccessOf
<1>4. CASE Kernel = "Seatbelt"
  <2>1. SeatbeltAccess(policy)[p] = {}
    BY <1>1 DEF SeatbeltAccess
  <2> QED BY <1>2, <2>1, <1>4 DEF AccessOf
<1> QED BY <1>3, <1>4, SandboxAssumption

(* --sandbox-exec runs a command only under a policy (lib.rs).             *)
THEOREM ExecFailsClosed ==
  ASSUME NEW access \in Allowed, NEW policies, NEW allowed \in ExecSandboxed(access, policies)
  PROVE  /\ Kernel # "None"
         /\ \E policy \in policies : \A p \in Path :
              allowed[p] \subseteq access[p] \cap AccessOf(policy)[p]
<1>1. Kernel # "None" /\ \E policy \in policies : allowed = Narrowed(access, AccessOf(policy))
  BY DEF ExecSandboxed
<1> QED BY <1>1 DEF Narrowed

(***************************************************************************)
(* Trees.                                                                  *)
(***************************************************************************)

Tree == [Process -> Process \cup {NoPid}]

(* Ancestors, of any tree.                                                 *)
AboveIn(par, p) ==
  LET Above[q \in Process] ==
        IF par[q] = NoPid THEN {} ELSE {par[q]} \cup Above[par[q]]
  IN  Above[p]

(* A function that the definition of Ancestors describes.                  *)
IsAbove(par, f) ==
  f = [q \in Process |-> IF par[q] = NoPid THEN {} ELSE {par[q]} \cup f[par[q]]]

(* There is no cycle: a child is ranked above its parent.                  *)
Ranking(par, rank) ==
  /\ rank \in [Process -> Nat]
  /\ \A q \in Process : par[q] # NoPid => rank[par[q]] < rank[q]

Ranked(par) == \E rank \in [Process -> Nat] : Ranking(par, rank)

(* What holds of a process if it holds of its parent holds of all.         *)
LEMMA TreeInduction ==
  ASSUME NEW par \in Tree, Ranked(par), NEW S,
         \A q \in Process : par[q] = NoPid \/ par[q] \in S => q \in S
  PROVE  \A q \in Process : q \in S
<1>1. PICK rank \in [Process -> Nat] : Ranking(par, rank)
  BY DEF Ranked
<1> DEFINE Missing == {rank[q] : q \in Process \ S}
<1>2. SUFFICES ASSUME NEW x \in Process, x \notin S
               PROVE  FALSE
  OBVIOUS
<1>3. Missing \in SUBSET Nat /\ Missing # {}
  BY <1>2
<1>4. PICK least \in Missing : \A n \in Missing : least <= n
  <2> HIDE DEF Missing
  <2> QED BY <1>3, LeastNumber
<1>5. PICK q \in Process \ S : least = rank[q]
  BY <1>4
<1>6. par[q] # NoPid /\ par[q] \in Process /\ par[q] \notin S
  BY <1>5 DEF Tree
<1>7. rank[par[q]] \in Missing /\ rank[par[q]] < rank[q]
  BY <1>1, <1>6 DEF Ranking
<1>8. rank[par[q]] \in Nat /\ rank[q] \in Nat
  BY <1>1, <1>6
<1> QED BY <1>4, <1>5, <1>7, <1>8

(* There is such a function: what is in every set that is closed upwards.  *)
LEMMA AboveExists ==
  ASSUME NEW par \in Tree
  PROVE  \E f : IsAbove(par, f)
<1> DEFINE Closed(T) == \A t \in T : par[t] # NoPid => par[t] \in T
           Closure(p) == {x \in Process : \A T \in SUBSET Process :
                                            p \in T /\ Closed(T) => x \in T}
           f == [q \in Process |-> IF par[q] = NoPid THEN {} ELSE Closure(par[q])]
<1>1. ASSUME NEW q \in Process, par[q] # NoPid
      PROVE  Closure(par[q]) = {par[q]} \cup f[par[q]]
  <2> DEFINE p == par[q]
  <2>1. p \in Process
    BY <1>1 DEF Tree
  <2>2. f[p] = IF par[p] = NoPid THEN {} ELSE Closure(par[p])
    BY <2>1
  <2>3. ASSUME NEW x \in {p} \cup f[p]
        PROVE  x \in Closure(p)
    <3>1. x = p \/ (par[p] # NoPid /\ x \in Closure(par[p]))
      BY <2>2, <2>3
    <3>2. x \in Process
      BY <3>1, <2>1
    <3>3. ASSUME NEW T \in SUBSET Process, p \in T, Closed(T)
          PROVE  x \in T
      <4>1. par[p] # NoPid => par[p] \in T
        BY <3>3
      <4> QED BY <3>1, <4>1, <3>3
    <3> QED BY <3>2, <3>3
  <2>4. ASSUME NEW x \in Closure(p)
        PROVE  x \in {p} \cup f[p]
    <3> DEFINE T == {p} \cup f[p]
    <3>1. T \in SUBSET Process
      BY <2>1, <2>2
    <3>2. ASSUME NEW t \in T, par[t] # NoPid
          PROVE  par[t] \in T
      <4>1. t \in Process /\ par[t] \in Process
        BY <3>1, <3>2 DEF Tree
      <4>2. CASE t = p
        <5>1. par[p] \in Closure(par[p])
          BY <4>1, <4>2
        <5> QED BY <4>2, <2>2, <5>1, <3>2
      <4>3. CASE t # p
        <5>1. par[p] # NoPid /\ t \in Closure(par[p])
          BY <4>3, <2>2
        <5>2. ASSUME NEW U \in SUBSET Process, par[p] \in U, Closed(U)
              PROVE  par[t] \in U
          <6>1. t \in U
            BY <5>1, <5>2
          <6> QED BY <6>1, <5>2, <3>2
        <5>3. par[t] \in Closure(par[p])
          BY <4>1, <5>2
        <5> QED BY <5>1, <5>3, <2>2
      <4> QED BY <4>2, <4>3
    <3>3. Closed(T) /\ p \in T
      <4> HIDE DEF T, p, f
      <4> USE DEF T
      <4> QED BY <3>2
    <3> HIDE DEF T
    <3>4. x \in T
      BY <3>1, <3>3, <2>4
    <3> QED BY <3>4 DEF T
  <2> QED BY <2>3, <2>4
<1>2. ASSUME NEW q \in Process
      PROVE  f[q] = IF par[q] = NoPid THEN {} ELSE {par[q]} \cup f[par[q]]
  <2>1. f[q] = IF par[q] = NoPid THEN {} ELSE Closure(par[q])
    OBVIOUS
  <2> HIDE DEF f, Closure
  <2> QED BY <2>1, <1>1
<1>3. f = [q \in Process |-> f[q]]
  OBVIOUS
<1>4. f = [q \in Process |-> IF par[q] = NoPid THEN {} ELSE {par[q]} \cup f[par[q]]]
  <2> DEFINE g == [q \in Process |-> IF par[q] = NoPid THEN {} ELSE {par[q]} \cup f[par[q]]]
  <2>1. \A q \in Process : f[q] = g[q]
    <3> HIDE DEF f
    <3> QED BY <1>2
  <2>2. [q \in Process |-> f[q]] = [q \in Process |-> g[q]]
    <3> HIDE DEF f, g
    <3> QED BY <2>1
  <2>3. g = [q \in Process |-> g[q]]
    <3> HIDE DEF f
    <3> QED OBVIOUS
  <2> HIDE DEF g
  <2> HIDE DEF f
  <2>4. f = g
    BY <2>2, <2>3, <1>3
  <2> QED BY <2>4 DEF g
<1> HIDE DEF f
<1> QED BY <1>4 DEF IsAbove

(* Ancestors are the parent and the ancestors of the parent.               *)
LEMMA AboveUnfolds ==
  ASSUME NEW par \in Tree, NEW q \in Process
  PROVE  AboveIn(par, q) = IF par[q] = NoPid THEN {} ELSE {par[q]} \cup AboveIn(par, par[q])
<1> DEFINE f == CHOOSE g : IsAbove(par, g)
<1>1. IsAbove(par, f)
  BY AboveExists
<1>2. ASSUME NEW p
      PROVE  AboveIn(par, p) = f[p]
  BY DEF AboveIn, IsAbove
<1> HIDE DEF f
<1>3. f[q] = IF par[q] = NoPid THEN {} ELSE {par[q]} \cup f[par[q]]
  BY <1>1 DEF IsAbove
<1>4. AboveIn(par, q) = f[q] /\ AboveIn(par, par[q]) = f[par[q]]
  BY <1>2
<1> QED BY <1>3, <1>4

Unfolds(par, g) ==
  \A q \in Process : g[q] = IF par[q] = NoPid THEN {} ELSE {par[q]} \cup g[par[q]]

(* and nothing else is like that.                                          *)
LEMMA AboveUnique ==
  ASSUME NEW par \in Tree, Ranked(par), NEW g, Unfolds(par, g)
  PROVE  \A q \in Process : AboveIn(par, q) = g[q]
<1> DEFINE S == {q \in Process : AboveIn(par, q) = g[q]}
<1>1. ASSUME NEW q \in Process, par[q] = NoPid \/ par[q] \in S
      PROVE  q \in S
  <2>1. par[q] # NoPid => AboveIn(par, par[q]) = g[par[q]]
    BY <1>1
  <2>2. AboveIn(par, q) = IF par[q] = NoPid THEN {} ELSE {par[q]} \cup AboveIn(par, par[q])
    BY AboveUnfolds
  <2>3. g[q] = IF par[q] = NoPid THEN {} ELSE {par[q]} \cup g[par[q]]
    BY DEF Unfolds
  <2>4. AboveIn(par, q) = g[q]
    BY <2>1, <2>2, <2>3
  <2> QED BY <2>4
<1> HIDE DEF S
<1>2. \A q \in Process : q \in S
  BY <1>1, TreeInduction
<1> QED BY <1>2 DEF S

(* The ancestors of a process are processes of a lower rank, and theirs are*)
(* its ancestors too.                                                      *)
LEMMA AboveRanked ==
  ASSUME NEW par \in Tree, NEW rank, Ranking(par, rank), NEW q \in Process, NEW x \in AboveIn(par, q)
  PROVE  x \in Process /\ rank[x] < rank[q]
<1> DEFINE S == {p \in Process : \A y \in AboveIn(par, p) : y \in Process /\ rank[y] < rank[p]}
<1>1. ASSUME NEW p \in Process, par[p] = NoPid \/ par[p] \in S
      PROVE  p \in S
  <2>1. SUFFICES ASSUME NEW y \in AboveIn(par, p)
                 PROVE  y \in Process /\ rank[y] < rank[p]
    OBVIOUS
  <2>2. par[p] # NoPid /\ (y = par[p] \/ y \in AboveIn(par, par[p]))
    BY <2>1, AboveUnfolds
  <2>3. par[p] \in Process /\ rank[par[p]] < rank[p]
    BY <2>2 DEF Tree, Ranking
  <2>4. y \in AboveIn(par, par[p]) => y \in Process /\ rank[y] < rank[par[p]]
    BY <1>1, <2>2
  <2>5. y \in Process
    BY <2>2, <2>3, <2>4
  <2>6. rank[y] \in Nat /\ rank[p] \in Nat /\ rank[par[p]] \in Nat
    BY <2>3, <2>5 DEF Ranking
  <2> QED BY <2>2, <2>3, <2>4, <2>5, <2>6
<1> HIDE DEF S
<1>2. Ranked(par)
  BY DEF Ranked, Ranking
<1>3. \A p \in Process : p \in S
  BY <1>1, <1>2, TreeInduction
<1> QED BY <1>3 DEF S

(* The ancestors of an ancestor are ancestors, and nobody is above itself. *)
LEMMA AboveTransitive ==
  ASSUME NEW par \in Tree, Ranked(par), NEW q \in Process, NEW x \in AboveIn(par, q)
  PROVE  /\ x \in Process /\ x # q
         /\ AboveIn(par, x) \subseteq AboveIn(par, q)
         /\ q \notin AboveIn(par, x)
         /\ x \notin AboveIn(par, x)
<1>1. PICK rank \in [Process -> Nat] : Ranking(par, rank)
  BY DEF Ranked
<1>2. x \in Process /\ rank[x] < rank[q]
  BY <1>1, AboveRanked
<1>3. rank[x] \in Nat /\ rank[q] \in Nat
  BY <1>1, <1>2
<1>4. q \in AboveIn(par, x) => rank[q] < rank[x]
  BY <1>1, <1>2, AboveRanked
<1>5. x \in AboveIn(par, x) => rank[x] < rank[x]
  BY <1>1, <1>2, AboveRanked
<1> DEFINE S == {p \in Process : \A y \in AboveIn(par, p) : AboveIn(par, y) \subseteq AboveIn(par, p)}
<1>6. ASSUME NEW p \in Process, par[p] = NoPid \/ par[p] \in S
      PROVE  p \in S
  <2>1. SUFFICES ASSUME NEW y \in AboveIn(par, p)
                 PROVE  AboveIn(par, y) \subseteq AboveIn(par, p)
    OBVIOUS
  <2>2. /\ par[p] # NoPid /\ (y = par[p] \/ y \in AboveIn(par, par[p]))
        /\ AboveIn(par, p) = {par[p]} \cup AboveIn(par, par[p])
    BY <2>1, AboveUnfolds
  <2> QED BY <2>2, <1>6
<1> HIDE DEF S
<1>7. \A p \in Process : p \in S
  BY <1>6, TreeInduction
<1>8. AboveIn(par, x) \subseteq AboveIn(par, q)
  BY <1>7 DEF S
<1> QED BY <1>2, <1>3, <1>4, <1>5, <1>8

(* An ancestor has a child on the way.                                     *)
LEMMA AboveHasChild ==
  ASSUME NEW par \in Tree, Ranked(par), NEW q \in Process, NEW x \in AboveIn(par, q)
  PROVE  \E c \in Process : par[c] = x /\ x # NoPid
<1> DEFINE S == {p \in Process : \A y \in AboveIn(par, p) : \E c \in Process : par[c] = y /\ y # NoPid}
<1>1. ASSUME NEW p \in Process, par[p] = NoPid \/ par[p] \in S
      PROVE  p \in S
  <2>1. SUFFICES ASSUME NEW y \in AboveIn(par, p)
                 PROVE  \E c \in Process : par[c] = y /\ y # NoPid
    OBVIOUS
  <2>2. par[p] # NoPid /\ (y = par[p] \/ y \in AboveIn(par, par[p]))
    BY <2>1, AboveUnfolds
  <2> QED BY <1>1, <2>2
<1> HIDE DEF S
<1>2. \A p \in Process : p \in S
  BY <1>1, TreeInduction
<1> QED BY <1>2 DEF S

(* There are finitely many.                                                *)
LEMMA AboveFinite ==
  ASSUME NEW par \in Tree, Ranked(par), NEW q \in Process
  PROVE  IsFiniteSet(AboveIn(par, q))
<1> DEFINE S == {p \in Process : IsFiniteSet(AboveIn(par, p))}
<1>1. ASSUME NEW p \in Process, par[p] = NoPid \/ par[p] \in S
      PROVE  p \in S
  <2>1. CASE par[p] = NoPid
    BY <2>1, AboveUnfolds, FS_EmptySet
  <2>2. CASE par[p] # NoPid
    <3>1. AboveIn(par, p) = AboveIn(par, par[p]) \cup {par[p]}
      BY <2>2, AboveUnfolds
    <3>2. IsFiniteSet(AboveIn(par, par[p]))
      BY <1>1, <2>2
    <3> QED BY <3>1, <3>2, FS_AddElement
  <2> QED BY <2>1, <2>2
<1> HIDE DEF S
<1>2. \A p \in Process : p \in S
  BY <1>1, TreeInduction
<1> QED BY <1>2 DEF S

(* Two ancestors of a process are one above the other.                     *)
LEMMA AboveIsChain ==
  ASSUME NEW par \in Tree, Ranked(par), NEW q \in Process,
         NEW x \in AboveIn(par, q), NEW y \in AboveIn(par, q)
  PROVE  x = y \/ x \in AboveIn(par, y) \/ y \in AboveIn(par, x)
<1> DEFINE S == {p \in Process : \A v, w \in AboveIn(par, p) :
                   v = w \/ v \in AboveIn(par, w) \/ w \in AboveIn(par, v)}
<1>1. ASSUME NEW p \in Process, par[p] = NoPid \/ par[p] \in S
      PROVE  p \in S
  <2>1. SUFFICES ASSUME NEW v \in AboveIn(par, p), NEW w \in AboveIn(par, p)
                 PROVE  v = w \/ v \in AboveIn(par, w) \/ w \in AboveIn(par, v)
    OBVIOUS
  <2>2. /\ par[p] # NoPid
        /\ v = par[p] \/ v \in AboveIn(par, par[p])
        /\ w = par[p] \/ w \in AboveIn(par, par[p])
    BY <2>1, AboveUnfolds
  <2> QED BY <1>1, <2>2
<1> HIDE DEF S
<1>2. \A p \in Process : p \in S
  BY <1>1, TreeInduction
<1> QED BY <1>2 DEF S

(* The tree when p has got the child q.                                    *)
With(par, p, q) == [par EXCEPT ![q] = p]

(* A process that has no parent and no children gets a parent: it has the  *)
(* ancestors of the parent, and nobody else others than before.            *)
LEMMA AboveGrown ==
  ASSUME NEW par \in Tree, Ranked(par), NEW p \in Process, NEW q \in Process, p # q,
         par[q] = NoPid, \A c \in Process : par[c] # q
  PROVE  /\ With(par, p, q) \in Tree /\ Ranked(With(par, p, q))
         /\ AboveIn(With(par, p, q), q) = {p} \cup AboveIn(par, p)
         /\ \A x \in Process : x # q => AboveIn(With(par, p, q), x) = AboveIn(par, x)
<1> DEFINE grown == With(par, p, q)
<1>1. grown \in Tree /\ p # NoPid
  BY AgentsAssumption DEF Tree, Process, With
<1>2. /\ grown[q] = p
      /\ \A x \in Process : x # q => grown[x] = par[x]
  BY DEF Tree, With
<1> HIDE DEF grown
<1>3. PICK rank \in [Process -> Nat] : Ranking(par, rank)
  BY DEF Ranked
<1> DEFINE higher == [rank EXCEPT ![q] = rank[p] + 1]
<1>4. higher \in [Process -> Nat] /\ higher[q] = rank[p] + 1 /\ \A x \in Process : x # q => higher[x] = rank[x]
  OBVIOUS
<1> HIDE DEF higher
<1>5. ASSUME NEW x \in Process, grown[x] # NoPid
      PROVE  higher[grown[x]] < higher[x]
  <2>1. CASE x = q
    <3>1. grown[x] = p /\ higher[p] = rank[p] /\ higher[x] = rank[p] + 1 /\ rank[p] \in Nat
      BY <2>1, <1>2, <1>3, <1>4
    <3> QED BY <3>1
  <2>2. CASE x # q
    <3>1. grown[x] = par[x] /\ par[x] \in Process /\ par[x] # q
      BY <2>2, <1>2, <1>5 DEF Tree
    <3>2. higher[x] = rank[x] /\ higher[par[x]] = rank[par[x]]
      BY <2>2, <3>1, <1>4
    <3>3. rank[par[x]] < rank[x]
      BY <1>3, <1>5, <3>1 DEF Ranking
    <3> QED BY <3>1, <3>2, <3>3
  <2> QED BY <2>1, <2>2
<1>6. Ranked(grown)
  BY <1>4, <1>5 DEF Ranked, Ranking
<1> DEFINE g == [x \in Process |-> IF x = q THEN {p} \cup AboveIn(par, p) ELSE AboveIn(par, x)]
<1>7. ASSUME NEW x \in Process
      PROVE  g[x] = IF grown[x] = NoPid THEN {} ELSE {grown[x]} \cup g[grown[x]]
  <2>1. CASE x = q
    <3>1. g[p] = AboveIn(par, p)
      OBVIOUS
    <3>2. g[x] = {p} \cup AboveIn(par, p)
      BY <2>1
    <3> HIDE DEF g
    <3> QED BY <2>1, <3>1, <3>2, <1>1, <1>2
  <2>2. CASE x # q
    <3>1. grown[x] = par[x] /\ g[x] = AboveIn(par, x)
      BY <2>2, <1>2
    <3>2. ASSUME par[x] # NoPid
          PROVE  g[par[x]] = AboveIn(par, par[x])
      <4>1. par[x] \in Process /\ par[x] # q
        BY <3>2 DEF Tree
      <4> QED BY <4>1
    <3> HIDE DEF g
    <3>3. AboveIn(par, x) = IF par[x] = NoPid THEN {} ELSE {par[x]} \cup AboveIn(par, par[x])
      BY AboveUnfolds
    <3> QED BY <3>1, <3>2, <3>3
  <2> QED BY <2>1, <2>2
<1>8. \A x \in Process : g[x] = IF x = q THEN {p} \cup AboveIn(par, p) ELSE AboveIn(par, x)
  OBVIOUS
<1> HIDE DEF g
<1>9. \A x \in Process : AboveIn(grown, x) = g[x]
  <2>1. Unfolds(grown, g)
    BY <1>7 DEF Unfolds
  <2> QED BY <1>1, <1>6, <2>1, AboveUnique
<1> QED BY <1>1, <1>6, <1>8, <1>9 DEF grown

(* The tree when d has ended.                                              *)
Without(par, d) == [q \in Process |-> IF q = d \/ par[q] = d THEN NoPid ELSE par[q]]

(* Who was below d loses d and all above it, nobody else anything.         *)
LEMMA AboveCut ==
  ASSUME NEW par \in Tree, Ranked(par), NEW d \in Process
  PROVE  /\ Without(par, d) \in Tree /\ Ranked(Without(par, d))
         /\ AboveIn(Without(par, d), d) = {}
         /\ \A x \in Process : x # d => AboveIn(Without(par, d), x) =
              IF d \in AboveIn(par, x) THEN AboveIn(par, x) \ ({d} \cup AboveIn(par, d))
              ELSE AboveIn(par, x)
<1> DEFINE cut == Without(par, d)
<1>1. /\ cut \in Tree
      /\ \A q \in Process : cut[q] = IF q = d \/ par[q] = d THEN NoPid ELSE par[q]
  BY DEF Without, Tree
<1> HIDE DEF cut
<1>2. PICK rank \in [Process -> Nat] : Ranking(par, rank)
  BY DEF Ranked
<1>3. Ranking(cut, rank)
  BY <1>1, <1>2 DEF Ranking
<1>4. Ranked(cut)
  BY <1>3 DEF Ranked
<1> DEFINE Rest(x) == IF x = d THEN {}
                      ELSE IF d \in AboveIn(par, x) THEN AboveIn(par, x) \ ({d} \cup AboveIn(par, d))
                      ELSE AboveIn(par, x)
           g == [x \in Process |-> Rest(x)]
<1>5. ASSUME NEW x \in Process
      PROVE  Rest(x) = IF cut[x] = NoPid THEN {} ELSE {cut[x]} \cup Rest(cut[x])
  <2>1. CASE x = d
    BY <2>1, <1>1
  <2>2. CASE x # d /\ par[x] = NoPid
    <3>1. AboveIn(par, x) = {}
      BY <2>2, AboveUnfolds
    <3>2. cut[x] = NoPid
      BY <2>2, <1>1
    <3> QED BY <2>2, <3>1, <3>2
  <2>3. CASE x # d /\ par[x] = d
    <3>1. d # NoPid
      BY AgentsAssumption DEF Process
    <3>2. AboveIn(par, x) = {d} \cup AboveIn(par, d)
      BY <2>3, <3>1, AboveUnfolds
    <3>3. cut[x] = NoPid
      BY <2>3, <1>1
    <3> QED BY <2>3, <3>2, <3>3
  <2>4. CASE x # d /\ par[x] # NoPid /\ par[x] # d
    <3> DEFINE y == par[x]
    <3>1. cut[x] = y /\ y \in Process /\ y # d /\ y # NoPid
      BY <2>4, <1>1 DEF Tree
    <3>2. AboveIn(par, x) = {y} \cup AboveIn(par, y)
      BY <2>4, AboveUnfolds
    <3> HIDE DEF y
    <3>3. CASE d \in AboveIn(par, y)
      <4>1. y \notin AboveIn(par, d)
        BY <3>1, <3>3, AboveTransitive
      <4>2. Rest(x) = AboveIn(par, x) \ ({d} \cup AboveIn(par, d))
        BY <2>4, <3>2, <3>3
      <4>3. Rest(y) = AboveIn(par, y) \ ({d} \cup AboveIn(par, d))
        BY <3>1, <3>3
      <4> HIDE DEF Rest
      <4> QED BY <3>1, <3>2, <4>1, <4>2, <4>3
    <3>4. CASE d \notin AboveIn(par, y)
      <4>1. Rest(x) = AboveIn(par, x)
        BY <2>4, <3>1, <3>2, <3>4
      <4>2. Rest(y) = AboveIn(par, y)
        BY <3>1, <3>4
      <4> HIDE DEF Rest
      <4> QED BY <3>1, <3>2, <4>1, <4>2
    <3> QED BY <3>3, <3>4
  <2> QED BY <2>1, <2>2, <2>3, <2>4
<1>6. ASSUME NEW x \in Process
      PROVE  g[x] = Rest(x)
  OBVIOUS
<1>7. ASSUME NEW x \in Process
      PROVE  g[x] = IF cut[x] = NoPid THEN {} ELSE {cut[x]} \cup g[cut[x]]
  <2>1. cut[x] # NoPid => cut[x] \in Process
    BY <1>1 DEF Tree
  <2> HIDE DEF g, Rest
  <2> QED BY <2>1, <1>5, <1>6
<1> HIDE DEF g
<1>8. \A x \in Process : AboveIn(cut, x) = g[x]
  <2>1. Unfolds(cut, g)
    BY <1>7 DEF Unfolds
  <2> QED BY <1>1, <1>4, <2>1, AboveUnique
<1>9. \A x \in Process : AboveIn(cut, x) = Rest(x)
  <2> HIDE DEF Rest
  <2> QED BY <1>6, <1>8
<1> QED BY <1>1, <1>4, <1>9 DEF cut

(***************************************************************************)
(* The tree of processes.                                                  *)
(***************************************************************************)

Phases == {"Repl", "Unborn", "Forked", "Tool", "Starting", "Batch", "Ending", "Gone"}

TreeTyped ==
  /\ phase \in [Process -> Phases]
  /\ parent \in Tree
  /\ image \in [Process -> {"Agent", "Other"}]

(* Only the REPL, a tool and a running agent have children, and these are  *)
(* alive; a tool is no agent.                                              *)
TreeInv ==
  /\ TreeTyped
  /\ Ranked(parent)
  /\ phase[Repl] = "Repl" /\ parent[Repl] = NoPid /\ image[Repl] = "Agent"
  /\ \A q \in Pid : phase[q] # "Repl"
  /\ \A q \in Process : parent[q] # NoPid =>
       Exists(q) /\ phase[parent[q]] \in {"Repl", "Tool", "Batch"}
  /\ \A q \in Process : phase[q] = "Tool" => image[q] = "Other"

(* The ancestors in a state are those in its tree.                         *)
LEMMA AncestorsAbove ==
  ASSUME NEW p
  PROVE  Ancestors(p) = AboveIn(parent, p) /\ Ancestors(p)' = AboveIn(parent', p)
BY DEF Ancestors, AboveIn

(* The ancestors of a process are others, they are alive and run other     *)
(* programs than they started with, and theirs are its ancestors too.      *)
LEMMA AncestorsLive ==
  ASSUME TreeInv, NEW x \in Process, NEW y \in Ancestors(x)
  PROVE  /\ y \in Process /\ y # x
         /\ phase[y] \in {"Repl", "Tool", "Batch"} /\ Exists(y)
         /\ Ancestors(y) \subseteq Ancestors(x)
         /\ x \notin Ancestors(y) /\ y \notin Ancestors(y)
<1>1. parent \in Tree /\ Ranked(parent) /\ y \in AboveIn(parent, x)
  BY AncestorsAbove DEF TreeInv, TreeTyped
<1>2. /\ y \in Process /\ y # x
      /\ AboveIn(parent, y) \subseteq AboveIn(parent, x)
      /\ x \notin AboveIn(parent, y) /\ y \notin AboveIn(parent, y)
  BY <1>1, AboveTransitive
<1>3. PICK c \in Process : parent[c] = y /\ y # NoPid
  BY <1>1, AboveHasChild
<1>4. phase[y] \in {"Repl", "Tool", "Batch"}
  BY <1>3 DEF TreeInv
<1>5. Exists(y)
  BY <1>4 DEF Exists
<1> QED BY <1>2, <1>4, <1>5, AncestorsAbove

(* A process has finitely many ancestors.                                  *)
LEMMA AncestorsFinite ==
  ASSUME TreeInv, NEW x \in Process
  PROVE  IsFiniteSet(Ancestors(x)) /\ IsFiniteSet(AgentsAbove(x))
<1>1. IsFiniteSet(Ancestors(x))
  BY AboveFinite, AncestorsAbove DEF TreeInv, TreeTyped
<1>2. AgentsAbove(x) \in SUBSET Ancestors(x)
  BY DEF AgentsAbove
<1> QED BY <1>1, <1>2, FS_Subset

(* The ancestors of a process are its parent and the parent's.             *)
LEMMA AncestorsUnfold ==
  ASSUME TreeInv, NEW x \in Process
  PROVE  Ancestors(x) = IF parent[x] = NoPid THEN {} ELSE {parent[x]} \cup Ancestors(parent[x])
BY AboveUnfolds, AncestorsAbove DEF TreeInv, TreeTyped

(* Two ancestors of a process are one above the other.                     *)
LEMMA AncestorsChain ==
  ASSUME TreeInv, NEW x \in Process, NEW y \in Ancestors(x), NEW z \in Ancestors(x)
  PROVE  y = z \/ y \in Ancestors(z) \/ z \in Ancestors(y)
<1>1. parent \in Tree /\ Ranked(parent) /\ y \in AboveIn(parent, x) /\ z \in AboveIn(parent, x)
  BY AncestorsAbove DEF TreeInv, TreeTyped
<1>2. y = z \/ y \in AboveIn(parent, z) \/ z \in AboveIn(parent, y)
  BY <1>1, AboveIsChain
<1> QED BY <1>2, AncestorsAbove

(* A process that forks, or that is forked, is new to nobody else.         *)
LEMMA AncestorsForked ==
  ASSUME TreeInv, NEW p \in Process, NEW q \in Pid, Fork(p, q)
  PROVE  /\ parent' \in Tree /\ Ranked(parent')
         /\ Ancestors(q)' = {p} \cup Ancestors(p)
         /\ \A x \in Process : x # q => Ancestors(x)' = Ancestors(x)
         /\ \A x \in Process : q \notin Ancestors(x)
         /\ p # q
<1>1. parent \in Tree /\ Ranked(parent) /\ p # q /\ q \in Process
  BY DEF TreeInv, TreeTyped, Fork, Process
<1>2. parent[q] = NoPid /\ \A c \in Process : parent[c] # q
  BY <1>1, AgentsAssumption DEF TreeInv, Fork, Exists, Process
<1>3. parent' = With(parent, p, q)
  BY DEF Fork, With
<1>4. /\ parent' \in Tree /\ Ranked(parent')
      /\ AboveIn(parent', q) = {p} \cup AboveIn(parent, p)
      /\ \A x \in Process : x # q => AboveIn(parent', x) = AboveIn(parent, x)
  BY <1>1, <1>2, <1>3, AboveGrown
<1>5. ASSUME NEW x \in Process
      PROVE  q \notin Ancestors(x)
  BY AncestorsLive DEF Fork
<1> QED BY <1>1, <1>4, <1>5, AncestorsAbove

(* When a process ends, those below it lose it and all above it.           *)
LEMMA AncestorsEnded ==
  ASSUME TreeInv, NEW d \in Pid, Ends(d)
  PROVE  /\ parent' \in Tree /\ Ranked(parent')
         /\ Ancestors(d)' = {}
         /\ \A x \in Process : x # d => Ancestors(x)' =
              IF d \in Ancestors(x) THEN Ancestors(x) \ ({d} \cup Ancestors(d)) ELSE Ancestors(x)
<1>1. parent \in Tree /\ Ranked(parent) /\ d \in Process
  BY DEF TreeInv, TreeTyped, Process
<1>2. parent' = Without(parent, d)
  BY DEF Ends, Without
<1>3. /\ parent' \in Tree /\ Ranked(parent')
      /\ AboveIn(parent', d) = {}
      /\ \A x \in Process : x # d => AboveIn(parent', x) =
           IF d \in AboveIn(parent, x) THEN AboveIn(parent, x) \ ({d} \cup AboveIn(parent, d))
           ELSE AboveIn(parent, x)
  BY <1>1, <1>2, AboveCut
<1> QED BY <1>3, AncestorsAbove

(* While no process gets or loses a parent the ancestors are the same.     *)
LEMMA AncestorsKept ==
  ASSUME UNCHANGED parent
  PROVE  \A x : Ancestors(x)' = Ancestors(x)
BY AncestorsAbove

(* A running agent that has no children left is nobody's parent.           *)
LEMMA Childless ==
  ASSUME TreeInv, NEW p \in Pid, Children(p) = {}
  PROVE  \A q \in Process : parent[q] # p
<1>1. ASSUME NEW q \in Process, parent[q] = p
      PROVE  FALSE
  <2>1. p # NoPid
    BY AgentsAssumption
  <2>2. q \in Pid /\ Exists(q)
    BY <1>1, <2>1 DEF TreeInv, Process
  <2> QED BY <1>1, <2>2 DEF Children
<1> QED BY <1>1

(* Every step keeps the tree a tree.                                       *)
LEMMA TreeInvStep ==
  ASSUME TreeInv, [Next]_vars
  PROVE  TreeInv'
<1> USE DEF Process
<1> Repl \in Process /\ Pid \subseteq Process /\ Repl \notin Pid /\ NoPid \notin Process
  BY AgentsAssumption
<1> HIDE DEF Process
<1>1. ASSUME NEW p \in Process, NEW q \in Pid, Fork(p, q)
      PROVE  TreeInv'
  <2>1. parent' \in Tree /\ Ranked(parent')
    BY <1>1, AncestorsForked
  <2>2. /\ phase' = [phase EXCEPT ![q] = "Forked"]
        /\ parent' = [parent EXCEPT ![q] = p]
        /\ image' = [image EXCEPT ![q] = image[p]]
        /\ phase[p] \in {"Repl", "Tool", "Batch"} /\ phase[q] = "Unborn"
    BY <1>1 DEF Fork
  <2>3. TreeTyped'
    BY <2>1, <2>2 DEF TreeTyped, TreeInv, Phases
  <2>4. \A x \in Process : /\ phase'[x] = IF x = q THEN "Forked" ELSE phase[x]
                           /\ parent'[x] = IF x = q THEN p ELSE parent[x]
                           /\ image'[x] = IF x = q THEN image[p] ELSE image[x]
    BY <2>2 DEF TreeInv, TreeTyped, Tree
  <2>5. ASSUME NEW x \in Process, parent'[x] # NoPid
        PROVE  Exists(x)' /\ phase'[parent'[x]] \in {"Repl", "Tool", "Batch"}
    <3>1. CASE x = q
      BY <3>1, <2>2, <2>4 DEF Exists
    <3>2. CASE x # q
      <4>1. parent'[x] = parent[x] /\ phase'[x] = phase[x] /\ parent[x] # NoPid
        BY <3>2, <2>4, <2>5
      <4>2. Exists(x) /\ phase[parent[x]] \in {"Repl", "Tool", "Batch"} /\ parent[x] \in Process
        BY <4>1 DEF TreeInv, TreeTyped, Tree
      <4>3. phase'[parent[x]] = phase[parent[x]]
        BY <4>2, <2>2, <2>4
      <4> QED BY <4>1, <4>2, <4>3 DEF Exists
    <3> QED BY <3>1, <3>2
  <2>6. /\ phase'[Repl] = "Repl" /\ parent'[Repl] = NoPid /\ image'[Repl] = "Agent"
        /\ \A x \in Pid : phase'[x] # "Repl"
        /\ \A x \in Process : phase'[x] = "Tool" => image'[x] = "Other"
    BY <2>4 DEF TreeInv
  <2> QED BY <2>1, <2>3, <2>5, <2>6 DEF TreeInv
<1>2. ASSUME NEW p \in Pid, Ends(p)
      PROVE  TreeInv'
  <2>1. parent' \in Tree /\ Ranked(parent')
    BY <1>2, AncestorsEnded
  <2>2. /\ phase' = [phase EXCEPT ![p] = "Gone"]
        /\ parent' = [x \in Process |-> IF x = p \/ parent[x] = p THEN NoPid ELSE parent[x]]
        /\ image' = [image EXCEPT ![p] = "Other"]
    BY <1>2 DEF Ends
  <2>3. TreeTyped'
    BY <2>1, <2>2 DEF TreeTyped, TreeInv, Phases
  <2>4. \A x \in Process : /\ phase'[x] = IF x = p THEN "Gone" ELSE phase[x]
                           /\ parent'[x] = IF x = p \/ parent[x] = p THEN NoPid ELSE parent[x]
                           /\ image'[x] = IF x = p THEN "Other" ELSE image[x]
    BY <2>2 DEF TreeInv, TreeTyped, Tree
  <2>5. ASSUME NEW x \in Process, parent'[x] # NoPid
        PROVE  Exists(x)' /\ phase'[parent'[x]] \in {"Repl", "Tool", "Batch"}
    <3>1. x # p /\ parent[x] # p /\ parent'[x] = parent[x] /\ phase'[x] = phase[x] /\ parent[x] # NoPid
      BY <2>4, <2>5
    <3>2. Exists(x) /\ phase[parent[x]] \in {"Repl", "Tool", "Batch"} /\ parent[x] \in Process
      BY <3>1 DEF TreeInv, TreeTyped, Tree
    <3>3. phase'[parent[x]] = phase[parent[x]]
      BY <3>1, <3>2, <2>4
    <3> QED BY <3>1, <3>2, <3>3 DEF Exists
  <2>6. /\ phase'[Repl] = "Repl" /\ parent'[Repl] = NoPid /\ image'[Repl] = "Agent"
        /\ \A x \in Pid : phase'[x] # "Repl"
        /\ \A x \in Process : phase'[x] = "Tool" => image'[x] = "Other"
    BY <2>4 DEF TreeInv
  <2> QED BY <2>1, <2>3, <2>5, <2>6 DEF TreeInv
<1>3. ASSUME NEW p \in Pid, NEW to \in Phases \ {"Repl", "Unborn", "Gone"}, NEW program \in {"Agent", "Other"},
             phase[p] \notin {"Unborn", "Gone"},
             \A q \in Process : parent[q] # p \/ to = "Batch",
             to = "Tool" => program = "Other",
             phase' = [phase EXCEPT ![p] = to],
             image' = [image EXCEPT ![p] = program], parent' = parent
      PROVE  TreeInv'
  <2>1. TreeTyped' /\ Ranked(parent')
    BY <1>3 DEF TreeTyped, TreeInv
  <2>2. \A x \in Process : /\ phase'[x] = IF x = p THEN to ELSE phase[x]
                           /\ image'[x] = IF x = p THEN program ELSE image[x]
    BY <1>3 DEF TreeInv, TreeTyped
  <2>3. ASSUME NEW x \in Process, parent[x] # NoPid
        PROVE  Exists(x)' /\ phase'[parent[x]] \in {"Repl", "Tool", "Batch"}
    <3>1. Exists(x) /\ phase[parent[x]] \in {"Repl", "Tool", "Batch"} /\ parent[x] \in Process
      BY <2>3 DEF TreeInv, TreeTyped, Tree
    <3>2. Exists(x)'
      BY <3>1, <2>2, <1>3 DEF Exists
    <3>3. phase'[parent[x]] \in {"Repl", "Tool", "Batch"}
      BY <3>1, <2>2, <1>3
    <3> QED BY <3>2, <3>3
  <2>4. /\ phase'[Repl] = "Repl" /\ parent'[Repl] = NoPid /\ image'[Repl] = "Agent"
        /\ \A x \in Pid : phase'[x] # "Repl"
        /\ \A x \in Process : phase'[x] = "Tool" => image'[x] = "Other"
    BY <2>2, <1>3 DEF TreeInv
  <2> QED BY <1>3, <2>1, <2>3, <2>4 DEF TreeInv
<1>4. ASSUME NEW p \in Pid, phase[p] \in {"Forked", "Starting"}
      PROVE  \A q \in Process : parent[q] # p
  BY <1>4 DEF TreeInv
<1>5. ASSUME NEW p \in Pid, ExecTool(p)
      PROVE  TreeInv'
  BY <1>3, <1>4, <1>5 DEF ExecTool, Phases
<1>6. ASSUME NEW p \in Pid, ExecAgent(p)
      PROVE  TreeInv'
  BY <1>3, <1>4, <1>6 DEF ExecAgent, Phases
<1>7. ASSUME NEW p \in Pid, RunBatch(p)
      PROVE  TreeInv'
  <2>1. image' = [image EXCEPT ![p] = image[p]] /\ image[p] \in {"Agent", "Other"}
    BY <1>7 DEF RunBatch, TreeInv, TreeTyped
  <2> QED BY <1>3, <1>4, <1>7, <2>1 DEF RunBatch, Phases
<1>8. ASSUME NEW p \in Pid, Summarise(p)
      PROVE  TreeInv'
  <2>1. image' = [image EXCEPT ![p] = image[p]] /\ image[p] \in {"Agent", "Other"}
    BY <1>8 DEF Summarise, TreeInv, TreeTyped
  <2>2. \A q \in Process : parent[q] # p
    BY <1>8, Childless DEF Summarise
  <2> QED BY <1>3, <1>8, <2>1, <2>2 DEF Summarise, Phases
<1>9. ASSUME UNCHANGED tree
      PROVE  TreeInv'
  BY <1>9 DEF tree, TreeInv, TreeTyped, Exists
<1>10. ASSUME Next
       PROVE  TreeInv'
  <2>1. ASSUME NEW p \in Pid, \/ ExecTool(p) \/ ExecAgent(p) \/ Dies(p)
                              \/ CountAncestor(p) \/ Refuse(p) \/ RunBatch(p) \/ Summarise(p)
                              \/ LookAt(p)
        PROVE  TreeInv'
    <3>1. CASE Dies(p) \/ Refuse(p)
      BY <3>1, <1>2 DEF Dies, Refuse
    <3>2. CASE CountAncestor(p) \/ LookAt(p)
      BY <3>2, <1>9 DEF CountAncestor, LookAt
    <3> QED BY <2>1, <3>1, <3>2, <1>5, <1>6, <1>7, <1>8
  <2>2. CASE StartPoll \/ EndPoll
    BY <2>2, <1>9 DEF StartPoll, EndPoll
  <2> QED BY <1>10, <1>1, <2>1, <2>2 DEF Next
<1> QED BY <1>9, <1>10 DEF vars, tree

(***************************************************************************)
(* The reports of the REPL.                                                *)
(***************************************************************************)

(* What a poll finds, and what none will find any more.                    *)
Findable(p) == Exists(p) /\ image[p] = "Agent" /\ Repl \in Ancestors(p)
Lost(p)     == phase[p] \in {"Gone", "Tool"} \/ (phase[p] # "Unborn" /\ Repl \notin Ancestors(p))

ReportTyped ==
  /\ journal \in [Pid -> {"None", "Instruction", "Summary"}]
  /\ poll \in [open : BOOLEAN, left : SUBSET Pid, found : SUBSET Pid]
  /\ known \in SUBSET Pid
  /\ started \in [Pid -> Nat] /\ done \in [Pid -> Nat]

(* An agent that was reported or found can be found still or is lost; it is*)
(* lost if the poll that runs has missed it, or if it is known no more.    *)
ReportPart(p) ==
  /\ started[p] > 0 \/ done[p] > 0 \/ p \in known \cup poll.found => Lost(p) \/ Findable(p)
  /\ poll.open /\ p \in known /\ p \notin poll.left /\ p \notin poll.found => Lost(p)
  /\ started[p] > 0 /\ p \notin known => Lost(p) /\ p \notin poll.found
  /\ done[p] > 0 => Lost(p) /\ p \notin poll.found /\ p \notin known /\ journal[p] = "Summary"
  /\ journal[p] = "Summary" => phase[p] \in {"Ending", "Gone"}
  /\ started[p] <= 1 /\ done[p] <= 1

ReportInv ==
  /\ ReportTyped
  /\ ~SeesBelow(ReplAccess) => known = {} /\ poll.found = {} /\ poll.left = {}
  /\ \A p \in Pid : ReportPart(p)

(* Who is lost stays lost, and who can be found is found or lost later.    *)
LEMMA LostForever ==
  ASSUME TreeInv, [Next]_vars, NEW p \in Pid
  PROVE  /\ Lost(p) => Lost(p)'
         /\ Findable(p) => Lost(p)' \/ Findable(p)'
<1> p \in Process /\ Repl \in Process /\ Repl \notin Pid /\ Repl # p
  BY AgentsAssumption DEF Process
<1>1. ASSUME NEW r \in Process, NEW q \in Pid, Fork(r, q)
      PROVE  /\ Lost(p) => Lost(p)'
             /\ Findable(p) => Lost(p)' \/ Findable(p)'
  <2>1. CASE p = q
    BY <2>1, <1>1 DEF Fork, Lost, Findable, Exists
  <2>2. CASE p # q
    <3>1. Ancestors(p)' = Ancestors(p)
      BY <2>2, <1>1, AncestorsForked
    <3>2. phase'[p] = phase[p] /\ image'[p] = image[p]
      BY <2>2, <1>1 DEF Fork, TreeInv, TreeTyped
    <3> QED BY <3>1, <3>2 DEF Lost, Findable, Exists
  <2> QED BY <2>1, <2>2
<1>2. ASSUME NEW q \in Pid, Ends(q)
      PROVE  /\ Lost(p) => Lost(p)'
             /\ Findable(p) => Lost(p)' \/ Findable(p)'
  <2>1. CASE p = q
    <3>1. phase'[p] = "Gone"
      BY <2>1, <1>2 DEF Ends, TreeInv, TreeTyped
    <3> QED BY <3>1 DEF Lost
  <2>2. CASE p # q
    <3>1. Ancestors(p)' \subseteq Ancestors(p)
      BY <2>2, <1>2, AncestorsEnded
    <3>2. phase'[p] = phase[p] /\ image'[p] = image[p]
      BY <2>2, <1>2 DEF Ends, TreeInv, TreeTyped
    <3> QED BY <3>1, <3>2 DEF Lost, Findable, Exists
  <2> QED BY <2>1, <2>2
<1>3. ASSUME UNCHANGED parent,
             \/ UNCHANGED <<phase, image>>
             \/ \E q \in Pid : ExecTool(q) \/ ExecAgent(q) \/ RunBatch(q) \/ Summarise(q)
      PROVE  /\ Lost(p) => Lost(p)'
             /\ Findable(p) => Lost(p)' \/ Findable(p)'
  <2>1. Ancestors(p)' = Ancestors(p)
    BY <1>3, AncestorsKept
  <2>2. CASE phase'[p] = phase[p] /\ image'[p] = image[p]
    BY <2>1, <2>2 DEF Lost, Findable, Exists
  <2>3. CASE ExecTool(p) \/ ExecAgent(p) \/ RunBatch(p) \/ Summarise(p)
    <3>1. CASE ExecTool(p)
      BY <3>1, <2>1 DEF ExecTool, Lost, Findable, TreeInv, TreeTyped
    <3>2. CASE ExecAgent(p)
      BY <3>2, <2>1 DEF ExecAgent, Lost, Findable, Exists, TreeInv, TreeTyped
    <3>3. CASE RunBatch(p)
      BY <3>3, <2>1 DEF RunBatch, Lost, Findable, Exists, TreeInv, TreeTyped
    <3>4. CASE Summarise(p)
      BY <3>4, <2>1 DEF Summarise, Lost, Findable, Exists, TreeInv, TreeTyped
    <3> QED BY <2>3, <3>1, <3>2, <3>3, <3>4
  <2>4. ASSUME NEW q \in Pid, q # p, ExecTool(q) \/ ExecAgent(q) \/ RunBatch(q) \/ Summarise(q)
        PROVE  phase'[p] = phase[p] /\ image'[p] = image[p]
    BY <2>4 DEF ExecTool, ExecAgent, RunBatch, Summarise, TreeInv, TreeTyped
  <2> QED BY <1>3, <2>2, <2>3, <2>4
<1>4. ASSUME Next
      PROVE  /\ Lost(p) => Lost(p)'
             /\ Findable(p) => Lost(p)' \/ Findable(p)'
  <2>1. CASE \E r \in Process, q \in Pid : Fork(r, q)
    BY <2>1, <1>1
  <2>2. ASSUME NEW q \in Pid, \/ ExecTool(q) \/ ExecAgent(q) \/ Dies(q)
                              \/ CountAncestor(q) \/ Refuse(q) \/ RunBatch(q) \/ Summarise(q)
                              \/ LookAt(q)
        PROVE  /\ Lost(p) => Lost(p)'
               /\ Findable(p) => Lost(p)' \/ Findable(p)'
    <3>1. CASE Dies(q) \/ Refuse(q)
      BY <3>1, <1>2 DEF Dies, Refuse
    <3>2. CASE CountAncestor(q) \/ LookAt(q)
      BY <3>2, <1>3 DEF CountAncestor, LookAt, tree
    <3>3. CASE ExecTool(q) \/ ExecAgent(q) \/ RunBatch(q) \/ Summarise(q)
      BY <3>3, <1>3 DEF ExecTool, ExecAgent, RunBatch, Summarise
    <3> QED BY <2>2, <3>1, <3>2, <3>3
  <2>3. CASE StartPoll \/ EndPoll
    BY <2>3, <1>3 DEF StartPoll, EndPoll, tree
  <2> QED BY <1>4, <2>1, <2>2, <2>3 DEF Next
<1>5. CASE UNCHANGED vars
  BY <1>5, <1>3 DEF vars
<1> QED BY <1>4, <1>5

(* None is both.                                                           *)
LEMMA LostNotFindable ==
  ASSUME TreeInv, NEW p \in Pid, Lost(p)
  PROVE  ~Findable(p)
BY DEF TreeInv, Lost, Findable, Exists, Process

(* A journal that ends with a Summary does so for good, and the agent ends.*)
LEMMA SummaryForever ==
  ASSUME TreeInv, ReportInv, [Next]_vars
  PROVE  /\ journal' \in [Pid -> {"None", "Instruction", "Summary"}]
         /\ \A p \in Pid : journal[p] = "Summary" => journal'[p] = "Summary"
         /\ \A p \in Pid : journal'[p] = "Summary" => phase'[p] \in {"Ending", "Gone"}
<1> DEFINE Goal ==
             /\ journal' \in [Pid -> {"None", "Instruction", "Summary"}]
             /\ \A p \in Pid : journal[p] = "Summary" => journal'[p] = "Summary"
             /\ \A p \in Pid : journal'[p] = "Summary" => phase'[p] \in {"Ending", "Gone"}
<1>0. /\ journal \in [Pid -> {"None", "Instruction", "Summary"}] /\ phase \in [Process -> Phases]
      /\ \A p \in Pid : journal[p] = "Summary" => phase[p] \in {"Ending", "Gone"}
      /\ Pid \subseteq Process
  BY DEF ReportInv, ReportTyped, ReportPart, TreeInv, TreeTyped, Process
<1>1. ASSUME NEW q \in Pid, RunBatch(q)
      PROVE  Goal
  <2>1. journal' = journal \/ journal' = [journal EXCEPT ![q] = "Instruction"]
    BY <1>1 DEF RunBatch
  <2>2. phase' = [phase EXCEPT ![q] = "Batch"] /\ journal[q] # "Summary"
    BY <1>1, <1>0 DEF RunBatch
  <2> QED BY <1>0, <2>1, <2>2
<1>2. ASSUME NEW q \in Pid, Summarise(q)
      PROVE  Goal
  <2>1. /\ journal' = [journal EXCEPT ![q] = IF @ = "None" THEN @ ELSE "Summary"]
        /\ phase' = [phase EXCEPT ![q] = "Ending"]
    BY <1>2 DEF Summarise
  <2> QED BY <1>0, <2>1
<1>3. ASSUME UNCHANGED journal,
             \A p \in Pid : phase[p] \in {"Ending", "Gone"} => phase'[p] \in {"Ending", "Gone"}
      PROVE  Goal
  BY <1>0, <1>3
<1>4. ASSUME NEW q \in Pid, NEW r \in Process,
             Fork(r, q) \/ ExecTool(q) \/ ExecAgent(q) \/ Ends(q), UNCHANGED journal
      PROVE  Goal
  <2>1. \A p \in Pid : phase[p] \in {"Ending", "Gone"} => phase'[p] \in {"Ending", "Gone"}
    BY <1>4, <1>0 DEF Fork, ExecTool, ExecAgent, Ends
  <2> HIDE DEF Goal
  <2> QED BY <2>1, <1>3, <1>4
<1> HIDE DEF Goal
<1>5. ASSUME Next
      PROVE  Goal
  <2>1. CASE \E r \in Process, q \in Pid : Fork(r, q)
    BY <2>1, <1>4 DEF Fork
  <2>2. ASSUME NEW q \in Pid, \/ ExecTool(q) \/ ExecAgent(q) \/ Dies(q)
                              \/ CountAncestor(q) \/ Refuse(q) \/ RunBatch(q) \/ Summarise(q)
                              \/ LookAt(q)
        PROVE  Goal
    <3>1. CASE Dies(q) \/ Refuse(q) \/ ExecTool(q) \/ ExecAgent(q)
      BY <3>1, <1>4, <1>0 DEF Dies, Refuse, ExecTool, ExecAgent
    <3>2. CASE CountAncestor(q) \/ LookAt(q)
      BY <3>2, <1>3 DEF CountAncestor, LookAt, tree
    <3> QED BY <2>2, <3>1, <3>2, <1>1, <1>2
  <2>3. CASE StartPoll \/ EndPoll
    BY <2>3, <1>3 DEF StartPoll, EndPoll, tree
  <2> QED BY <1>5, <2>1, <2>2, <2>3 DEF Next
<1>6. ASSUME UNCHANGED vars
      PROVE  Goal
  BY <1>6, <1>3 DEF vars
<1>7. Goal
  BY <1>5, <1>6
<1> QED BY <1>7 DEF Goal

(* Every step keeps what the REPL knows of findable or lost.               *)
LEMMA ReportInvStep ==
  ASSUME TreeInv, ReportInv, [Next]_vars
  PROVE  ReportInv'
<1>1. \A p \in Pid : /\ Lost(p) => Lost(p)'
                     /\ Findable(p) => Lost(p)' \/ Findable(p)'
  BY LostForever
<1>2. /\ journal' \in [Pid -> {"None", "Instruction", "Summary"}]
      /\ \A p \in Pid : journal[p] = "Summary" => journal'[p] = "Summary"
      /\ \A p \in Pid : journal'[p] = "Summary" => phase'[p] \in {"Ending", "Gone"}
  BY SummaryForever
<1>3. \A p \in Pid : Lost(p) => ~Findable(p)
  BY LostNotFindable
<1>4. ReportTyped /\ \A p \in Pid : ReportPart(p)
  BY DEF ReportInv
<1>5. CASE UNCHANGED <<poll, known, started, done>>
  <2>1. ReportTyped'
    BY <1>2, <1>4, <1>5 DEF ReportTyped
  <2>2. ASSUME NEW p \in Pid
        PROVE  ReportPart(p)'
    BY <1>1, <1>2, <1>4, <1>5 DEF ReportPart
  <2> QED BY <1>5, <2>1, <2>2 DEF ReportInv
<1>6. ASSUME NEW q \in Pid, LookAt(q)
      PROVE  ReportInv'
  <2> DEFINE found == IF Exists(q) /\ image[q] = "Agent" /\ Repl \in Ancestors(q)
                      THEN poll.found \cup {q} ELSE poll.found
  <2>1. /\ q \in poll.left /\ UNCHANGED <<known, started, done>>
        /\ poll' = [poll EXCEPT !.left = poll.left \ {q}, !.found = found]
    BY <1>6 DEF LookAt
  <2>2. found = IF Findable(q) THEN poll.found \cup {q} ELSE poll.found
    BY DEF Findable
  <2>3. poll \in [open : BOOLEAN, left : SUBSET Pid, found : SUBSET Pid]
    BY <1>4 DEF ReportTyped
  <2> HIDE DEF found
  <2>4. poll'.open = poll.open /\ poll'.left = poll.left \ {q} /\ poll'.found = found
    BY <2>1, <2>3
  <2>5. ReportTyped'
    <3>1. found \in SUBSET Pid
      BY <2>2, <2>3
    <3>2. poll' \in [open : BOOLEAN, left : SUBSET Pid, found : SUBSET Pid]
      BY <2>1, <2>3, <3>1
    <3> QED BY <1>2, <1>4, <2>1, <3>2 DEF ReportTyped
  <2>6. ASSUME NEW p \in Pid
        PROVE  ReportPart(p)'
    <3>1. ReportPart(p)
      BY <1>4
    <3>2. p \in found <=> p \in poll.found \/ (p = q /\ Findable(q))
      BY <2>2
    <3> QED BY <1>1, <1>2, <1>3, <2>1, <2>4, <3>1, <3>2 DEF ReportPart
  <2>7. SeesBelow(ReplAccess)
    BY <2>1 DEF ReportInv
  <2> QED BY <2>5, <2>6, <2>7 DEF ReportInv, SeesBelow, ReplAccess, MayRead
<1>7. CASE StartPoll
  <2> DEFINE left == {p \in Pid : Exists(p) /\ SeesBelow(ReplAccess)}
  <2>1. /\ UNCHANGED <<known, started, done>>
        /\ poll' = [open |-> TRUE, found |-> {}, left |-> left]
    BY <1>7 DEF StartPoll
  <2>2. left \in SUBSET Pid /\ (~SeesBelow(ReplAccess) => left = {})
        /\ \A p \in Pid : p \in left <=> Exists(p) /\ SeesBelow(ReplAccess)
    OBVIOUS
  <2> HIDE DEF left
  <2>3. poll'.open = TRUE /\ poll'.found = {} /\ poll'.left = left
    BY <2>1
  <2>4. ReportTyped'
    BY <1>2, <1>4, <2>1, <2>2 DEF ReportTyped
  <2>5. ASSUME NEW p \in Pid
        PROVE  ReportPart(p)'
    <3>1. ReportPart(p)
      BY <1>4
    <3>2. p \in known /\ p \notin left => Lost(p)
      BY <2>2, <3>1 DEF ReportInv, ReportPart, Findable
    <3> QED BY <1>1, <1>2, <2>1, <2>3, <3>1, <3>2 DEF ReportPart
  <2> QED BY <2>1, <2>2, <2>3, <2>4, <2>5 DEF ReportInv
<1>8. CASE EndPoll
  <2>1. PICK deciding \in BOOLEAN :
          LET appeared == IF deciding THEN {} ELSE poll.found \ known
              ended    == IF deciding THEN {} ELSE {p \in known \ poll.found : HasSummary(p)}
          IN  /\ poll.open /\ poll.left = {}
              /\ started' = OneMore(started, appeared)
              /\ done' = OneMore(done, ended)
              /\ known' = AfterPoll(poll.found)
              /\ poll' = NoPoll
    BY <1>8 DEF EndPoll
  <2> DEFINE appeared == IF deciding THEN {} ELSE poll.found \ known
             ended    == IF deciding THEN {} ELSE {p \in known \ poll.found : HasSummary(p)}
  <2>2. /\ poll.open /\ poll.left = {}
        /\ started' = [p \in Pid |-> IF p \in appeared THEN started[p] + 1 ELSE started[p]]
        /\ done' = [p \in Pid |-> IF p \in ended THEN done[p] + 1 ELSE done[p]]
        /\ known' = poll.found
    BY <2>1 DEF OneMore, AfterPoll
  <2>3. poll'.open = FALSE /\ poll'.left = {} /\ poll'.found = {}
    BY <2>1 DEF NoPoll
  <2>4. /\ \A p \in Pid : p \in appeared => p \in poll.found /\ p \notin known
        /\ \A p \in Pid : p \in ended => p \in known /\ p \notin poll.found /\ journal[p] = "Summary"
    BY DEF HasSummary
  <2> HIDE DEF appeared, ended
  <2>5. ReportTyped'
    <3>1. poll' \in [open : BOOLEAN, left : SUBSET Pid, found : SUBSET Pid]
      BY <2>1 DEF NoPoll
    <3>2. started' \in [Pid -> Nat] /\ done' \in [Pid -> Nat] /\ known' \in SUBSET Pid
      BY <1>4, <2>2 DEF ReportTyped
    <3> QED BY <1>2, <3>1, <3>2 DEF ReportTyped
  <2>6. ASSUME NEW p \in Pid
        PROVE  ReportPart(p)'
    <3>1. ReportPart(p) /\ started[p] \in Nat /\ done[p] \in Nat
      BY <1>4 DEF ReportTyped
    <3>2. /\ started'[p] = IF p \in appeared THEN started[p] + 1 ELSE started[p]
          /\ done'[p] = IF p \in ended THEN done[p] + 1 ELSE done[p]
      BY <2>2
    <3>3. p \in known /\ p \notin poll.found => Lost(p)
      BY <2>2, <3>1 DEF ReportPart
    <3>4. p \in appeared => started[p] = 0
      BY <2>4, <3>1 DEF ReportPart
    <3>5. p \in ended => done[p] = 0
      BY <2>4, <3>1 DEF ReportPart
    <3>6. started'[p] > 0 /\ p \notin poll.found => Lost(p)
      BY <2>4, <3>1, <3>2, <3>3 DEF ReportPart
    <3>7. done'[p] > 0 => Lost(p) /\ p \notin poll.found /\ journal[p] = "Summary"
      BY <2>4, <3>1, <3>2, <3>3 DEF ReportPart
    <3>8. started'[p] <= 1 /\ done'[p] <= 1
      BY <3>1, <3>2, <3>4, <3>5 DEF ReportPart
    <3>9. p \in poll.found => Lost(p) \/ Findable(p)
      BY <3>1 DEF ReportPart
    <3> QED BY <1>1, <1>2, <2>2, <2>3, <3>6, <3>7, <3>8, <3>9 DEF ReportPart
  <2>7. ~SeesBelow(ReplAccess) => known' = {} /\ poll'.found = {} /\ poll'.left = {}
    BY <2>2, <2>3 DEF ReportInv
  <2> QED BY <2>5, <2>6, <2>7 DEF ReportInv
<1>9. CASE UNCHANGED vars
  BY <1>5, <1>9 DEF vars
<1>10. ASSUME NEW q \in Pid, \/ ExecTool(q) \/ ExecAgent(q) \/ Dies(q)
                             \/ CountAncestor(q) \/ Refuse(q) \/ RunBatch(q) \/ Summarise(q)
       PROVE  UNCHANGED <<poll, known, started, done>>
  BY <1>10 DEF ExecTool, ExecAgent, Dies, CountAncestor, Refuse, RunBatch, Summarise, views
<1>11. ASSUME NEW r \in Process, NEW q \in Pid, Fork(r, q)
       PROVE  UNCHANGED <<poll, known, started, done>>
  BY <1>11 DEF Fork, views
<1> QED BY <1>5, <1>6, <1>7, <1>8, <1>9, <1>10, <1>11 DEF Next

(***************************************************************************)
(* The walk up the tree.                                                   *)
(***************************************************************************)

(* A process that runs its program, or did: it execs no more.              *)
Settled(x) == phase[x] \notin {"Unborn", "Forked"}

(* What a walk that has come to x has still to look at.                    *)
Upward(x) == IF x = NoPid THEN {} ELSE {x} \cup Ancestors(x)

Sees == SeesAbove(AgentAccess, AgentConfig.sandbox)

WalkTyped == walk \in [Pid -> [at : Process \cup {NoPid}, depth : Nat]]

(* A walk that has left the chain does not meet it again.                  *)
OnChain(p) ==
  Upward(walk[p].at) \cap Ancestors(p) # {} => walk[p].at \in Ancestors(p)

(* The count of an agent that starts or runs covers all agents above it but*)
(* those it has still to look at.                                          *)
WalkPart(p) ==
  /\ walk[p].at # NoPid => Settled(walk[p].at)
  /\ phase[p] \in {"Starting", "Batch"} => OnChain(p)
  /\ phase[p] = "Batch" =>
       walk[p].at = NoPid /\ walk[p].depth < AgentConfig.max_agent_depth
  /\ Sees /\ phase[p] \in {"Starting", "Batch"} =>
       Cardinality(AgentsAbove(p) \ Upward(walk[p].at)) <= walk[p].depth

WalkInv == WalkTyped /\ \A p \in Pid : WalkPart(p)

(* A part of what is above a process is no larger.                         *)
LEMMA FewerAbove ==
  ASSUME TreeInv, NEW x \in Process, NEW few, NEW many,
         few \subseteq many, many \subseteq Ancestors(x)
  PROVE  /\ IsFiniteSet(few) /\ IsFiniteSet(many)
         /\ Cardinality(few) \in Nat /\ Cardinality(many) \in Nat
         /\ Cardinality(few) <= Cardinality(many)
<1>1. IsFiniteSet(many)
  BY AncestorsFinite, FS_Subset
<1>2. IsFiniteSet(few) /\ Cardinality(few) <= Cardinality(many)
  BY <1>1, FS_Subset
<1> QED BY <1>1, <1>2, FS_CardinalityType

(* A step leaves the ancestors and the program of every process that runs  *)
(* as they are, or ends one.                                               *)
LEMMA SettledSteps ==
  ASSUME TreeInv, [Next]_vars
  PROVE  /\ \A x \in Process : Settled(x) => Settled(x)'
         /\ \/ \A x \in Process : Settled(x) => Ancestors(x)' = Ancestors(x) /\ image'[x] = image[x]
            \/ \E d \in Pid : Ends(d)
<1> DEFINE Stays == \A x \in Process : Settled(x) => Settled(x)'
           Same  == \A x \in Process : Settled(x) => Ancestors(x)' = Ancestors(x) /\ image'[x] = image[x]
           Goal  == Stays /\ (Same \/ \E d \in Pid : Ends(d))
<1>0. phase \in [Process -> Phases] /\ image \in [Process -> {"Agent", "Other"}] /\ Pid \subseteq Process
  BY DEF TreeInv, TreeTyped, Process
<1>1. ASSUME NEW r \in Process, NEW q \in Pid, Fork(r, q)
      PROVE  Goal
  <2>1. \A x \in Process : Settled(x) => x # q
    BY <1>1 DEF Settled, Fork
  <2>2. \A x \in Process : x # q => Ancestors(x)' = Ancestors(x)
    BY <1>1, AncestorsForked
  <2>3. \A x \in Process : x # q => phase'[x] = phase[x] /\ image'[x] = image[x]
    BY <1>0, <1>1 DEF Fork
  <2> QED BY <2>1, <2>2, <2>3 DEF Settled
<1>2. ASSUME NEW q \in Pid, Ends(q)
      PROVE  Goal
  <2>1. \A x \in Process : phase'[x] = IF x = q THEN "Gone" ELSE phase[x]
    BY <1>0, <1>2 DEF Ends
  <2>2. Stays
    BY <2>1 DEF Settled
  <2> HIDE DEF Stays, Same
  <2> QED BY <1>2, <2>2
<1>3. ASSUME UNCHANGED parent, NEW q \in Pid, ExecTool(q) \/ ExecAgent(q)
      PROVE  Goal
  <2>1. \A x \in Process : Settled(x) => x # q
    BY <1>3 DEF Settled, ExecTool, ExecAgent
  <2>2. \A x \in Process : x # q => phase'[x] = phase[x] /\ image'[x] = image[x]
    BY <1>0, <1>3 DEF ExecTool, ExecAgent
  <2>3. \A x : Ancestors(x)' = Ancestors(x)
    BY <1>3, AncestorsKept
  <2> QED BY <2>1, <2>2, <2>3 DEF Settled
<1>4. ASSUME UNCHANGED <<parent, image>>, \A x \in Process : Settled(x) => Settled(x)'
      PROVE  Goal
  BY <1>4, AncestorsKept
<1>5. ASSUME NEW q \in Pid, RunBatch(q) \/ Summarise(q)
      PROVE  \A x \in Process : Settled(x) => Settled(x)'
  BY <1>0, <1>5 DEF RunBatch, Summarise, Settled
<1>6. ASSUME UNCHANGED tree
      PROVE  \A x \in Process : Settled(x) => Settled(x)'
  BY <1>6 DEF tree, Settled
<1> HIDE DEF Goal
<1>7. ASSUME Next
      PROVE  Goal
  <2>1. CASE \E r \in Process, q \in Pid : Fork(r, q)
    BY <2>1, <1>1
  <2>2. ASSUME NEW q \in Pid, \/ ExecTool(q) \/ ExecAgent(q) \/ Dies(q)
                              \/ CountAncestor(q) \/ Refuse(q) \/ RunBatch(q) \/ Summarise(q)
                              \/ LookAt(q)
        PROVE  Goal
    <3>1. CASE Dies(q) \/ Refuse(q)
      BY <3>1, <1>2 DEF Dies, Refuse
    <3>2. CASE CountAncestor(q) \/ LookAt(q)
      <4>1. UNCHANGED tree
        BY <3>2 DEF CountAncestor, LookAt
      <4> QED BY <4>1, <1>4, <1>6 DEF tree
    <3>3. CASE RunBatch(q) \/ Summarise(q)
      <4>1. UNCHANGED <<parent, image>>
        BY <3>3 DEF RunBatch, Summarise
      <4> QED BY <4>1, <3>3, <1>4, <1>5
    <3>4. CASE ExecTool(q) \/ ExecAgent(q)
      BY <3>4, <1>3 DEF ExecTool, ExecAgent
    <3> QED BY <2>2, <3>1, <3>2, <3>3, <3>4
  <2>3. CASE StartPoll \/ EndPoll
    <3>1. UNCHANGED tree
      BY <2>3 DEF StartPoll, EndPoll
    <3> QED BY <3>1, <1>4, <1>6 DEF tree
  <2> QED BY <1>7, <2>1, <2>2, <2>3 DEF Next
<1>8. ASSUME UNCHANGED vars
      PROVE  Goal
  <2>1. UNCHANGED tree
    BY <1>8 DEF vars, tree
  <2> QED BY <2>1, <1>4, <1>6 DEF tree
<1>9. Goal
  BY <1>7, <1>8
<1> QED BY <1>9 DEF Goal

(* What changes the count of a process.                                    *)
LEMMA WalkSteps ==
  ASSUME [Next]_vars, TreeInv, WalkTyped, NEW p \in Pid
  PROVE  /\ \/ walk'[p] = walk[p]
            \/ ExecAgent(p) \/ CountAncestor(p) \/ Summarise(p) \/ Ends(p)
         /\ phase'[p] \in {"Starting", "Batch"} =>
              phase'[p] = phase[p] \/ ExecAgent(p) \/ RunBatch(p)
<1>0. walk \in [Pid -> [at : Process \cup {NoPid}, depth : Nat]] /\ phase \in [Process -> Phases] /\ p \in Process
  BY DEF TreeInv, TreeTyped, WalkTyped, Process
<1> DEFINE Goal == /\ \/ walk'[p] = walk[p]
                      \/ ExecAgent(p) \/ CountAncestor(p) \/ Summarise(p) \/ Ends(p)
                   /\ phase'[p] \in {"Starting", "Batch"} =>
                        phase'[p] = phase[p] \/ ExecAgent(p) \/ RunBatch(p)
<1>1. ASSUME NEW q \in Pid,
             \/ ExecAgent(q) /\ phase' = [phase EXCEPT ![q] = "Starting"]
             \/ CountAncestor(q) /\ phase' = phase
             \/ Summarise(q) /\ phase' = [phase EXCEPT ![q] = "Ending"]
             \/ Ends(q) /\ phase' = [phase EXCEPT ![q] = "Gone"],
             \E w : walk' = [walk EXCEPT ![q] = w]
      PROVE  Goal
  <2>1. CASE q = p
    BY <1>0, <1>1, <2>1
  <2>2. CASE q # p
    BY <1>0, <1>1, <2>2
  <2> QED BY <2>1, <2>2
<1>2. ASSUME UNCHANGED walk, NEW q \in Pid,
             \/ phase' = [phase EXCEPT ![q] = "Forked"] \/ phase' = [phase EXCEPT ![q] = "Tool"]
             \/ RunBatch(q) /\ phase' = [phase EXCEPT ![q] = "Batch"]
      PROVE  Goal
  <2>1. CASE q = p
    BY <1>0, <1>2, <2>1
  <2>2. CASE q # p
    BY <1>0, <1>2, <2>2
  <2> QED BY <2>1, <2>2
<1>3. ASSUME UNCHANGED <<walk, phase>>
      PROVE  Goal
  BY <1>3
<1> HIDE DEF Goal
<1>4. ASSUME Next
      PROVE  Goal
  <2>1. CASE \E r \in Process, q \in Pid : Fork(r, q)
    BY <2>1, <1>2 DEF Fork
  <2>2. ASSUME NEW q \in Pid, \/ ExecTool(q) \/ ExecAgent(q) \/ Dies(q)
                              \/ CountAncestor(q) \/ Refuse(q) \/ RunBatch(q) \/ Summarise(q)
                              \/ LookAt(q)
        PROVE  Goal
    <3>1. CASE Dies(q) \/ Refuse(q)
      <4>1. Ends(q) /\ phase' = [phase EXCEPT ![q] = "Gone"] /\ walk' = [walk EXCEPT ![q] = NoWalk]
        BY <3>1 DEF Dies, Refuse, Ends
      <4> QED BY <4>1, <1>1
    <3>2. CASE CountAncestor(q)
      <4>1. phase' = phase /\ \E w : walk' = [walk EXCEPT ![q] = w]
        BY <3>2 DEF CountAncestor, tree
      <4> QED BY <4>1, <3>2, <1>1
    <3>3. CASE LookAt(q)
      BY <3>3, <1>3 DEF LookAt, tree
    <3>4. CASE RunBatch(q)
      BY <3>4, <1>2 DEF RunBatch
    <3>5. CASE Summarise(q)
      <4>1. phase' = [phase EXCEPT ![q] = "Ending"] /\ walk' = [walk EXCEPT ![q] = NoWalk]
        BY <3>5 DEF Summarise
      <4> QED BY <4>1, <3>5, <1>1
    <3>6. CASE ExecTool(q)
      BY <3>6, <1>2 DEF ExecTool
    <3>7. CASE ExecAgent(q)
      <4>1. phase' = [phase EXCEPT ![q] = "Starting"] /\ \E w : walk' = [walk EXCEPT ![q] = w]
        BY <3>7 DEF ExecAgent
      <4> QED BY <4>1, <3>7, <1>1
    <3> QED BY <2>2, <3>1, <3>2, <3>3, <3>4, <3>5, <3>6, <3>7
  <2>3. CASE StartPoll \/ EndPoll
    BY <2>3, <1>3 DEF StartPoll, EndPoll, tree
  <2> QED BY <1>4, <2>1, <2>2, <2>3 DEF Next
<1>5. ASSUME UNCHANGED vars
      PROVE  Goal
  BY <1>5, <1>3 DEF vars
<1>6. Goal
  BY <1>4, <1>5
<1> QED BY <1>6 DEF Goal

(* When a process ends, what a walk has missed is taken off the chain: no  *)
(* ancestor that is left has been between the two.                         *)
LEMMA EndedBetween ==
  ASSUME TreeInv, NEW d \in Pid, Ends(d), NEW p \in Process, p # d,
         NEW x \in Process \cup {NoPid},
         Upward(x) \cap Ancestors(p) # {} => x \in Ancestors(p)
  PROVE  /\ Ancestors(p)' \subseteq Ancestors(p) /\ Upward(x)' \subseteq Upward(x)
         /\ d \notin Ancestors(p)'
         /\ \A y \in Ancestors(p)' : y \notin Upward(x)' => y \notin Upward(x)
         /\ Upward(x)' \cap Ancestors(p)' # {} => x \in Ancestors(p)'
<1>0. d \in Process /\ NoPid \notin Process
  BY AgentsAssumption DEF Process
<1>1. /\ Ancestors(d)' = {}
      /\ \A y \in Process : y # d => Ancestors(y)' =
           IF d \in Ancestors(y) THEN Ancestors(y) \ ({d} \cup Ancestors(d)) ELSE Ancestors(y)
  BY AncestorsEnded
<1>2. Ancestors(p)' = IF d \in Ancestors(p) THEN Ancestors(p) \ ({d} \cup Ancestors(d)) ELSE Ancestors(p)
  BY <1>1
<1>3. CASE x = NoPid
  <2>1. Upward(x) = {} /\ Upward(x)' = {}
    BY <1>3 DEF Upward
  <2> QED BY <1>2, <2>1
<1>4. CASE x = d
  <2>1. Upward(x) = {d} \cup Ancestors(d) /\ Upward(x)' = {d}
    BY <1>0, <1>1, <1>4 DEF Upward
  <2>2. \A y \in Ancestors(p)' : y \notin {d} \cup Ancestors(d)
    <3>1. CASE d \in Ancestors(p)
      BY <1>2, <3>1
    <3>2. CASE d \notin Ancestors(p)
      BY <1>2, <3>2, <2>1, <1>4
    <3> QED BY <3>1, <3>2
  <2> QED BY <1>2, <1>4, <2>1, <2>2
<1>5. CASE x \in Process /\ x # d
  <2>1. /\ Upward(x) = {x} \cup Ancestors(x)
        /\ Upward(x)' = {x} \cup Ancestors(x)'
        /\ Ancestors(x)' = IF d \in Ancestors(x) THEN Ancestors(x) \ ({d} \cup Ancestors(d)) ELSE Ancestors(x)
    BY <1>0, <1>1, <1>5 DEF Upward
  <2>2. d \in Ancestors(x) => x \notin Ancestors(d)
    BY <1>5, AncestorsLive
  <2>3. x \in Ancestors(p) => Ancestors(x) \subseteq Ancestors(p)
    BY AncestorsLive
  <2>4. x \in Ancestors(d) => Ancestors(x) \subseteq Ancestors(d)
    BY <1>0, AncestorsLive
  <2>5. Ancestors(p)' \subseteq Ancestors(p) /\ d \notin Ancestors(p)'
    BY <1>2
  <2>6. Upward(x)' \subseteq Upward(x)
    BY <2>1
  <2>7. ASSUME NEW y \in Ancestors(p)', y \in Upward(x)
        PROVE  y \in Upward(x)'
    <3>1. x \in Ancestors(p)
      BY <2>5, <2>7
    <3>2. d \in Ancestors(x) => y \notin {d} \cup Ancestors(d)
      BY <1>2, <2>3, <2>7, <3>1
    <3> QED BY <2>1, <2>7, <3>2
  <2>8. ASSUME Upward(x)' \cap Ancestors(p)' # {}
        PROVE  x \in Ancestors(p)'
    <3>1. x \in Ancestors(p)
      BY <2>5, <2>6, <2>8
    <3>2. d \in Ancestors(p) => x \notin Ancestors(d)
      <4>1. SUFFICES ASSUME d \in Ancestors(p), x \in Ancestors(d)
                     PROVE  FALSE
        OBVIOUS
      <4>2. Upward(x) \subseteq Ancestors(d)
        BY <2>1, <2>4, <4>1
      <4> QED BY <1>2, <2>6, <2>8, <4>1, <4>2
    <3> QED BY <1>2, <1>5, <3>1, <3>2
  <2> QED BY <2>5, <2>6, <2>7, <2>8
<1> QED BY <1>3, <1>4, <1>5

(* The limit of an agent is a number, from its config.toml or the default. *)
LEMMA AgentLimit == AgentConfig.max_agent_depth \in Nat
BY AgentsAssumption DEF AgentConfig, Loaded

(* Who starts or runs, and who is above it, has its program.               *)
LEMMA AboveSettled ==
  ASSUME TreeInv, NEW p \in Process, phase[p] \in {"Starting", "Batch"}
  PROVE  Settled(p) /\ \A y \in Ancestors(p) : Settled(y)
<1>1. ASSUME NEW y \in Ancestors(p)
      PROVE  Settled(y)
  BY <1>1, AncestorsLive DEF Settled
<1> QED BY <1>1 DEF Settled

(* What is counted and what is to be looked at, when p neither counts nor  *)
(* ends: the same, or what is left when another process has ended.         *)
LEMMA WalkKept ==
  ASSUME TreeInv, [Next]_vars, NEW p \in Pid, ~Ends(p), phase[p] \in {"Starting", "Batch"},
         NEW x \in Process \cup {NoPid}, x # NoPid => Settled(x),
         Upward(x) \cap Ancestors(p) # {} => x \in Ancestors(p)
  PROVE  /\ Ancestors(p)' \subseteq Ancestors(p) /\ Upward(x)' \subseteq Upward(x)
         /\ AgentsAbove(p)' \subseteq AgentsAbove(p)
         /\ AgentsAbove(p)' \ Upward(x)' \subseteq AgentsAbove(p) \ Upward(x)
         /\ Upward(x)' \cap Ancestors(p)' # {} => x \in Ancestors(p)'
<1>0. p \in Process
  BY DEF Process
<1>1. CASE \A y \in Process : Settled(y) => Ancestors(y)' = Ancestors(y) /\ image'[y] = image[y]
  <2>1. Ancestors(p)' = Ancestors(p)
    BY <1>0, <1>1, AboveSettled
  <2>2. Upward(x)' = Upward(x)
    BY <1>1 DEF Upward
  <2>3. \A y \in Ancestors(p) : image'[y] = image[y]
    BY <1>0, <1>1, AboveSettled, AncestorsLive
  <2>4. AgentsAbove(p)' = AgentsAbove(p)
    BY <2>1, <2>3 DEF AgentsAbove
  <2> QED BY <2>1, <2>2, <2>4
<1>2. ASSUME NEW d \in Pid, Ends(d)
      PROVE  /\ Ancestors(p)' \subseteq Ancestors(p) /\ Upward(x)' \subseteq Upward(x)
             /\ AgentsAbove(p)' \subseteq AgentsAbove(p)
             /\ AgentsAbove(p)' \ Upward(x)' \subseteq AgentsAbove(p) \ Upward(x)
             /\ Upward(x)' \cap Ancestors(p)' # {} => x \in Ancestors(p)'
  <2>1. d # p
    BY <1>2
  <2>2. /\ Ancestors(p)' \subseteq Ancestors(p) /\ Upward(x)' \subseteq Upward(x)
        /\ d \notin Ancestors(p)'
        /\ \A y \in Ancestors(p)' : y \notin Upward(x)' => y \notin Upward(x)
        /\ Upward(x)' \cap Ancestors(p)' # {} => x \in Ancestors(p)'
    BY <1>0, <1>2, <2>1, EndedBetween
  <2>3. \A y \in Ancestors(p)' : image'[y] = image[y]
    <3>1. SUFFICES ASSUME NEW y \in Ancestors(p)'
                   PROVE  image'[y] = image[y]
      OBVIOUS
    <3>2. y \in Process /\ y # d
      BY <1>0, <2>2, AncestorsLive
    <3> QED BY <1>2, <3>2 DEF Ends, TreeInv, TreeTyped
  <2>4. AgentsAbove(p)' \subseteq AgentsAbove(p)
    BY <2>2, <2>3 DEF AgentsAbove
  <2>5. AgentsAbove(p)' \subseteq Ancestors(p)'
    BY DEF AgentsAbove
  <2> QED BY <2>2, <2>4, <2>5
<1> QED BY <1>1, <1>2, SettledSteps

(* Every step keeps the counts of the walks right.                         *)
LEMMA WalkInvStep ==
  ASSUME TreeInv, WalkInv, [Next]_vars
  PROVE  WalkInv'
<1>0. /\ walk \in [Pid -> [at : Process \cup {NoPid}, depth : Nat]] /\ parent \in Tree
      /\ Pid \subseteq Process /\ NoPid \notin Process
      /\ WalkTyped /\ \A x \in Process : Settled(x) => Settled(x)'
  BY SettledSteps, AgentsAssumption DEF TreeInv, TreeTyped, WalkInv, WalkTyped, Process
<1>1. ASSUME NEW p \in Pid, ExecAgent(p)
      PROVE  walk'[p] \in [at : Process \cup {NoPid}, depth : Nat] /\ WalkPart(p)'
  <2>1. walk'[p] = [at |-> parent[p], depth |-> 0] /\ phase'[p] = "Starting" /\ parent' = parent
    BY <1>0, <1>1 DEF ExecAgent, TreeInv, TreeTyped
  <2>0. PICK x : x = parent[p]
    OBVIOUS
  <2>2. walk'[p].at = x /\ walk'[p].depth = 0 /\ x \in Process \cup {NoPid}
    BY <1>0, <2>0, <2>1 DEF Tree
  <2>3. Ancestors(p)' = Ancestors(p) /\ Upward(x)' = Upward(x)
    BY <2>1, AncestorsKept DEF Upward
  <2>4. Upward(x) = Ancestors(p)
    BY <1>0, <2>0, AncestorsUnfold DEF Upward
  <2>5. x # NoPid => Settled(x)'
    <3>1. SUFFICES ASSUME x # NoPid
                   PROVE  Settled(x)'
      OBVIOUS
    <3>2. phase[x] \in {"Repl", "Tool", "Batch"} /\ x \in Process
      BY <1>0, <2>0, <2>2, <3>1 DEF TreeInv
    <3> QED BY <1>0, <3>2 DEF Settled
  <2>6. Upward(x)' \cap Ancestors(p)' # {} => x \in Ancestors(p)'
    BY <2>0, <2>3, <2>4, AncestorsUnfold, <1>0
  <2>7. Cardinality(AgentsAbove(p)' \ Upward(x)') <= 0
    <3>1. AgentsAbove(p)' \ Upward(x)' = {}
      BY <2>3, <2>4 DEF AgentsAbove
    <3> QED BY <3>1, FS_EmptySet
  <2>8. (Upward(walk[p].at))' = Upward(x)'
    BY <2>2 DEF Upward
  <2>9. OnChain(p)'
    BY <2>2, <2>6, <2>8 DEF OnChain
  <2> QED BY <2>1, <2>2, <2>5, <2>7, <2>8, <2>9 DEF WalkPart
<1>2. ASSUME NEW p \in Pid, CountAncestor(p)
      PROVE  walk'[p] \in [at : Process \cup {NoPid}, depth : Nat] /\ WalkPart(p)'
  <2>0. PICK q, d : q = walk[p].at /\ d = walk[p].depth
    OBVIOUS
  <2>1. /\ q \in Process /\ q # NoPid /\ d \in Nat /\ phase[p] = "Starting" /\ p \in Process
        /\ phase' = phase /\ parent' = parent /\ image' = image
        /\ Settled(q)
    BY <1>0, <1>2, <2>0 DEF CountAncestor, Counting, tree, WalkInv, WalkPart
  <2>2. walk'[p] = IF ~Exists(q) \/ ~Sees THEN [at |-> NoPid, depth |-> d]
                   ELSE [at |-> parent[q], depth |-> d + (IF image[q] = "Agent" THEN 1 ELSE 0)]
    BY <1>0, <1>2, <2>0 DEF CountAncestor, Sees
  <2>3. /\ Upward(q) \cap Ancestors(p) # {} => q \in Ancestors(p)
        /\ Sees => Cardinality(AgentsAbove(p) \ Upward(q)) <= d
    BY <2>0, <2>1 DEF WalkInv, WalkPart, OnChain
  <2>4. \A x : Ancestors(x)' = Ancestors(x)
    BY <2>1, AncestorsKept
  <2>5. AgentsAbove(p)' = AgentsAbove(p) /\ \A x : Upward(x)' = Upward(x)
    BY <2>1, <2>4 DEF AgentsAbove, Upward
  <2>6. CASE ~Exists(q) \/ ~Sees
    <3>1. walk'[p] = [at |-> NoPid, depth |-> d]
      BY <2>2, <2>6
    <3>2. walk'[p].at = NoPid /\ walk'[p].depth = d
      BY <3>1
    <3>3. (Upward(walk[p].at))' = {}
      BY <3>2 DEF Upward
    <3>4. ASSUME Sees
          PROVE  Cardinality(AgentsAbove(p)) <= d
      <4>1. q \notin Ancestors(p)
        BY <2>1, <2>6, <3>4, AncestorsLive
      <4>2. AgentsAbove(p) \ Upward(q) = AgentsAbove(p)
        BY <4>1, <2>3 DEF AgentsAbove
      <4> QED BY <4>2, <2>3, <3>4
    <3>5. (AgentsAbove(p) \ Upward(walk[p].at))' = AgentsAbove(p)
      BY <2>5, <3>3
    <3> QED BY <1>0, <2>1, <3>1, <3>2, <3>3, <3>4, <3>5 DEF WalkPart, OnChain
  <2>7. CASE Exists(q) /\ Sees
    <3>0. PICK u, e : u = parent[q] /\ e = d + (IF image[q] = "Agent" THEN 1 ELSE 0)
      OBVIOUS
    <3>1. walk'[p] = [at |-> u, depth |-> e] /\ u \in Process \cup {NoPid} /\ e \in Nat
      BY <1>0, <2>1, <2>2, <2>7, <3>0 DEF Tree
    <3>2. walk'[p].at = u /\ walk'[p].depth = e
      BY <3>1
    <3>3. Upward(q) = {q} \cup Upward(u)
      BY <2>1, <3>0, AncestorsUnfold DEF Upward
    <3>4. u # NoPid => Settled(u)'
      <4>1. u # NoPid => phase[u] \in {"Repl", "Tool", "Batch"}
        BY <2>1, <3>0 DEF TreeInv
      <4>2. u # NoPid => phase'[u] \notin {"Unborn", "Forked"}
        BY <4>1, <2>1
      <4> QED BY <4>2 DEF Settled
    <3>5. Upward(u) \cap Ancestors(p) # {} => u \in Ancestors(p)
      <4>1. SUFFICES ASSUME Upward(u) \cap Ancestors(p) # {}
                     PROVE  u \in Ancestors(p)
        OBVIOUS
      <4>2. q \in Ancestors(p)
        BY <2>3, <3>3, <4>1
      <4>3. Ancestors(q) \subseteq Ancestors(p)
        BY <2>1, <4>2, AncestorsLive
      <4>4. u # NoPid
        BY <4>1 DEF Upward
      <4>5. u \in Ancestors(q)
        BY <2>1, <3>0, <4>4, AncestorsUnfold
      <4> QED BY <4>3, <4>5
    <3>6. Cardinality(AgentsAbove(p) \ Upward(u)) <= e
      <4> DEFINE counted == AgentsAbove(p) \ Upward(q)
                 now     == AgentsAbove(p) \ Upward(u)
      <4>1. counted \subseteq Ancestors(p) /\ now \subseteq Ancestors(p)
        BY DEF AgentsAbove
      <4>2. IsFiniteSet(counted) /\ IsFiniteSet(now) /\ Cardinality(counted) \in Nat /\ Cardinality(now) \in Nat
        <5> HIDE DEF counted, now
        <5> QED BY <2>1, <4>1, FewerAbove
      <4>3. Cardinality(counted) <= d
        BY <2>3, <2>7
      <4>4. CASE image[q] = "Agent"
        <5>1. now \subseteq counted \cup {q}
          BY <3>3
        <5>2. IsFiniteSet(counted \cup {q}) /\ Cardinality(counted \cup {q}) <= Cardinality(counted) + 1
              /\ Cardinality(counted \cup {q}) \in Nat
          <6> HIDE DEF counted
          <6>1. /\ IsFiniteSet(counted \cup {q})
                /\ Cardinality(counted \cup {q}) =
                     IF q \in counted THEN Cardinality(counted) ELSE Cardinality(counted) + 1
            BY <4>2, FS_AddElement
          <6> QED BY <4>2, <6>1
        <5>3. Cardinality(now) <= Cardinality(counted \cup {q})
          <6> HIDE DEF counted, now
          <6> QED BY <5>1, <5>2, FS_Subset
        <5>4. e = d + 1
          BY <3>0, <4>4
        <5> HIDE DEF counted, now
        <5> QED BY <4>2, <4>3, <5>2, <5>3, <5>4, <2>1 DEF now
      <4>5. CASE image[q] # "Agent"
        <5>1. now = counted
          BY <3>3, <4>5 DEF AgentsAbove
        <5>2. e = d
          BY <3>0, <4>5, <2>1
        <5> QED BY <4>3, <5>1, <5>2
      <4> QED BY <4>4, <4>5
    <3>7. (Upward(walk[p].at))' = Upward(u)
      BY <2>5, <3>2 DEF Upward
    <3>8. OnChain(p)'
      BY <2>4, <3>2, <3>5, <3>7 DEF OnChain
    <3>9. (AgentsAbove(p) \ Upward(walk[p].at))' = AgentsAbove(p) \ Upward(u)
      BY <2>5, <3>7
    <3> QED BY <2>1, <3>1, <3>2, <3>4, <3>6, <3>8, <3>9 DEF WalkPart
  <2> QED BY <2>6, <2>7
<1>3. ASSUME NEW p \in Pid, Summarise(p) \/ Ends(p)
      PROVE  walk'[p] \in [at : Process \cup {NoPid}, depth : Nat] /\ WalkPart(p)'
  <2>1. walk'[p] = NoWalk /\ phase'[p] \in {"Ending", "Gone"}
    BY <1>0, <1>3 DEF Summarise, Ends, TreeInv, TreeTyped
  <2>2. walk'[p].at = NoPid /\ walk'[p].depth = 0
    BY <2>1 DEF NoWalk
  <2> QED BY <2>1, <2>2 DEF WalkPart, NoWalk
<1>4. ASSUME NEW p \in Pid, walk'[p] = walk[p], ~ExecAgent(p), ~Ends(p)
      PROVE  WalkPart(p)'
  <2>0. PICK x : x = walk[p].at
    OBVIOUS
  <2>1. x \in Process \cup {NoPid} /\ (x # NoPid => Settled(x)) /\ WalkPart(p)
        /\ walk'[p].at = x /\ walk'[p].depth = walk[p].depth /\ walk[p].depth \in Nat
    BY <1>0, <1>4, <2>0 DEF WalkInv, WalkPart
  <2>2. x # NoPid => Settled(x)'
    BY <1>0, <2>1
  <2>3. CASE phase'[p] \notin {"Starting", "Batch"}
    BY <1>4, <2>1, <2>2, <2>3 DEF WalkPart
  <2>4. CASE phase'[p] \in {"Starting", "Batch"}
    <3>1. phase'[p] = phase[p] \/ RunBatch(p)
      BY <1>0, <1>4, <2>4, WalkSteps
    <3>2. phase[p] \in {"Starting", "Batch"}
      BY <3>1, <2>4 DEF RunBatch
    <3>3. /\ Upward(x) \cap Ancestors(p) # {} => x \in Ancestors(p)
          /\ Sees => Cardinality(AgentsAbove(p) \ Upward(x)) <= walk[p].depth
      BY <2>0, <2>1, <3>2 DEF WalkPart, OnChain
    <3>4. phase'[p] = "Batch" => x = NoPid /\ walk[p].depth < AgentConfig.max_agent_depth
      <4>1. CASE RunBatch(p)
        BY <4>1, <2>0, <2>1, AgentLimit DEF RunBatch, Counting, AtLimit
      <4>2. CASE phase'[p] = phase[p]
        BY <4>2, <2>0, <2>1 DEF WalkPart
      <4> QED BY <3>1, <4>1, <4>2
    <3>5. /\ Ancestors(p)' \subseteq Ancestors(p) /\ Upward(x)' \subseteq Upward(x)
          /\ AgentsAbove(p)' \ Upward(x)' \subseteq AgentsAbove(p) \ Upward(x)
          /\ Upward(x)' \cap Ancestors(p)' # {} => x \in Ancestors(p)'
      BY <1>4, <2>1, <3>2, <3>3, WalkKept
    <3>6. (Upward(walk[p].at))' = Upward(x)'
      BY <2>1 DEF Upward
    <3>7. OnChain(p)'
      BY <2>1, <3>5, <3>6 DEF OnChain
    <3>8. Sees => Cardinality(AgentsAbove(p)' \ Upward(x)') <= walk[p].depth
      <4> DEFINE now == AgentsAbove(p)' \ Upward(x)'
                 before == AgentsAbove(p) \ Upward(x)
      <4>1. before \subseteq Ancestors(p) /\ p \in Process
        BY <1>0 DEF AgentsAbove
      <4>2. Cardinality(now) <= Cardinality(before) /\ Cardinality(now) \in Nat /\ Cardinality(before) \in Nat
        <5>1. now \subseteq before
          BY <3>5
        <5> HIDE DEF now, before
        <5> QED BY <4>1, <5>1, FewerAbove
      <4>3. Sees => Cardinality(before) <= walk[p].depth
        BY <3>3
      <4> HIDE DEF now, before
      <4>4. Sees => Cardinality(now) <= walk[p].depth
        BY <4>2, <4>3, <2>1
      <4> QED BY <4>4 DEF now
    <3>9. (AgentsAbove(p) \ Upward(walk[p].at))' = AgentsAbove(p)' \ Upward(x)'
      BY <3>6
    <3>10. (walk[p].at # NoPid => Settled(walk[p].at))'
      BY <2>1, <2>2 DEF Settled
    <3> QED BY <2>1, <3>4, <3>7, <3>8, <3>9, <3>10 DEF WalkPart
  <2> QED BY <2>3, <2>4
<1>5. ASSUME NEW p \in Pid
      PROVE  walk'[p] \in [at : Process \cup {NoPid}, depth : Nat] /\ WalkPart(p)'
  <2>1. CASE ExecAgent(p) \/ CountAncestor(p) \/ Summarise(p) \/ Ends(p)
    BY <2>1, <1>1, <1>2, <1>3
  <2>2. CASE ~(ExecAgent(p) \/ CountAncestor(p) \/ Summarise(p) \/ Ends(p))
    <3>1. walk'[p] = walk[p]
      BY <2>2, <1>0, WalkSteps
    <3> QED BY <1>0, <1>4, <2>2, <3>1
  <2> QED BY <2>1, <2>2
<1>6. WalkTyped'
  <2>1. \E f : walk' = [p \in Pid |-> f[p]]
    <3>1. walk = [p \in Pid |-> walk[p]]
      BY <1>0
    <3>2. ASSUME NEW q \in Pid, NEW w, walk' = [walk EXCEPT ![q] = w]
          PROVE  \E f : walk' = [p \in Pid |-> f[p]]
      <4>1. walk' = [p \in Pid |-> walk'[p]]
        BY <1>0, <3>2
      <4> QED BY <4>1
    <3>3. CASE UNCHANGED walk
      BY <3>1, <3>3
    <3>4. ASSUME NEW q \in Pid, \/ ExecAgent(q) \/ Dies(q) \/ CountAncestor(q) \/ Refuse(q) \/ Summarise(q)
          PROVE  \E w : walk' = [walk EXCEPT ![q] = w]
      BY <3>4 DEF ExecAgent, Dies, Ends, CountAncestor, Refuse, Summarise
    <3>5. ASSUME NEW q \in Pid, ExecTool(q) \/ RunBatch(q) \/ LookAt(q) \/ StartPoll \/ EndPoll
          PROVE  UNCHANGED walk
      BY <3>5 DEF ExecTool, RunBatch, LookAt, StartPoll, EndPoll
    <3>6. CASE StartPoll \/ EndPoll \/ UNCHANGED vars \/ (\E r \in Process, q \in Pid : Fork(r, q))
      BY <3>3, <3>6 DEF StartPoll, EndPoll, vars, Fork
    <3> QED BY <3>2, <3>3, <3>4, <3>5, <3>6 DEF Next
  <2>2. walk' = [p \in Pid |-> walk'[p]]
    BY <2>1
  <2> QED BY <2>2, <1>5 DEF WalkTyped
<1> QED BY <1>5, <1>6 DEF WalkInv

(***************************************************************************)
(* The offers to delegate.                                                 *)
(***************************************************************************)

Agents(S) == {x \in S : image[x] = "Agent"}

Nearest(q, p) == q \in AgentsAbove(p) /\ \A r \in AgentsAbove(p) : q \notin Ancestors(r)

(* What an agent that starts has counted and will count is one more than   *)
(* what the nearest agent above it was told, at most.                      *)
OfferPart(p) ==
  /\ ~Sees => walk[p].depth = 0
  /\ Sees /\ phase[p] = "Starting" =>
       \A q \in AgentsAbove(p) : Nearest(q, p) =>
         walk[p].depth + Cardinality(Agents(Upward(walk[p].at))) <= 1 + DepthTold(q)

OfferInv == \A p \in Pid : OfferPart(p)

(* What is left to look at is finite.                                      *)
LEMMA UpwardFinite ==
  ASSUME TreeInv, NEW x \in Process \cup {NoPid}
  PROVE  /\ IsFiniteSet(Upward(x)) /\ IsFiniteSet(Agents(Upward(x)))
         /\ Cardinality(Agents(Upward(x))) \in Nat
<1>1. IsFiniteSet(Upward(x))
  <2>1. CASE x = NoPid
    BY <2>1, FS_EmptySet DEF Upward
  <2>2. CASE x # NoPid
    <3>1. IsFiniteSet(Ancestors(x)) /\ Upward(x) = Ancestors(x) \cup {x}
      BY <2>2, AncestorsFinite DEF Upward
    <3> QED BY <3>1, FS_AddElement
  <2> QED BY <2>1, <2>2
<1>2. Agents(Upward(x)) \subseteq Upward(x)
  BY DEF Agents
<1>3. IsFiniteSet(Agents(Upward(x)))
  BY <1>1, <1>2, FS_Subset
<1> QED BY <1>1, <1>3, FS_CardinalityType

(* Among the agents above p, the ones but the nearest are above that.      *)
LEMMA AboveNearest ==
  ASSUME TreeInv, NEW p \in Process, NEW q, Nearest(q, p)
  PROVE  AgentsAbove(p) = AgentsAbove(q) \cup {q}
<1>1. q \in Ancestors(p) /\ image[q] = "Agent" /\ \A r \in AgentsAbove(p) : q \notin Ancestors(r)
  BY DEF Nearest, AgentsAbove
<1>2. Ancestors(q) \subseteq Ancestors(p)
  BY <1>1, AncestorsLive
<1>3. ASSUME NEW r \in AgentsAbove(p), r # q
      PROVE  r \in Ancestors(q)
  <2>1. r \in Ancestors(p)
    BY <1>3 DEF AgentsAbove
  <2> QED BY <1>1, <1>3, <2>1, AncestorsChain
<1> QED BY <1>1, <1>2, <1>3 DEF AgentsAbove

(* A running agent was told of all agents above it, and the REPL of none.  *)
LEMMA ToldOfAll ==
  ASSUME TreeInv, WalkInv, Sees, NEW p \in Process, NEW q \in AgentsAbove(p)
  PROVE  /\ q \in Process /\ DepthTold(q) \in Nat
         /\ Cardinality(AgentsAbove(q)) <= DepthTold(q)
<1>1. q \in Process /\ phase[q] \in {"Repl", "Tool", "Batch"} /\ image[q] = "Agent"
  BY AncestorsLive DEF AgentsAbove
<1>2. CASE q = Repl
  <2>1. Ancestors(q) = {}
    BY <1>1, <1>2, AncestorsUnfold DEF TreeInv
  <2> QED BY <1>1, <1>2, <2>1, FS_EmptySet DEF AgentsAbove, DepthTold
<1>3. CASE q # Repl
  <2>1. q \in Pid /\ phase[q] = "Batch"
    BY <1>1, <1>3 DEF TreeInv, Process
  <2>2. /\ walk[q].at = NoPid /\ walk[q].depth \in Nat
        /\ Cardinality(AgentsAbove(q) \ Upward(walk[q].at)) <= walk[q].depth
    BY <2>1 DEF WalkInv, WalkPart, WalkTyped
  <2>3. AgentsAbove(q) \ Upward(walk[q].at) = AgentsAbove(q)
    BY <2>2 DEF Upward
  <2> QED BY <1>1, <1>3, <2>2, <2>3 DEF DepthTold
<1> QED BY <1>2, <1>3

(* Who is nearest when a process has ended was nearest before.             *)
LEMMA NearestKept ==
  ASSUME TreeInv, [Next]_vars, NEW p \in Pid, ~Ends(p), phase[p] \in {"Starting", "Batch"},
         OnChain(p), WalkTyped, walk[p].at # NoPid => Settled(walk[p].at),
         NEW q, Nearest(q, p)'
  PROVE  Nearest(q, p) /\ ~ (q \in Pid /\ Ends(q))
<1>0. /\ p \in Process /\ walk[p].at \in Process \cup {NoPid} /\ q \in AgentsAbove(p)' /\ q \in Ancestors(p)'
      /\ \A r \in AgentsAbove(p)' : q \notin Ancestors(r)'
  BY DEF Process, WalkTyped, Nearest, AgentsAbove
<1>1. Ancestors(p)' \subseteq Ancestors(p) /\ AgentsAbove(p)' \subseteq AgentsAbove(p)
  BY <1>0, WalkKept DEF OnChain
<1>2. q \in AgentsAbove(p) /\ q \in Ancestors(p)
  BY <1>0, <1>1
<1>3. CASE \A y \in Process : Settled(y) => Ancestors(y)' = Ancestors(y) /\ image'[y] = image[y]
  <2>1. \A r \in Ancestors(p) : r \in Process /\ Settled(r)
    BY <1>0, AboveSettled, AncestorsLive
  <2>2. AgentsAbove(p)' = AgentsAbove(p)
    BY <1>0, <1>3, <2>1, AboveSettled DEF AgentsAbove
  <2>3. \A r \in AgentsAbove(p) : Ancestors(r)' = Ancestors(r)
    BY <1>3, <2>1 DEF AgentsAbove
  <2>4. q \in Pid /\ Ends(q) => FALSE
    <3>1. SUFFICES ASSUME q \in Pid, Ends(q)
                   PROVE  FALSE
      OBVIOUS
    <3>2. image'[q] = "Other"
      BY <3>1 DEF Ends, TreeInv, TreeTyped, Process
    <3>3. image'[q] = image[q] /\ image[q] = "Agent"
      BY <1>2, <1>3, <2>1 DEF AgentsAbove
    <3> QED BY <3>2, <3>3
  <2> QED BY <1>0, <1>2, <2>2, <2>3, <2>4 DEF Nearest
<1>4. ASSUME NEW d \in Pid, Ends(d)
      PROVE  Nearest(q, p) /\ ~ (q \in Pid /\ Ends(q))
  <2>1. d # p /\ d \in Process
    BY <1>4 DEF Process
  <2>2. /\ Ancestors(d)' = {}
        /\ \A y \in Process : y # d => Ancestors(y)' =
             IF d \in Ancestors(y) THEN Ancestors(y) \ ({d} \cup Ancestors(d)) ELSE Ancestors(y)
    BY <1>4, AncestorsEnded
  <2>3. Ancestors(p)' = IF d \in Ancestors(p) THEN Ancestors(p) \ ({d} \cup Ancestors(d)) ELSE Ancestors(p)
    BY <1>0, <2>1, <2>2
  <2>4. ASSUME NEW r \in AgentsAbove(p), q \in Ancestors(r)
        PROVE  FALSE
    <3>1. r \in Process /\ r \in Ancestors(p) /\ image[r] = "Agent"
      BY <1>0, AncestorsLive DEF AgentsAbove
    <3>2. ASSUME d \in Ancestors(p)
          PROVE  r \notin {d} \cup Ancestors(d)
      <4>1. q \notin {d} \cup Ancestors(d)
        BY <1>0, <2>3, <3>2
      <4>2. r \in Ancestors(d) => Ancestors(r) \subseteq Ancestors(d)
        BY <2>1, AncestorsLive
      <4> QED BY <2>4, <4>1, <4>2
    <3>3. r \in Ancestors(p)'
      BY <2>3, <3>1, <3>2
    <3>4. r # d
      BY <3>1, <3>2
    <3>5. image'[r] = image[r]
      BY <1>4, <3>1, <3>4 DEF Ends, TreeInv, TreeTyped
    <3>6. r \in AgentsAbove(p)'
      BY <3>1, <3>3, <3>5 DEF AgentsAbove
    <3>7. Ancestors(r)' = IF d \in Ancestors(r) THEN Ancestors(r) \ ({d} \cup Ancestors(d)) ELSE Ancestors(r)
      BY <2>2, <3>1, <3>4
    <3>8. d \in Ancestors(r) => d \in Ancestors(p)
      BY <1>0, <3>1, AncestorsLive
    <3>9. d \in Ancestors(r) => q \notin {d} \cup Ancestors(d)
      BY <1>0, <2>3, <3>8
    <3>10. q \in Ancestors(r)'
      BY <2>4, <3>7, <3>9
    <3> QED BY <1>0, <3>6, <3>10
  <2>5. q \in Pid /\ Ends(q) => FALSE
    <3>1. SUFFICES ASSUME q \in Pid, Ends(q)
                   PROVE  FALSE
      OBVIOUS
    <3>2. image'[q] = "Other"
      BY <3>1 DEF Ends, TreeInv, TreeTyped, Process
    <3> QED BY <1>0, <3>2 DEF AgentsAbove
  <2> QED BY <1>2, <2>4, <2>5 DEF Nearest
<1> QED BY <1>3, <1>4, SettledSteps

(* What an agent above another was told does not change while it lives.    *)
LEMMA ToldKept ==
  ASSUME TreeInv, WalkTyped, [Next]_vars, NEW p \in Process, NEW q \in Ancestors(p),
         ~ (q \in Pid /\ Ends(q))
  PROVE  DepthTold(q)' = DepthTold(q)
<1>1. q \in Process /\ phase[q] \in {"Repl", "Tool", "Batch"}
  BY AncestorsLive
<1>2. CASE q = Repl
  BY <1>2 DEF DepthTold
<1>3. CASE q # Repl
  <2>1. q \in Pid
    BY <1>1, <1>3 DEF Process
  <2>2. ~ExecAgent(q) /\ ~CountAncestor(q)
    BY <1>1 DEF ExecAgent, CountAncestor, Counting
  <2>3. ~Summarise(q)
    <3>1. PICK c \in Process : parent[c] = q /\ q # NoPid
      BY AboveHasChild, AncestorsAbove DEF TreeInv, TreeTyped
    <3> QED BY <2>1, <3>1, Childless DEF Summarise
  <2>4. walk'[q] = walk[q]
    BY <2>1, <2>2, <2>3, WalkSteps
  <2> QED BY <1>3, <2>4 DEF DepthTold
<1> QED BY <1>2, <1>3

(* No more agents are left to look at after a step than before.            *)
LEMMA AgentsLeft ==
  ASSUME TreeInv, [Next]_vars, NEW x \in Process \cup {NoPid}, x # NoPid => Settled(x),
         Upward(x)' \subseteq Upward(x)
  PROVE  Agents(Upward(x))' \subseteq Agents(Upward(x))
<1>1. ASSUME NEW y \in Upward(x)
      PROVE  y \in Process /\ Settled(y)
  <2>1. x # NoPid /\ (y = x \/ y \in Ancestors(x))
    BY <1>1 DEF Upward
  <2> QED BY <2>1, AncestorsLive DEF Settled
<1>2. CASE \A y \in Process : Settled(y) => Ancestors(y)' = Ancestors(y) /\ image'[y] = image[y]
  BY <1>1, <1>2 DEF Agents
<1>3. ASSUME NEW d \in Pid, Ends(d)
      PROVE  Agents(Upward(x))' \subseteq Agents(Upward(x))
  <2>1. \A y \in Process : image'[y] = IF y = d THEN "Other" ELSE image[y]
    BY <1>3 DEF Ends, TreeInv, TreeTyped
  <2> QED BY <1>1, <2>1 DEF Agents
<1> QED BY <1>2, <1>3, SettledSteps

(* Every step keeps the counts within what the prompts said.               *)
LEMMA OfferInvStep ==
  ASSUME TreeInv, WalkInv, OfferInv, [Next]_vars
  PROVE  OfferInv'
<1>0. /\ walk \in [Pid -> [at : Process \cup {NoPid}, depth : Nat]] /\ parent \in Tree
      /\ Pid \subseteq Process /\ NoPid \notin Process /\ WalkTyped
  BY AgentsAssumption DEF TreeInv, TreeTyped, WalkInv, WalkTyped, Process
<1>1. ASSUME NEW p \in Pid, ExecAgent(p)
      PROVE  OfferPart(p)'
  <2>1. /\ walk'[p] = [at |-> parent[p], depth |-> 0] /\ phase[p] = "Forked" /\ parent' = parent
        /\ \A y \in Process : y # p => image'[y] = image[y]
    BY <1>0, <1>1 DEF ExecAgent, TreeInv, TreeTyped
  <2>2. PICK x : x = parent[p]
    OBVIOUS
  <2>3. walk'[p].at = x /\ walk'[p].depth = 0
    BY <2>1, <2>2
  <2>4. \A y : Ancestors(y)' = Ancestors(y)
    BY <2>1, AncestorsKept
  <2>5. \A y \in Process : p \notin Ancestors(y)
    BY <2>1, AncestorsLive
  <2>6. ASSUME NEW y \in Process
        PROVE  AgentsAbove(y)' = AgentsAbove(y)
    <3>1. \A r \in Ancestors(y) : r \in Process /\ r # p
      BY <2>5, AncestorsLive
    <3> QED BY <2>1, <2>4, <3>1 DEF AgentsAbove
  <2>7. (Agents(Upward(walk[p].at)))' = AgentsAbove(p)
    <3>1. (Upward(walk[p].at))' = Ancestors(p)
      BY <1>0, <2>2, <2>3, <2>4, AncestorsUnfold DEF Upward
    <3>2. \A r \in Ancestors(p) : r \in Process /\ r # p
      BY <1>0, <2>5, AncestorsLive
    <3> QED BY <2>1, <3>1, <3>2 DEF Agents, AgentsAbove
  <2>8. ASSUME Sees, NEW q \in AgentsAbove(p)', Nearest(q, p)'
        PROVE  Cardinality(AgentsAbove(p)) <= 1 + DepthTold(q)'
    <3>1. Nearest(q, p) /\ q \in AgentsAbove(p)
      BY <1>0, <2>4, <2>6, <2>8 DEF Nearest
    <3>2. AgentsAbove(p) = AgentsAbove(q) \cup {q}
      BY <1>0, <3>1, AboveNearest
    <3>3. /\ q \in Process /\ DepthTold(q) \in Nat
          /\ Cardinality(AgentsAbove(q)) <= DepthTold(q)
      BY <1>0, <2>8, <3>1, ToldOfAll
    <3>4. IsFiniteSet(AgentsAbove(q)) /\ Cardinality(AgentsAbove(q)) \in Nat
      BY <3>3, AncestorsFinite, FS_CardinalityType
    <3>5. Cardinality(AgentsAbove(q) \cup {q}) =
            IF q \in AgentsAbove(q) THEN Cardinality(AgentsAbove(q)) ELSE Cardinality(AgentsAbove(q)) + 1
      BY <3>4, FS_AddElement
    <3>6. DepthTold(q)' = DepthTold(q)
      <4>1. q \in Ancestors(p) /\ ~ (q \in Pid /\ Ends(q))
        BY <1>0, <1>1, <2>5, <3>1 DEF AgentsAbove, ExecAgent, Ends, TreeInv, TreeTyped
      <4> QED BY <1>0, <4>1, ToldKept
    <3> QED BY <3>2, <3>3, <3>4, <3>5, <3>6
  <2>9. ASSUME NEW q \in AgentsAbove(p)', Nearest(q, p)', Sees
        PROVE  (walk[p].depth)' + Cardinality((Agents(Upward(walk[p].at)))') <= 1 + DepthTold(q)'
    <3>1. Cardinality(AgentsAbove(p)) \in Nat
      BY <1>0, AncestorsFinite, FS_CardinalityType
    <3> QED BY <2>3, <2>7, <2>8, <2>9, <3>1
  <2> QED BY <2>3, <2>9 DEF OfferPart
<1>2. ASSUME NEW p \in Pid, CountAncestor(p)
      PROVE  OfferPart(p)'
  <2>0. PICK q, d : q = walk[p].at /\ d = walk[p].depth
    OBVIOUS
  <2>1. /\ q \in Process /\ q # NoPid /\ d \in Nat /\ phase[p] = "Starting" /\ p \in Process
        /\ phase' = phase /\ parent' = parent /\ image' = image
    BY <1>0, <1>2, <2>0 DEF CountAncestor, Counting, tree
  <2>2. walk'[p] = IF ~Exists(q) \/ ~Sees THEN [at |-> NoPid, depth |-> d]
                   ELSE [at |-> parent[q], depth |-> d + (IF image[q] = "Agent" THEN 1 ELSE 0)]
    BY <1>0, <1>2, <2>0 DEF CountAncestor, Sees
  <2>3. ~Sees => d = 0
    BY <2>0 DEF OfferInv, OfferPart
  <2>4. ~Sees => walk'[p].depth = 0
    BY <2>2, <2>3
  <2>5. \A y : Ancestors(y)' = Ancestors(y) /\ Upward(y)' = Upward(y) /\ AgentsAbove(y)' = AgentsAbove(y)
    BY <2>1, AncestorsKept DEF Upward, AgentsAbove
  <2>6. ASSUME Sees, NEW r \in AgentsAbove(p)', Nearest(r, p)'
        PROVE  (walk[p].depth)' + Cardinality((Agents(Upward(walk[p].at)))') <= 1 + DepthTold(r)'
    <3>1. Nearest(r, p) /\ r \in AgentsAbove(p)
      BY <2>5, <2>6 DEF Nearest
    <3>2. d + Cardinality(Agents(Upward(q))) <= 1 + DepthTold(r)
      BY <2>0, <2>1, <2>6, <3>1 DEF OfferInv, OfferPart
    <3>3. Cardinality(Agents(Upward(q))) \in Nat /\ IsFiniteSet(Agents(Upward(q)))
      BY <2>1, UpwardFinite
    <3>4. DepthTold(r)' = DepthTold(r) /\ DepthTold(r) \in Nat
      <4>1. r \in Ancestors(p) /\ ~ (r \in Pid /\ Ends(r))
        <5>1. r \in Ancestors(p) /\ r \in Process /\ phase[r] # "Gone"
          BY <2>1, <3>1, AncestorsLive DEF AgentsAbove
        <5> QED BY <2>1, <5>1 DEF Ends, TreeInv, TreeTyped
      <4> QED BY <2>1, <2>6, <3>1, <4>1, <1>0, ToldKept, ToldOfAll
    <3>5. CASE ~Exists(q)
      <4>1. walk'[p].at = NoPid /\ walk'[p].depth = d
        BY <2>2, <3>5
      <4>2. (Agents(Upward(walk[p].at)))' = {}
        BY <4>1 DEF Upward, Agents
      <4> QED BY <2>1, <3>2, <3>3, <3>4, <4>1, <4>2, FS_EmptySet
    <3>6. CASE Exists(q)
      <4>0. PICK u : u = parent[q]
        OBVIOUS
      <4>1. walk'[p].at = u /\ walk'[p].depth = d + (IF image[q] = "Agent" THEN 1 ELSE 0) /\ u \in Process \cup {NoPid}
        BY <1>0, <2>1, <2>2, <2>6, <3>6, <4>0 DEF Tree
      <4>2. Upward(q) = {q} \cup Upward(u) /\ q \notin Upward(u)
        BY <2>1, <4>0, AncestorsUnfold, AncestorsLive DEF Upward
      <4>3. (Agents(Upward(walk[p].at)))' = Agents(Upward(u))
        BY <2>1, <2>5, <4>1 DEF Agents, Upward
      <4>4. Cardinality(Agents(Upward(u))) \in Nat /\ IsFiniteSet(Agents(Upward(u)))
        BY <4>1, UpwardFinite
      <4>5. CASE image[q] = "Agent"
        <5>1. Agents(Upward(q)) = Agents(Upward(u)) \cup {q} /\ q \notin Agents(Upward(u))
          BY <4>2, <4>5 DEF Agents
        <5>2. Cardinality(Agents(Upward(u)) \cup {q}) = Cardinality(Agents(Upward(u))) + 1
          BY <4>4, <5>1, FS_AddElement
        <5> QED BY <2>1, <3>2, <3>4, <4>1, <4>3, <4>4, <4>5, <5>1, <5>2
      <4>6. CASE image[q] # "Agent"
        <5>1. Agents(Upward(q)) = Agents(Upward(u))
          BY <4>2, <4>6 DEF Agents
        <5> QED BY <2>1, <3>2, <3>4, <4>1, <4>3, <4>4, <4>6, <5>1
      <4> QED BY <4>5, <4>6
    <3> QED BY <3>5, <3>6
  <2> QED BY <2>4, <2>6 DEF OfferPart
<1>3. ASSUME NEW p \in Pid, Summarise(p) \/ Ends(p)
      PROVE  OfferPart(p)'
  <2>1. walk'[p] = NoWalk /\ phase'[p] \in {"Ending", "Gone"}
    BY <1>0, <1>3 DEF Summarise, Ends, TreeInv, TreeTyped
  <2>2. walk'[p].depth = 0
    BY <2>1 DEF NoWalk
  <2> QED BY <2>1, <2>2 DEF OfferPart
<1>4. ASSUME NEW p \in Pid, walk'[p] = walk[p], ~ExecAgent(p), ~Ends(p)
      PROVE  OfferPart(p)'
  <2>0. PICK x, d : x = walk[p].at /\ d = walk[p].depth
    OBVIOUS
  <2>1. /\ x \in Process \cup {NoPid} /\ (x # NoPid => Settled(x)) /\ WalkPart(p) /\ OfferPart(p)
        /\ walk'[p].at = x /\ walk'[p].depth = d /\ d \in Nat
    BY <1>0, <1>4, <2>0 DEF WalkInv, WalkPart, OfferInv
  <2>2. ~Sees => d = 0
    BY <2>0, <2>1 DEF OfferPart
  <2>3. ASSUME Sees, phase'[p] = "Starting", NEW q \in AgentsAbove(p)', Nearest(q, p)'
        PROVE  d + Cardinality(Agents(Upward(x))') <= 1 + DepthTold(q)'
    <3>1. phase[p] = "Starting"
      <4>1. phase'[p] = phase[p] \/ RunBatch(p)
        BY <1>0, <1>4, <2>3, WalkSteps
      <4>2. RunBatch(p) => phase'[p] = "Batch"
        BY <1>0 DEF RunBatch, TreeInv, TreeTyped
      <4> QED BY <2>3, <4>1, <4>2
    <3>2. OnChain(p) /\ (Upward(x) \cap Ancestors(p) # {} => x \in Ancestors(p))
      BY <2>0, <2>1, <3>1 DEF WalkPart, OnChain
    <3>3. Nearest(q, p) /\ ~ (q \in Pid /\ Ends(q))
      BY <1>0, <1>4, <2>0, <2>1, <2>3, <3>1, <3>2, NearestKept
    <3>4. q \in AgentsAbove(p) /\ q \in Ancestors(p)
      BY <3>3 DEF Nearest, AgentsAbove
    <3>5. d + Cardinality(Agents(Upward(x))) <= 1 + DepthTold(q)
      BY <2>0, <2>1, <2>3, <3>1, <3>3, <3>4 DEF OfferPart
    <3>6. DepthTold(q)' = DepthTold(q) /\ DepthTold(q) \in Nat
      BY <1>0, <2>3, <3>3, <3>4, ToldKept, ToldOfAll
    <3>7. Upward(x)' \subseteq Upward(x)
      BY <1>4, <2>1, <3>1, <3>2, WalkKept
    <3>8. Agents(Upward(x))' \subseteq Agents(Upward(x))
      BY <2>1, <3>7, AgentsLeft
    <3> DEFINE now == Agents(Upward(x))'
               before == Agents(Upward(x))
    <3>9. Cardinality(now) <= Cardinality(before) /\ Cardinality(now) \in Nat /\ Cardinality(before) \in Nat
      <4>1. IsFiniteSet(before) /\ Cardinality(before) \in Nat
        BY <2>1, UpwardFinite
      <4>2. now \subseteq before
        BY <3>8
      <4> HIDE DEF now, before
      <4> QED BY <4>1, <4>2, FS_Subset, FS_CardinalityType
    <3>10. d + Cardinality(before) <= 1 + DepthTold(q)
      BY <3>5
    <3>11. d + Cardinality(now) <= 1 + DepthTold(q)
      <4> HIDE DEF now, before
      <4> QED BY <2>1, <3>6, <3>9, <3>10
    <3> QED BY <3>6, <3>11
  <2>4. (Agents(Upward(walk[p].at)))' = Agents(Upward(x))'
    BY <2>1 DEF Upward, Agents
  <2> QED BY <2>1, <2>2, <2>3, <2>4 DEF OfferPart
<1>5. ASSUME NEW p \in Pid
      PROVE  OfferPart(p)'
  <2>1. CASE ExecAgent(p) \/ CountAncestor(p) \/ Summarise(p) \/ Ends(p)
    BY <2>1, <1>1, <1>2, <1>3
  <2>2. CASE ~(ExecAgent(p) \/ CountAncestor(p) \/ Summarise(p) \/ Ends(p))
    <3>1. walk'[p] = walk[p]
      BY <2>2, <1>0, WalkSteps
    <3> QED BY <1>4, <2>2, <3>1
  <2> QED BY <2>1, <2>2
<1> QED BY <1>5 DEF OfferInv

(***************************************************************************)
(* The theorems.                                                           *)
(***************************************************************************)

AgentsInv == TreeInv /\ WalkInv /\ OfferInv /\ ReportInv

(* The invariant holds in the initial state,                               *)
LEMMA AgentsInvInit ==
  ASSUME Init
  PROVE  AgentsInv
<1>0. Repl \in Process /\ NoPid \notin Process /\ Pid \subseteq Process /\ Repl \notin Pid
  BY AgentsAssumption DEF Process
<1>1. /\ \A p \in Process : parent[p] = NoPid /\ phase[p] = IF p = Repl THEN "Repl" ELSE "Unborn"
      /\ \A p \in Process : image[p] = IF p = Repl THEN "Agent" ELSE "Other"
      /\ TreeTyped
  BY DEF Init, TreeTyped, Tree, Phases
<1>2. Ranked(parent)
  <2> DEFINE rank == [p \in Process |-> 0]
  <2>1. rank \in [Process -> Nat]
    OBVIOUS
  <2>2. Ranking(parent, rank)
    BY <1>1, <2>1 DEF Ranking
  <2> HIDE DEF rank
  <2> QED BY <2>1, <2>2 DEF Ranked
<1>3. TreeInv
  BY <1>0, <1>1, <1>2 DEF TreeInv
<1>4. \A p \in Pid : walk[p] = NoWalk /\ phase[p] = "Unborn" /\ journal[p] = "None"
                     /\ started[p] = 0 /\ done[p] = 0
  BY <1>0, <1>1 DEF Init
<1>5. WalkInv
  <2>1. WalkTyped
    BY DEF Init, WalkTyped, NoWalk
  <2>2. ASSUME NEW p \in Pid
        PROVE  WalkPart(p)
    BY <1>4 DEF WalkPart, NoWalk
  <2> QED BY <2>1, <2>2 DEF WalkInv
<1>6. OfferInv
  BY <1>4 DEF OfferInv, OfferPart, NoWalk
<1>7. ReportInv
  <2>1. poll = NoPoll /\ known = {}
    BY DEF Init
  <2>2. poll.open = FALSE /\ poll.left = {} /\ poll.found = {}
    BY <2>1 DEF NoPoll
  <2>3. ReportTyped
    BY <2>1 DEF Init, ReportTyped, NoPoll
  <2>4. ASSUME NEW p \in Pid
        PROVE  ReportPart(p)
    BY <1>4, <2>1, <2>2 DEF ReportPart
  <2> QED BY <2>1, <2>2, <2>3, <2>4 DEF ReportInv
<1> QED BY <1>3, <1>5, <1>6, <1>7 DEF AgentsInv

(* and in every other one.                                                 *)
LEMMA AgentsInvHolds == Spec => []AgentsInv
<1>1. Init => AgentsInv
  BY AgentsInvInit
<1>2. AgentsInv /\ [Next]_vars => AgentsInv'
  BY TreeInvStep, WalkInvStep, OfferInvStep, ReportInvStep DEF AgentsInv
<1> QED BY <1>1, <1>2, PTL DEF Spec

(* An agent is reported started once and done once at most, and done only  *)
(* with its Summary, however the polls and the processes interleave        *)
(* (repl.rs, agents.rs).                                                   *)
THEOREM ReportsOnce == Spec => []ReportedOnce
<1>1. AgentsInv => ReportedOnce
  <2>1. SUFFICES ASSUME AgentsInv, NEW p \in Pid
                 PROVE  /\ started[p] <= 1 /\ done[p] <= 1
                        /\ done[p] = 1 => journal[p] = "Summary" /\ p \notin known
    BY DEF ReportedOnce
  <2> QED BY <2>1 DEF AgentsInv, ReportInv, ReportPart
<1> QED BY <1>1, AgentsInvHolds, PTL

(* Where an agent can look at the processes above it, and has no higher    *)
(* limit than the REPL, there are never more agents above a running one    *)
(* than the limit allows (process.rs, agents.rs).                          *)
THEOREM BoundsDepth ==
  ASSUME SeesAbove(AgentAccess, AgentConfig.sandbox),
         AgentConfig.max_agent_depth <= Config.max_agent_depth
  PROVE  Spec => []DepthBounded
<1>1. AgentsInv => DepthBounded
  <2>1. SUFFICES ASSUME AgentsInv, NEW p \in Pid, phase[p] = "Batch"
                 PROVE  Cardinality(AgentsAbove(p)) < Config.max_agent_depth
    BY DEF DepthBounded
  <2>2. Sees
    BY DEF Sees
  <2>3. /\ walk[p].at = NoPid /\ walk[p].depth < AgentConfig.max_agent_depth
        /\ Cardinality(AgentsAbove(p) \ Upward(walk[p].at)) <= walk[p].depth
        /\ walk[p].depth \in Nat
    BY <2>1, <2>2 DEF AgentsInv, WalkInv, WalkPart, WalkTyped
  <2>4. AgentsAbove(p) \ Upward(walk[p].at) = AgentsAbove(p)
    BY <2>3 DEF Upward
  <2>5. Cardinality(AgentsAbove(p)) \in Nat
    BY <2>1, AncestorsFinite, FS_CardinalityType DEF AgentsInv, Process
  <2>6. AgentConfig.max_agent_depth \in Nat /\ Config.max_agent_depth \in Nat
    BY AgentLimit, AgentsAssumption
  <2> QED BY <2>3, <2>4, <2>5, <2>6
<1> QED BY <1>1, AgentsInvHolds, PTL

(* Where an agent has no lower limit than the REPL, the one that is turned *)
(* down for its depth was not started by an agent that offers to delegate  *)
(* (context.rs), whether it sees the processes above it or not.            *)
THEOREM HonoursOffers ==
  ASSUME Config.max_agent_depth <= AgentConfig.max_agent_depth
  PROVE  Spec => []OfferHonoured
<1>1. AgentsInv => OfferHonoured
  <2>1. SUFFICES ASSUME AgentsInv, NEW p \in Pid,
                        phase[p] = "Starting" /\ ~Counting(p) /\ AtLimit(p),
                        NEW q \in AgentsAbove(p), OffersDelegation(q),
                        \A r \in AgentsAbove(p) : q \notin Ancestors(r)
                 PROVE  FALSE
    BY DEF OfferHonoured
  <2>2. TreeInv /\ WalkInv /\ OfferPart(p) /\ p \in Process
    BY <2>1 DEF AgentsInv, OfferInv, Process
  <2>3. walk[p].at = NoPid /\ walk[p].depth \in Nat /\ walk[p].depth >= AgentConfig.max_agent_depth
    BY <2>1, <2>2 DEF Counting, AtLimit, WalkInv, WalkTyped
  <2>4. AgentConfig.max_agent_depth \in Nat /\ Config.max_agent_depth \in Nat
    BY AgentLimit, AgentsAssumption
  <2>5. DepthTold(q) + 1 < LimitTold(q) /\ LimitTold(q) \in Nat /\ LimitTold(q) <= AgentConfig.max_agent_depth
    BY <2>1, <2>4 DEF OffersDelegation, LimitTold
  <2>6. DepthTold(q) \in Nat
    <3>1. q \in Process
      BY <2>2, AncestorsLive DEF AgentsAbove
    <3> QED BY <2>2, <3>1 DEF DepthTold, WalkInv, WalkTyped, Process
  <2>7. CASE Sees
    <3>1. Nearest(q, p)
      BY <2>1 DEF Nearest
    <3>2. walk[p].depth + Cardinality(Agents(Upward(walk[p].at))) <= 1 + DepthTold(q)
      BY <2>1, <2>2, <2>7, <3>1 DEF OfferPart
    <3>3. Agents(Upward(walk[p].at)) = {}
      BY <2>3 DEF Upward, Agents
    <3>4. walk[p].depth <= 1 + DepthTold(q)
      BY <2>3, <2>6, <3>2, <3>3, FS_EmptySet
    <3> QED BY <2>3, <2>4, <2>5, <2>6, <3>4
  <2>8. CASE ~Sees
    <3>1. walk[p].depth = 0
      BY <2>2, <2>8 DEF OfferPart
    <3> QED BY <2>3, <2>4, <2>5, <2>6, <3>1
  <2> QED BY <2>7, <2>8
<1> QED BY <1>1, AgentsInvHolds, PTL
=============================================================================
