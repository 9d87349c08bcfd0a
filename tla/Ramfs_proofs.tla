----------------------------- MODULE Ramfs_proofs -----------------------------
(***************************************************************************)
(* The nodes of the ram file system make a tree, whatever is made, written *)
(* or unpacked and wherever memory ends, every one of them is found under  *)
(* its own path, and each call is a step of the tree of names (FileTree).  *)
(*                                                                         *)
(* Linked says what the links are without walking along them: a node's     *)
(* next is the latest of its parent's children that is older, and a        *)
(* parent's first is the latest of them all. So a walk along a list goes   *)
(* down through all the children and ends, and a node that is added in     *)
(* front keeps all of that true.                                           *)
(*                                                                         *)
(* Walks, paths and ways are functions defined by their own earlier        *)
(* values. That there are such functions is shown first (WalkExists,       *)
(* WayExists, EnsuringExists, PlacingExists), by the least argument at     *)
(* which there would be none (SmallestOf, AllOf).                          *)
(*                                                                         *)
(* For the steps of the tree, PathsIn gives every node its path, TreeOf    *)
(* the tree that these paths name, which is Tree (TreeIs), NewEntry what   *)
(* one node more does to it and WayAdded what the directories made on the  *)
(* way to an entry do: each of them is one more prefix of its path, as far *)
(* as memory and the kinds of what is there allow.                         *)
(***************************************************************************)
EXTENDS Ramfs, SequenceTheorems, WellFoundedInduction, TLAPS

NodeType ==
  [name : Names \cup {NoName}, dir : BOOLEAN, parent : Nat, first : Nat, next : Nat,
   data : Contents \cup {Empty}]

(* m is the latest of p's children before b, or None when there is none. *)
Latest(t, p, b, m) ==
  /\ m = None \/ (m \in 2 .. b - 1 /\ t[m].parent = p)
  /\ \A c \in 2 .. b - 1 : t[c].parent = p => c <= m

Linked(t) ==
  /\ Len(t) >= 1 /\ t[Root].dir
  /\ \A n \in 2 .. Len(t) :
       /\ t[n].parent \in 1 .. n - 1 /\ t[t[n].parent].dir /\ t[n].name # NoName
       /\ Latest(t, t[n].parent, n, t[n].next)
  /\ \A p \in 1 .. Len(t) : Latest(t, p, Len(t) + 1, t[p].first)

NamesDiffer(t) ==
  \A m, n \in 2 .. Len(t) :
    t[m].parent = t[n].parent /\ t[m].name = t[n].name => m = n

OnlyFilesHoldData(t) == \A n \in 1 .. Len(t) : t[n].data # Empty => ~ t[n].dir

Sound(t) == t \in Seq(NodeType) /\ Linked(t) /\ NamesDiffer(t) /\ OnlyFilesHoldData(t)

SoundFs(u) ==
  /\ u = [nodes |-> u.nodes, room |-> u.room]
  /\ u.room \in Nat /\ Sound(u.nodes)
-----------------------------------------------------------------------------
(* A number that fails comes with a least one, before which all hold. *)
LEMMA SmallestOf ==
  ASSUME NEW S \in SUBSET Nat, S # {}
  PROVE  \E p \in S : \A q \in S : p <= q
<1> DEFINE R == {ss \in Nat \X Nat : ss[1] < ss[2]}
<1>1. IsWellFoundedOn(R, Nat)
  BY NatLessThanWellFounded DEF OpToRel
<1> HIDE DEF R
<1>2. PICK p \in S : \A q \in S : ~ (<<q, p>> \in R)
  BY <1>1, WFMin
<1>3. ASSUME NEW q \in S PROVE p <= q
  <2>1. ~ (<<q, p>> \in R)
    BY <1>2
  <2>2. p \in Nat /\ q \in Nat
    OBVIOUS
  <2>3. ~ (q < p)
    BY <2>1, <2>2 DEF R
  <2> QED BY <2>2, <2>3
<1> QED BY <1>3

(* A set that holds every number whose predecessors it holds has them all. *)
LEMMA AllOf ==
  ASSUME NEW n \in Nat, NEW S,
         ASSUME NEW k \in 0 .. n, \A j \in 0 .. k - 1 : j \in S
         PROVE  k \in S
  PROVE  \A k \in 0 .. n : k \in S
<1> DEFINE Bad == {k \in 0 .. n : k \notin S}
<1> SUFFICES ASSUME Bad # {} PROVE FALSE
  OBVIOUS
<1>1. Bad \in SUBSET Nat
  OBVIOUS
<1>2. PICK p \in Bad : \A q \in Bad : p <= q
  BY <1>1, SmallestOf
<1>3. p \in 0 .. n /\ p \notin S
  OBVIOUS
<1>4. \A j \in 0 .. p - 1 : j \in S
  BY <1>2, <1>3
<1> QED BY <1>3, <1>4
-----------------------------------------------------------------------------
(* The walk along a list of children. *)
KidStep(t, p, f, k) ==
  IF k = 1 THEN t[p].first ELSE IF f[k - 1] = None THEN None ELSE t[f[k - 1]].next

Walk(t, p, n, f) == f = [k \in 1 .. n |-> KidStep(t, p, f, k)]

LEMMA WalkExists ==
  ASSUME NEW t, NEW p, NEW n \in Nat
  PROVE  \E f : Walk(t, p, n, f)
<1> DEFINE S == {m \in 0 .. n : \E f : Walk(t, p, m, f)}
<1>1. ASSUME NEW m \in 0 .. n, \A j \in 0 .. m - 1 : j \in S
      PROVE  m \in S
  <2>1. CASE m = 0
    <3>1. Walk(t, p, 0, << >>)
      BY DEF Walk
    <3> QED BY <2>1, <3>1
  <2>2. CASE m # 0
    <3>1. PICK f : Walk(t, p, m - 1, f)
      BY <1>1, <2>2
    <3> DEFINE g == [k \in 1 .. m |-> IF k = m THEN KidStep(t, p, f, m) ELSE f[k]]
    <3>2. ASSUME NEW k \in 1 .. m PROVE g[k] = KidStep(t, p, g, k)
      <4>1. k # 1 => g[k - 1] = f[k - 1]
        OBVIOUS
      <4>2. KidStep(t, p, g, k) = KidStep(t, p, f, k)
        BY <4>1 DEF KidStep
      <4>3. g[k] = KidStep(t, p, f, k)
        BY <3>1 DEF Walk
      <4> QED BY <4>2, <4>3
    <3>3. Walk(t, p, m, g)
      BY <3>2 DEF Walk
    <3> QED BY <3>3
  <2> QED BY <2>1, <2>2
<1> HIDE DEF S
<1>2. \A m \in 0 .. n : m \in S
  BY <1>1, AllOf
<1> QED BY <1>2 DEF S

LEMMA KidWalks ==
  ASSUME NEW t, NEW p, Len(t) \in Nat
  PROVE  Walk(t, p, Len(t), Kid(t, p))
<1>1. \E f : Walk(t, p, Len(t), f)
  BY WalkExists
<1>2. Kid(t, p) = CHOOSE f : Walk(t, p, Len(t), f)
  BY DEF Kid, Walk, KidStep
<1> QED BY <1>1, <1>2
-----------------------------------------------------------------------------
(* What a walk finds: the children, from the latest down. *)
LEMMA KidStarts ==
  ASSUME NEW t, Len(t) \in Nat, NEW p, NEW k \in 1 .. Len(t)
  PROVE  Kid(t, p)[k] = IF k = 1 THEN t[p].first
                        ELSE IF Kid(t, p)[k - 1] = None THEN None ELSE t[Kid(t, p)[k - 1]].next
BY KidWalks DEF Walk, KidStep

LEMMA KidIsChild ==
  ASSUME NEW t, Len(t) \in Nat, Linked(t), NEW p \in 1 .. Len(t), NEW k \in 1 .. Len(t)
  PROVE  \/ Kid(t, p)[k] = None
         \/ /\ Kid(t, p)[k] \in 2 .. Len(t) /\ t[Kid(t, p)[k]].parent = p
            /\ Kid(t, p)[k] <= Len(t) + 1 - k
<1> DEFINE Good(j) == \/ Kid(t, p)[j] = None
                      \/ /\ Kid(t, p)[j] \in 2 .. Len(t) /\ t[Kid(t, p)[j]].parent = p
                         /\ Kid(t, p)[j] <= Len(t) + 1 - j
           S == {j \in 0 .. Len(t) : j # 0 => Good(j)}
<1>1. ASSUME NEW m \in 0 .. Len(t), \A j \in 0 .. m - 1 : j \in S
      PROVE  m \in S
  <2>1. CASE m = 1
    <3>1. Kid(t, p)[m] = t[p].first
      BY <2>1, KidStarts
    <3>2. Latest(t, p, Len(t) + 1, t[p].first)
      BY DEF Linked
    <3> QED BY <2>1, <3>1, <3>2 DEF Latest
  <2>2. CASE m > 1
    <3>1. Good(m - 1)
      BY <1>1, <2>2
    <3>2. Kid(t, p)[m] = IF Kid(t, p)[m - 1] = None THEN None ELSE t[Kid(t, p)[m - 1]].next
      BY <2>2, KidStarts
    <3>3. CASE Kid(t, p)[m - 1] # None
      <4> DEFINE n == Kid(t, p)[m - 1]
      <4>1. n \in 2 .. Len(t) /\ t[n].parent = p /\ n <= Len(t) + 2 - m
        BY <3>1, <3>3
      <4>2. Kid(t, p)[m] = t[n].next
        BY <3>2, <3>3
      <4> HIDE DEF n
      <4>3. Latest(t, p, n, t[n].next)
        BY <4>1 DEF Linked
      <4> QED BY <4>1, <4>2, <4>3 DEF Latest
    <3> QED BY <3>2, <3>3
  <2> QED BY <2>1, <2>2
<1> HIDE DEF S
<1>2. \A m \in 0 .. Len(t) : m \in S
  BY <1>1, AllOf
<1> QED BY <1>2 DEF S

(* One that comes later in the list is older. *)
LEMMA KidsDescend ==
  ASSUME NEW t, Len(t) \in Nat, Linked(t), NEW p \in 1 .. Len(t),
         NEW j \in 1 .. Len(t), NEW k \in j + 1 .. Len(t), Kid(t, p)[k] # None
  PROVE  Kid(t, p)[j] # None /\ Kid(t, p)[k] < Kid(t, p)[j]
<1> DEFINE Good(i) == Kid(t, p)[i] # None =>
                        Kid(t, p)[j] # None /\ Kid(t, p)[i] < Kid(t, p)[j]
           S == {i \in 0 .. Len(t) : i > j => Good(i)}
<1>1. ASSUME NEW m \in 0 .. Len(t), \A i \in 0 .. m - 1 : i \in S
      PROVE  m \in S
  <2> SUFFICES ASSUME m > j, Kid(t, p)[m] # None
               PROVE  Kid(t, p)[j] # None /\ Kid(t, p)[m] < Kid(t, p)[j]
    OBVIOUS
  <2> DEFINE n == Kid(t, p)[m - 1]
  <2>1. n # None /\ Kid(t, p)[m] = t[n].next
    BY KidStarts
  <2>2. n \in 2 .. Len(t) /\ t[n].parent = p
    BY <2>1, KidIsChild
  <2>3. Latest(t, p, n, t[n].next)
    BY <2>2 DEF Linked
  <2>4. Kid(t, p)[m] < n
    BY <2>1, <2>2, <2>3 DEF Latest
  <2>5. m - 1 = j \/ (Kid(t, p)[j] # None /\ n < Kid(t, p)[j])
    BY <1>1, <2>1
  <2>6. Kid(t, p)[j] \in Nat /\ Kid(t, p)[m] \in Nat
    BY KidIsChild DEF None
  <2> QED BY <2>1, <2>2, <2>4, <2>5, <2>6
<1> HIDE DEF S
<1>2. \A m \in 0 .. Len(t) : m \in S
  BY <1>1, AllOf
<1> QED BY <1>2 DEF S

(* Every child is found: of those that are not, the latest stands behind a
   child that is, or at the head of the list. *)
LEMMA KidsAreAll ==
  ASSUME NEW t, Len(t) \in Nat, Linked(t), NEW p \in 1 .. Len(t),
         NEW c \in 2 .. Len(t), t[c].parent = p
  PROVE  \E k \in 1 .. Len(t) : Kid(t, p)[k] = c
<1> DEFINE N == Len(t)
           Past == {k \in 1 .. N : Kid(t, p)[k] = None \/ Kid(t, p)[k] <= c}
<1>1. N \in Past /\ Past \in SUBSET Nat
  BY KidIsChild
<1>2. PICK k \in Past : \A j \in Past : k <= j
  BY <1>1, SmallestOf
<1>3. CASE k = 1
  <2>1. Kid(t, p)[1] = t[p].first
    BY <1>3, KidStarts
  <2>2. Latest(t, p, N + 1, t[p].first)
    BY DEF Linked
  <2>3. c <= t[p].first /\ t[p].first # None
    BY <2>2 DEF Latest, None
  <2>4. Kid(t, p)[1] \in Nat
    BY <1>3, KidIsChild DEF None
  <2>5. Kid(t, p)[1] <= c
    BY <1>3, <2>1, <2>3
  <2> QED BY <1>3, <2>1, <2>3, <2>4, <2>5
<1>4. CASE k # 1
  <2> DEFINE n == Kid(t, p)[k - 1]
  <2>1. k - 1 \in 1 .. N /\ k - 1 \notin Past
    BY <1>2, <1>4
  <2>2. n # None /\ ~ (n <= c)
    BY <2>1
  <2>3. n \in 2 .. N /\ t[n].parent = p /\ n > c
    BY <2>1, <2>2, KidIsChild
  <2>4. Kid(t, p)[k] = t[n].next
    BY <1>4, <2>2, KidStarts
  <2>5. Latest(t, p, n, t[n].next)
    BY <2>3 DEF Linked
  <2>6. c <= t[n].next /\ t[n].next # None /\ t[n].next \in Nat
    BY <2>3, <2>5 DEF Latest, None
  <2>7. Kid(t, p)[k] <= c
    BY <2>4, <2>6
  <2> QED BY <2>4, <2>6, <2>7
<1> QED BY <1>3, <1>4
-----------------------------------------------------------------------------
(* ramfs_find_child: a child of that name, or None when there is none. *)
LEMMA FindsChild ==
  ASSUME NEW t, Len(t) \in Nat, Linked(t), NEW p \in 1 .. Len(t), NEW name
  PROVE  \/ /\ FindChild(t, p, name) = None
            /\ \A c \in 2 .. Len(t) : t[c].parent = p => t[c].name # name
         \/ /\ FindChild(t, p, name) \in 2 .. Len(t)
            /\ t[FindChild(t, p, name)].parent = p /\ t[FindChild(t, p, name)].name = name
<1> DEFINE Named(k) == Kid(t, p)[k] # None /\ t[Kid(t, p)[k]].name = name
           First(k) == Named(k) /\ \A j \in 1 .. k - 1 : ~ Named(j)
<1>1. CASE \E k \in 1 .. Len(t) : Named(k)
  <2> DEFINE S == {k \in 1 .. Len(t) : Named(k)}
  <2>1. S \in SUBSET Nat /\ S # {}
    BY <1>1
  <2>2. PICK k \in S : \A j \in S : k <= j
    BY <2>1, SmallestOf
  <2>3. \E i \in 1 .. Len(t) : First(i)
    BY <2>2
  <2> DEFINE i == CHOOSE i \in 1 .. Len(t) : First(i)
  <2>4. i \in 1 .. Len(t) /\ First(i)
    BY <2>3
  <2>5. FindChild(t, p, name) = Kid(t, p)[i]
    BY <1>1 DEF FindChild
  <2> HIDE DEF i
  <2> QED BY <2>4, <2>5, KidIsChild
<1>2. CASE ~ \E k \in 1 .. Len(t) : Named(k)
  <2>1. FindChild(t, p, name) = None
    BY <1>2 DEF FindChild
  <2>2. ASSUME NEW c \in 2 .. Len(t), t[c].parent = p PROVE t[c].name # name
    <3>1. PICK k \in 1 .. Len(t) : Kid(t, p)[k] = c
      BY <2>2, KidsAreAll
    <3>2. ~ Named(k)
      BY <1>2
    <3> QED BY <3>1, <3>2 DEF None
  <2> QED BY <2>1, <2>2
<1> QED BY <1>1, <1>2

(* With names that differ, the child that has the name is the one found. *)
LEMMA FindsNamed ==
  ASSUME NEW t, Len(t) \in Nat, Linked(t), NamesDiffer(t), NEW c \in 2 .. Len(t)
  PROVE  FindChild(t, t[c].parent, t[c].name) = c
<1>1. t[c].parent \in 1 .. Len(t)
  BY DEF Linked
<1> QED BY <1>1, FindsChild DEF NamesDiffer
-----------------------------------------------------------------------------
(* The way along a path. *)
WayStep(t, path, f, i) ==
  IF i = 0 THEN Root
  ELSE IF f[i - 1] = None \/ path[i] = NoName THEN f[i - 1]
  ELSE FindChild(t, f[i - 1], path[i])

Way(t, path, n, f) == f = [i \in 0 .. n |-> WayStep(t, path, f, i)]

NodesOn(t, path) == CHOOSE f : Way(t, path, Len(path), f)

LEMMA WayExists ==
  ASSUME NEW t, NEW path, NEW n \in Nat
  PROVE  \E f : Way(t, path, n, f)
<1> DEFINE S == {m \in 0 .. n : \E f : Way(t, path, m, f)}
<1>1. ASSUME NEW m \in 0 .. n, \A j \in 0 .. m - 1 : j \in S
      PROVE  m \in S
  <2>1. CASE m = 0
    <3>1. Way(t, path, 0, [i \in 0 .. 0 |-> Root])
      BY DEF Way, WayStep
    <3> QED BY <2>1, <3>1
  <2>2. CASE m # 0
    <3>1. PICK f : Way(t, path, m - 1, f)
      BY <1>1, <2>2
    <3> DEFINE g == [i \in 0 .. m |-> IF i = m THEN WayStep(t, path, f, m) ELSE f[i]]
    <3>2. ASSUME NEW i \in 0 .. m PROVE g[i] = WayStep(t, path, g, i)
      <4>1. i # 0 => g[i - 1] = f[i - 1]
        OBVIOUS
      <4>2. WayStep(t, path, g, i) = WayStep(t, path, f, i)
        BY <4>1 DEF WayStep
      <4>3. g[i] = WayStep(t, path, f, i)
        BY <3>1 DEF Way
      <4> QED BY <4>2, <4>3
    <3>3. Way(t, path, m, g)
      BY <3>2 DEF Way
    <3> QED BY <3>3
  <2> QED BY <2>1, <2>2
<1> HIDE DEF S
<1>2. \A m \in 0 .. n : m \in S
  BY <1>1, AllOf
<1> QED BY <1>2 DEF S

LEMMA ResolveIsWay ==
  ASSUME NEW t, NEW path, Len(path) \in Nat
  PROVE  /\ Way(t, path, Len(path), NodesOn(t, path))
         /\ Resolve(t, path) = NodesOn(t, path)[Len(path)]
<1>1. \E f : Way(t, path, Len(path), f)
  BY WayExists
<1>2. Way(t, path, Len(path), NodesOn(t, path))
  BY <1>1 DEF NodesOn
<1>3. Resolve(t, path) = NodesOn(t, path)[Len(path)]
  BY DEF Resolve, NodesOn, Way, WayStep
<1> QED BY <1>2, <1>3

LEMMA WayNodes ==
  ASSUME NEW t, Len(t) \in Nat, Linked(t), NEW path, NEW n \in Nat, NEW f, Way(t, path, n, f),
         NEW k \in 0 .. n
  PROVE  f[k] = None \/ f[k] \in 1 .. Len(t)
<1> DEFINE S == {i \in 0 .. n : f[i] = None \/ f[i] \in 1 .. Len(t)}
<1>1. ASSUME NEW m \in 0 .. n, \A j \in 0 .. m - 1 : j \in S
      PROVE  m \in S
  <2>1. f[m] = WayStep(t, path, f, m)
    BY DEF Way
  <2>2. CASE m = 0
    BY <2>1, <2>2 DEF WayStep, Linked, Root
  <2>3. CASE m # 0
    <3>1. f[m - 1] = None \/ f[m - 1] \in 1 .. Len(t)
      BY <1>1, <2>3
    <3> QED BY <2>1, <2>3, <3>1, FindsChild DEF WayStep
  <2> QED BY <2>2, <2>3
<1> HIDE DEF S
<1>2. \A m \in 0 .. n : m \in S
  BY <1>1, AllOf
<1> QED BY <1>2 DEF S

(* ramfs_resolve_path: a node, the root for "/", and otherwise the last part's
   child of what the parts before it name. *)
LEMMA ResolvesToNode ==
  ASSUME NEW t, Len(t) \in Nat, Linked(t), NEW path, Len(path) \in Nat
  PROVE  Resolve(t, path) = None \/ Resolve(t, path) \in 1 .. Len(t)
<1> DEFINE f == NodesOn(t, path)
<1>1. Way(t, path, Len(path), f) /\ Resolve(t, path) = f[Len(path)]
  BY ResolveIsWay
<1> HIDE DEF f
<1>2. Len(path) \in 0 .. Len(path)
  OBVIOUS
<1> QED BY <1>1, <1>2, WayNodes

LEMMA ResolvesRoot ==
  ASSUME NEW t, NEW path, Len(path) = 0
  PROVE  Resolve(t, path) = Root
BY ResolveIsWay DEF Way, WayStep

LEMMA FrontOf ==
  ASSUME NEW S, NEW path \in Seq(S), path # << >>
  PROVE  /\ Front(path) \in Seq(S) /\ Len(path) \in Nat \ {0}
         /\ Len(path) - 1 \in Nat /\ Len(Front(path)) = Len(path) - 1
         /\ \A i \in 1 .. Len(path) - 1 : Front(path)[i] = path[i]
         /\ Last(path) \in S
<1>1. Len(path) \in Nat \ {0}
  BY EmptySeq
<1> DEFINE n == Len(path) - 1
<1>2. n \in Nat /\ n \in Int /\ 1 \in Int
  BY <1>1
<1>3. \A i \in 1 .. n : path[i] \in S
  BY <1>1, ElementOfSeq
<1>4. Last(path) \in S
  BY <1>1, ElementOfSeq DEF Last
<1>5. Front(path) = SubSeq(path, 1, n)
  BY DEF Front
<1> HIDE DEF n
<1>6. /\ SubSeq(path, 1, n) \in Seq(S)
      /\ Len(SubSeq(path, 1, n)) = IF 1 <= n THEN n - 1 + 1 ELSE 0
      /\ \A i \in 1 .. n - 1 + 1 : SubSeq(path, 1, n)[i] = path[1 + i - 1]
  BY <1>2, <1>3, SubSeqProperties
<1>7. Len(SubSeq(path, 1, n)) = n
  BY <1>2, <1>6
<1>8. ASSUME NEW i \in 1 .. n PROVE SubSeq(path, 1, n)[i] = path[i]
  <2>1. i \in 1 .. n - 1 + 1 /\ 1 + i - 1 = i
    BY <1>2
  <2> QED BY <1>6, <2>1
<1> QED BY <1>1, <1>2, <1>4, <1>5, <1>6, <1>7, <1>8 DEF n

LEMMA ResolvesLast ==
  ASSUME NEW t, NEW S, NEW path \in Seq(S), path # << >>
  PROVE  Resolve(t, path) =
           IF Resolve(t, Front(path)) = None \/ Last(path) = NoName
           THEN Resolve(t, Front(path))
           ELSE FindChild(t, Resolve(t, Front(path)), Last(path))
<1> DEFINE n == Len(path)
           q == Front(path)
           f == NodesOn(t, path)
           g == NodesOn(t, q)
<1>1. n \in Nat \ {0} /\ n - 1 \in Nat /\ Len(q) = n - 1 /\ \A i \in 1 .. n - 1 : q[i] = path[i]
  BY FrontOf
<1>2. Way(t, path, n, f) /\ Resolve(t, path) = f[n]
  BY <1>1, ResolveIsWay
<1>3. Way(t, q, n - 1, g) /\ Resolve(t, q) = g[n - 1]
  BY <1>1, ResolveIsWay
<1> DEFINE T == {i \in 0 .. n - 1 : f[i] = g[i]}
<1> HIDE DEF f, g, n
<1>4. ASSUME NEW m \in 0 .. n - 1, \A j \in 0 .. m - 1 : j \in T
      PROVE  m \in T
  <2> HIDE DEF q
  <2>1. m \in 0 .. n
    BY <1>1
  <2>2. f[m] = WayStep(t, path, f, m)
    BY <1>2, <2>1 DEF Way
  <2>3. g[m] = WayStep(t, q, g, m)
    BY <1>3 DEF Way
  <2>4. m # 0 => f[m - 1] = g[m - 1] /\ q[m] = path[m]
    BY <1>1, <1>4
  <2>5. f[m] = g[m]
    BY <2>2, <2>3, <2>4 DEF WayStep
  <2> QED BY <2>5
<1> HIDE DEF T
<1>5. \A m \in 0 .. n - 1 : m \in T
  BY <1>1, <1>4, AllOf
<1>6. f[n - 1] = g[n - 1]
  BY <1>1, <1>5 DEF T
<1>7. f[n] = WayStep(t, path, f, n)
  BY <1>1, <1>2 DEF Way
<1> QED BY <1>1, <1>2, <1>3, <1>6, <1>7 DEF WayStep, Last, n
-----------------------------------------------------------------------------
(* A node is added in front of its parent's list; nothing else changes. *)
LEMMA AddGives ==
  ASSUME NEW u, SoundFs(u), u.room # 0, NEW p \in 1 .. Len(u.nodes),
         NEW name \in Names \cup {NoName}, NEW dir \in BOOLEAN
  PROVE  LET t == u.nodes
             N == Len(t)
             v == AddChild(u, p, name, dir)
         IN  /\ v = [nodes |-> v.nodes, room |-> v.room] /\ v.room = u.room - 1 /\ v.room \in Nat
             /\ v.nodes \in Seq(NodeType) /\ Len(v.nodes) = N + 1
             /\ \A n \in 1 .. N : v.nodes[n] = [t[n] EXCEPT !.first = IF n = p THEN N + 1 ELSE @]
             /\ v.nodes[N + 1] = Node(name, dir, p, t[p].first)
<1> DEFINE t == u.nodes
           N == Len(t)
           v == AddChild(u, p, name, dir)
           f == [t[p] EXCEPT !.first = N + 1]
           b == [t EXCEPT ![p] = f]
           e == Node(name, dir, p, t[p].first)
<1>1. t \in Seq(NodeType) /\ N \in Nat /\ u.room \in Nat /\ Linked(t)
  BY DEF SoundFs, Sound
<1>2. t[p] \in NodeType
  BY <1>1, ElementOfSeq
<1>3. f \in NodeType
  <2>1. N + 1 \in Nat
    BY <1>1
  <2>2. PICK r \in NodeType : r = t[p]
    BY <1>2
  <2>3. [r EXCEPT !.first = N + 1] \in NodeType
    BY <2>1 DEF NodeType
  <2> QED BY <2>2, <2>3
<1>4. e \in NodeType
  BY <1>1, <1>2 DEF NodeType, Node, None
<1>5. b = [t EXCEPT ![p].first = N + 1]
  OBVIOUS
<1>6. v = [nodes |-> Append(b, e), room |-> u.room - 1]
  BY <1>5 DEF AddChild
<1> HIDE DEF e, f, v
<1>7. b \in Seq(NodeType) /\ Len(b) = N /\ \A n \in 1 .. N : b[n] = IF n = p THEN f ELSE t[n]
  BY <1>1, <1>3, ExceptSeq
<1> HIDE DEF b
<1>8. /\ Append(b, e) \in Seq(NodeType) /\ Len(Append(b, e)) = N + 1
      /\ \A n \in 1 .. N : Append(b, e)[n] = b[n]
      /\ Append(b, e)[N + 1] = e
  BY <1>4, <1>7, AppendProperties
<1>9. v.nodes = Append(b, e) /\ v.room = u.room - 1
  BY <1>6
<1>10. ASSUME NEW n \in 1 .. N PROVE v.nodes[n] = [t[n] EXCEPT !.first = IF n = p THEN N + 1 ELSE @]
  <2>1. v.nodes[n] = IF n = p THEN f ELSE t[n]
    BY <1>7, <1>8, <1>9
  <2>2. t[n] \in NodeType
    BY <1>1, ElementOfSeq
  <2>3. [t[n] EXCEPT !.first = @] = t[n]
    BY <2>2 DEF NodeType
  <2> QED BY <2>1, <2>3 DEF f
<1> QED BY <1>1, <1>6, <1>8, <1>9, <1>10 DEF e, v

(* What a table keeps when a node is added to it, or data is stored. *)
SameLinks(a, b) ==
  a.name = b.name /\ a.dir = b.dir /\ a.parent = b.parent /\ a.next = b.next

LEMMA AddSound ==
  ASSUME NEW u, SoundFs(u), u.room # 0, NEW p \in 1 .. Len(u.nodes),
         NEW name \in Names, NEW dir \in BOOLEAN, u.nodes[p].dir,
         \A c \in 2 .. Len(u.nodes) : u.nodes[c].parent = p => u.nodes[c].name # name
  PROVE  SoundFs(AddChild(u, p, name, dir))
<1> DEFINE t == u.nodes
           N == Len(t)
           v == AddChild(u, p, name, dir)
<1>1. /\ v = [nodes |-> v.nodes, room |-> v.room] /\ v.room = u.room - 1 /\ v.room \in Nat
      /\ v.nodes \in Seq(NodeType) /\ Len(v.nodes) = N + 1
      /\ \A n \in 1 .. N : v.nodes[n] = [t[n] EXCEPT !.first = IF n = p THEN N + 1 ELSE @]
      /\ v.nodes[N + 1] = Node(name, dir, p, t[p].first)
  BY AddGives
<1> DEFINE w == v.nodes
<1>2. t \in Seq(NodeType) /\ N \in Nat /\ Linked(t) /\ NamesDiffer(t) /\ OnlyFilesHoldData(t)
  BY DEF SoundFs, Sound
<1>3. ASSUME NEW n \in 1 .. N
      PROVE  /\ SameLinks(w[n], t[n]) /\ w[n].data = t[n].data
             /\ w[n].first = IF n = p THEN N + 1 ELSE t[n].first
  <2>1. t[n] \in NodeType
    BY <1>2, ElementOfSeq
  <2> QED BY <1>1, <2>1 DEF NodeType, SameLinks
<1>4. /\ w[N + 1].name = name /\ w[N + 1].dir = dir /\ w[N + 1].parent = p
      /\ w[N + 1].first = None /\ w[N + 1].next = t[p].first /\ w[N + 1].data = Empty
  BY <1>1 DEF Node
<1>5. w \in Seq(NodeType) /\ Len(w) = N + 1 /\ name # NoName
  BY <1>1, RamfsAssumption
<1>6. p \in 1 .. N
  OBVIOUS
<1> HIDE DEF t, N, w, v
<1>7. ASSUME NEW q, NEW b \in 1 .. N + 1, NEW m, Latest(t, q, b, m)
      PROVE  Latest(w, q, b, m)
  BY <1>2, <1>3, <1>7 DEF Latest, SameLinks
<1>8. Latest(w, p, N + 1, t[p].first)
  BY <1>2, <1>6, <1>7 DEF Linked, N
<1>9. Linked(w)
  <2>1. Len(w) >= 1 /\ w[Root].dir
    BY <1>2, <1>3, <1>5 DEF Linked, SameLinks, Root, N
  <2>2. ASSUME NEW n \in 2 .. N + 1
        PROVE  /\ w[n].parent \in 1 .. n - 1 /\ w[w[n].parent].dir /\ w[n].name # NoName
               /\ Latest(w, w[n].parent, n, w[n].next)
    <3>1. CASE n = N + 1
      <4>1. t[p].dir
        BY DEF t
      <4>2. w[p].dir /\ w[n].parent = p /\ w[n].name = name /\ w[n].next = t[p].first
        BY <1>3, <1>4, <1>6, <3>1, <4>1 DEF SameLinks
      <4> QED BY <1>2, <1>5, <1>6, <1>8, <3>1, <4>2
    <3>2. CASE n \in 2 .. N
      <4> DEFINE q == t[n].parent
      <4>1. /\ q \in 1 .. n - 1 /\ t[q].dir /\ t[n].name # NoName
            /\ Latest(t, q, n, t[n].next)
        BY <1>2, <3>2 DEF Linked, N
      <4>2. w[n].parent = q /\ w[n].name = t[n].name /\ w[n].next = t[n].next
        BY <1>3, <3>2 DEF SameLinks
      <4>3. w[q].dir
        BY <1>2, <1>3, <3>2, <4>1 DEF SameLinks
      <4>4. n \in 1 .. N + 1
        BY <1>2, <3>2
      <4>5. Latest(w, q, n, t[n].next)
        BY <1>7, <4>1, <4>4
      <4> QED BY <4>1, <4>2, <4>3, <4>5
    <3> QED BY <1>2, <3>1, <3>2
  <2>3. ASSUME NEW q \in 1 .. N + 1 PROVE Latest(w, q, N + 2, w[q].first)
    <3>1. CASE q = p
      <4>1. w[q].first = N + 1 /\ w[N + 1].parent = q
        BY <1>3, <1>4, <1>6, <3>1
      <4> QED BY <1>2, <1>6, <4>1 DEF Latest
    <3>2. CASE q = N + 1
      <4>1. ASSUME NEW c \in 2 .. N + 1 PROVE w[c].parent # q
        <5>1. CASE c = N + 1
          BY <1>2, <1>4, <1>6, <3>2, <5>1
        <5>2. CASE c \in 2 .. N
          <6>1. t[c].parent \in 1 .. c - 1
            BY <1>2, <5>2 DEF Linked, N
          <6>2. w[c].parent = t[c].parent
            BY <1>3, <5>2 DEF SameLinks
          <6> QED BY <1>2, <3>2, <5>2, <6>1, <6>2
        <5> QED BY <1>2, <5>1, <5>2
      <4>2. w[q].first = None
        BY <1>4, <3>2
      <4> QED BY <1>2, <4>1, <4>2 DEF Latest
    <3>3. CASE q # p /\ q # N + 1
      <4>1. q \in 1 .. N
        BY <1>2, <3>3
      <4>2. Latest(t, q, N + 1, t[q].first)
        BY <1>2, <4>1 DEF Linked, N
      <4>3. w[q].first = t[q].first
        BY <1>3, <3>3, <4>1
      <4>4. Latest(w, q, N + 1, w[q].first)
        BY <1>2, <1>7, <4>2, <4>3
      <4>5. w[N + 1].parent # q
        BY <1>4, <3>3
      <4> QED BY <1>2, <4>4, <4>5 DEF Latest
    <3> QED BY <3>1, <3>2, <3>3
  <2>4. N + 1 + 1 = N + 2
    BY <1>2
  <2> QED BY <1>5, <2>1, <2>2, <2>3, <2>4 DEF Linked
<1>10. NamesDiffer(w)
  <2> SUFFICES ASSUME NEW m \in 2 .. N + 1, NEW n \in 2 .. N + 1, m < n,
                      w[m].parent = w[n].parent, w[m].name = w[n].name
               PROVE  FALSE
    BY <1>2, <1>5 DEF NamesDiffer
  <2>1. m \in 2 .. N
    BY <1>2
  <2>2. w[m].parent = t[m].parent /\ w[m].name = t[m].name
    BY <1>3, <2>1 DEF SameLinks
  <2>3. CASE n = N + 1
    <3>1. t[m].parent = p /\ t[m].name = name
      BY <1>4, <2>2, <2>3
    <3>2. m \in 2 .. Len(u.nodes) /\ u.nodes[m].parent = p /\ u.nodes[m].name = name
      BY <2>1, <3>1 DEF t, N
    <3> QED BY <3>2
  <2>4. CASE n \in 2 .. N
    <3>1. w[n].parent = t[n].parent /\ w[n].name = t[n].name
      BY <1>3, <2>4 DEF SameLinks
    <3>2. t[m].parent = t[n].parent /\ t[m].name = t[n].name
      BY <2>2, <3>1
    <3>3. m \in 2 .. Len(t) /\ n \in 2 .. Len(t)
      BY <2>1, <2>4 DEF N
    <3>4. m = n
      BY <1>2, <3>2, <3>3 DEF NamesDiffer
    <3>5. m \in Nat
      BY <2>1
    <3> QED BY <3>4, <3>5
  <2> QED BY <1>2, <2>3, <2>4
<1>11. OnlyFilesHoldData(w)
  <2> SUFFICES ASSUME NEW n \in 1 .. N + 1, w[n].data # Empty PROVE ~ w[n].dir
    BY <1>5 DEF OnlyFilesHoldData
  <2>1. n \in 1 .. N
    BY <1>2, <1>4
  <2> QED BY <1>2, <1>3, <2>1 DEF OnlyFilesHoldData, SameLinks, N
<1> QED BY <1>1, <1>5, <1>9, <1>10, <1>11 DEF SoundFs, Sound, w, v
-----------------------------------------------------------------------------
(* The calls keep a sound file system sound. *)
Parts == Names \cup {NoName}

LEMMA SoundTable ==
  ASSUME NEW u, SoundFs(u)
  PROVE  /\ u.nodes \in Seq(NodeType) /\ Len(u.nodes) \in Nat \ {0}
         /\ Linked(u.nodes) /\ NamesDiffer(u.nodes) /\ OnlyFilesHoldData(u.nodes)
         /\ \A n \in 1 .. Len(u.nodes) : u.nodes[n] \in NodeType
<1>1. u.nodes \in Seq(NodeType) /\ Linked(u.nodes)
  BY DEF SoundFs, Sound
<1>2. Len(u.nodes) \in Nat \ {0}
  BY <1>1 DEF Linked
<1> QED BY <1>1, <1>2, ElementOfSeq DEF SoundFs, Sound

(* What making an entry comes to: a node in front of a directory's list that
   had none of that name, or nothing. *)
LEMMA MadeIsAdded ==
  ASSUME NEW u, SoundFs(u), NEW path \in Seq(Parts), path # << >>, NEW dir \in BOOLEAN
  PROVE  LET t == u.nodes
             p == Resolve(t, Front(path))
         IN  \/ Made(u, path, dir) = u
             \/ /\ Made(u, path, dir) = AddChild(u, p, Last(path), dir) /\ u.room # 0
                /\ p \in 1 .. Len(t) /\ t[p].dir /\ Last(path) \in Names
                /\ \A c \in 2 .. Len(t) : t[c].parent = p => t[c].name # Last(path)
<1> DEFINE t == u.nodes
           p == Resolve(t, Front(path))
<1>1. Len(t) \in Nat /\ Linked(t)
  BY SoundTable
<1>2. Len(Front(path)) \in Nat /\ Last(path) \in Parts
  BY FrontOf
<1>3. CASE /\ Splits(t, path) /\ FindChild(t, p, Last(path)) = None /\ u.room # 0
  <2>1. Made(u, path, dir) = AddChild(u, p, Last(path), dir)
    BY <1>3 DEF Made
  <2>2. p # None /\ t[p].dir /\ Last(path) # NoName
    BY <1>3 DEF Splits, IsDirIn
  <2>3. p \in 1 .. Len(t)
    BY <1>1, <1>2, <2>2, ResolvesToNode
  <2>4. Last(path) \in Names
    BY <1>2, <2>2 DEF Parts
  <2> HIDE DEF t, p
  <2>5. \A c \in 2 .. Len(t) : t[c].parent = p => t[c].name # Last(path)
    BY <1>1, <1>3, <2>3, FindsChild DEF None
  <2> QED BY <1>3, <2>1, <2>2, <2>3, <2>4, <2>5 DEF t, p
<1>4. CASE ~ (/\ Splits(t, path) /\ FindChild(t, p, Last(path)) = None /\ u.room # 0)
  BY <1>4 DEF Made, AddChild
<1> QED BY <1>3, <1>4

LEMMA MadeSound ==
  ASSUME NEW u, SoundFs(u), NEW path \in Seq(Parts), path # << >>, NEW dir \in BOOLEAN
  PROVE  SoundFs(Made(u, path, dir))
<1> DEFINE t == u.nodes
           p == Resolve(t, Front(path))
<1>1. CASE Made(u, path, dir) = u
  BY <1>1
<1>2. CASE /\ Made(u, path, dir) = AddChild(u, p, Last(path), dir) /\ u.room # 0
           /\ p \in 1 .. Len(t) /\ t[p].dir /\ Last(path) \in Names
           /\ \A c \in 2 .. Len(t) : t[c].parent = p => t[c].name # Last(path)
  <2> HIDE DEF p
  <2>1. SoundFs(AddChild(u, p, Last(path), dir))
    BY <1>2, AddSound
  <2> QED BY <1>2, <2>1
<1> QED BY <1>1, <1>2, MadeIsAdded

(* What storing data comes to: a file's data, or nothing. *)
LEMMA StoredGives ==
  ASSUME NEW u, SoundFs(u), NEW path \in Seq(Parts), NEW data \in Contents
  PROVE  LET t == u.nodes
             n == Resolve(t, path)
             v == Stored(u, path, data)
         IN  \/ v = u
             \/ /\ v = [nodes |-> v.nodes, room |-> u.room - Size[data]]
                /\ n \in 1 .. Len(t) /\ ~ t[n].dir /\ u.room >= Size[data]
                /\ v.nodes \in Seq(NodeType) /\ Len(v.nodes) = Len(t)
                /\ \A m \in 1 .. Len(t) :
                     v.nodes[m] = IF m = n THEN [t[m] EXCEPT !.data = data] ELSE t[m]
<1> DEFINE t == u.nodes
           n == Resolve(t, path)
           v == Stored(u, path, data)
           e == [t[n] EXCEPT !.data = data]
<1>1. /\ t \in Seq(NodeType) /\ Len(t) \in Nat /\ Linked(t)
      /\ \A m \in 1 .. Len(t) : t[m] \in NodeType
  BY SoundTable
<1>2. n = None \/ n \in 1 .. Len(t)
  BY <1>1, LenProperties, ResolvesToNode
<1>3. CASE n # None /\ ~ IsDirIn(t, path) /\ u.room >= Size[data]
  <2>1. v = [nodes |-> [t EXCEPT ![n].data = data], room |-> u.room - Size[data]]
    BY <1>3 DEF Stored
  <2>2. n \in 1 .. Len(t) /\ ~ t[n].dir
    BY <1>2, <1>3 DEF IsDirIn
  <2>3. e \in NodeType
    <3>1. PICK r \in NodeType : r = t[n]
      BY <1>1, <2>2
    <3>2. [r EXCEPT !.data = data] \in NodeType
      BY DEF NodeType
    <3> QED BY <3>1, <3>2
  <2>4. [t EXCEPT ![n].data = data] = [t EXCEPT ![n] = e]
    OBVIOUS
  <2> HIDE DEF e, n, v, t
  <2>5. /\ [t EXCEPT ![n] = e] \in Seq(NodeType) /\ Len([t EXCEPT ![n] = e]) = Len(t)
        /\ \A m \in 1 .. Len(t) : [t EXCEPT ![n] = e][m] = IF m = n THEN e ELSE t[m]
    BY <1>1, <2>2, <2>3, ExceptSeq
  <2>6. v.nodes = [t EXCEPT ![n] = e] /\ v = [nodes |-> v.nodes, room |-> u.room - Size[data]]
    BY <2>1, <2>4
  <2>7. \A m \in 1 .. Len(t) : v.nodes[m] = IF m = n THEN [t[m] EXCEPT !.data = data] ELSE t[m]
    BY <2>5, <2>6 DEF e
  <2> QED BY <1>3, <2>2, <2>5, <2>6, <2>7 DEF n, v, t
<1>4. CASE ~ (n # None /\ ~ IsDirIn(t, path) /\ u.room >= Size[data])
  BY <1>4 DEF Stored
<1> QED BY <1>3, <1>4

LEMMA StoredSound ==
  ASSUME NEW u, SoundFs(u), NEW path \in Seq(Parts), NEW data \in Contents
  PROVE  SoundFs(Stored(u, path, data))
<1> DEFINE t == u.nodes
           n == Resolve(t, path)
           v == Stored(u, path, data)
           w == v.nodes
<1> SUFFICES SoundFs(v)
  OBVIOUS
<1>1. CASE v = u
  BY <1>1
<1>2. CASE /\ v = [nodes |-> v.nodes, room |-> u.room - Size[data]]
           /\ n \in 1 .. Len(t) /\ ~ t[n].dir /\ u.room >= Size[data]
           /\ v.nodes \in Seq(NodeType) /\ Len(v.nodes) = Len(t)
           /\ \A m \in 1 .. Len(t) :
                v.nodes[m] = IF m = n THEN [t[m] EXCEPT !.data = data] ELSE t[m]
  <2>1. /\ t \in Seq(NodeType) /\ Len(t) \in Nat /\ Linked(t) /\ NamesDiffer(t)
        /\ OnlyFilesHoldData(t) /\ \A m \in 1 .. Len(t) : t[m] \in NodeType
    BY SoundTable
  <2>2. ASSUME NEW m \in 1 .. Len(t)
        PROVE  /\ SameLinks(w[m], t[m]) /\ w[m].first = t[m].first
               /\ w[m].data = IF m = n THEN data ELSE t[m].data
    <3>1. t[m] \in NodeType
      BY <2>1
    <3> HIDE DEF n, v, t
    <3> QED BY <1>2, <3>1 DEF NodeType, SameLinks
  <2>3. v = [nodes |-> v.nodes, room |-> v.room] /\ v.room \in Nat
    <3>1. u.room \in Nat /\ Size[data] \in Nat
      BY RamfsAssumption DEF SoundFs
    <3> HIDE DEF v
    <3>2. v.room = u.room - Size[data]
      BY <1>2
    <3>3. u.room - Size[data] \in Nat
      BY <1>2, <3>1
    <3> QED BY <1>2, <3>2, <3>3
  <2>4. /\ w \in Seq(NodeType) /\ Len(w) = Len(t) /\ n \in 1 .. Len(t) /\ ~ t[n].dir
    BY <1>2
  <2> HIDE DEF n, v, t, w
  <2>5. ASSUME NEW p, NEW b \in 1 .. Len(t) + 1, NEW m, Latest(t, p, b, m)
        PROVE  Latest(w, p, b, m)
    BY <2>1, <2>2, <2>5 DEF Latest, SameLinks
  <2>6. Linked(w)
    <3>1. Len(w) >= 1 /\ w[Root].dir
      BY <2>1, <2>2, <2>4 DEF Linked, SameLinks, Root
    <3>2. ASSUME NEW m \in 2 .. Len(w)
          PROVE  /\ w[m].parent \in 1 .. m - 1 /\ w[w[m].parent].dir /\ w[m].name # NoName
                 /\ Latest(w, w[m].parent, m, w[m].next)
      <4>1. /\ t[m].parent \in 1 .. m - 1 /\ t[t[m].parent].dir /\ t[m].name # NoName
            /\ Latest(t, t[m].parent, m, t[m].next)
        BY <2>1, <2>4 DEF Linked
      <4>2. w[m].parent = t[m].parent /\ w[m].name = t[m].name /\ w[m].next = t[m].next
        BY <2>1, <2>2, <2>4 DEF SameLinks
      <4>3. t[m].parent \in 1 .. Len(t) /\ m \in 1 .. Len(t) + 1
        BY <2>1, <2>4, <4>1
      <4>4. w[t[m].parent].dir
        BY <2>2, <4>1, <4>3 DEF SameLinks
      <4>5. Latest(w, t[m].parent, m, t[m].next)
        BY <2>5, <4>1, <4>3
      <4> QED BY <4>1, <4>2, <4>4, <4>5
    <3>3. ASSUME NEW p \in 1 .. Len(w) PROVE Latest(w, p, Len(w) + 1, w[p].first)
      <4>1. Latest(t, p, Len(t) + 1, t[p].first) /\ Len(t) + 1 \in 1 .. Len(t) + 1
        BY <2>1, <2>4 DEF Linked
      <4>2. w[p].first = t[p].first
        BY <2>2, <2>4
      <4> QED BY <2>4, <2>5, <4>1, <4>2
    <3> QED BY <3>1, <3>2, <3>3 DEF Linked
  <2>7. NamesDiffer(w)
    BY <2>1, <2>2, <2>4 DEF NamesDiffer, SameLinks
  <2>8. OnlyFilesHoldData(w)
    BY <2>1, <2>2, <2>4 DEF OnlyFilesHoldData, SameLinks
  <2> QED BY <2>3, <2>4, <2>6, <2>7, <2>8 DEF SoundFs, Sound, w
<1>3. \/ v = u
      \/ /\ v = [nodes |-> v.nodes, room |-> u.room - Size[data]]
         /\ n \in 1 .. Len(t) /\ ~ t[n].dir /\ u.room >= Size[data]
         /\ v.nodes \in Seq(NodeType) /\ Len(v.nodes) = Len(t)
         /\ \A m \in 1 .. Len(t) :
              v.nodes[m] = IF m = n THEN [t[m] EXCEPT !.data = data] ELSE t[m]
  BY StoredGives
<1> HIDE DEF v, n, t, w
<1> QED BY <1>1, <1>2, <1>3
-----------------------------------------------------------------------------
(* The directories on the way, one after another. *)
EnsureStep(u, path, f, i) ==
  IF i = 0 THEN u
  ELSE IF IsDirIn(f[i - 1].nodes, Front(SubSeq(path, 1, i)))
            /\ ~ IsDirIn(f[i - 1].nodes, SubSeq(path, 1, i))
       THEN Made(f[i - 1], SubSeq(path, 1, i), TRUE)
       ELSE f[i - 1]

Ensuring(u, path, n, f) == f = [i \in 0 .. n |-> EnsureStep(u, path, f, i)]

FsOn(u, path) == CHOOSE f : Ensuring(u, path, Len(path), f)

LEMMA EnsuringExists ==
  ASSUME NEW u, NEW path, NEW n \in Nat
  PROVE  \E f : Ensuring(u, path, n, f)
<1> DEFINE S == {m \in 0 .. n : \E f : Ensuring(u, path, m, f)}
<1>1. ASSUME NEW m \in 0 .. n, \A j \in 0 .. m - 1 : j \in S
      PROVE  m \in S
  <2>1. CASE m = 0
    <3>1. Ensuring(u, path, 0, [i \in 0 .. 0 |-> u])
      BY DEF Ensuring, EnsureStep
    <3> QED BY <2>1, <3>1
  <2>2. CASE m # 0
    <3>1. PICK f : Ensuring(u, path, m - 1, f)
      BY <1>1, <2>2
    <3> DEFINE g == [i \in 0 .. m |-> IF i = m THEN EnsureStep(u, path, f, m) ELSE f[i]]
    <3>2. ASSUME NEW i \in 0 .. m PROVE g[i] = EnsureStep(u, path, g, i)
      <4>1. i # 0 => g[i - 1] = f[i - 1]
        OBVIOUS
      <4> HIDE DEF g
      <4>2. EnsureStep(u, path, g, i) = EnsureStep(u, path, f, i)
        BY <4>1, Zenon DEF EnsureStep
      <4> USE DEF g
      <4>3. g[i] = EnsureStep(u, path, f, i)
        BY <3>1 DEF Ensuring
      <4> QED BY <4>2, <4>3
    <3>3. Ensuring(u, path, m, g)
      BY <3>2 DEF Ensuring
    <3> QED BY <3>3
  <2> QED BY <2>1, <2>2
<1> HIDE DEF S
<1>2. \A m \in 0 .. n : m \in S
  BY <1>1, AllOf
<1> QED BY <1>2 DEF S

LEMMA EnsuredIsEnsuring ==
  ASSUME NEW u, NEW path, Len(path) \in Nat
  PROVE  /\ Ensuring(u, path, Len(path), FsOn(u, path))
         /\ Ensured(u, path) = FsOn(u, path)[Len(path)]
<1>1. \E f : Ensuring(u, path, Len(path), f)
  BY EnsuringExists
<1>2. Ensuring(u, path, Len(path), FsOn(u, path))
  BY <1>1 DEF FsOn
<1>3. Ensured(u, path) = FsOn(u, path)[Len(path)]
  BY DEF Ensured, FsOn, Ensuring, EnsureStep
<1> QED BY <1>2, <1>3

LEMMA PrefixOf ==
  ASSUME NEW S, NEW path \in Seq(S), NEW i \in 1 .. Len(path)
  PROVE  /\ SubSeq(path, 1, i) \in Seq(S) /\ SubSeq(path, 1, i) # << >>
         /\ Len(SubSeq(path, 1, i)) = i
         /\ \A j \in 1 .. i : SubSeq(path, 1, i)[j] = path[j]
<1>1. Len(path) \in Nat /\ i \in Nat /\ i >= 1 /\ 1 \in Int /\ i \in Int
  OBVIOUS
<1>2. \A j \in 1 .. i : path[j] \in S
  BY <1>1, ElementOfSeq
<1>3. /\ SubSeq(path, 1, i) \in Seq(S)
      /\ Len(SubSeq(path, 1, i)) = IF 1 <= i THEN i - 1 + 1 ELSE 0
      /\ \A j \in 1 .. i - 1 + 1 : SubSeq(path, 1, i)[j] = path[1 + j - 1]
  BY <1>1, <1>2, SubSeqProperties
<1>4. Len(SubSeq(path, 1, i)) = i
  BY <1>1, <1>3
<1>5. SubSeq(path, 1, i) # << >>
  BY <1>1, <1>4, EmptySeq
<1>6. ASSUME NEW j \in 1 .. i PROVE SubSeq(path, 1, i)[j] = path[j]
  <2>1. j \in 1 .. i - 1 + 1 /\ 1 + j - 1 = j
    BY <1>1
  <2> QED BY <1>3, <2>1
<1> QED BY <1>3, <1>4, <1>5, <1>6

LEMMA EnsuringSound ==
  ASSUME NEW u, SoundFs(u), NEW path \in Seq(Parts), NEW f, Ensuring(u, path, Len(path), f),
         NEW k \in 0 .. Len(path)
  PROVE  SoundFs(f[k])
<1> DEFINE S == {i \in 0 .. Len(path) : SoundFs(f[i])}
<1>0. Len(path) \in Nat
  BY LenProperties
<1>1. ASSUME NEW m \in 0 .. Len(path), \A j \in 0 .. m - 1 : j \in S
      PROVE  m \in S
  <2>1. f[m] = EnsureStep(u, path, f, m)
    BY DEF Ensuring
  <2>2. CASE m = 0
    BY <2>1, <2>2 DEF EnsureStep
  <2>3. CASE m # 0
    <3>1. SoundFs(f[m - 1])
      BY <1>1, <2>3
    <3>2. m \in 1 .. Len(path)
      BY <2>3
    <3> DEFINE q == SubSeq(path, 1, m)
    <3>3. q \in Seq(Parts) /\ q # << >>
      BY <3>2, PrefixOf
    <3> HIDE DEF q
    <3>4. SoundFs(Made(f[m - 1], q, TRUE))
      BY <3>1, <3>3, MadeSound
    <3> QED BY <2>1, <2>3, <3>1, <3>4 DEF EnsureStep, q
  <2> QED BY <2>2, <2>3
<1> HIDE DEF S
<1>2. \A m \in 0 .. Len(path) : m \in S
  BY <1>0, <1>1, AllOf
<1> QED BY <1>2 DEF S

LEMMA EnsuredSound ==
  ASSUME NEW u, SoundFs(u), NEW path \in Seq(Parts)
  PROVE  SoundFs(Ensured(u, path))
<1>1. Len(path) \in Nat /\ Len(path) \in 0 .. Len(path)
  BY LenProperties
<1> QED BY <1>1, EnsuredIsEnsuring, EnsuringSound
-----------------------------------------------------------------------------
LEMMA PathsAreSequences ==
  /\ \A path \in TarPaths : path \in Seq(Parts) /\ path # << >>
  /\ \A path \in Paths : path \in Seq(Parts) /\ path # << >>
  /\ <<DevName>> \in Seq(Parts) /\ <<DevName>> # << >>
<1>1. ASSUME NEW n \in 1 .. Depth, NEW path \in [1 .. n -> Parts]
      PROVE  path \in Seq(Parts) /\ path # << >>
  <2>1. n \in Nat
    BY RamfsAssumption
  <2>2. path \in Seq(Parts) /\ Len(path) = n
    BY <2>1
  <2> QED BY <2>1, <2>2, EmptySeq
<1>2. ASSUME NEW path \in Paths PROVE \E n \in 1 .. Depth : path \in [1 .. n -> Parts]
  BY DEF Paths, Parts
<1>3. ASSUME NEW path \in TarPaths PROVE \E n \in 1 .. Depth : path \in [1 .. n -> Parts]
  BY DEF TarPaths, Parts
<1>4. DevName \in Parts
  BY RamfsAssumption DEF Parts
<1> QED BY <1>1, <1>2, <1>3, <1>4

LEMMA InitSound == Init => SoundFs(fs)
<1> SUFFICES ASSUME Init PROVE SoundFs(fs)
  OBVIOUS
<1> DEFINE a == [Node(NoName, TRUE, None, None) EXCEPT !.first = 2]
           b == Node(DevName, TRUE, Root, None)
           t == <<a, b>>
<1>1. fs = [nodes |-> t, room |-> Heap]
  BY DEF Init
<1>2. a \in NodeType /\ b \in NodeType
  BY RamfsAssumption DEF NodeType, Node, None, Root
<1>3. /\ a.dir = TRUE /\ a.first = 2 /\ a.data = Empty
      /\ b.dir = TRUE /\ b.first = 0 /\ b.next = 0 /\ b.parent = 1 /\ b.name = DevName
      /\ b.data = Empty
  BY DEF Node, None, Root
<1> HIDE DEF a, b
<1>4. t \in Seq(NodeType) /\ Len(t) = 2 /\ t[1] = a /\ t[2] = b
  BY <1>2
<1>5. fs.nodes = t /\ fs.room = Heap /\ Heap \in Nat
  BY <1>1, RamfsAssumption
<1> HIDE DEF t
<1>6. DevName # NoName
  BY RamfsAssumption
<1>7. Linked(t)
  <2>1. Latest(t, 1, 2, 0) /\ Latest(t, 1, 3, 2) /\ Latest(t, 2, 3, 0)
    BY <1>3, <1>4 DEF Latest, None
  <2>2. \A n \in 2 .. Len(t) : n = 2
    BY <1>4
  <2>3. \A p \in 1 .. Len(t) : p = 1 \/ p = 2
    BY <1>4
  <2> QED BY <1>3, <1>4, <1>6, <2>1, <2>2, <2>3 DEF Linked, Root
<1>8. NamesDiffer(t) /\ OnlyFilesHoldData(t)
  BY <1>3, <1>4 DEF NamesDiffer, OnlyFilesHoldData
<1> QED BY <1>1, <1>4, <1>5, <1>7, <1>8 DEF SoundFs, Sound

LEMMA NextSound == SoundFs(fs) /\ [Next]_vars => SoundFs(fs')
<1> SUFFICES ASSUME SoundFs(fs), [Next]_vars PROVE SoundFs(fs')
  OBVIOUS
<1>1. ASSUME NEW path \in TarPaths, LoadDir(path) PROVE SoundFs(fs')
  BY <1>1, PathsAreSequences, EnsuredSound DEF LoadDir
<1>2. ASSUME NEW path \in TarPaths, NEW data \in Contents, LoadFile(path, data)
      PROVE  SoundFs(fs')
  <2>1. path \in Seq(Parts) /\ path # << >>
    BY PathsAreSequences
  <2>2. SoundFs(Ensured(fs, Front(path)))
    BY <2>1, FrontOf, EnsuredSound
  <2>3. SoundFs(Made(Ensured(fs, Front(path)), path, FALSE))
    BY <2>1, <2>2, MadeSound
  <2> QED BY <1>2, <2>1, <2>3, StoredSound DEF LoadFile
<1>3. CASE Booted
  BY <1>3, PathsAreSequences, MadeSound DEF Booted
<1>4. ASSUME NEW path \in Paths, Mkdir(path) \/ Touch(path) PROVE SoundFs(fs')
  BY <1>4, PathsAreSequences, MadeSound DEF Mkdir, Touch
<1>5. ASSUME NEW path \in Paths, NEW data \in Contents, Write(path, data) PROVE SoundFs(fs')
  <2>1. path \in Seq(Parts) /\ path # << >>
    BY PathsAreSequences
  <2>2. SoundFs(Made(fs, path, FALSE))
    BY <2>1, MadeSound
  <2>3. SoundFs(IF Resolve(nodes, path) = None THEN Made(fs, path, FALSE) ELSE fs)
    BY <2>2
  <2> QED BY <1>5, <2>1, <2>3, StoredSound DEF Write
<1>6. CASE UNCHANGED vars
  BY <1>6 DEF vars
<1> QED BY <1>1, <1>2, <1>3, <1>4, <1>5, <1>6 DEF Next, Unpack, Command

(* The lists of a sound table are the children of their directories. *)
LEMMA SoundIsTree ==
  ASSUME SoundFs(fs)
  PROVE  TreeWellFormed
<1>1. /\ Len(nodes) \in Nat /\ Linked(nodes) /\ NamesDiffer(nodes) /\ OnlyFilesHoldData(nodes)
  BY SoundTable DEF nodes
<1> SUFFICES ASSUME NEW p \in 1 .. Len(nodes)
             PROVE  LET kids == {k \in 1 .. Len(nodes) : Kid(nodes, p)[k] # None}
                    IN  /\ {Kid(nodes, p)[k] : k \in kids} = {n \in 2 .. Len(nodes) : nodes[n].parent = p}
                        /\ \A j, k \in kids : Kid(nodes, p)[j] = Kid(nodes, p)[k] => j = k
                        /\ \A j, k \in kids :
                             nodes[Kid(nodes, p)[j]].name = nodes[Kid(nodes, p)[k]].name => j = k
                        /\ kids # {} => nodes[p].dir
                        /\ nodes[p].data # Empty => ~ nodes[p].dir
  BY DEF TreeWellFormed
<1> DEFINE kids == {k \in 1 .. Len(nodes) : Kid(nodes, p)[k] # None}
           kid(k) == Kid(nodes, p)[k]
<1>2. ASSUME NEW k \in kids PROVE kid(k) \in 2 .. Len(nodes) /\ nodes[kid(k)].parent = p
  BY <1>1, KidIsChild
<1>3. ASSUME NEW n \in 2 .. Len(nodes), nodes[n].parent = p PROVE \E k \in kids : kid(k) = n
  BY <1>1, <1>3, KidsAreAll DEF None
<1>4. {kid(k) : k \in kids} = {n \in 2 .. Len(nodes) : nodes[n].parent = p}
  BY <1>2, <1>3
<1>5. ASSUME NEW j \in kids, NEW k \in kids, kid(j) = kid(k) PROVE j = k
  <2>1. ASSUME NEW a \in kids, NEW b \in kids, a < b PROVE kid(a) # kid(b)
    <3>1. a \in 1 .. Len(nodes) /\ b \in a + 1 .. Len(nodes) /\ kid(b) # None
      BY <2>1
    <3>2. kid(b) < kid(a)
      BY <1>1, <3>1, KidsDescend
    <3>3. kid(a) \in Nat /\ kid(b) \in Nat
      BY <1>2
    <3> QED BY <3>2, <3>3
  <2>2. j \in Nat /\ k \in Nat
    OBVIOUS
  <2> HIDE DEF kids
  <2>3. j < k \/ k < j \/ j = k
    BY <2>2
  <2> QED BY <1>5, <2>1, <2>3
<1>6. ASSUME NEW j \in kids, NEW k \in kids, nodes[kid(j)].name = nodes[kid(k)].name
      PROVE  j = k
  <2>1. kid(j) = kid(k)
    BY <1>1, <1>2, <1>6 DEF NamesDiffer
  <2> QED BY <1>5, <2>1
<1>7. kids # {} => nodes[p].dir
  BY <1>1, <1>2 DEF Linked
<1>8. nodes[p].data # Empty => ~ nodes[p].dir
  BY <1>1 DEF OnlyFilesHoldData
<1> QED BY <1>4, <1>5, <1>6, <1>7, <1>8

(* Whatever is unpacked, made or written, and wherever memory ends in the
   middle of it, the links stay a tree: every node is in its parent's list of
   children once and in no other, lists end, only directories have children,
   and no two children share a name (ramfs_add_child, ramfs_find_child). *)
THEOREM TreeStaysWellFormed == Spec => []TreeWellFormed
<1>1. SoundFs(fs) /\ [Next]_vars => SoundFs(fs)'
  BY NextSound
<1> QED BY <1>1, InitSound, SoundIsTree, PTL DEF Spec
-----------------------------------------------------------------------------
(* Where the nodes are. *)
PathStep(t, f, n) == IF n = Root THEN << >> ELSE Append(f[t[n].parent], t[n].name)

Placing(t, n, f) == f = [k \in 1 .. n |-> PathStep(t, f, k)]

PathsIn(t) == CHOOSE f : Placing(t, Len(t), f)

LEMMA PlacingExists ==
  ASSUME NEW t, Len(t) \in Nat, Linked(t), NEW n \in 0 .. Len(t)
  PROVE  \E f : Placing(t, n, f)
<1> DEFINE S == {m \in 0 .. n : \E f : Placing(t, m, f)}
<1>1. ASSUME NEW m \in 0 .. n, \A j \in 0 .. m - 1 : j \in S
      PROVE  m \in S
  <2>1. CASE m = 0
    <3>1. Placing(t, 0, << >>)
      BY DEF Placing
    <3> QED BY <2>1, <3>1
  <2>2. CASE m # 0
    <3>1. PICK f : Placing(t, m - 1, f)
      BY <1>1, <2>2
    <3> DEFINE g == [k \in 1 .. m |-> IF k = m THEN PathStep(t, f, m) ELSE f[k]]
    <3>2. ASSUME NEW k \in 1 .. m PROVE g[k] = PathStep(t, g, k)
      <4>1. k # Root => t[k].parent \in 1 .. k - 1
        BY DEF Linked, Root
      <4>2. k # Root => g[t[k].parent] = f[t[k].parent]
        BY <4>1
      <4>3. g[k] = PathStep(t, f, k)
        BY <3>1 DEF Placing
      <4> HIDE DEF g
      <4>4. PathStep(t, g, k) = PathStep(t, f, k)
        BY <4>2, Zenon DEF PathStep
      <4> QED BY <4>3, <4>4
    <3>3. Placing(t, m, g)
      BY <3>2 DEF Placing
    <3> QED BY <3>3
  <2> QED BY <2>1, <2>2
<1> HIDE DEF S
<1>2. n \in Nat /\ n \in 0 .. n
  OBVIOUS
<1>3. \A m \in 0 .. n : m \in S
  BY <1>1, <1>2, AllOf
<1> QED BY <1>2, <1>3 DEF S

LEMMA PathsFollowParents ==
  ASSUME NEW t, Len(t) \in Nat, Linked(t)
  PROVE  /\ Placing(t, Len(t), PathsIn(t))
         /\ PathsIn(t)[Root] = << >>
         /\ \A n \in 2 .. Len(t) : PathsIn(t)[n] = Append(PathsIn(t)[t[n].parent], t[n].name)
<1>1. \E f : Placing(t, Len(t), f)
  BY PlacingExists
<1>2. Placing(t, Len(t), PathsIn(t))
  BY <1>1 DEF PathsIn
<1>3. \A n \in 1 .. Len(t) : PathsIn(t)[n] = PathStep(t, PathsIn(t), n)
  BY <1>2 DEF Placing
<1>4. Root \in 1 .. Len(t) /\ \A n \in 2 .. Len(t) : n \in 1 .. Len(t) /\ n # Root
  BY DEF Linked, Root
<1>5. PathsIn(t)[Root] = << >>
  BY <1>3, <1>4 DEF PathStep
<1>6. ASSUME NEW n \in 2 .. Len(t)
      PROVE  PathsIn(t)[n] = Append(PathsIn(t)[t[n].parent], t[n].name)
  <2>1. n \in 1 .. Len(t) /\ n # Root
    BY <1>4
  <2>2. PathsIn(t)[n] = PathStep(t, PathsIn(t), n)
    BY <1>3, <2>1
  <2> QED BY <2>1, <2>2, Zenon DEF PathStep
<1> QED BY <1>2, <1>5, <1>6

LEMMA PathOfIs == PathOf = PathsIn(nodes)
BY DEF PathOf, PathsIn, Placing, PathStep

(* A path is made of names, none of them empty. *)
LEMMA PathsAreNames ==
  ASSUME NEW t \in Seq(NodeType), Linked(t), NEW n \in 1 .. Len(t)
  PROVE  PathsIn(t)[n] \in Seq(Names)
<1> DEFINE S == {k \in 0 .. Len(t) : k # 0 => PathsIn(t)[k] \in Seq(Names)}
<1>0. Len(t) \in Nat
  OBVIOUS
<1>1. ASSUME NEW m \in 0 .. Len(t), \A j \in 0 .. m - 1 : j \in S
      PROVE  m \in S
  <2>1. CASE m = 1
    <3>1. PathsIn(t)[m] = << >>
      BY <1>0, <2>1, PathsFollowParents DEF Root
    <3> QED BY <3>1, EmptySeq
  <2>2. CASE m >= 2
    <3>1. t[m].parent \in 1 .. m - 1 /\ t[m].name # NoName
      BY <2>2 DEF Linked
    <3>2. PathsIn(t)[t[m].parent] \in Seq(Names)
      BY <1>1, <3>1
    <3>3. t[m].name \in Names
      <4>1. t[m] \in NodeType
        BY <2>2, ElementOfSeq
      <4> QED BY <3>1, <4>1 DEF NodeType
    <3>4. PathsIn(t)[m] = Append(PathsIn(t)[t[m].parent], t[m].name)
      BY <1>0, <2>2, PathsFollowParents
    <3>5. PathsIn(t)[m] \in Seq(Names)
      BY <3>2, <3>3, <3>4, AppendProperties
    <3> QED BY <3>5
  <2> QED BY <2>1, <2>2
<1> HIDE DEF S
<1>2. \A m \in 0 .. Len(t) : m \in S
  BY <1>0, <1>1, AllOf
<1> QED BY <1>2 DEF S

LEMMA FrontAppend ==
  ASSUME NEW S, NEW q \in Seq(S), NEW e \in S
  PROVE  /\ Append(q, e) \in Seq(S) /\ Append(q, e) # << >>
         /\ Front(Append(q, e)) = q /\ Last(Append(q, e)) = e
<1> DEFINE path == Append(q, e)
<1>1. /\ path \in Seq(S) /\ Len(path) = Len(q) + 1 /\ path[Len(q) + 1] = e
      /\ \A i \in 1 .. Len(q) : path[i] = q[i]
  BY AppendProperties
<1>2. Len(q) \in Nat
  BY LenProperties
<1> HIDE DEF path
<1>3. path # << >>
  BY <1>1, <1>2, EmptySeq
<1>4. /\ Front(path) \in Seq(S) /\ Len(Front(path)) = Len(path) - 1
      /\ \A i \in 1 .. Len(path) - 1 : Front(path)[i] = path[i]
  BY <1>1, <1>3, FrontOf
<1>5. Len(path) - 1 = Len(q)
  BY <1>1, <1>2
<1>6. Front(path) = q
  BY <1>1, <1>4, <1>5, SeqEqual
<1>7. Last(path) = e
  BY <1>1 DEF Last
<1> QED BY <1>1, <1>3, <1>6, <1>7 DEF path

(* Each node is found under its path. *)
LEMMA PathFinds ==
  ASSUME NEW t, Sound(t), NEW n \in 1 .. Len(t)
  PROVE  Resolve(t, PathsIn(t)[n]) = n
<1> DEFINE S == {k \in 0 .. Len(t) : k # 0 => Resolve(t, PathsIn(t)[k]) = k}
<1>0. t \in Seq(NodeType) /\ Len(t) \in Nat /\ Linked(t) /\ NamesDiffer(t)
  BY DEF Sound
<1>1. ASSUME NEW m \in 0 .. Len(t), \A j \in 0 .. m - 1 : j \in S
      PROVE  m \in S
  <2>1. CASE m = 1
    <3>1. PathsIn(t)[m] = << >>
      BY <1>0, <2>1, PathsFollowParents DEF Root
    <3>2. Resolve(t, << >>) = Root
      BY ResolvesRoot
    <3> QED BY <2>1, <3>1, <3>2 DEF Root
  <2>2. CASE m >= 2
    <3> DEFINE p == t[m].parent
               q == PathsIn(t)[p]
               e == t[m].name
    <3>1. p \in 1 .. m - 1 /\ e # NoName
      BY <1>0, <2>2 DEF Linked
    <3>2. Resolve(t, q) = p
      BY <1>1, <3>1
    <3>3. e \in Names
      <4>1. t[m] \in NodeType
        BY <1>0, <2>2, ElementOfSeq
      <4> QED BY <3>1, <4>1 DEF NodeType
    <3>4. q \in Seq(Names)
      <4>1. p \in 1 .. Len(t)
        BY <1>0, <3>1
      <4> QED BY <1>0, <4>1, PathsAreNames
    <3>5. PathsIn(t)[m] = Append(q, e)
      BY <1>0, <2>2, PathsFollowParents
    <3>6. FindChild(t, p, e) = m
      BY <1>0, <2>2, FindsNamed
    <3> HIDE DEF p, q, e
    <3>7. /\ Append(q, e) \in Seq(Names) /\ Append(q, e) # << >>
          /\ Front(Append(q, e)) = q /\ Last(Append(q, e)) = e
      BY <3>3, <3>4, FrontAppend
    <3>8. p # None
      BY <3>1 DEF None
    <3>9. Resolve(t, Append(q, e)) = FindChild(t, p, e)
      <4> DEFINE path == Append(q, e)
      <4>1. path \in Seq(Names) /\ path # << >> /\ Front(path) = q /\ Last(path) = e
        BY <3>7
      <4> HIDE DEF path
      <4>2. Resolve(t, path) = IF Resolve(t, Front(path)) = None \/ Last(path) = NoName
                               THEN Resolve(t, Front(path))
                               ELSE FindChild(t, Resolve(t, Front(path)), Last(path))
        BY <4>1, ResolvesLast
      <4> QED BY <3>1, <3>2, <3>8, <4>1, <4>2 DEF path
    <3> QED BY <3>5, <3>6, <3>9
  <2> QED BY <2>1, <2>2
<1> HIDE DEF S
<1>2. \A m \in 0 .. Len(t) : m \in S
  BY <1>0, <1>1, AllOf
<1> QED BY <1>2 DEF S

(* Every node is found under its own path: what was made can be opened, for
   every tree the calls can make (ramfs_resolve_path). *)
THEOREM PathsKeepResolving == Spec => []PathsResolve
<1>1. SoundFs(fs) /\ [Next]_vars => SoundFs(fs)'
  BY NextSound
<1>2. SoundFs(fs) => PathsResolve
  BY PathFinds, PathOfIs DEF SoundFs, PathsResolve, nodes
<1> QED BY <1>1, <1>2, InitSound, PTL DEF Spec
-----------------------------------------------------------------------------
(* The nodes read as a tree of paths. *)
Value(n) == IF n.dir THEN Dir ELSE n.data

TreeOf(t) ==
  [p \in {PathsIn(t)[n] : n \in 1 .. Len(t)} |->
     LET n == CHOOSE m \in 1 .. Len(t) : PathsIn(t)[m] = p
     IN  IF t[n].dir THEN Dir ELSE t[n].data]

LEMMA PathsDiffer ==
  ASSUME NEW t, Sound(t), NEW m \in 1 .. Len(t), NEW n \in 1 .. Len(t),
         PathsIn(t)[m] = PathsIn(t)[n]
  PROVE  m = n
<1>1. Resolve(t, PathsIn(t)[m]) = m /\ Resolve(t, PathsIn(t)[n]) = n
  BY PathFinds
<1> QED BY <1>1

LEMMA TreeValues ==
  ASSUME NEW t, Sound(t)
  PROVE  /\ DOMAIN TreeOf(t) = {PathsIn(t)[n] : n \in 1 .. Len(t)}
         /\ \A n \in 1 .. Len(t) : TreeOf(t)[PathsIn(t)[n]] = Value(t[n])
         /\ TreeOf(t) = [p \in DOMAIN TreeOf(t) |-> TreeOf(t)[p]]
<1>1. ASSUME NEW n \in 1 .. Len(t)
      PROVE  (CHOOSE m \in 1 .. Len(t) : PathsIn(t)[m] = PathsIn(t)[n]) = n
  <2> DEFINE m == CHOOSE m \in 1 .. Len(t) : PathsIn(t)[m] = PathsIn(t)[n]
  <2>1. m \in 1 .. Len(t) /\ PathsIn(t)[m] = PathsIn(t)[n]
    OBVIOUS
  <2> HIDE DEF m
  <2>2. m = n
    BY <2>1, PathsDiffer
  <2> QED BY <2>2 DEF m
<1>2. ASSUME NEW n \in 1 .. Len(t) PROVE TreeOf(t)[PathsIn(t)[n]] = Value(t[n])
  <2> DEFINE m == CHOOSE m \in 1 .. Len(t) : PathsIn(t)[m] = PathsIn(t)[n]
  <2>1. PathsIn(t)[n] \in {PathsIn(t)[k] : k \in 1 .. Len(t)}
    OBVIOUS
  <2>2. TreeOf(t)[PathsIn(t)[n]] = IF t[m].dir THEN Dir ELSE t[m].data
    BY <2>1 DEF TreeOf
  <2>3. m = n
    BY <1>1
  <2> HIDE DEF m
  <2> QED BY <2>2, <2>3 DEF Value
<1> QED BY <1>2 DEF TreeOf

(* A table that another one begins with keeps its paths there. *)
LEMMA PathsKept ==
  ASSUME NEW t, NEW w, Len(t) \in Nat, Len(w) \in Nat, Linked(t), Linked(w),
         Len(t) <= Len(w), \A n \in 1 .. Len(t) : SameLinks(w[n], t[n]),
         NEW k \in 1 .. Len(t)
  PROVE  PathsIn(w)[k] = PathsIn(t)[k]
<1> DEFINE S == {n \in 0 .. Len(t) : n # 0 => PathsIn(w)[n] = PathsIn(t)[n]}
<1>1. ASSUME NEW m \in 0 .. Len(t), \A j \in 0 .. m - 1 : j \in S
      PROVE  m \in S
  <2>1. CASE m = 1
    BY <2>1, PathsFollowParents DEF Root
  <2>2. CASE m >= 2
    <3>1. t[m].parent \in 1 .. m - 1
      BY <2>2 DEF Linked
    <3>2. w[m].parent = t[m].parent /\ w[m].name = t[m].name
      BY <2>2 DEF SameLinks
    <3>3. PathsIn(t)[m] = Append(PathsIn(t)[t[m].parent], t[m].name)
      BY <2>2, PathsFollowParents
    <3>4. PathsIn(w)[m] = Append(PathsIn(w)[w[m].parent], w[m].name)
      <4>1. m \in 2 .. Len(w)
        BY <2>2
      <4> QED BY <4>1, PathsFollowParents
    <3>5. PathsIn(w)[t[m].parent] = PathsIn(t)[t[m].parent]
      BY <1>1, <3>1
    <3> QED BY <3>2, <3>3, <3>4, <3>5
  <2> QED BY <2>1, <2>2
<1> HIDE DEF S
<1>2. \A m \in 0 .. Len(t) : m \in S
  BY <1>1, AllOf
<1> QED BY <1>2 DEF S

(* The entry at q, new in the tree of w after that of t. *)
NewEntry(t, w, q, v) ==
  /\ q \notin DOMAIN TreeOf(t)
  /\ Front(q) \in DOMAIN TreeOf(t) /\ TreeOf(t)[Front(q)] = Dir
  /\ TreeOf(w) = Abstract!With(TreeOf(t), q, v)

LEMMA AddedTree ==
  ASSUME NEW u, SoundFs(u), u.room # 0, NEW p \in 1 .. Len(u.nodes),
         NEW name \in Names, NEW dir \in BOOLEAN, u.nodes[p].dir,
         \A c \in 2 .. Len(u.nodes) : u.nodes[c].parent = p => u.nodes[c].name # name
  PROVE  LET t == u.nodes
             w == AddChild(u, p, name, dir).nodes
             q == Append(PathsIn(t)[p], name)
         IN  /\ NewEntry(t, w, q, IF dir THEN Dir ELSE Empty)
             /\ Sound(w) /\ Len(w) = Len(t) + 1 /\ PathsIn(w)[Len(w)] = q
             /\ w[Len(w)].dir = dir /\ w[Len(w)].parent = p /\ w[Len(w)].name = name
             /\ \A n \in 1 .. Len(t) : SameLinks(w[n], t[n])
<1> DEFINE t == u.nodes
           N == Len(t)
           v == AddChild(u, p, name, dir)
           w == v.nodes
           q == Append(PathsIn(t)[p], name)
<1>1. Sound(t) /\ Sound(w)
  BY AddSound DEF SoundFs
<1>2. /\ t \in Seq(NodeType) /\ N \in Nat /\ Linked(t) /\ \A n \in 1 .. N : t[n] \in NodeType
  BY SoundTable
<1>3. /\ Len(w) = N + 1
      /\ \A n \in 1 .. N : w[n] = [t[n] EXCEPT !.first = IF n = p THEN N + 1 ELSE @]
      /\ w[N + 1] = Node(name, dir, p, t[p].first)
  BY AddGives
<1>4. p \in 1 .. N /\ t[p].dir
  OBVIOUS
<1>5. \A c \in 2 .. N : t[c].parent = p => t[c].name # name
  OBVIOUS
<1> HIDE DEF t, N, v, w
<1>6. ASSUME NEW n \in 1 .. N PROVE SameLinks(w[n], t[n]) /\ w[n].data = t[n].data
  <2>1. t[n] \in NodeType
    BY <1>2
  <2> QED BY <1>3, <2>1 DEF NodeType, SameLinks
<1>7. /\ w[N + 1].name = name /\ w[N + 1].dir = dir /\ w[N + 1].parent = p
      /\ w[N + 1].data = Empty
  BY <1>3 DEF Node
<1>8. N = Len(t) /\ Linked(w) /\ Len(w) \in Nat /\ Len(w) >= N
  BY <1>1, <1>2, <1>3 DEF Sound, N
<1>9. \A n \in 1 .. N : PathsIn(w)[n] = PathsIn(t)[n]
  BY <1>2, <1>6, <1>8, PathsKept
<1>10. PathsIn(w)[N + 1] = q
  <2>1. N + 1 \in 2 .. Len(w)
    BY <1>2, <1>3, <1>4
  <2>2. PathsIn(w)[N + 1] = Append(PathsIn(w)[w[N + 1].parent], w[N + 1].name)
    BY <1>8, <2>1, PathsFollowParents
  <2>3. PathsIn(w)[p] = PathsIn(t)[p]
    BY <1>4, <1>9
  <2> QED BY <1>7, <2>2, <2>3
<1>11. q \in Seq(Names) /\ q # << >> /\ Front(q) = PathsIn(t)[p]
  <2>1. PathsIn(t)[p] \in Seq(Names)
    BY <1>2, <1>4, <1>8, PathsAreNames
  <2> QED BY <2>1, FrontAppend
<1> HIDE DEF q
<1>12. \A n \in 1 .. N : PathsIn(t)[n] # q
  <2> SUFFICES ASSUME NEW n \in 1 .. N, PathsIn(t)[n] = q PROVE FALSE
    OBVIOUS
  <2>1. n \in 1 .. N + 1 /\ N + 1 \in 1 .. N + 1 /\ n # N + 1
    BY <1>2
  <2>2. PathsIn(w)[n] = PathsIn(w)[N + 1]
    BY <1>9, <1>10
  <2> QED BY <1>1, <1>3, <2>1, <2>2, PathsDiffer
<1>13. /\ DOMAIN TreeOf(t) = {PathsIn(t)[n] : n \in 1 .. N}
       /\ \A n \in 1 .. N : TreeOf(t)[PathsIn(t)[n]] = Value(t[n])
  BY <1>1, <1>8, TreeValues
<1>14. /\ DOMAIN TreeOf(w) = {PathsIn(w)[n] : n \in 1 .. N + 1}
       /\ \A n \in 1 .. N + 1 : TreeOf(w)[PathsIn(w)[n]] = Value(w[n])
       /\ TreeOf(w) = [r \in DOMAIN TreeOf(w) |-> TreeOf(w)[r]]
  <2>1. /\ DOMAIN TreeOf(w) = {PathsIn(w)[n] : n \in 1 .. Len(w)}
        /\ \A n \in 1 .. Len(w) : TreeOf(w)[PathsIn(w)[n]] = Value(w[n])
        /\ TreeOf(w) = [r \in DOMAIN TreeOf(w) |-> TreeOf(w)[r]]
    BY <1>1, TreeValues
  <2>2. 1 .. Len(w) = 1 .. N + 1
    BY <1>3
  <2> QED BY <2>1, <2>2
<1>15. DOMAIN TreeOf(w) = DOMAIN TreeOf(t) \cup {q}
  <2>1. \A n \in 1 .. N + 1 : n \in 1 .. N \/ n = N + 1
    BY <1>2
  <2>2. \A n \in 1 .. N : n \in 1 .. N + 1
    BY <1>2
  <2>3. N + 1 \in 1 .. N + 1
    BY <1>2
  <2>4. ASSUME NEW r \in DOMAIN TreeOf(w) PROVE r \in DOMAIN TreeOf(t) \cup {q}
    <3>1. PICK n \in 1 .. N + 1 : r = PathsIn(w)[n]
      BY <1>14
    <3> QED BY <1>9, <1>10, <1>13, <2>1, <3>1
  <2>5. ASSUME NEW r \in DOMAIN TreeOf(t) PROVE r \in DOMAIN TreeOf(w)
    <3>1. PICK n \in 1 .. N : r = PathsIn(t)[n]
      BY <1>13
    <3> QED BY <1>9, <1>14, <2>2, <3>1
  <2>6. q \in DOMAIN TreeOf(w)
    BY <1>10, <1>14, <2>3
  <2> QED BY <2>4, <2>5, <2>6
<1>16. TreeOf(w)[q] = IF dir THEN Dir ELSE Empty
  <2>1. N + 1 \in 1 .. N + 1
    BY <1>2
  <2>2. TreeOf(w)[q] = Value(w[N + 1])
    BY <1>10, <1>14, <2>1
  <2> QED BY <1>7, <2>2 DEF Value
<1>17. ASSUME NEW r \in DOMAIN TreeOf(t) PROVE r # q /\ TreeOf(w)[r] = TreeOf(t)[r]
  <2>1. PICK n \in 1 .. N : r = PathsIn(t)[n]
    BY <1>13
  <2>2. n \in 1 .. N + 1
    BY <1>2
  <2>3. TreeOf(w)[r] = Value(w[n]) /\ TreeOf(t)[r] = Value(t[n])
    BY <1>9, <1>13, <1>14, <2>1, <2>2
  <2>4. Value(w[n]) = Value(t[n])
    BY <1>6 DEF Value, SameLinks
  <2> QED BY <1>12, <2>1, <2>3, <2>4
<1>18. TreeOf(w) = Abstract!With(TreeOf(t), q, IF dir THEN Dir ELSE Empty)
  BY <1>14, <1>15, <1>16, <1>17 DEF Abstract!With
<1>19. q \notin DOMAIN TreeOf(t)
  BY <1>12, <1>13
<1>20. Front(q) \in DOMAIN TreeOf(t) /\ TreeOf(t)[Front(q)] = Dir
  BY <1>4, <1>11, <1>13 DEF Value
<1>21. NewEntry(t, w, q, IF dir THEN Dir ELSE Empty)
  BY <1>18, <1>19, <1>20 DEF NewEntry
<1>22. Len(w) = Len(t) + 1 /\ PathsIn(w)[Len(w)] = q
  BY <1>3, <1>8, <1>10
<1>23. w[Len(w)].dir = dir /\ w[Len(w)].parent = p /\ w[Len(w)].name = name
  BY <1>3, <1>7
<1>24. \A n \in 1 .. Len(t) : SameLinks(w[n], t[n])
  BY <1>6, <1>8
<1> QED BY <1>1, <1>21, <1>22, <1>23, <1>24 DEF t, v, w, q
-----------------------------------------------------------------------------
(* Storing replaces what the tree holds at one file. *)
LEMMA StoredTree ==
  ASSUME NEW u, SoundFs(u), NEW path \in Seq(Parts), NEW data \in Contents
  PROVE  LET t == u.nodes
             n == Resolve(t, path)
             v == Stored(u, path, data)
         IN  \/ v = u
             \/ /\ n \in 1 .. Len(t) /\ TreeOf(t)[PathsIn(t)[n]] # Dir
                /\ TreeOf(v.nodes) = [TreeOf(t) EXCEPT ![PathsIn(t)[n]] = data]
<1> DEFINE t == u.nodes
           n == Resolve(t, path)
           v == Stored(u, path, data)
           w == v.nodes
           P == PathsIn(t)
<1> SUFFICES ASSUME v # u
             PROVE  /\ n \in 1 .. Len(t) /\ TreeOf(t)[P[n]] # Dir
                    /\ TreeOf(w) = [TreeOf(t) EXCEPT ![P[n]] = data]
  OBVIOUS
<1>1. /\ n \in 1 .. Len(t) /\ ~ t[n].dir /\ Len(w) = Len(t)
      /\ \A m \in 1 .. Len(t) : w[m] = IF m = n THEN [t[m] EXCEPT !.data = data] ELSE t[m]
  BY StoredGives
<1>2. Sound(t) /\ Sound(w)
  BY StoredSound DEF SoundFs
<1>3. /\ t \in Seq(NodeType) /\ Len(t) \in Nat /\ Linked(t)
      /\ \A m \in 1 .. Len(t) : t[m] \in NodeType
  BY SoundTable
<1> HIDE DEF t, n, v, w
<1>4. ASSUME NEW m \in 1 .. Len(t)
      PROVE  SameLinks(w[m], t[m]) /\ w[m].data = IF m = n THEN data ELSE t[m].data
  <2>1. t[m] \in NodeType
    BY <1>3
  <2> QED BY <1>1, <2>1 DEF NodeType, SameLinks
<1>5. Linked(w)
  BY <1>2 DEF Sound
<1>6. \A m \in 1 .. Len(t) : PathsIn(w)[m] = P[m]
  BY <1>1, <1>3, <1>4, <1>5, PathsKept
<1> HIDE DEF P
<1>7. /\ DOMAIN TreeOf(t) = {P[m] : m \in 1 .. Len(t)}
      /\ \A m \in 1 .. Len(t) : TreeOf(t)[P[m]] = Value(t[m])
      /\ TreeOf(t) = [p \in DOMAIN TreeOf(t) |-> TreeOf(t)[p]]
  BY <1>2, TreeValues DEF P
<1>8. /\ DOMAIN TreeOf(w) = {PathsIn(w)[m] : m \in 1 .. Len(t)}
      /\ \A m \in 1 .. Len(t) : TreeOf(w)[PathsIn(w)[m]] = Value(w[m])
      /\ TreeOf(w) = [p \in DOMAIN TreeOf(w) |-> TreeOf(w)[p]]
  <2>1. /\ DOMAIN TreeOf(w) = {PathsIn(w)[m] : m \in 1 .. Len(w)}
        /\ \A m \in 1 .. Len(w) : TreeOf(w)[PathsIn(w)[m]] = Value(w[m])
        /\ TreeOf(w) = [p \in DOMAIN TreeOf(w) |-> TreeOf(w)[p]]
    BY <1>2, TreeValues
  <2> QED BY <1>1, <2>1
<1>9. DOMAIN TreeOf(w) = DOMAIN TreeOf(t)
  <2>1. ASSUME NEW r \in DOMAIN TreeOf(w) PROVE r \in DOMAIN TreeOf(t)
    <3>1. PICK m \in 1 .. Len(t) : r = PathsIn(w)[m]
      BY <1>8
    <3> QED BY <1>6, <1>7, <3>1
  <2>2. ASSUME NEW r \in DOMAIN TreeOf(t) PROVE r \in DOMAIN TreeOf(w)
    <3>1. PICK m \in 1 .. Len(t) : r = P[m]
      BY <1>7
    <3> QED BY <1>6, <1>8, <3>1
  <2> QED BY <2>1, <2>2
<1>10. ASSUME NEW r \in DOMAIN TreeOf(t)
       PROVE  TreeOf(w)[r] = IF r = P[n] THEN data ELSE TreeOf(t)[r]
  <2>1. PICK m \in 1 .. Len(t) : r = P[m]
    BY <1>7
  <2>2. TreeOf(w)[r] = Value(w[m]) /\ TreeOf(t)[r] = Value(t[m])
    BY <1>6, <1>7, <1>8, <2>1
  <2>3. r = P[n] <=> m = n
    BY <1>1, <1>2, <2>1, PathsDiffer DEF P
  <2>4. Value(w[m]) = IF m = n THEN data ELSE Value(t[m])
    BY <1>1, <1>4 DEF Value, SameLinks
  <2> QED BY <2>2, <2>3, <2>4
<1>11. TreeOf(w) = [TreeOf(t) EXCEPT ![P[n]] = data]
  BY <1>7, <1>8, <1>9, <1>10
<1>12. TreeOf(t)[P[n]] # Dir
  <2>1. TreeOf(t)[P[n]] = t[n].data
    BY <1>1, <1>7 DEF Value
  <2>2. t[n].data \in Contents \cup {Empty}
    BY <1>1, <1>3 DEF NodeType
  <2> QED BY <2>1, <2>2, RamfsAssumption
<1> QED BY <1>1, <1>11, <1>12
-----------------------------------------------------------------------------
(* A path that is all names is the path of what it finds; another one finds
   nothing with a longer path. *)
LEMMA AppendFront ==
  ASSUME NEW S, NEW q \in Seq(S), q # << >>
  PROVE  Front(q) \in Seq(S) /\ Last(q) \in S /\ Append(Front(q), Last(q)) = q
<1>1. /\ Front(q) \in Seq(S) /\ Len(q) \in Nat \ {0}
      /\ Len(q) - 1 \in Nat /\ Len(Front(q)) = Len(q) - 1
      /\ \A i \in 1 .. Len(q) - 1 : Front(q)[i] = q[i]
      /\ Last(q) \in S
  BY FrontOf
<1> DEFINE a == Append(Front(q), Last(q))
<1>2. /\ a \in Seq(S) /\ Len(a) = Len(Front(q)) + 1
      /\ \A i \in 1 .. Len(Front(q)) : a[i] = Front(q)[i]
      /\ a[Len(Front(q)) + 1] = Last(q)
  BY <1>1, AppendProperties
<1> HIDE DEF a
<1>3. Len(a) = Len(q)
  BY <1>1, <1>2
<1>4. ASSUME NEW i \in 1 .. Len(q) PROVE a[i] = q[i]
  <2>1. CASE i = Len(q)
    BY <1>1, <1>2, <2>1 DEF Last
  <2>2. CASE i # Len(q)
    BY <1>1, <1>2, <2>2
  <2> QED BY <2>1, <2>2
<1>5. a = q
  BY <1>2, <1>3, <1>4, SeqEqual
<1> QED BY <1>1, <1>5 DEF a

LEMMA ResolvedPath ==
  ASSUME NEW t, Sound(t), NEW path \in Seq(Parts), Resolve(t, path) # None
  PROVE  /\ Resolve(t, path) \in 1 .. Len(t)
         /\ Len(PathsIn(t)[Resolve(t, path)]) <= Len(path)
         /\ path \in Seq(Names) => PathsIn(t)[Resolve(t, path)] = path
<1>0. t \in Seq(NodeType) /\ Len(t) \in Nat /\ Linked(t)
  BY DEF Sound
<1> DEFINE Good(q) == /\ Resolve(t, q) \in 1 .. Len(t)
                      /\ Len(PathsIn(t)[Resolve(t, q)]) <= Len(q)
                      /\ q \in Seq(Names) => PathsIn(t)[Resolve(t, q)] = q
           S == {k \in 0 .. Len(path) :
                   \A q \in Seq(Parts) : Len(q) = k /\ Resolve(t, q) # None => Good(q)}
<1>1. ASSUME NEW m \in 0 .. Len(path), \A j \in 0 .. m - 1 : j \in S
      PROVE  m \in S
  <2> SUFFICES ASSUME NEW q \in Seq(Parts), Len(q) = m, Resolve(t, q) # None PROVE Good(q)
    OBVIOUS
  <2>1. Resolve(t, q) \in 1 .. Len(t)
    BY <1>0, ResolvesToNode
  <2>2. CASE m = 0
    <3>1. q = << >>
      BY <2>2, EmptySeq
    <3>2. Resolve(t, q) = Root /\ PathsIn(t)[Root] = << >>
      BY <1>0, <2>2, ResolvesRoot, PathsFollowParents
    <3>3. Len(<< >>) <= 0
      BY EmptySeq
    <3> QED BY <2>1, <3>1, <3>2, <3>3
  <2>3. CASE m # 0
    <3> DEFINE f == Front(q)
               e == Last(q)
               r == Resolve(t, f)
               c == Resolve(t, q)
    <3>1. q # << >>
      BY <2>3, EmptySeq
    <3>2. f \in Seq(Parts) /\ Len(f) = m - 1 /\ e \in Parts
      BY <3>1, FrontOf
    <3>3. c = IF r = None \/ e = NoName THEN r ELSE FindChild(t, r, e)
      BY <3>1, ResolvesLast
    <3>4. r # None
      BY <3>3
    <3>5. m - 1 \in S
      BY <1>1, <2>3
    <3>6. Good(f)
      BY <3>2, <3>4, <3>5
    <3>7. CASE e = NoName
      <4>1. c = r
        BY <3>3, <3>7
      <4>2. Len(PathsIn(t)[c]) <= Len(q)
        <5>1. PathsIn(t)[r] \in Seq(Names)
          BY <1>0, <3>6, PathsAreNames
        <5>2. Len(PathsIn(t)[r]) \in Nat /\ Len(PathsIn(t)[r]) <= m - 1
          BY <3>2, <3>6, <5>1
        <5> HIDE DEF c, r
        <5> QED BY <4>1, <5>2
      <4>3. q \notin Seq(Names)
        <5>1. q \in Seq(Names) => e \in Names
          BY <3>1, FrontOf
        <5> QED BY <3>7, <5>1, RamfsAssumption
      <4> QED BY <2>1, <4>2, <4>3
    <3>8. CASE e # NoName
      <4>1. c = FindChild(t, r, e) /\ c \in 2 .. Len(t) /\ t[c].parent = r /\ t[c].name = e
        BY <1>0, <3>3, <3>4, <3>6, <3>8, FindsChild
      <4>2. PathsIn(t)[c] = Append(PathsIn(t)[r], e)
        BY <1>0, <4>1, PathsFollowParents
      <4>3. PathsIn(t)[r] \in Seq(Names) /\ e \in Names
        BY <1>0, <3>2, <3>6, <3>8, PathsAreNames DEF Parts
      <4>4. Len(PathsIn(t)[c]) = Len(PathsIn(t)[r]) + 1 /\ Len(PathsIn(t)[r]) \in Nat
        BY <4>2, <4>3, AppendProperties, LenProperties
      <4>5. Len(PathsIn(t)[r]) <= m - 1
        BY <3>2, <3>6
      <4>6. Len(PathsIn(t)[c]) <= Len(q)
        <5> HIDE DEF c, r
        <5> QED BY <4>4, <4>5
      <4>7. q \in Seq(Names) => PathsIn(t)[c] = q
        <5> SUFFICES ASSUME q \in Seq(Names) PROVE PathsIn(t)[c] = q
          OBVIOUS
        <5>1. f \in Seq(Names) /\ Append(f, e) = q
          BY <3>1, AppendFront
        <5>2. PathsIn(t)[r] = f
          BY <3>6, <5>1
        <5> QED BY <4>2, <5>1, <5>2
      <4> QED BY <2>1, <4>6, <4>7
    <3> QED BY <3>7, <3>8
  <2> QED BY <2>2, <2>3
<1> HIDE DEF S
<1>2. Len(path) \in Nat /\ Len(path) \in 0 .. Len(path)
  BY LenProperties
<1>3. \A m \in 0 .. Len(path) : m \in S
  BY <1>1, <1>2, AllOf
<1> QED BY <1>2, <1>3 DEF S

(* What is at a path of names, in the table and in the tree. *)
LEMMA NamedInTree ==
  ASSUME NEW t, Sound(t), NEW q \in Seq(Names)
  PROVE  /\ Resolve(t, q) # None <=> q \in DOMAIN TreeOf(t)
         /\ Resolve(t, q) # None => TreeOf(t)[q] = Value(t[Resolve(t, q)])
         /\ IsDirIn(t, q) <=> q \in DOMAIN TreeOf(t) /\ TreeOf(t)[q] = Dir
<1>1. q \in Seq(Parts)
  BY SeqMonotonic DEF Parts
<1>2. /\ DOMAIN TreeOf(t) = {PathsIn(t)[m] : m \in 1 .. Len(t)}
      /\ \A m \in 1 .. Len(t) : TreeOf(t)[PathsIn(t)[m]] = Value(t[m])
  BY TreeValues
<1>3. Resolve(t, q) # None =>
        Resolve(t, q) \in 1 .. Len(t) /\ PathsIn(t)[Resolve(t, q)] = q
  BY <1>1, ResolvedPath
<1>4. q \in DOMAIN TreeOf(t) => Resolve(t, q) # None
  <2> SUFFICES ASSUME q \in DOMAIN TreeOf(t) PROVE Resolve(t, q) # None
    OBVIOUS
  <2>1. PICK m \in 1 .. Len(t) : q = PathsIn(t)[m]
    BY <1>2
  <2>2. Resolve(t, q) = m
    BY <2>1, PathFinds
  <2> QED BY <2>2 DEF None
<1>5. Resolve(t, q) # None =>
        (t[Resolve(t, q)].dir <=> Value(t[Resolve(t, q)]) = Dir)
  <2> SUFFICES ASSUME Resolve(t, q) # None
               PROVE  t[Resolve(t, q)].dir <=> Value(t[Resolve(t, q)]) = Dir
    OBVIOUS
  <2>1. t[Resolve(t, q)] \in NodeType
    BY <1>3, ElementOfSeq DEF Sound
  <2>2. t[Resolve(t, q)].data # Dir /\ t[Resolve(t, q)].dir \in BOOLEAN
    BY <2>1, RamfsAssumption DEF NodeType
  <2> QED BY <2>2 DEF Value
<1> QED BY <1>2, <1>3, <1>4, <1>5 DEF IsDirIn
-----------------------------------------------------------------------------
(* What a path finds, it finds again when nodes have been added. *)
LEMMA ResolveKept ==
  ASSUME NEW t, NEW w, Sound(t), Sound(w), Len(t) <= Len(w),
         \A n \in 1 .. Len(t) : SameLinks(w[n], t[n]),
         NEW path \in Seq(Parts), Resolve(t, path) # None
  PROVE  Resolve(w, path) = Resolve(t, path)
<1>0. /\ Len(t) \in Nat /\ Linked(t) /\ Len(w) \in Nat /\ Linked(w) /\ NamesDiffer(w)
  BY DEF Sound
<1> DEFINE S == {k \in 0 .. Len(path) :
                   \A q \in Seq(Parts) : Len(q) = k /\ Resolve(t, q) # None
                                           => Resolve(w, q) = Resolve(t, q)}
<1>1. ASSUME NEW m \in 0 .. Len(path), \A j \in 0 .. m - 1 : j \in S
      PROVE  m \in S
  <2> SUFFICES ASSUME NEW q \in Seq(Parts), Len(q) = m, Resolve(t, q) # None
               PROVE  Resolve(w, q) = Resolve(t, q)
    OBVIOUS
  <2>1. CASE m = 0
    BY <2>1, ResolvesRoot
  <2>2. CASE m # 0
    <3> DEFINE f == Front(q)
               e == Last(q)
               r == Resolve(t, f)
    <3>1. q # << >>
      BY <2>2, EmptySeq
    <3>2. f \in Seq(Parts) /\ Len(f) = m - 1 /\ e \in Parts
      BY <3>1, FrontOf
    <3>3. Resolve(t, q) = IF r = None \/ e = NoName THEN r ELSE FindChild(t, r, e)
      BY <3>1, ResolvesLast
    <3>4. Resolve(w, q) = IF Resolve(w, f) = None \/ e = NoName THEN Resolve(w, f)
                          ELSE FindChild(w, Resolve(w, f), e)
      BY <3>1, ResolvesLast
    <3>5. r # None
      BY <3>3
    <3>6. Resolve(w, f) = r
      <4>1. m - 1 \in S
        BY <1>1, <2>2
      <4> QED BY <3>2, <3>5, <4>1
    <3>7. CASE e = NoName
      BY <3>3, <3>4, <3>6, <3>7
    <3>8. CASE e # NoName
      <4> DEFINE c == FindChild(t, r, e)
      <4>1. Len(f) \in Nat
        BY <3>2, LenProperties
      <4>2. r \in 1 .. Len(t)
        BY <1>0, <3>5, <4>1, ResolvesToNode
      <4>3. Resolve(t, q) = c /\ c # None
        BY <3>3, <3>5, <3>8
      <4>4. c \in 2 .. Len(t) /\ t[c].parent = r /\ t[c].name = e
        BY <1>0, <4>2, <4>3, FindsChild
      <4>5. c \in 2 .. Len(w) /\ w[c].parent = r /\ w[c].name = e
        <5> HIDE DEF c, r, e
        <5> QED BY <1>0, <4>4 DEF SameLinks
      <4>6. FindChild(w, r, e) = c
        BY <1>0, <4>5, FindsNamed
      <4> QED BY <3>4, <3>5, <3>6, <3>8, <4>3, <4>6
    <3> QED BY <3>7, <3>8
  <2> QED BY <2>1, <2>2
<1> HIDE DEF S
<1>2. Len(path) \in Nat /\ Len(path) \in 0 .. Len(path)
  BY LenProperties
<1>3. \A m \in 0 .. Len(path) : m \in S
  BY <1>1, <1>2, AllOf
<1> QED BY <1>2, <1>3 DEF S

(* Making an entry adds one to the tree below a directory, or nothing. *)
LEMMA MadeTree ==
  ASSUME NEW u, SoundFs(u), NEW path \in Seq(Parts), path # << >>, NEW dir \in BOOLEAN
  PROVE  LET t == u.nodes
             w == Made(u, path, dir).nodes
         IN  \/ Made(u, path, dir) = u
             \/ \E q \in Seq(Names) :
                  /\ NewEntry(t, w, q, IF dir THEN Dir ELSE Empty)
                  /\ q # << >> /\ Len(q) <= Len(path) /\ (path \in Seq(Names) => q = path)
                  /\ Resolve(w, path) = Len(w) /\ PathsIn(w)[Len(w)] = q
<1> DEFINE t == u.nodes
           v == Made(u, path, dir)
           w == v.nodes
           f == Front(path)
           p == Resolve(t, f)
           e == Last(path)
           q == Append(PathsIn(t)[p], e)
<1>1. SUFFICES ASSUME v # u
               PROVE  \E r \in Seq(Names) :
                        /\ NewEntry(t, w, r, IF dir THEN Dir ELSE Empty)
                        /\ r # << >> /\ Len(r) <= Len(path) /\ (path \in Seq(Names) => r = path)
                        /\ Resolve(w, path) = Len(w) /\ PathsIn(w)[Len(w)] = r
  BY <1>1, Zenon
<1>2. /\ v = AddChild(u, p, e, dir) /\ u.room # 0
      /\ p \in 1 .. Len(t) /\ t[p].dir /\ e \in Names
      /\ \A c \in 2 .. Len(t) : t[c].parent = p => t[c].name # e
  BY <1>1, MadeIsAdded
<1>3. Sound(t) /\ Len(t) \in Nat /\ t \in Seq(NodeType) /\ Linked(t)
  BY SoundTable DEF SoundFs
<1>4. f \in Seq(Parts) /\ Len(path) \in Nat \ {0} /\ Len(f) = Len(path) - 1
  BY FrontOf
<1> DEFINE a == AddChild(u, p, e, dir).nodes
<1>5. /\ NewEntry(t, a, q, IF dir THEN Dir ELSE Empty)
      /\ Sound(a) /\ Len(a) = Len(t) + 1 /\ PathsIn(a)[Len(a)] = q
      /\ a[Len(a)].parent = p /\ a[Len(a)].name = e
      /\ \A n \in 1 .. Len(t) : SameLinks(a[n], t[n])
  <2> HIDE DEF p, e
  <2> QED BY <1>2, AddedTree
<1>6. w = a
  BY <1>2
<1>7. p # None
  BY <1>2 DEF None
<1>8. /\ Len(PathsIn(t)[p]) <= Len(f) /\ (f \in Seq(Names) => PathsIn(t)[p] = f)
  BY <1>3, <1>4, <1>7, ResolvedPath
<1>9. PathsIn(t)[p] \in Seq(Names)
  BY <1>2, <1>3, PathsAreNames
<1>10. Resolve(a, f) = p
  <2> HIDE DEF a, t, f
  <2>1. Len(t) <= Len(a)
    BY <1>3, <1>5
  <2> QED BY <1>3, <1>4, <1>5, <1>7, <2>1, ResolveKept
<1>11. path \in Seq(Names) => f \in Seq(Names) /\ Append(f, e) = path
  BY AppendFront
<1>12. Resolve(a, path) = IF Resolve(a, f) = None \/ e = NoName THEN Resolve(a, f)
                          ELSE FindChild(a, Resolve(a, f), e)
  BY ResolvesLast
<1>13. Len(q) = Len(PathsIn(t)[p]) + 1 /\ q \in Seq(Names)
  BY <1>2, <1>9, AppendProperties
<1>14. q # << >>
  BY <1>2, <1>9, FrontAppend
<1> HIDE DEF a, f, p, e, t, w, q
<1>15. FindChild(a, p, e) = Len(a)
  <2>1. Len(a) \in 2 .. Len(a)
    BY <1>2, <1>3, <1>5
  <2> QED BY <1>5, <2>1, FindsNamed DEF Sound
<1>16. Resolve(a, path) = Len(a)
  BY <1>2, <1>7, <1>10, <1>12, <1>15, RamfsAssumption
<1>17. Len(q) <= Len(path)
  BY <1>4, <1>8, <1>9, <1>13, LenProperties
<1>18. path \in Seq(Names) => q = path
  BY <1>8, <1>11 DEF q
<1> QED BY <1>5, <1>6, <1>13, <1>14, <1>16, <1>17, <1>18
-----------------------------------------------------------------------------
(* The way to an archive's entry. *)
LEMMA ParentIsDir ==
  ASSUME NEW t, Sound(t), NEW q \in Seq(Names), q # << >>, Resolve(t, q) # None
  PROVE  IsDirIn(t, Front(q))
<1>1. Len(t) \in Nat /\ Linked(t)
  BY DEF Sound
<1>2. Front(q) \in Seq(Names) /\ Last(q) \in Names /\ Len(Front(q)) \in Nat
  BY FrontOf, LenProperties
<1> DEFINE r == Resolve(t, Front(q))
           e == Last(q)
<1>3. Resolve(t, q) = IF r = None \/ e = NoName THEN r ELSE FindChild(t, r, e)
  BY ResolvesLast
<1>4. e # NoName
  BY <1>2, RamfsAssumption
<1>5. r # None /\ FindChild(t, r, e) # None
  BY <1>3, <1>4
<1>6. r \in 1 .. Len(t)
  BY <1>1, <1>2, <1>5, ResolvesToNode
<1> DEFINE c == FindChild(t, r, e)
<1>7. c \in 2 .. Len(t) /\ t[c].parent = r
  BY <1>1, <1>5, <1>6, FindsChild
<1>8. t[r].dir
  <2> HIDE DEF c, r
  <2> QED BY <1>1, <1>7 DEF Linked
<1> QED BY <1>5, <1>8 DEF IsDirIn

LEMMA FrontPrefix ==
  ASSUME NEW S, NEW path \in Seq(S), NEW i \in 1 .. Len(path)
  PROVE  /\ SubSeq(path, 1, i) \in Seq(S) /\ SubSeq(path, 1, i) # << >>
         /\ Len(SubSeq(path, 1, i)) = i
         /\ Front(SubSeq(path, 1, i)) = SubSeq(path, 1, i - 1)
         /\ SubSeq(path, 1, i - 1) \in Seq(S)
<1> DEFINE q == SubSeq(path, 1, i)
           f == SubSeq(path, 1, i - 1)
<1>1. Len(path) \in Nat /\ i \in Nat /\ i >= 1 /\ i - 1 \in 0 .. Len(path)
  BY LenProperties
<1>2. q \in Seq(S) /\ q # << >> /\ Len(q) = i /\ \A j \in 1 .. i : q[j] = path[j]
  BY PrefixOf
<1>3. f \in Seq(S) /\ Len(f) = i - 1 /\ \A j \in 1 .. i - 1 : f[j] = path[j]
  <2>1. CASE i = 1
    <3>1. f = << >>
      BY <2>1, SubSeqEmpty
    <3> QED BY <2>1, <3>1, EmptySeq
  <2>2. CASE i # 1
    <3>1. i - 1 \in 1 .. Len(path)
      BY <1>1, <2>2
    <3> QED BY <3>1, PrefixOf
  <2> QED BY <2>1, <2>2
<1> HIDE DEF q, f
<1>4. /\ Front(q) \in Seq(S) /\ Len(Front(q)) = Len(q) - 1
      /\ \A j \in 1 .. Len(q) - 1 : Front(q)[j] = q[j]
  BY <1>2, FrontOf
<1>5. Len(Front(q)) = Len(f)
  BY <1>2, <1>3, <1>4
<1>6. ASSUME NEW j \in 1 .. Len(Front(q)) PROVE Front(q)[j] = f[j]
  <2>1. j \in 1 .. i - 1 /\ j \in 1 .. i /\ j \in 1 .. Len(q) - 1
    BY <1>1, <1>2, <1>4
  <2> QED BY <1>2, <1>3, <1>4, <2>1
<1>7. Front(q) = f
  BY <1>3, <1>4, <1>5, <1>6, SeqEqual
<1> QED BY <1>2, <1>3, <1>7 DEF q, f

(* The tree b is the tree a with the way to p down to depth k, where nothing
   but directories was on it. *)
WayAdded(a, b, p, k) ==
  /\ \A q \in Abstract!Way(p, k) : q \in DOMAIN a => a[q] = Dir
  /\ b = Abstract!WithWay(a, p, k)

LEMMA WayGrows ==
  ASSUME NEW p, NEW i \in Nat \ {0}
  PROVE  Abstract!Way(p, i) = Abstract!Way(p, i - 1) \cup {SubSeq(p, 1, i)}
<1>1. \A j \in 0 .. i : j \in 0 .. i - 1 \/ j = i
  OBVIOUS
<1>2. \A j \in 0 .. i - 1 : j \in 0 .. i
  OBVIOUS
<1> QED BY <1>1, <1>2 DEF Abstract!Way

(* When a directory is at p's prefix i, the way is there down to it. *)
LEMMA WayReaches ==
  ASSUME NEW t, NEW w, Sound(t), Sound(w), NEW p \in Seq(Names),
         NEW i \in 0 .. Len(p), NEW k \in 0 .. i,
         WayAdded(TreeOf(t), TreeOf(w), p, k), IsDirIn(w, SubSeq(p, 1, i))
  PROVE  WayAdded(TreeOf(t), TreeOf(w), p, i)
<1> DEFINE S == {m \in 0 .. i : IsDirIn(w, SubSeq(p, 1, i - m))}
<1>0. Len(p) \in Nat /\ i \in Nat /\ k \in Nat
  BY LenProperties
<1>1. ASSUME NEW m \in 0 .. i, \A j \in 0 .. m - 1 : j \in S
      PROVE  m \in S
  <2>1. CASE m = 0
    BY <1>0, <2>1
  <2>2. CASE m # 0
    <3> DEFINE n == i - (m - 1)
    <3>1. n \in 1 .. Len(p) /\ n - 1 = i - m
      BY <1>0, <2>2
    <3>2. IsDirIn(w, SubSeq(p, 1, n))
      BY <1>1, <2>2
    <3> HIDE DEF n
    <3>3. /\ SubSeq(p, 1, n) \in Seq(Names) /\ SubSeq(p, 1, n) # << >>
          /\ Front(SubSeq(p, 1, n)) = SubSeq(p, 1, n - 1)
      BY <3>1, FrontPrefix
    <3>4. IsDirIn(w, SubSeq(p, 1, n - 1))
      BY <3>2, <3>3, ParentIsDir DEF IsDirIn
    <3> QED BY <3>1, <3>4
  <2> QED BY <2>1, <2>2
<1> HIDE DEF S
<1>2. \A m \in 0 .. i : m \in S
  BY <1>0, <1>1, AllOf
<1>3. ASSUME NEW j \in 0 .. i
      PROVE  SubSeq(p, 1, j) \in DOMAIN TreeOf(w) /\ TreeOf(w)[SubSeq(p, 1, j)] = Dir
  <2>1. i - j \in 0 .. i /\ i - (i - j) = j
    BY <1>0
  <2>2. IsDirIn(w, SubSeq(p, 1, j))
    BY <1>2, <2>1 DEF S
  <2>3. SubSeq(p, 1, j) \in Seq(Names)
    <3>1. CASE j = 0
      <4>1. SubSeq(p, 1, j) = << >>
        BY <3>1, SubSeqEmpty
      <4> QED BY <4>1, EmptySeq
    <3>2. CASE j # 0
      <4>1. j \in 1 .. Len(p)
        BY <1>0, <3>2
      <4> QED BY <4>1, PrefixOf
    <3> QED BY <3>1, <3>2
  <2> QED BY <2>2, <2>3, NamedInTree
<1> DEFINE a == TreeOf(t)
           b == TreeOf(w)
           long == Abstract!Way(p, i)
           short == Abstract!Way(p, k)
<1>4. \A q \in long : q \in DOMAIN b /\ b[q] = Dir
  BY <1>3 DEF Abstract!Way
<1>5. short \subseteq long
  <2>1. \A j \in 0 .. k : j \in 0 .. i
    BY <1>0
  <2> QED BY <2>1 DEF Abstract!Way
<1>6. /\ \A q \in short : q \in DOMAIN a => a[q] = Dir
      /\ b = [q \in DOMAIN a \cup short |-> IF q \in short THEN Dir ELSE a[q]]
  BY DEF WayAdded, Abstract!WithWay
<1> HIDE DEF a, b, long, short
<1>7. \A q \in long : q \in DOMAIN a => a[q] = Dir
  BY <1>4, <1>6
<1>8. b = [q \in DOMAIN a \cup long |-> IF q \in long THEN Dir ELSE a[q]]
  <2>1. DOMAIN b = DOMAIN a \cup long
    BY <1>4, <1>5, <1>6
  <2>2. ASSUME NEW q \in DOMAIN b PROVE b[q] = IF q \in long THEN Dir ELSE a[q]
    BY <1>4, <1>5, <1>6
  <2>3. b = [q \in DOMAIN b |-> b[q]]
    BY <1>6
  <2> QED BY <2>1, <2>2, <2>3
<1> QED BY <1>7, <1>8 DEF WayAdded, Abstract!WithWay, a, b, long

(* Making the way adds it down to some depth and changes nothing else. *)
LEMMA EnsuringTree ==
  ASSUME NEW u, SoundFs(u), NEW path \in Seq(Names), NEW f, Ensuring(u, path, Len(path), f),
         NEW n \in 0 .. Len(path)
  PROVE  \E k \in 0 .. n : WayAdded(TreeOf(u.nodes), TreeOf(f[n].nodes), path, k)
<1> DEFINE S == {m \in 0 .. Len(path) :
                   \E k \in 0 .. m : WayAdded(TreeOf(u.nodes), TreeOf(f[m].nodes), path, k)}
<1>0. Len(path) \in Nat /\ path \in Seq(Parts)
  BY LenProperties, SeqMonotonic DEF Parts
<1>1. ASSUME NEW m \in 0 .. Len(path), \A j \in 0 .. m - 1 : j \in S
      PROVE  m \in S
  <2>1. f[m] = EnsureStep(u, path, f, m)
    BY DEF Ensuring
  <2>2. CASE m = 0
    <3>1. f[m] = u
      BY <2>1, <2>2 DEF EnsureStep
    <3> DEFINE a == TreeOf(u.nodes)
    <3>2. Abstract!Way(path, 0) = {<< >>}
      <4>1. SubSeq(path, 1, 0) = << >>
        BY SubSeqEmpty
      <4>2. 0 \in 0 .. 0 /\ \A i \in 0 .. 0 : i = 0
        OBVIOUS
      <4> QED BY <4>1, <4>2 DEF Abstract!Way
    <3>3. << >> \in DOMAIN a /\ a[<< >>] = Dir
      <4>1. Sound(u.nodes) /\ Linked(u.nodes)
        BY DEF SoundFs, Sound
      <4>2. IsDirIn(u.nodes, << >>)
        BY <4>1, EmptySeq, ResolvesRoot DEF IsDirIn, Linked, Root, None
      <4>3. << >> \in Seq(Names)
        BY EmptySeq
      <4> QED BY <4>1, <4>2, <4>3, NamedInTree
    <3>4. a = [q \in DOMAIN a |-> a[q]]
      BY TreeValues DEF SoundFs
    <3> HIDE DEF a
    <3>5. a = Abstract!WithWay(a, path, 0)
      <4>1. DOMAIN a \cup {<< >>} = DOMAIN a
        BY <3>3
      <4>2. \A q \in DOMAIN a : a[q] = IF q \in {<< >>} THEN Dir ELSE a[q]
        BY <3>3
      <4> QED BY <3>2, <3>4, <4>1, <4>2 DEF Abstract!WithWay
    <3>6. WayAdded(a, a, path, 0)
      BY <3>2, <3>3, <3>5 DEF WayAdded
    <3>7. WayAdded(TreeOf(u.nodes), TreeOf(f[m].nodes), path, 0) /\ 0 \in 0 .. m
      BY <2>2, <3>1, <3>6 DEF a
    <3> QED BY <3>7
  <2>3. CASE m # 0
    <3> DEFINE v == f[m - 1]
               q == SubSeq(path, 1, m)
               g == SubSeq(path, 1, m - 1)
    <3>1. m \in 1 .. Len(path) /\ m - 1 \in 0 .. Len(path) /\ m \in Nat
      BY <1>0, <2>3
    <3>2. PICK k \in 0 .. m - 1 : WayAdded(TreeOf(u.nodes), TreeOf(v.nodes), path, k)
      <4>1. m - 1 \in S
        BY <1>1, <2>3
      <4> QED BY <4>1
    <3>3. k \in 0 .. m /\ k \in 0 .. m - 1
      BY <3>1
    <3>4. /\ q \in Seq(Names) /\ q # << >> /\ Len(q) = m /\ Front(q) = g /\ g \in Seq(Names)
      BY <3>1, FrontPrefix
    <3>5. SoundFs(v) /\ Sound(v.nodes) /\ Sound(u.nodes)
      BY <1>0, <3>1, EnsuringSound DEF SoundFs
    <3>6. CASE f[m] = v
      BY <3>2, <3>3, <3>6
    <3>7. CASE f[m] # v
      <4>1. IsDirIn(v.nodes, g) /\ f[m] = Made(v, q, TRUE)
        BY <2>1, <2>3, <3>4, <3>7 DEF EnsureStep
      <4>2. WayAdded(TreeOf(u.nodes), TreeOf(v.nodes), path, m - 1)
        <5> HIDE DEF v
        <5> QED BY <3>1, <3>2, <3>3, <3>5, <4>1, WayReaches
      <4>3. q \in Seq(Parts)
        BY <3>4, SeqMonotonic DEF Parts
      <4> HIDE DEF v, q
      <4>4. PICK x \in Seq(Names) :
              NewEntry(v.nodes, f[m].nodes, x, Dir) /\ (q \in Seq(Names) => x = q)
        <5> DEFINE w == Made(v, q, TRUE).nodes
        <5>1. \E r \in Seq(Names) :
                /\ NewEntry(v.nodes, w, r, IF TRUE THEN Dir ELSE Empty)
                /\ r # << >> /\ Len(r) <= Len(q) /\ (q \in Seq(Names) => r = q)
                /\ Resolve(w, q) = Len(w) /\ PathsIn(w)[Len(w)] = r
          BY <3>4, <3>5, <3>7, <4>1, <4>3, MadeTree, Zenon
        <5> QED BY <4>1, <5>1
      <4>5. NewEntry(v.nodes, f[m].nodes, q, Dir)
        BY <3>4, <4>4
      <4> DEFINE a == TreeOf(u.nodes)
                 b == TreeOf(v.nodes)
                 c == TreeOf(f[m].nodes)
                 short == Abstract!Way(path, m - 1)
                 long == Abstract!Way(path, m)
      <4>6. q \notin DOMAIN b /\ c = [r \in DOMAIN b \cup {q} |-> IF r = q THEN Dir ELSE b[r]]
        BY <4>5 DEF NewEntry, Abstract!With
      <4>7. /\ \A r \in short : r \in DOMAIN a => a[r] = Dir
            /\ b = [r \in DOMAIN a \cup short |-> IF r \in short THEN Dir ELSE a[r]]
        BY <4>2 DEF WayAdded, Abstract!WithWay
      <4>8. long = short \cup {q}
        BY <3>1, WayGrows DEF q
      <4> HIDE DEF a, b, c, short, long
      <4>9. q \notin DOMAIN a /\ q \notin short
        BY <4>6, <4>7
      <4>10. \A r \in long : r \in DOMAIN a => a[r] = Dir
        BY <4>7, <4>8, <4>9
      <4>11. c = [r \in DOMAIN a \cup long |-> IF r \in long THEN Dir ELSE a[r]]
        <5>1. DOMAIN c = DOMAIN a \cup long
          BY <4>6, <4>7, <4>8
        <5>2. ASSUME NEW r \in DOMAIN c PROVE c[r] = IF r \in long THEN Dir ELSE a[r]
          BY <4>6, <4>7, <4>8
        <5>3. c = [r \in DOMAIN c |-> c[r]]
          BY <4>6
        <5> QED BY <5>1, <5>2, <5>3
      <4>12. WayAdded(a, c, path, m)
        BY <4>10, <4>11 DEF WayAdded, Abstract!WithWay, long
      <4>13. m \in 0 .. m
        BY <3>1
      <4> QED BY <4>12, <4>13 DEF a, c
    <3> QED BY <3>6, <3>7
  <2> QED BY <2>2, <2>3
<1> HIDE DEF S
<1>2. \A m \in 0 .. Len(path) : m \in S
  BY <1>0, <1>1, AllOf
<1> QED BY <1>2 DEF S

LEMMA EnsuredTree ==
  ASSUME NEW u, SoundFs(u), NEW path \in Seq(Names)
  PROVE  \E k \in 0 .. Len(path) :
           WayAdded(TreeOf(u.nodes), TreeOf(Ensured(u, path).nodes), path, k)
<1>1. Len(path) \in Nat /\ Len(path) \in 0 .. Len(path)
  BY LenProperties
<1> QED BY <1>1, EnsuredIsEnsuring, EnsuringTree
-----------------------------------------------------------------------------
(* Each call is a step of the abstract tree. *)
LEMMA TreeIs == Tree = TreeOf(nodes) /\ Tree' = TreeOf(nodes')
BY DEF Tree, TreeOf, PathOf, PathsIn, Placing, PathStep

LEMMA PathLengths ==
  /\ \A path \in TarPaths : path \in Seq(Names) /\ path \in Abstract!Places
  /\ \A path \in Paths : Len(path) <= Depth
  /\ \A q \in Seq(Names) : q # << >> /\ Len(q) <= Depth => q \in Abstract!Places
<1>1. ASSUME NEW path \in TarPaths PROVE path \in Seq(Names) /\ path \in Abstract!Places
  <2>1. PICK n \in 1 .. Depth : path \in [1 .. n -> Names]
    BY DEF TarPaths
  <2>2. n \in Nat
    BY RamfsAssumption
  <2> QED BY <2>1, <2>2 DEF Abstract!Places
<1>2. ASSUME NEW path \in Paths PROVE Len(path) <= Depth
  <2>1. PICK n \in 1 .. Depth : path \in [1 .. n -> Parts]
    BY DEF Paths, Parts
  <2>2. n \in Nat /\ n <= Depth
    BY RamfsAssumption
  <2>3. Len(path) = n
    BY <2>1, <2>2
  <2> QED BY <2>2, <2>3
<1>3. ASSUME NEW q \in Seq(Names), q # << >>, Len(q) <= Depth PROVE q \in Abstract!Places
  <2>1. Len(q) \in 1 .. Depth
    BY <1>3, EmptySeq, RamfsAssumption
  <2>2. q \in [1 .. Len(q) -> Names]
    BY LenProperties
  <2> QED BY <2>1, <2>2 DEF Abstract!Places
<1> QED BY <1>1, <1>2, <1>3

(* Replacing what is new is adding the other. *)
LEMMA WithAgain ==
  ASSUME NEW a, NEW q, NEW v, NEW d
  PROVE  [Abstract!With(a, q, v) EXCEPT ![q] = d] = Abstract!With(a, q, d)
BY DEF Abstract!With

LEMMA EntryIsAdd ==
  ASSUME NEW q \in Seq(Names), q # << >>, Len(q) <= Depth,
         NEW v \in {Dir, Empty} \cup Contents, NewEntry(nodes, nodes', q, v)
  PROVE  Abstract!Next
<1>1. q \in Abstract!Places
  BY PathLengths
<1>2. Abstract!Add(q, v)
  BY TreeIs DEF NewEntry, Abstract!Add, Abstract!Exists, Abstract!IsDir, Abstract!Front, Front
<1>3. v = Dir \/ v \in Contents \cup {Empty}
  OBVIOUS
<1>4. Empty \in Contents \cup {Empty}
  OBVIOUS
<1> QED BY <1>1, <1>2, <1>3, <1>4 DEF Abstract!Next

LEMMA MadeSteps ==
  ASSUME SoundFs(fs), NEW path \in Seq(Parts), path # << >>, Len(path) <= Depth,
         NEW dir \in BOOLEAN, fs' = Made(fs, path, dir)
  PROVE  Abstract!Next \/ UNCHANGED Tree
<1>1. CASE fs' = fs
  BY <1>1, TreeIs DEF nodes
<1>2. CASE fs' # fs
  <2> DEFINE w == Made(fs, path, dir).nodes
  <2>0. Made(fs, path, dir) # fs
    BY <1>2
  <2>1. \E q \in Seq(Names) :
          /\ NewEntry(fs.nodes, w, q, IF dir THEN Dir ELSE Empty)
          /\ q # << >> /\ Len(q) <= Len(path) /\ (path \in Seq(Names) => q = path)
          /\ Resolve(w, path) = Len(w) /\ PathsIn(w)[Len(w)] = q
    BY <2>0, MadeTree
  <2>2. w = nodes' /\ fs.nodes = nodes
    BY DEF nodes
  <2> HIDE DEF w
  <2>3. PICK q \in Seq(Names) :
          /\ NewEntry(nodes, nodes', q, IF dir THEN Dir ELSE Empty)
          /\ q # << >> /\ Len(q) <= Len(path)
    BY <2>1, <2>2
  <2>4. Len(q) <= Depth
    BY <2>3, LenProperties, RamfsAssumption
  <2> QED BY <2>3, <2>4, EntryIsAdd
<1> QED BY <1>1, <1>2

LEMMA WriteSteps ==
  ASSUME SoundFs(fs), NEW path \in Seq(Parts), path # << >>, Len(path) <= Depth,
         NEW data \in Contents,
         fs' = Stored(IF Resolve(nodes, path) = None THEN Made(fs, path, FALSE) ELSE fs, path, data)
  PROVE  Abstract!Next \/ UNCHANGED Tree
<1>0. Sound(nodes) /\ nodes = fs.nodes /\ Len(path) \in Nat /\ Depth \in Nat
  BY LenProperties, RamfsAssumption DEF SoundFs, nodes
<1>1. CASE fs' = Made(fs, path, FALSE)
  BY <1>1, MadeSteps
<1>2. CASE fs' = fs
  BY <1>2, TreeIs DEF nodes
<1>3. CASE fs' # fs /\ fs' = Stored(fs, path, data)
  <2> DEFINE n == Resolve(nodes, path)
             q == PathsIn(nodes)[n]
  <2> DEFINE v == Stored(fs, path, data)
  <2>0. \/ v = fs
        \/ /\ n \in 1 .. Len(nodes) /\ TreeOf(nodes)[q] # Dir
           /\ TreeOf(v.nodes) = [TreeOf(nodes) EXCEPT ![q] = data]
    BY StoredTree DEF nodes
  <2>1. /\ n \in 1 .. Len(nodes) /\ TreeOf(nodes)[q] # Dir
        /\ TreeOf(nodes') = [TreeOf(nodes) EXCEPT ![q] = data]
    <3>1. v # fs /\ v.nodes = nodes'
      BY <1>3 DEF nodes
    <3> HIDE DEF v, n, q
    <3> QED BY <2>0, <3>1
  <2>2. n # None
    BY <2>1 DEF None
  <2>3. Len(q) <= Len(path)
    BY <1>0, <2>2, ResolvedPath
  <2>4. q \in Seq(Names) /\ q \in DOMAIN TreeOf(nodes)
    <3>1. q \in Seq(Names)
      BY <1>0, <2>1, PathsAreNames DEF Sound
    <3>2. DOMAIN TreeOf(nodes) = {PathsIn(nodes)[m] : m \in 1 .. Len(nodes)}
      BY <1>0, TreeValues
    <3> HIDE DEF n
    <3> QED BY <2>1, <3>1, <3>2
  <2> HIDE DEF n, q
  <2>5. q # << >>
    <3>1. Linked(nodes) /\ << >> \in Seq(Names)
      BY <1>0, EmptySeq DEF Sound
    <3>2. Resolve(nodes, << >>) = Root /\ IsDirIn(nodes, << >>)
      BY <3>1, EmptySeq, ResolvesRoot DEF IsDirIn, Linked, Root, None
    <3> QED BY <1>0, <2>1, <3>1, <3>2, NamedInTree
  <2>6. q \in Abstract!Places
    BY <1>0, <2>3, <2>4, <2>5, PathLengths, LenProperties
  <2>7. Abstract!Rewrite(q, data)
    BY <2>1, <2>4, TreeIs DEF Abstract!Rewrite, Abstract!Exists, Abstract!IsDir
  <2> QED BY <2>6, <2>7 DEF Abstract!Next
<1>4. CASE /\ Resolve(nodes, path) = None /\ Made(fs, path, FALSE) # fs
           /\ fs' # Made(fs, path, FALSE)
  <2> DEFINE u == Made(fs, path, FALSE)
             w == u.nodes
  <2>1. SoundFs(u) /\ fs' = Stored(u, path, data)
    BY <1>4, MadeSound
  <2>2. \E q \in Seq(Names) :
          /\ NewEntry(nodes, w, q, IF FALSE THEN Dir ELSE Empty)
          /\ q # << >> /\ Len(q) <= Len(path) /\ (path \in Seq(Names) => q = path)
          /\ Resolve(w, path) = Len(w) /\ PathsIn(w)[Len(w)] = q
    BY <1>0, <1>4, MadeTree, Zenon
  <2>3. fs' # u
    BY <1>4
  <2> HIDE DEF u
  <2>4. PICK q \in Seq(Names) :
          /\ NewEntry(nodes, w, q, Empty) /\ q # << >> /\ Len(q) <= Len(path)
          /\ PathsIn(w)[Resolve(w, path)] = q
    BY <2>2
  <2>5. TreeOf(nodes') = [TreeOf(w) EXCEPT ![q] = data]
    <3> DEFINE n == Resolve(w, path)
               v == Stored(u, path, data)
    <3>1. \/ v = u
          \/ /\ n \in 1 .. Len(w) /\ TreeOf(w)[PathsIn(w)[n]] # Dir
             /\ TreeOf(v.nodes) = [TreeOf(w) EXCEPT ![PathsIn(w)[n]] = data]
      BY <2>1, StoredTree
    <3>2. v # u /\ v.nodes = nodes'
      BY <2>1, <2>3 DEF nodes
    <3> HIDE DEF v, n, w
    <3> QED BY <2>4, <3>1, <3>2 DEF n
  <2>6. NewEntry(nodes, nodes', q, data)
    BY <2>4, <2>5, WithAgain DEF NewEntry
  <2>7. Len(q) <= Depth
    BY <1>0, <2>4, LenProperties
  <2> QED BY <2>4, <2>6, <2>7, EntryIsAdd
<1> QED BY <1>1, <1>2, <1>3, <1>4
-----------------------------------------------------------------------------
(* Unpacking an entry. *)
LEMMA WayIsUnpack ==
  ASSUME NEW path \in TarPaths, NEW k \in 0 .. Len(path),
         WayAdded(TreeOf(nodes), TreeOf(nodes'), path, k)
  PROVE  Abstract!Next
<1>1. path \in Abstract!Places
  BY PathLengths
<1>2. Abstract!Unpack(path, Empty)
  BY TreeIs DEF WayAdded, Abstract!Unpack, Abstract!Exists, Abstract!IsDir
<1> QED BY <1>1, <1>2 DEF Abstract!Next

(* The way is there and the entry is written at its end. *)
LEMMA EntryIsUnpack ==
  ASSUME NEW path \in TarPaths, Len(path) \in Nat \ {0}, NEW b,
         WayAdded(TreeOf(nodes), b, path, Len(path) - 1),
         ~ (path \in DOMAIN TreeOf(nodes) /\ TreeOf(nodes)[path] = Dir),
         NEW v \in Contents \cup {Empty}, TreeOf(nodes') = Abstract!With(b, path, v)
  PROVE  Abstract!Next
<1>1. path \in Abstract!Places
  BY PathLengths
<1>2. Len(path) - 1 \in 0 .. Len(path)
  OBVIOUS
<1>3. Abstract!Unpack(path, v)
  BY <1>2, TreeIs DEF WayAdded, Abstract!Unpack, Abstract!Exists, Abstract!IsDir
<1> QED BY <1>1, <1>3 DEF Abstract!Next

LEMMA WayOfFront ==
  ASSUME NEW S, NEW path \in Seq(S), path # << >>, NEW k \in 0 .. Len(path) - 1
  PROVE  Abstract!Way(Front(path), k) = Abstract!Way(path, k)
<1> DEFINE f == Front(path)
<1>1. /\ f \in Seq(S) /\ Len(path) \in Nat \ {0} /\ Len(f) = Len(path) - 1
      /\ \A i \in 1 .. Len(path) - 1 : f[i] = path[i]
  BY FrontOf
<1> HIDE DEF f
<1>2. ASSUME NEW i \in 0 .. k PROVE SubSeq(f, 1, i) = SubSeq(path, 1, i)
  <2>1. CASE i = 0
    BY <2>1, SubSeqEmpty
  <2>2. CASE i # 0
    <3>1. i \in 1 .. Len(f) /\ i \in 1 .. Len(path) /\ i \in Nat
      BY <1>1, <2>2
    <3>2. /\ SubSeq(f, 1, i) \in Seq(S) /\ Len(SubSeq(f, 1, i)) = i
          /\ \A j \in 1 .. i : SubSeq(f, 1, i)[j] = f[j]
      BY <1>1, <3>1, PrefixOf
    <3>3. /\ SubSeq(path, 1, i) \in Seq(S) /\ Len(SubSeq(path, 1, i)) = i
          /\ \A j \in 1 .. i : SubSeq(path, 1, i)[j] = path[j]
      BY <3>1, PrefixOf
    <3>4. ASSUME NEW j \in 1 .. i PROVE SubSeq(f, 1, i)[j] = SubSeq(path, 1, i)[j]
      <4>1. j \in 1 .. Len(path) - 1
        BY <1>1, <3>1
      <4> QED BY <1>1, <3>2, <3>3, <4>1
    <3> QED BY <3>2, <3>3, <3>4, SeqEqual
  <2> QED BY <2>1, <2>2
<1> QED BY <1>2 DEF Abstract!Way, f

LEMMA WayAddedFront ==
  ASSUME NEW S, NEW path \in Seq(S), path # << >>, NEW k \in 0 .. Len(path) - 1,
         NEW a, NEW b, WayAdded(a, b, Front(path), k)
  PROVE  WayAdded(a, b, path, k)
BY WayOfFront DEF WayAdded, Abstract!WithWay

LEMMA LoadDirSteps ==
  ASSUME SoundFs(fs), NEW path \in TarPaths, fs' = Ensured(fs, path)
  PROVE  Abstract!Next
<1>1. path \in Seq(Names)
  BY PathLengths
<1>2. PICK k \in 0 .. Len(path) :
        WayAdded(TreeOf(fs.nodes), TreeOf(Ensured(fs, path).nodes), path, k)
  BY <1>1, EnsuredTree
<1>3. WayAdded(TreeOf(nodes), TreeOf(nodes'), path, k)
  BY <1>2 DEF nodes
<1> QED BY <1>3, WayIsUnpack

LEMMA LoadFileSteps ==
  ASSUME SoundFs(fs), NEW path \in TarPaths, NEW data \in Contents,
         fs' = Stored(Made(Ensured(fs, Front(path)), path, FALSE), path, data)
  PROVE  Abstract!Next
<1> DEFINE f == Front(path)
           e == Ensured(fs, f)
           m == Made(e, path, FALSE)
           n == Len(path) - 1
           a == TreeOf(nodes)
           b == TreeOf(e.nodes)
           c == TreeOf(m.nodes)
<1>1. path \in Seq(Names) /\ path \in Seq(Parts) /\ path # << >>
  BY PathLengths, PathsAreSequences
<1>2. f \in Seq(Names) /\ f \in Seq(Parts) /\ Len(path) \in Nat \ {0} /\ Len(f) = n /\ n \in Nat
  BY <1>1, FrontOf
<1>3. SoundFs(e) /\ Sound(e.nodes) /\ Sound(nodes)
  BY <1>2, EnsuredSound DEF SoundFs, nodes
<1>4. SoundFs(m) /\ fs' = Stored(m, path, data)
  BY <1>1, <1>3, MadeSound
<1>5. PICK k \in 0 .. n : WayAdded(a, b, f, k)
  BY <1>2, EnsuredTree DEF nodes
<1> HIDE DEF e, m
<1>6. ASSUME IsDirIn(e.nodes, f) PROVE WayAdded(a, b, path, n)
  <2>1. SubSeq(f, 1, n) = f
    <3>1. CASE n = 0
      <4> HIDE DEF f, n
      <4>1. f \in Seq(Names) /\ Len(f) = 0 /\ n \in Int /\ n < 1
        BY <1>2, <3>1
      <4>2. f = << >>
        BY <4>1, EmptySeq
      <4>3. SubSeq(f, 1, n) = << >>
        BY <4>1, SubSeqEmpty
      <4> QED BY <4>2, <4>3
    <3>2. CASE n # 0
      <4>1. n \in 1 .. Len(f)
        BY <1>2, <3>2
      <4> HIDE DEF f, n
      <4>2. /\ SubSeq(f, 1, n) \in Seq(Names) /\ Len(SubSeq(f, 1, n)) = n
            /\ \A j \in 1 .. n : SubSeq(f, 1, n)[j] = f[j]
        BY <1>2, <4>1, PrefixOf
      <4> QED BY <1>2, <4>2, SeqEqual
    <3> QED BY <3>1, <3>2
  <2>2. n \in 0 .. Len(f) /\ n \in 0 .. n /\ n \in 0 .. Len(path) - 1
    BY <1>2
  <2>3. WayAdded(a, b, f, n)
    <3> HIDE DEF f, n
    <3> QED BY <1>2, <1>3, <1>5, <1>6, <2>1, <2>2, WayReaches
  <2> QED BY <1>1, <2>2, <2>3, WayAddedFront
<1>7. CASE m = e /\ fs' = e
  <2>1. k \in 0 .. Len(path) - 1 /\ k \in 0 .. Len(path)
    BY <1>2
  <2>2. WayAdded(a, b, path, k)
    BY <1>1, <1>5, <2>1, WayAddedFront
  <2>3. nodes' = e.nodes
    BY <1>7 DEF nodes
  <2> QED BY <2>1, <2>2, <2>3, WayIsUnpack
<1>8. CASE m # e
  <2>1. \E q \in Seq(Names) :
          /\ NewEntry(e.nodes, m.nodes, q, IF FALSE THEN Dir ELSE Empty)
          /\ q # << >> /\ Len(q) <= Len(path) /\ (path \in Seq(Names) => q = path)
          /\ Resolve(m.nodes, path) = Len(m.nodes) /\ PathsIn(m.nodes)[Len(m.nodes)] = q
    BY <1>1, <1>3, <1>8, MadeTree, Zenon DEF m
  <2>2. /\ NewEntry(e.nodes, m.nodes, path, Empty)
        /\ PathsIn(m.nodes)[Resolve(m.nodes, path)] = path
    BY <1>1, <2>1
  <2>3. /\ path \notin DOMAIN b /\ f \in DOMAIN b /\ b[f] = Dir
        /\ c = Abstract!With(b, path, Empty)
    BY <2>2 DEF NewEntry
  <2>4. IsDirIn(e.nodes, f)
    BY <1>2, <1>3, <2>3, NamedInTree
  <2>5. WayAdded(a, b, path, n)
    BY <1>6, <2>4
  <2>6. path \notin DOMAIN a
    <3>1. DOMAIN a \subseteq DOMAIN b
      BY <2>5 DEF WayAdded, Abstract!WithWay
    <3> QED BY <2>3, <3>1
  <2>7. \/ fs' = m
        \/ TreeOf(nodes') = [c EXCEPT ![path] = data]
    <3> DEFINE x == Resolve(m.nodes, path)
               v == Stored(m, path, data)
    <3>1. \/ v = m
          \/ /\ x \in 1 .. Len(m.nodes) /\ c[PathsIn(m.nodes)[x]] # Dir
             /\ TreeOf(v.nodes) = [c EXCEPT ![PathsIn(m.nodes)[x]] = data]
      BY <1>1, <1>4, StoredTree
    <3>2. fs' = v /\ nodes' = v.nodes
      BY <1>4 DEF nodes
    <3> HIDE DEF v, c
    <3> QED BY <2>2, <3>1, <3>2
  <2>8. CASE fs' = m
    <3>1. TreeOf(nodes') = Abstract!With(b, path, Empty)
      BY <2>3, <2>8 DEF nodes
    <3> QED BY <1>2, <2>5, <2>6, <3>1, EntryIsUnpack
  <2>9. CASE TreeOf(nodes') = [c EXCEPT ![path] = data]
    <3>1. TreeOf(nodes') = Abstract!With(b, path, data)
      BY <2>3, <2>9, WithAgain
    <3> QED BY <1>2, <2>5, <2>6, <3>1, EntryIsUnpack
  <2> QED BY <2>7, <2>8, <2>9
<1>9. CASE m = e /\ fs' # e
  <2> DEFINE x == Resolve(e.nodes, path)
             v == Stored(e, path, data)
  <2>1. /\ x \in 1 .. Len(e.nodes) /\ b[PathsIn(e.nodes)[x]] # Dir
        /\ TreeOf(nodes') = [b EXCEPT ![PathsIn(e.nodes)[x]] = data]
    <3>1. \/ v = e
          \/ /\ x \in 1 .. Len(e.nodes) /\ b[PathsIn(e.nodes)[x]] # Dir
             /\ TreeOf(v.nodes) = [b EXCEPT ![PathsIn(e.nodes)[x]] = data]
      BY <1>1, <1>3, StoredTree
    <3>2. v # e /\ nodes' = v.nodes
      BY <1>4, <1>9 DEF nodes
    <3> HIDE DEF v, b
    <3> QED BY <3>1, <3>2
  <2>2. x # None
    BY <2>1 DEF None
  <2>3. PathsIn(e.nodes)[x] = path
    BY <1>1, <1>3, <2>2, ResolvedPath
  <2>4. IsDirIn(e.nodes, f)
    BY <1>1, <1>3, <2>2, ParentIsDir
  <2>5. WayAdded(a, b, path, n)
    BY <1>6, <2>4
  <2>6. path \in DOMAIN b /\ b = [q \in DOMAIN b |-> b[q]]
    BY <1>1, <1>3, <2>2, NamedInTree, TreeValues
  <2>7. b[path] # Dir /\ TreeOf(nodes') = [b EXCEPT ![path] = data]
    BY <2>1, <2>3
  <2> HIDE DEF b, a
  <2>8. TreeOf(nodes') = Abstract!With(b, path, data)
    BY <2>6, <2>7 DEF Abstract!With
  <2>9. ~ (path \in DOMAIN a /\ a[path] = Dir)
    BY <2>5, <2>7 DEF WayAdded, Abstract!WithWay
  <2> QED BY <1>2, <2>5, <2>8, <2>9, EntryIsUnpack DEF a
<1> QED BY <1>7, <1>8, <1>9

LEMMA NextSteps ==
  ASSUME SoundFs(fs), [Next]_vars
  PROVE  [Abstract!Next]_Tree
<1>1. ASSUME NEW path \in TarPaths, LoadDir(path) PROVE Abstract!Next
  BY <1>1, LoadDirSteps DEF LoadDir
<1>2. ASSUME NEW path \in TarPaths, NEW data \in Contents, LoadFile(path, data)
      PROVE  Abstract!Next
  BY <1>2, LoadFileSteps DEF LoadFile
<1>3. CASE Booted
  <2>1. Len(<<DevName>>) <= Depth
    BY RamfsAssumption
  <2> QED BY <1>3, <2>1, PathsAreSequences, MadeSteps DEF Booted
<1>4. ASSUME NEW path \in Paths, Mkdir(path) \/ Touch(path)
      PROVE  Abstract!Next \/ UNCHANGED Tree
  BY <1>4, PathLengths, PathsAreSequences, MadeSteps DEF Mkdir, Touch
<1>5. ASSUME NEW path \in Paths, NEW data \in Contents, Write(path, data)
      PROVE  Abstract!Next \/ UNCHANGED Tree
  BY <1>5, PathLengths, PathsAreSequences, WriteSteps DEF Write
<1>6. CASE UNCHANGED vars
  BY <1>6, TreeIs DEF vars, nodes
<1> QED BY <1>1, <1>2, <1>3, <1>4, <1>5, <1>6 DEF Next, Unpack, Command

(* The ram file system implements the tree of names: every call adds one entry
   below a directory, replaces one file's contents, unpacks an entry with the
   directories on its way, or as much of it as memory allows, or does nothing;
   for every set of names, length of paths and size of the heap (ramfs.c). *)
THEOREM CallsAreTreeSteps == Spec => FileTreeSteps
<1>1. SoundFs(fs) /\ [Next]_vars => SoundFs(fs)'
  BY NextSound
<1>2. SoundFs(fs) /\ [Next]_vars => [Abstract!Next]_Tree
  BY NextSteps
<1> QED BY <1>1, <1>2, InitSound, PTL DEF Spec, FileTreeSteps
===============================================================================
