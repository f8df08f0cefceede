----------------------------- MODULE RBTreeProofs -----------------------------
(***************************************************************************)
(* The red-black tree of wepoll.c is a balanced search tree between any    *)
(* two steps of its loops, for any number of nodes and any keys.           *)
(***************************************************************************)
EXTENDS RBTree, FiniteSetTheorems, TLAPS

USE TreeAssumption

Places == Nodes \cup {NULL}

Trees == [root : Places, child : [Nodes -> [Sides -> Places]],
          parent : [Nodes -> Places], red : [Nodes -> BOOLEAN]]

LinkedIn(t) == {n \in Nodes : t.root = n \/ t.parent[n] # NULL}

\* m stands on side s of n.
Beside(s, m, n) == IF s = "left" THEN Key[m] < Key[n] ELSE Key[n] < Key[m]

(* The pointers up and the pointers down of t are those of one tree.       *)
Agreed(t) ==
  /\ t.root # NULL => t.parent[t.root] = NULL
  /\ \A n \in LinkedIn(t), s \in Sides :
       t.child[n][s] # NULL => t.parent[t.child[n][s]] = n
  /\ \A n \in LinkedIn(t) : n # t.root =>
       /\ t.parent[n] \in LinkedIn(t)
       /\ \E s \in Sides : t.child[t.parent[n]][s] = n

\* The nodes from the child of n on side s down, where below tells those of
\* every node.
Down(t, below, n, s) ==
  IF t.child[n][s] = NULL THEN {} ELSE below[t.child[n][s]]

\* The nodes below n are those below its children, the smaller keys left.
SplitAt(t, below, n) ==
  /\ below[n] = {n} \cup Down(t, below, n, "left") \cup Down(t, below, n, "right")
  /\ \A s \in Sides : \A m \in Down(t, below, n, s) : Beside(s, m, n)

(* Every node parts the nodes below it by their keys, and the root has all *)
(* that are linked.                                                        *)
Ordered(t, below) ==
  /\ below \in [Nodes -> SUBSET Nodes]
  /\ \A n \in LinkedIn(t) : SplitAt(t, below, n)
  /\ t.root # NULL => below[t.root] = LinkedIn(t)
  /\ t.root = NULL => LinkedIn(t) = {}

Sound(t, below) == t \in Trees /\ Agreed(t) /\ Ordered(t, below)

-----------------------------------------------------------------------------
(* Induction.                                                              *)

\* A set of numbers with 0 and with every successor has them all.
LEMMA SetInduction ==
  ASSUME NEW S, 0 \in S, \A n \in Nat : n \in S => n + 1 \in S
  PROVE  Nat \subseteq S
<1> SUFFICES ASSUME NEW n \in Nat, n \notin S
             PROVE  FALSE
  OBVIOUS
<1> DEFINE T == {m \in 0 .. n : m \in S}
           succ == [m \in T |-> m + 1]
<1>1. IsFiniteSet(T) /\ 0 \in T
  <2>1. IsFiniteSet(0 .. n) /\ T \in SUBSET (0 .. n)
    BY FS_Interval
  <2> QED  BY <2>1, FS_Subset
<1>2. \A m \in T : m + 1 \in T \ {0}
  OBVIOUS
<1>3. succ \in Injection(T, T \ {0})
  BY <1>2 DEF Injection, IsInjective
<1>4. /\ IsFiniteSet(T \ {0})
      /\ Cardinality(T \ {0}) = Cardinality(T) - 1
      /\ Cardinality(T) \in Nat
  BY <1>1, FS_RemoveElement, FS_CardinalityType
<1>5. Cardinality(T) <= Cardinality(T \ {0})
  BY <1>3, <1>4, FS_Injection DEF ExistsInjection
<1> QED  BY <1>4, <1>5

\* What holds of a node once it holds of all with fewer nodes below holds of
\* all nodes.
LEMMA BelowInduction ==
  ASSUME NEW below \in [Nodes -> SUBSET Nodes], NEW L \in SUBSET Nodes, NEW S,
         \A n \in L :
           (\A m \in L : Cardinality(below[m]) < Cardinality(below[n]) => m \in S)
             => n \in S
  PROVE  L \subseteq S
<1> DEFINE T == {i \in Nat : \A n \in L : Cardinality(below[n]) < i => n \in S}
<1>0. \A n \in L : Cardinality(below[n]) \in Nat
  BY FS_Subset, FS_CardinalityType
<1>1. 0 \in T
  BY <1>0
<1>2. ASSUME NEW i \in Nat, i \in T PROVE i + 1 \in T
  <2> SUFFICES ASSUME NEW n \in L, Cardinality(below[n]) < i + 1
               PROVE  n \in S
    OBVIOUS
  <2>1. \A m \in L : Cardinality(below[m]) < Cardinality(below[n]) => m \in S
    BY <1>0, <1>2
  <2> QED  BY <2>1
<1>3. Nat \subseteq T
  <2> HIDE DEF T
  <2> QED  BY <1>1, <1>2, SetInduction
<1> SUFFICES ASSUME NEW n \in L PROVE n \in S
  OBVIOUS
<1>4. Cardinality(below[n]) + 1 \in T
  BY <1>0, <1>3
<1> QED  BY <1>0, <1>4

-----------------------------------------------------------------------------
(* The nodes below a node.                                                 *)

LEMMA SideFacts ==
  /\ \A s \in Sides : Other(s) \in Sides /\ Other(s) # s /\ Other(Other(s)) = s
  /\ \A s \in Sides : Sides = {s, Other(s)}
  /\ Sides = {"left", "right"}
  BY DEF Sides, Other

LEMMA TreeFields ==
  ASSUME NEW t \in Trees
  PROVE  /\ t.root \in Places
         /\ t.child \in [Nodes -> [Sides -> Places]]
         /\ \A n \in Nodes, s \in Sides : t.child[n][s] \in Places
         /\ t.parent \in [Nodes -> Places]
         /\ t.red \in [Nodes -> BOOLEAN]
  BY DEF Trees

\* A linked node has a child on one side only, and is not below it.
LEMMA ChildFacts ==
  ASSUME NEW t, NEW below, Sound(t, below), NEW n \in LinkedIn(t),
         NEW s \in Sides, t.child[n][s] # NULL
  PROVE  LET c == t.child[n][s]
         IN  /\ c \in LinkedIn(t) /\ t.parent[c] = n /\ c # t.root /\ c # n
             /\ c \in below[c] /\ below[c] \subseteq below[n]
             /\ n \notin below[c] /\ n \in below[n]
             /\ \A m \in below[c] : Beside(s, m, n)
             /\ c # t.child[n][Other(s)]
<1> DEFINE c == t.child[n][s]
<1>1. t \in Trees /\ Agreed(t) /\ Ordered(t, below) /\ c \in Nodes /\ n \in Nodes
  BY TreeFields DEF Sound, LinkedIn, Places
<1>2. t.parent[c] = n /\ n # NULL
  BY <1>1 DEF Agreed
<1>3. c \in LinkedIn(t) /\ c # t.root
  BY <1>1, <1>2 DEF LinkedIn, Agreed
<1>4. SplitAt(t, below, n) /\ SplitAt(t, below, c)
  BY <1>1, <1>3 DEF Ordered
<1>5. c \in below[c] /\ n \in below[n] /\ Down(t, below, n, s) = below[c]
  BY <1>4 DEF SplitAt, Down
<1>6. below[c] \subseteq below[n] /\ \A m \in below[c] : Beside(s, m, n)
  BY <1>4, <1>5 DEF SplitAt, Sides
<1>7. n \notin below[c]
  BY <1>1, <1>6 DEF Beside
<1>8. c # t.child[n][Other(s)]
  <2> SUFFICES ASSUME c = t.child[n][Other(s)] PROVE FALSE
    OBVIOUS
  <2>1. Other(s) \in Sides /\ c \in Down(t, below, n, Other(s))
    BY <1>5, SideFacts DEF Down
  <2>2. Beside(s, c, n) /\ Beside(Other(s), c, n)
    BY <1>4, <1>5, <1>6, <2>1 DEF SplitAt
  <2> QED  BY <1>1, <2>2 DEF Beside, Other, Sides
<1> QED  BY <1>2, <1>3, <1>5, <1>6, <1>7, <1>8

LEMMA BelowFinite ==
  ASSUME NEW S \in SUBSET Nodes
  PROVE  IsFiniteSet(S) /\ Cardinality(S) \in Nat
  BY FS_Subset, FS_CardinalityType

LEMMA FewerBelow ==
  ASSUME NEW S \in SUBSET Nodes, NEW T \in SUBSET S, NEW n \in S, n \notin T
  PROVE  Cardinality(T) < Cardinality(S)
<1>1. IsFiniteSet(S) /\ IsFiniteSet(T) /\ Cardinality(S) \in Nat /\ Cardinality(T) \in Nat
  BY BelowFinite
<1>2. Cardinality(T) <= Cardinality(S) /\ (Cardinality(S) = Cardinality(T) => S = T)
  BY <1>1, FS_Subset
<1> QED  BY <1>1, <1>2

\* A node below n is n, or below a child of n.
LEMMA BelowSplit ==
  ASSUME NEW t, NEW below, Sound(t, below), NEW n \in LinkedIn(t),
         NEW m \in below[n], m # n
  PROVE  \E s \in Sides : t.child[n][s] # NULL /\ m \in below[t.child[n][s]]
<1>1. SplitAt(t, below, n)
  BY DEF Sound, Ordered
<1> QED  BY <1>1 DEF SplitAt, Down, Sides

\* What stands below a node, with all below that.
LEMMA BelowFacts ==
  ASSUME NEW t, NEW below, Sound(t, below), NEW n \in LinkedIn(t),
         NEW m \in below[n]
  PROVE  /\ m \in LinkedIn(t) /\ below[m] \subseteq below[n]
         /\ m # n => m # t.root /\ t.parent[m] \in below[n] /\ n \notin below[m]
<1> DEFINE L == LinkedIn(t)
           Good == {k \in L : \A x \in below[k] :
                      /\ x \in L /\ below[x] \subseteq below[k]
                      /\ x # k => x # t.root /\ t.parent[x] \in below[k]
                                   /\ k \notin below[x]}
<1>1. below \in [Nodes -> SUBSET Nodes] /\ L \in SUBSET Nodes
  BY DEF Sound, Ordered, LinkedIn
<1>2. ASSUME NEW k \in L,
             \A j \in L : Cardinality(below[j]) < Cardinality(below[k]) => j \in Good
      PROVE  k \in Good
  <2> SUFFICES ASSUME NEW x \in below[k], x # k
               PROVE  /\ x \in L /\ below[x] \subseteq below[k]
                      /\ x # t.root /\ t.parent[x] \in below[k] /\ k \notin below[x]
    OBVIOUS
  <2>1. PICK s \in Sides : t.child[k][s] # NULL /\ x \in below[t.child[k][s]]
    BY BelowSplit
  <2> DEFINE c == t.child[k][s]
  <2>2. /\ c \in L /\ t.parent[c] = k /\ c # t.root
        /\ below[c] \subseteq below[k] /\ k \notin below[c] /\ k \in below[k]
    BY <2>1, ChildFacts
  <2>3. Cardinality(below[c]) < Cardinality(below[k])
    <3>1. below[k] \in SUBSET Nodes /\ below[c] \in SUBSET below[k]
      BY <1>1, <2>2
    <3> QED  BY <2>2, <3>1, FewerBelow
  <2>4. c \in Good
    BY <1>2, <2>2, <2>3
  <2> QED  BY <2>1, <2>2, <2>4
<1>3. L \subseteq Good
  <2> HIDE DEF L, Good
  <2> QED  BY <1>1, <1>2, BelowInduction
<1> QED  BY <1>3

-----------------------------------------------------------------------------
(* Walks through the tree.                                                 *)

\* Where a walk by step from x is after i steps.
Walks(f, D, step, x, n) ==
  f \in [0 .. n -> D] /\ f = [i \in 0 .. n |-> IF i = 0 THEN x ELSE step[f[i - 1]]]

LEMMA WalkExists ==
  ASSUME NEW D, NEW step \in [D -> D], NEW x \in D, NEW n \in Nat
  PROVE  \E f : Walks(f, D, step, x, n)
<1> DEFINE S == {m \in Nat : \E f : Walks(f, D, step, x, m)}
<1>1. 0 \in S
  <2>1. Walks([i \in 0 .. 0 |-> x], D, step, x, 0)
    BY DEF Walks
  <2> QED  BY <2>1
<1>2. ASSUME NEW m \in Nat, m \in S PROVE m + 1 \in S
  <2>1. PICK f : Walks(f, D, step, x, m)
    BY <1>2
  <2>0. f \in [0 .. m -> D] /\ f[m] \in D
    BY <2>1 DEF Walks
  <2> DEFINE g == [i \in 0 .. m + 1 |-> IF i = m + 1 THEN step[f[m]] ELSE f[i]]
  <2>2. \A i \in 0 .. m : f[i] = g[i]
    OBVIOUS
  <2>3. \A i \in 0 .. m + 1 : g[i] = IF i = 0 THEN x ELSE step[g[i - 1]]
    <3> TAKE i \in 0 .. m + 1
    <3>1. CASE i = m + 1
      <4>1. i # 0 /\ i - 1 = m /\ m \in 0 .. m
        BY <3>1
      <4>2. g[i] = step[f[m]] /\ f[m] = g[m]
        BY <2>2, <3>1, <4>1
      <4> QED  BY <4>1, <4>2
    <3>2. CASE i # m + 1
      <4>1. i \in 0 .. m /\ (i # 0 => i - 1 \in 0 .. m)
        BY <3>2
      <4>2. f[i] = IF i = 0 THEN x ELSE step[f[i - 1]]
        BY <2>1, <4>1 DEF Walks
      <4>3. f[i] = g[i] /\ (i # 0 => f[i - 1] = g[i - 1])
        BY <2>2, <4>1
      <4> QED  BY <4>2, <4>3
    <3> QED  BY <3>1, <3>2
  <2>4. g = [i \in 0 .. m + 1 |-> g[i]]
    OBVIOUS
  <2>5. g \in [0 .. m + 1 -> D]
    <3> SUFFICES ASSUME NEW i \in 0 .. m + 1 PROVE g[i] \in D
      BY <2>4
    <3>1. CASE i = m + 1
      BY <2>0, <3>1
    <3>2. CASE i # m + 1
      BY <2>0, <3>2
    <3> QED  BY <3>1, <3>2
  <2>6. Walks(g, D, step, x, m + 1)
    BY <2>3, <2>4, <2>5 DEF Walks
  <2> HIDE DEF g
  <2> QED  BY <2>6
<1>3. n \in S
  <2> HIDE DEF S
  <2> QED  BY <1>1, <1>2, SetInduction
<1> QED  BY <1>3

LEMMA CountOfNodes == Cardinality(Nodes) \in Nat
  BY FS_CardinalityType

\* One step of a search for k.
Toward(k, n) == IF k < Key[n] THEN "left" ELSE "right"

LEMMA SearchSteps ==
  ASSUME NEW t \in Trees, NEW k \in Int
  PROVE  LET At == Search(t, k)
             C  == Cardinality(Nodes)
         IN  /\ At \in [0 .. C -> Places]
             /\ At[0] = t.root
             /\ \A i \in 0 .. C : i # 0 =>
                  At[i] = IF At[i - 1] = NULL \/ k = Key[At[i - 1]] THEN At[i - 1]
                          ELSE t.child[At[i - 1]][Toward(k, At[i - 1])]
<1> DEFINE C == Cardinality(Nodes)
           step == [n \in Places |-> IF n = NULL \/ k = Key[n] THEN n
                                     ELSE t.child[n][Toward(k, n)]]
           Goes(f) == f = [i \in 0 .. C |->
             IF i = 0 THEN t.root
             ELSE IF f[i - 1] = NULL \/ k = Key[f[i - 1]] THEN f[i - 1]
                  ELSE t.child[f[i - 1]][Toward(k, f[i - 1])]]
           At == CHOOSE g : Goes(g)
<1>0. C \in Nat
  BY CountOfNodes
<1>1. step \in [Places -> Places]
  BY TreeFields DEF Places, Toward, Sides
<1>2. PICK f : Walks(f, Places, step, t.root, C)
  BY <1>0, <1>1, TreeFields, WalkExists
<1>3. Goes(f)
  <2>1. f \in [0 .. C -> Places]
    BY <1>2 DEF Walks
  <2>2. ASSUME NEW i \in 0 .. C
        PROVE  f[i] = IF i = 0 THEN t.root
                      ELSE IF f[i - 1] = NULL \/ k = Key[f[i - 1]] THEN f[i - 1]
                           ELSE t.child[f[i - 1]][Toward(k, f[i - 1])]
    <3>1. CASE i = 0
      BY <1>2, <3>1 DEF Walks
    <3>2. CASE i # 0
      <4>1. i - 1 \in 0 .. C /\ f[i - 1] \in Places
        BY <1>0, <2>1, <3>2
      <4>2. f[i] = step[f[i - 1]]
        BY <1>2, <3>2 DEF Walks
      <4> QED  BY <3>2, <4>1, <4>2
    <3> QED  BY <3>1, <3>2
  <2> QED  BY <2>1, <2>2
<1>4. Search(t, k) = At
  BY DEF Search, Toward
<1>5. Goes(At)
  BY <1>3
<1> HIDE DEF At
<1>6. At[0] = t.root /\ DOMAIN At = 0 .. C
  BY <1>0, <1>5
<1>7. \A i \in 0 .. C : i # 0 =>
        At[i] = IF At[i - 1] = NULL \/ k = Key[At[i - 1]] THEN At[i - 1]
                ELSE t.child[At[i - 1]][Toward(k, At[i - 1])]
  BY <1>0, <1>5
<1>8. At \in [0 .. C -> Places]
  <2> DEFINE S == {i \in Nat : i \in 0 .. C => At[i] \in Places}
  <2>1. 0 \in S
    BY <1>6, TreeFields
  <2>2. ASSUME NEW i \in Nat, i \in S PROVE i + 1 \in S
    <3> SUFFICES ASSUME i + 1 \in 0 .. C PROVE At[i + 1] \in Places
      OBVIOUS
    <3>1. PICK j : j = i + 1
      OBVIOUS
    <3>2. j # 0 /\ j \in 0 .. C /\ j - 1 = i /\ At[i] \in Places
      BY <1>0, <2>2, <3>1
    <3>3. At[j] = step[At[i]]
      BY <1>7, <3>2
    <3> HIDE DEF step
    <3> QED  BY <1>1, <3>1, <3>2, <3>3
  <2>3. Nat \subseteq S
    <3> HIDE DEF S
    <3> QED  BY <2>1, <2>2, SetInduction
  <2>4. \A i \in 0 .. C : At[i] \in Places
    BY <2>3
  <2>5. At = [i \in 0 .. C |-> At[i]]
    BY <1>5
  <2> QED  BY <2>4, <2>5
<1> QED  BY <1>4, <1>6, <1>7, <1>8

LEMMA LeftmostSteps ==
  ASSUME NEW t, NEW below, Sound(t, below), NEW n \in LinkedIn(t)
  PROVE  \E f : LET C == Cardinality(Nodes)
                IN  /\ f \in [0 .. C -> Nodes] /\ f[0] = n
                    /\ \A i \in 0 .. C : i # 0 =>
                         f[i] = IF t.child[f[i - 1]]["left"] = NULL THEN f[i - 1]
                                ELSE t.child[f[i - 1]]["left"]
                    /\ f[C] = Leftmost(t, n)
<1> DEFINE C == Cardinality(Nodes)
           step == [m \in Nodes |-> IF t.child[m]["left"] = NULL THEN m
                                    ELSE t.child[m]["left"]]
           Goes(f) == f = [i \in 0 .. C |->
             IF i = 0 THEN n
             ELSE IF t.child[f[i - 1]]["left"] = NULL THEN f[i - 1]
                  ELSE t.child[f[i - 1]]["left"]]
           At == CHOOSE g : Goes(g)
<1>0. C \in Nat /\ t \in Trees /\ n \in Nodes
  BY CountOfNodes DEF Sound, LinkedIn
<1>1. step \in [Nodes -> Nodes]
  BY <1>0, TreeFields DEF Places, Sides
<1>2. PICK f : Walks(f, Nodes, step, n, C)
  BY <1>0, <1>1, WalkExists
<1>3. Goes(f)
  <2>1. f \in [0 .. C -> Nodes]
    BY <1>2 DEF Walks
  <2>2. ASSUME NEW i \in 0 .. C
        PROVE  f[i] = IF i = 0 THEN n
                      ELSE IF t.child[f[i - 1]]["left"] = NULL THEN f[i - 1]
                           ELSE t.child[f[i - 1]]["left"]
    <3>1. CASE i = 0
      BY <1>2, <3>1 DEF Walks
    <3>2. CASE i # 0
      <4>1. i - 1 \in 0 .. C /\ f[i - 1] \in Nodes
        BY <1>0, <2>1, <3>2
      <4>2. f[i] = step[f[i - 1]]
        BY <1>2, <3>2 DEF Walks
      <4> QED  BY <3>2, <4>1, <4>2
    <3> QED  BY <3>1, <3>2
  <2> QED  BY <2>1, <2>2
<1>4. Leftmost(t, n) = At[C]
  BY DEF Leftmost
<1>5. Goes(At)
  BY <1>3
<1> HIDE DEF At
<1>6. At[0] = n /\ DOMAIN At = 0 .. C
  BY <1>0, <1>5
<1>7. \A i \in 0 .. C : i # 0 =>
        At[i] = IF t.child[At[i - 1]]["left"] = NULL THEN At[i - 1]
                ELSE t.child[At[i - 1]]["left"]
  BY <1>0, <1>5
<1>8. At \in [0 .. C -> Nodes]
  <2> DEFINE S == {i \in Nat : i \in 0 .. C => At[i] \in Nodes}
  <2>1. 0 \in S
    BY <1>0, <1>6
  <2>2. ASSUME NEW i \in Nat, i \in S PROVE i + 1 \in S
    <3> SUFFICES ASSUME i + 1 \in 0 .. C PROVE At[i + 1] \in Nodes
      OBVIOUS
    <3>1. PICK j : j = i + 1
      OBVIOUS
    <3>2. j # 0 /\ j \in 0 .. C /\ j - 1 = i /\ At[i] \in Nodes
      BY <1>0, <2>2, <3>1
    <3>3. At[j] = step[At[i]]
      BY <1>7, <3>2
    <3> HIDE DEF step
    <3> QED  BY <1>1, <3>1, <3>2, <3>3
  <2>3. Nat \subseteq S
    <3> HIDE DEF S
    <3> QED  BY <2>1, <2>2, SetInduction
  <2>4. \A i \in 0 .. C : At[i] \in Nodes
    BY <2>3
  <2>5. At = [i \in 0 .. C |-> At[i]]
    BY <1>5
  <2> QED  BY <2>4, <2>5
<1> QED  BY <1>4, <1>6, <1>7, <1>8

-----------------------------------------------------------------------------
(* The way up.                                                             *)

\* Up in any tree.
UpIn(t, n) ==
  LET At[i \in 0 .. Cardinality(Nodes)] ==
        IF i = 0 THEN {n}
        ELSE LET below == At[i - 1]
             IN  below \cup ({t.parent[m] : m \in below} \ {NULL})
  IN  At[Cardinality(Nodes)]

\* The nodes above n, n with them.
Above(t, below, n) == {m \in LinkedIn(t) : n \in below[m]}

\* The way up from n, with the parent and the colour of every node on it.
LEMMA AboveClosed ==
  ASSUME NEW t, NEW below, Sound(t, below), NEW n \in LinkedIn(t)
  PROVE  /\ n \in Above(t, below, n)
         /\ Above(t, below, n) \in SUBSET Nodes
         /\ \A m \in Above(t, below, n) :
              t.parent[m] # NULL => t.parent[m] \in Above(t, below, n)
         /\ \A S \in SUBSET Above(t, below, n) :
              n \in S /\ (\A m \in S : t.parent[m] # NULL => t.parent[m] \in S)
                => S = Above(t, below, n)
<1> DEFINE A == Above(t, below, n)
<1>0. A \in SUBSET LinkedIn(t) /\ LinkedIn(t) \in SUBSET Nodes
  BY DEF Above, LinkedIn
<1>1. n \in A
  <2>1. SplitAt(t, below, n)
    BY DEF Sound, Ordered
  <2> QED  BY <2>1 DEF SplitAt, Above
<1>2. ASSUME NEW m \in A, t.parent[m] # NULL
      PROVE  t.parent[m] \in A
  <2>1. m \in LinkedIn(t) /\ n \in below[m] /\ m # t.root
    BY <1>2, <1>0 DEF Above, Sound, Agreed
  <2>2. PICK s \in Sides : t.child[t.parent[m]][s] = m /\ t.parent[m] \in LinkedIn(t)
    BY <2>1 DEF Sound, Agreed
  <2>3. m # NULL
    BY <1>0
  <2>4. below[m] \subseteq below[t.parent[m]]
    BY <2>2, <2>3, ChildFacts
  <2> QED  BY <2>1, <2>2, <2>4 DEF Above
<1>3. ASSUME NEW S \in SUBSET A, n \in S,
             \A m \in S : t.parent[m] # NULL => t.parent[m] \in S
      PROVE  A \subseteq S
  <2>1. below \in [Nodes -> SUBSET Nodes]
    BY DEF Sound, Ordered
  <2>2. ASSUME NEW m \in A,
               \A j \in A : Cardinality(below[j]) < Cardinality(below[m]) => j \in S
        PROVE  m \in S
    <3> SUFFICES ASSUME m # n PROVE m \in S
      BY <1>3
    <3>1. m \in LinkedIn(t) /\ n \in below[m] /\ m \in Nodes
      BY <1>0 DEF Above
    <3>2. PICK s \in Sides : t.child[m][s] # NULL /\ n \in below[t.child[m][s]]
      BY <3>1, BelowSplit
    <3> DEFINE c == t.child[m][s]
    <3>3. /\ c \in LinkedIn(t) /\ t.parent[c] = m /\ below[c] \subseteq below[m]
          /\ m \notin below[c] /\ m \in below[m]
      BY <3>1, <3>2, ChildFacts
    <3>4. c \in A
      BY <3>2, <3>3 DEF Above
    <3>5. Cardinality(below[c]) < Cardinality(below[m])
      <4>1. below[m] \in SUBSET Nodes /\ below[c] \in SUBSET below[m]
        BY <2>1, <3>1, <3>3
      <4> QED  BY <3>3, <4>1, FewerBelow
    <3>6. c \in S /\ m # NULL
      BY <2>2, <3>1, <3>4, <3>5
    <3> QED  BY <1>3, <3>3, <3>6
  <2> HIDE DEF A
  <2> QED  BY <1>0, <2>1, <2>2, BelowInduction
<1> QED  BY <1>0, <1>1, <1>2, <1>3

LEMMA UpSteps ==
  ASSUME NEW t \in Trees, NEW n \in Nodes
  PROVE  \E f : LET C == Cardinality(Nodes)
                IN  /\ f \in [0 .. C -> SUBSET Nodes] /\ f[0] = {n}
                    /\ \A i \in 0 .. C : i # 0 =>
                         f[i] = f[i - 1] \cup ({t.parent[m] : m \in f[i - 1]} \ {NULL})
                    /\ f[C] = UpIn(t, n)
<1> DEFINE C == Cardinality(Nodes)
           step == [S \in SUBSET Nodes |-> S \cup ({t.parent[m] : m \in S} \ {NULL})]
           Goes(f) == f = [i \in 0 .. C |->
             IF i = 0 THEN {n}
             ELSE f[i - 1] \cup ({t.parent[m] : m \in f[i - 1]} \ {NULL})]
           At == CHOOSE g : Goes(g)
<1>0. C \in Nat
  BY CountOfNodes
<1>1. step \in [SUBSET Nodes -> SUBSET Nodes]
  BY TreeFields DEF Places
<1>2. PICK f : Walks(f, SUBSET Nodes, step, {n}, C)
  BY <1>0, <1>1, WalkExists
<1>3. Goes(f)
  <2>1. f \in [0 .. C -> SUBSET Nodes]
    BY <1>2 DEF Walks
  <2>2. ASSUME NEW i \in 0 .. C
        PROVE  f[i] = IF i = 0 THEN {n}
                      ELSE f[i - 1] \cup ({t.parent[m] : m \in f[i - 1]} \ {NULL})
    <3>1. CASE i = 0
      BY <1>2, <3>1 DEF Walks
    <3>2. CASE i # 0
      <4>1. i - 1 \in 0 .. C /\ f[i - 1] \in SUBSET Nodes
        BY <1>0, <2>1, <3>2
      <4>2. f[i] = step[f[i - 1]]
        BY <1>2, <3>2 DEF Walks
      <4> QED  BY <3>2, <4>1, <4>2
    <3> QED  BY <3>1, <3>2
  <2> QED  BY <2>1, <2>2
<1>4. UpIn(t, n) = At[C]
  BY DEF UpIn
<1>5. Goes(At)
  BY <1>3
<1> HIDE DEF At
<1>6. At[0] = {n} /\ DOMAIN At = 0 .. C
  BY <1>0, <1>5
<1>7. \A i \in 0 .. C : i # 0 =>
        At[i] = At[i - 1] \cup ({t.parent[m] : m \in At[i - 1]} \ {NULL})
  BY <1>0, <1>5
<1>8. At \in [0 .. C -> SUBSET Nodes]
  <2> DEFINE S == {i \in Nat : i \in 0 .. C => At[i] \in SUBSET Nodes}
  <2>1. 0 \in S
    BY <1>6
  <2>2. ASSUME NEW i \in Nat, i \in S PROVE i + 1 \in S
    <3> SUFFICES ASSUME i + 1 \in 0 .. C PROVE At[i + 1] \in SUBSET Nodes
      OBVIOUS
    <3>1. PICK j : j = i + 1
      OBVIOUS
    <3>2. j # 0 /\ j \in 0 .. C /\ j - 1 = i /\ At[i] \in SUBSET Nodes
      BY <1>0, <2>2, <3>1
    <3>3. At[j] = step[At[i]]
      BY <1>7, <3>2
    <3> HIDE DEF step
    <3> QED  BY <1>1, <3>1, <3>2, <3>3
  <2>3. Nat \subseteq S
    <3> HIDE DEF S
    <3> QED  BY <2>1, <2>2, SetInduction
  <2>4. \A i \in 0 .. C : At[i] \in SUBSET Nodes
    BY <2>3
  <2>5. At = [i \in 0 .. C |-> At[i]]
    BY <1>5
  <2> QED  BY <2>4, <2>5
<1> QED  BY <1>4, <1>6, <1>7, <1>8

\* Going up Cardinality(Nodes) times reaches all nodes above.
LEMMA UpIsAbove ==
  ASSUME NEW t, NEW below, Sound(t, below), NEW n \in LinkedIn(t)
  PROVE  UpIn(t, n) = Above(t, below, n)
<1> DEFINE C == Cardinality(Nodes)
           A == Above(t, below, n)
<1>0. C \in Nat /\ t \in Trees /\ n \in Nodes
  BY CountOfNodes DEF Sound, LinkedIn
<1>1. PICK f : /\ f \in [0 .. C -> SUBSET Nodes] /\ f[0] = {n}
               /\ \A i \in 0 .. C : i # 0 =>
                    f[i] = f[i - 1] \cup ({t.parent[m] : m \in f[i - 1]} \ {NULL})
               /\ f[C] = UpIn(t, n)
  BY <1>0, UpSteps
<1>2. /\ n \in A /\ A \in SUBSET Nodes
      /\ \A m \in A : t.parent[m] # NULL => t.parent[m] \in A
      /\ \A S \in SUBSET A :
           n \in S /\ (\A m \in S : t.parent[m] # NULL => t.parent[m] \in S) => S = A
  BY AboveClosed
<1> HIDE DEF A
<1> DEFINE T == {i \in Nat : i \in 0 .. C =>
                   /\ n \in f[i] /\ f[i] \subseteq A
                   /\ f[i] = A \/ Cardinality(f[i]) > i}
<1>3. 0 \in T
  <2>1. Cardinality(f[0]) = 1
    BY <1>1, FS_Singleton
  <2>2. n \in f[0] /\ f[0] \subseteq A
    BY <1>1, <1>2
  <2> QED  BY <2>1, <2>2
<1>4. ASSUME NEW i \in Nat, i \in T PROVE i + 1 \in T
  <2> SUFFICES ASSUME i + 1 \in 0 .. C
               PROVE  /\ n \in f[i + 1] /\ f[i + 1] \subseteq A
                      /\ f[i + 1] = A \/ Cardinality(f[i + 1]) > i + 1
    OBVIOUS
  <2>1. PICK j : j = i + 1
    OBVIOUS
  <2>2. /\ j # 0 /\ j \in 0 .. C /\ j - 1 = i /\ i \in 0 .. C
        /\ f[i] \in SUBSET Nodes /\ f[j] \in SUBSET Nodes
        /\ n \in f[i] /\ f[i] \subseteq A
        /\ f[i] = A \/ Cardinality(f[i]) > i
    BY <1>0, <1>1, <1>4, <2>1
  <2>3. f[j] = f[i] \cup ({t.parent[m] : m \in f[i]} \ {NULL})
    BY <1>1, <2>2
  <2>4. n \in f[j] /\ f[j] \subseteq A
    BY <1>2, <2>2, <2>3
  <2>5. f[j] = A \/ Cardinality(f[j]) > i + 1
    <3>1. CASE f[i] = A
      BY <2>3, <2>4, <3>1
    <3>2. CASE f[j] = f[i]
      <4>1. \A m \in f[i] : t.parent[m] # NULL => t.parent[m] \in f[i]
        BY <2>3, <3>2
      <4>2. f[i] = A
        BY <1>2, <2>2, <4>1
      <4> QED  BY <3>1, <4>2
    <3>3. CASE f[i] # A /\ f[j] # f[i]
      <4>1. PICK x : x \in f[j] /\ x \notin f[i]
        BY <2>3, <3>3
      <4>2. Cardinality(f[i]) < Cardinality(f[j])
        BY <2>2, <2>3, <4>1, FewerBelow
      <4>3. Cardinality(f[i]) \in Nat /\ Cardinality(f[j]) \in Nat
        BY <2>2, BelowFinite
      <4> QED  BY <2>2, <3>3, <4>2, <4>3
    <3> QED  BY <3>1, <3>2, <3>3
  <2> QED  BY <2>1, <2>4, <2>5
<1>5. Nat \subseteq T
  <2> HIDE DEF T
  <2> QED  BY <1>3, <1>4, SetInduction
<1>6. /\ f[C] \in SUBSET Nodes
      /\ f[C] = A \/ Cardinality(f[C]) > C
  BY <1>0, <1>1, <1>5
<1>7. Cardinality(f[C]) <= C
  BY <1>6, FS_Subset
<1>8. Cardinality(f[C]) \in Nat
  BY <1>6, BelowFinite
<1> QED  BY <1>0, <1>1, <1>6, <1>7, <1>8 DEF A

-----------------------------------------------------------------------------
(* The way down.                                                           *)

\* A search stays in the tree and nears the end with every step.
LEMMA SearchNears ==
  ASSUME NEW t, NEW below, Sound(t, below), NEW k \in Int
  PROVE  LET At == Search(t, k)
             C  == Cardinality(Nodes)
         IN  \A i \in 0 .. C :
               At[i] # NULL =>
                 /\ At[i] \in LinkedIn(t)
                 /\ k = Key[At[i]] \/ Cardinality(below[At[i]]) + i <= C
<1> DEFINE At == Search(t, k)
           C  == Cardinality(Nodes)
<1>0. /\ t \in Trees /\ C \in Nat /\ below \in [Nodes -> SUBSET Nodes]
      /\ LinkedIn(t) \in SUBSET Nodes
  BY CountOfNodes DEF Sound, Ordered, LinkedIn
<1>1. /\ At \in [0 .. C -> Places] /\ At[0] = t.root
      /\ \A i \in 0 .. C : i # 0 =>
           At[i] = IF At[i - 1] = NULL \/ k = Key[At[i - 1]] THEN At[i - 1]
                   ELSE t.child[At[i - 1]][Toward(k, At[i - 1])]
  BY <1>0, SearchSteps
<1> HIDE DEF At
<1> DEFINE T == {i \in Nat : i \in 0 .. C =>
                   (At[i] # NULL =>
                      /\ At[i] \in LinkedIn(t)
                      /\ k = Key[At[i]] \/ Cardinality(below[At[i]]) + i <= C)}
<1>2. 0 \in T
  <2> SUFFICES ASSUME At[0] # NULL
               PROVE  At[0] \in LinkedIn(t) /\ Cardinality(below[At[0]]) + 0 <= C
    OBVIOUS
  <2>1. At[0] \in LinkedIn(t)
    BY <1>0, <1>1, TreeFields DEF LinkedIn, Places
  <2>2. below[At[0]] \in SUBSET Nodes
    BY <1>0, <2>1
  <2>3. Cardinality(below[At[0]]) <= C /\ Cardinality(below[At[0]]) \in Nat
    BY <2>2, FS_Subset, BelowFinite
  <2> QED  BY <2>1, <2>3
<1>3. ASSUME NEW i \in Nat, i \in T PROVE i + 1 \in T
  <2>1. PICK j : j = i + 1
    OBVIOUS
  <2> SUFFICES ASSUME j \in 0 .. C, At[j] # NULL
               PROVE  /\ At[j] \in LinkedIn(t)
                      /\ k = Key[At[j]] \/ Cardinality(below[At[j]]) + j <= C
    BY <2>1
  <2>2. j # 0 /\ j - 1 = i /\ i \in 0 .. C
    BY <1>0, <2>1
  <2>3. At[j] = IF At[i] = NULL \/ k = Key[At[i]] THEN At[i]
                ELSE t.child[At[i]][Toward(k, At[i])]
    BY <1>1, <2>2
  <2>4. CASE k = Key[At[i]] \/ At[i] = NULL
    BY <1>3, <2>2, <2>3, <2>4
  <2>5. CASE k # Key[At[i]] /\ At[i] # NULL
    <3> DEFINE n == At[i]
               s == Toward(k, n)
    <3>1. n \in LinkedIn(t) /\ Cardinality(below[n]) + i <= C /\ s \in Sides
      BY <1>3, <2>2, <2>5 DEF Toward, Sides
    <3>2. At[j] = t.child[n][s]
      BY <2>3, <2>5
    <3>3. /\ At[j] \in LinkedIn(t) /\ below[At[j]] \subseteq below[n]
          /\ n \notin below[At[j]] /\ n \in below[n]
      BY <3>1, <3>2, ChildFacts
    <3>4. below[n] \in SUBSET Nodes /\ below[At[j]] \in SUBSET below[n]
      BY <1>0, <3>1, <3>3
    <3>5. Cardinality(below[At[j]]) < Cardinality(below[n])
      BY <3>3, <3>4, FewerBelow
    <3>6. Cardinality(below[At[j]]) \in Nat /\ Cardinality(below[n]) \in Nat
      BY <3>4, BelowFinite
    <3>7. Cardinality(below[At[j]]) + j <= C
      BY <1>0, <2>1, <3>1, <3>5, <3>6
    <3> QED  BY <3>3, <3>7
  <2> QED  BY <2>4, <2>5
<1>4. Nat \subseteq T
  <2> HIDE DEF T
  <2> QED  BY <1>2, <1>3, SetInduction
<1>5. ASSUME NEW i \in 0 .. C, At[i] # NULL
      PROVE  /\ At[i] \in LinkedIn(t)
             /\ k = Key[At[i]] \/ Cardinality(below[At[i]]) + i <= C
  <2>1. i \in T
    BY <1>0, <1>4
  <2> QED  BY <1>5, <2>1
<1> QED  BY <1>5 DEF At

\* A search finds a linked node, of the key it looks for.
LEMMA FoundIsLinked ==
  ASSUME NEW t, NEW below, Sound(t, below), NEW k \in Int
  PROVE  \/ tree_find(t, k) = NULL
         \/ tree_find(t, k) \in LinkedIn(t) /\ Key[tree_find(t, k)] = k
<1> DEFINE C == Cardinality(Nodes)
           n == Search(t, k)[C]
<1>0. C \in Nat /\ tree_find(t, k) = n
  BY CountOfNodes DEF tree_find
<1> SUFFICES ASSUME n # NULL PROVE n \in LinkedIn(t) /\ Key[n] = k
  BY <1>0
<1>1. n \in LinkedIn(t) /\ (k = Key[n] \/ Cardinality(below[n]) + C <= C)
  BY <1>0, SearchNears
<1>2. n \in below[n] /\ below[n] \in SUBSET Nodes /\ n \in Nodes
  BY <1>1 DEF Sound, Ordered, SplitAt, LinkedIn
<1>3. Cardinality(below[n]) \in Nat /\ Cardinality(below[n]) # 0
  BY <1>2, BelowFinite, FS_EmptySet
<1> QED  BY <1>0, <1>1, <1>3

\* Every linked node is found under its key.
LEMMA LinkedIsFound ==
  ASSUME NEW t, NEW below, Sound(t, below), NEW x \in LinkedIn(t)
  PROVE  tree_find(t, Key[x]) = x
<1> DEFINE k == Key[x]
           At == Search(t, k)
           C  == Cardinality(Nodes)
<1>0. /\ t \in Trees /\ C \in Nat /\ below \in [Nodes -> SUBSET Nodes]
      /\ LinkedIn(t) \in SUBSET Nodes /\ k \in Int
  BY CountOfNodes DEF Sound, Ordered, LinkedIn
<1>1. /\ At \in [0 .. C -> Places] /\ At[0] = t.root
      /\ \A i \in 0 .. C : i # 0 =>
           At[i] = IF At[i - 1] = NULL \/ k = Key[At[i - 1]] THEN At[i - 1]
                   ELSE t.child[At[i - 1]][Toward(k, At[i - 1])]
  BY <1>0, SearchSteps
<1>2. tree_find(t, k) = At[C]
  BY DEF tree_find
<1>3. \A i \in 0 .. C : At[i] # NULL => At[i] \in LinkedIn(t)
  BY <1>0, SearchNears
<1>9. tree_find(t, k) = NULL \/ Key[tree_find(t, k)] = k
  BY <1>0, FoundIsLinked
<1> HIDE DEF At, k
<1> DEFINE T == {i \in Nat : i \in 0 .. C => At[i] # NULL /\ x \in below[At[i]]}
<1>4. 0 \in T
  BY <1>1 DEF Sound, Ordered
<1>5. ASSUME NEW i \in Nat, i \in T PROVE i + 1 \in T
  <2>1. PICK j : j = i + 1
    OBVIOUS
  <2> SUFFICES ASSUME j \in 0 .. C PROVE At[j] # NULL /\ x \in below[At[j]]
    BY <2>1
  <2>2. j # 0 /\ j - 1 = i /\ i \in 0 .. C
    BY <1>0, <2>1
  <2>3. At[j] = IF At[i] = NULL \/ k = Key[At[i]] THEN At[i]
                ELSE t.child[At[i]][Toward(k, At[i])]
    BY <1>1, <2>2
  <2>4. At[i] # NULL /\ x \in below[At[i]] /\ At[i] \in LinkedIn(t)
    BY <1>3, <1>5, <2>2
  <2>5. CASE k = Key[At[i]]
    BY <2>3, <2>4, <2>5
  <2>6. CASE k # Key[At[i]]
    <3> DEFINE n == At[i]
    <3>1. x # n
      BY <2>6 DEF k
    <3>2. PICK s \in Sides : t.child[n][s] # NULL /\ x \in below[t.child[n][s]]
      BY <2>4, <3>1, BelowSplit
    <3>3. Beside(s, x, n)
      BY <2>4, <3>2, ChildFacts
    <3>4. s = Toward(k, n)
      <4>1. Key[x] \in Int /\ Key[n] \in Int
        BY <1>0, <2>4
      <4> QED  BY <3>3, <4>1 DEF Beside, Toward, Sides, k
    <3> QED  BY <2>3, <2>4, <2>6, <3>2, <3>4
  <2> QED  BY <2>5, <2>6
<1>6. Nat \subseteq T
  <2> HIDE DEF T
  <2> QED  BY <1>4, <1>5, SetInduction
<1>7. At[C] # NULL /\ x \in below[At[C]] /\ Key[At[C]] = k /\ At[C] \in LinkedIn(t)
  <2>1. C \in T /\ C \in 0 .. C
    BY <1>0, <1>6
  <2> QED  BY <1>2, <1>3, <1>9, <2>1
<1>8. x = At[C]
  <2> SUFFICES ASSUME x # At[C] PROVE FALSE
    OBVIOUS
  <2>1. PICK s \in Sides :
          /\ t.child[At[C]][s] # NULL
          /\ x \in below[t.child[At[C]][s]]
    BY <1>7, BelowSplit
  <2>2. Beside(s, x, At[C])
    BY <1>7, <2>1, ChildFacts
  <2> QED  BY <1>0, <1>7, <2>2 DEF Beside, k
<1> QED  BY <1>2, <1>8 DEF k

-----------------------------------------------------------------------------
(* Rotation.                                                               *)

LEMMA SideOfSides == \A t, p, n : SideOf(t, p, n) \in Sides
  BY DEF SideOf, Sides

LEMMA SetParentFields ==
  ASSUME NEW t \in Trees, NEW n \in Places, NEW p \in Places
  PROVE  LET r == SetParent(t, n, p)
         IN  /\ r \in Trees /\ r.child = t.child /\ r.red = t.red /\ r.root = t.root
             /\ \A m \in Nodes : r.parent[m] = IF m = n THEN p ELSE t.parent[m]
  BY DEF Trees, SetParent, Places

\* r is t, but for the child of p on side s, which is c.
ChildSet(t, r, p, s, c) ==
  /\ r \in Trees /\ r.parent = t.parent /\ r.red = t.red /\ r.root = t.root
  /\ \A n \in Nodes, z \in Sides :
       r.child[n][z] = IF n = p /\ z = s THEN c ELSE t.child[n][z]

LEMMA ChildChanged ==
  ASSUME NEW t \in Trees, NEW p \in Nodes, NEW s \in Sides, NEW c \in Places
  PROVE  ChildSet(t, [t EXCEPT !.child[p][s] = c], p, s, c)
<1>1. PICK r : r = [t EXCEPT !.child[p][s] = c]
  OBVIOUS
<1>2. r \in Trees
  BY <1>1 DEF Trees
<1>3. r.child = [t.child EXCEPT ![p] = [t.child[p] EXCEPT ![s] = c]]
  BY <1>1, <1>2 DEF Trees
<1>4. r.parent = t.parent /\ r.red = t.red /\ r.root = t.root
  BY <1>1 DEF Trees
<1>5. \A n \in Nodes, z \in Sides :
        r.child[n][z] = IF n = p /\ z = s THEN c ELSE t.child[n][z]
  BY <1>3, TreeFields
<1> QED  BY <1>1, <1>2, <1>4, <1>5 DEF ChildSet

\* r is t, but for q in the place of n.
Replaced(t, r, n, q) ==
  LET p == t.parent[n]
  IN  /\ r \in Trees /\ r.parent = t.parent /\ r.red = t.red
      /\ r.root = IF p = NULL THEN q ELSE t.root
      /\ \A m \in Nodes, s \in Sides :
           r.child[m][s] = IF p # NULL /\ m = p /\ s = SideOf(t, p, n)
                           THEN q ELSE t.child[m][s]

LEMMA ReplaceFields ==
  ASSUME NEW t \in Trees, NEW n \in Nodes, NEW q \in Places
  PROVE  Replaced(t, Replace(t, n, q), n, q)
<1>1. PICK p : p = t.parent[n]
  OBVIOUS
<1>2. PICK s : s = SideOf(t, p, n)
  OBVIOUS
<1>3. p \in Places /\ s \in Sides
  BY <1>1, <1>2, TreeFields, SideOfSides
<1>4. CASE p = NULL
  BY <1>1, <1>4 DEF Replace, Trees, Replaced
<1>5. CASE p # NULL
  <2>1. Replace(t, n, q) = [t EXCEPT !.child[p][s] = q]
    BY <1>1, <1>2, <1>5 DEF Replace
  <2>2. p \in Nodes
    BY <1>3, <1>5 DEF Places
  <2>3. ChildSet(t, Replace(t, n, q), p, s, q)
    BY <1>3, <2>1, <2>2, ChildChanged
  <2> QED  BY <1>1, <1>2, <1>5, <2>3 DEF ChildSet, Replaced
<1> QED  BY <1>4, <1>5

\* r is t, but for q in the place of p, and the parents of both.
RaisedOver(t, r, p, q) ==
  LET g == t.parent[p]
  IN  /\ r \in Trees /\ r.red = t.red
      /\ r.root = IF g = NULL THEN q ELSE t.root
      /\ \A m \in Nodes, s \in Sides :
           r.child[m][s] = IF g # NULL /\ m = g /\ s = SideOf(t, g, p)
                           THEN q ELSE t.child[m][s]
      /\ \A n \in Nodes :
           r.parent[n] = IF n = p THEN q ELSE IF n = q THEN g ELSE t.parent[n]

LEMMA RaisedFields ==
  ASSUME NEW t \in Trees, NEW p \in Nodes, NEW q \in Nodes, p # q
  PROVE  RaisedOver(t, Raised(t, p, q), p, q)
<1>1. PICK c : c = Replace(t, p, q)
  OBVIOUS
<1>2. PICK g : g = t.parent[p]
  OBVIOUS
<1>3. g \in Places /\ q \in Places
  BY <1>2, TreeFields DEF Places
<1>4. /\ c \in Trees /\ c.parent = t.parent /\ c.red = t.red
      /\ c.root = IF g = NULL THEN q ELSE t.root
      /\ \A m \in Nodes, s \in Sides :
           c.child[m][s] = IF g # NULL /\ m = g /\ s = SideOf(t, g, p)
                           THEN q ELSE t.child[m][s]
  <2>1. Replaced(t, c, p, q)
    BY <1>1, <1>3, ReplaceFields
  <2> QED  BY <1>2, <2>1 DEF Replaced
<1>5. PICK r : r = [c EXCEPT !.parent[q] = g, !.parent[p] = q]
  OBVIOUS
<1>6. /\ r \in Trees /\ r.child = c.child /\ r.red = c.red /\ r.root = c.root
      /\ \A n \in Nodes :
           r.parent[n] = IF n = p THEN q ELSE IF n = q THEN g ELSE c.parent[n]
  BY <1>3, <1>4, <1>5 DEF Trees
<1>7. Raised(t, p, q) = r
  BY <1>1, <1>2, <1>5 DEF Raised
<1> QED  BY <1>2, <1>4, <1>6, <1>7 DEF RaisedOver

\* r is t, but for b, which hangs on side s of p.
HungBelow(t, r, p, s, b) ==
  /\ r \in Trees /\ r.red = t.red /\ r.root = t.root
  /\ \A n \in Nodes, z \in Sides :
       r.child[n][z] = IF n = p /\ z = s THEN b ELSE t.child[n][z]
  /\ \A n \in Nodes : r.parent[n] = IF n = b THEN p ELSE t.parent[n]

LEMMA HungFields ==
  ASSUME NEW t \in Trees, NEW p \in Nodes, NEW s \in Sides, NEW b \in Places
  PROVE  HungBelow(t, Hung(t, p, s, b), p, s, b)
<1>1. PICK d : d = [t EXCEPT !.child[p][s] = b]
  OBVIOUS
<1>2. /\ d \in Trees /\ d.parent = t.parent /\ d.red = t.red /\ d.root = t.root
      /\ \A n \in Nodes, z \in Sides :
           d.child[n][z] = IF n = p /\ z = s THEN b ELSE t.child[n][z]
  BY <1>1, ChildChanged DEF ChildSet
<1>3. Hung(t, p, s, b) = SetParent(d, b, p)
  BY <1>1 DEF Hung
<1>4. p \in Places
  BY DEF Places
<1>5. PICK r : r = SetParent(d, b, p)
  OBVIOUS
<1>6. /\ r \in Trees /\ r.child = d.child /\ r.red = d.red /\ r.root = d.root
      /\ \A n \in Nodes : r.parent[n] = IF n = b THEN p ELSE d.parent[n]
  BY <1>2, <1>4, <1>5, SetParentFields
<1>7. HungBelow(t, r, p, s, b)
  BY <1>2, <1>6 DEF HungBelow
<1> QED  BY <1>3, <1>5, <1>7

\* What the rotation at p does: its child q on the far side takes its place,
\* and p takes the near child of q.
Rotated(t, r, cis, p) ==
  LET q == t.child[p][Other(cis)]
      b == t.child[q][cis]
      g == t.parent[p]
  IN  /\ r \in Trees /\ r.red = t.red
      /\ r.root = IF g = NULL THEN q ELSE t.root
      /\ \A n \in Nodes, s \in Sides :
           r.child[n][s] = IF n = p THEN IF s = cis THEN t.child[p][s] ELSE b
                           ELSE IF n = q THEN IF s = cis THEN p ELSE t.child[q][s]
                           ELSE IF n = g /\ s = SideOf(t, g, p) THEN q
                           ELSE t.child[n][s]
      /\ \A n \in Nodes :
           r.parent[n] = IF n = q THEN g ELSE IF n = p THEN q
                         ELSE IF n = b THEN p ELSE t.parent[n]

LEMMA RotateFields ==
  ASSUME NEW t \in Trees, NEW cis \in Sides, NEW p \in Nodes,
         LET q == t.child[p][Other(cis)]
         IN  /\ q \in Nodes /\ q # p /\ t.parent[p] # p /\ t.parent[p] # q
             /\ t.child[q][cis] # q /\ t.child[q][cis] # p
  PROVE  Rotated(t, tree__rotate(t, cis, p), cis, p)
<1>1. PICK o, q : o = Other(cis) /\ q = t.child[p][o]
  OBVIOUS
<1>2. PICK g, b : g = t.parent[p] /\ b = t.child[q][cis]
  OBVIOUS
<1>3. /\ o \in Sides /\ o # cis /\ Sides = {cis, o} /\ q \in Nodes /\ g \in Places
      /\ b \in Places /\ g # p /\ g # q /\ b # q /\ b # p /\ q # p
  BY <1>1, <1>2, SideFacts, TreeFields DEF Places
<1>4. PICK a : a = Raised(t, p, q)
  OBVIOUS
<1>5. /\ a \in Trees /\ a.red = t.red
      /\ a.root = IF g = NULL THEN q ELSE t.root
      /\ \A m \in Nodes, s \in Sides :
           a.child[m][s] = IF g # NULL /\ m = g /\ s = SideOf(t, g, p)
                           THEN q ELSE t.child[m][s]
      /\ \A n \in Nodes :
           a.parent[n] = IF n = p THEN q ELSE IF n = q THEN g ELSE t.parent[n]
  <2>1. RaisedOver(t, a, p, q)
    BY <1>3, <1>4, RaisedFields
  <2> QED  BY <1>2, <2>1 DEF RaisedOver
<1>6. a.child[q][cis] = b
  BY <1>2, <1>3, <1>5
<1>7. PICK e : e = Hung(a, p, o, b)
  OBVIOUS
<1>8. /\ e \in Trees /\ e.red = a.red /\ e.root = a.root
      /\ \A n \in Nodes, s \in Sides :
           e.child[n][s] = IF n = p /\ s = o THEN b ELSE a.child[n][s]
      /\ \A n \in Nodes : e.parent[n] = IF n = b THEN p ELSE a.parent[n]
  <2>1. HungBelow(a, e, p, o, b)
    BY <1>3, <1>5, <1>7, HungFields
  <2> QED  BY <2>1 DEF HungBelow
<1>9. PICK r : r = [e EXCEPT !.child[q][cis] = p]
  OBVIOUS
<1>10. /\ r \in Trees /\ r.parent = e.parent /\ r.red = e.red /\ r.root = e.root
       /\ \A n \in Nodes, s \in Sides :
            r.child[n][s] = IF n = q /\ s = cis THEN p ELSE e.child[n][s]
  <2>1. p \in Places
    BY DEF Places
  <2>2. ChildSet(e, r, q, cis, p)
    BY <1>3, <1>8, <1>9, <2>1, ChildChanged
  <2> QED  BY <2>2 DEF ChildSet
<1>11. tree__rotate(t, cis, p) = r
  BY <1>1, <1>4, <1>6, <1>7, <1>9 DEF tree__rotate
<1>12. \A n \in Nodes, s \in Sides :
         r.child[n][s] = IF n = p THEN IF s = cis THEN t.child[p][s] ELSE b
                         ELSE IF n = q THEN IF s = cis THEN p ELSE t.child[q][s]
                         ELSE IF n = g /\ s = SideOf(t, g, p) THEN q
                         ELSE t.child[n][s]
  BY <1>3, <1>5, <1>8, <1>10
<1>13. \A n \in Nodes :
         r.parent[n] = IF n = q THEN g ELSE IF n = p THEN q
                       ELSE IF n = b THEN p ELSE t.parent[n]
  BY <1>3, <1>5, <1>8, <1>10
<1> QED
  <2>1. r \in Trees /\ r.red = t.red /\ r.root = IF g = NULL THEN q ELSE t.root
    BY <1>5, <1>8, <1>10
  <2> QED  BY <1>1, <1>2, <1>11, <1>12, <1>13, <2>1 DEF Rotated

LEMMA SplitEitherWay ==
  ASSUME NEW t, NEW below, NEW n, NEW cis \in Sides
  PROVE  SplitAt(t, below, n) <=>
           /\ below[n] = {n} \cup Down(t, below, n, cis)
                             \cup Down(t, below, n, Other(cis))
           /\ \A m \in Down(t, below, n, cis) : Beside(cis, m, n)
           /\ \A m \in Down(t, below, n, Other(cis)) : Beside(Other(cis), m, n)
<1>1. CASE cis = "left"
  BY <1>1 DEF SplitAt, Sides, Other
<1>2. CASE cis = "right"
  BY <1>2 DEF SplitAt, Sides, Other
<1> QED  BY <1>1, <1>2 DEF Sides

\* The far child of p is linked elsewhere than p's other neighbours.
LEMMA RotatePlaces ==
  ASSUME NEW t, NEW below, Sound(t, below), NEW cis \in Sides,
         NEW p \in LinkedIn(t), t.child[p][Other(cis)] # NULL
  PROVE  LET q == t.child[p][Other(cis)]
             b == t.child[q][cis]
             g == t.parent[p]
         IN  /\ p \in Nodes /\ q \in LinkedIn(t) /\ q \in Nodes /\ q # p
             /\ t.parent[q] = p /\ q # t.root
             /\ g # p /\ g # q /\ b # p /\ b # q /\ b \in Places /\ g \in Places
             /\ g = NULL <=> p = t.root
             /\ g # NULL => /\ g \in LinkedIn(t) /\ b # g
                            /\ t.child[g][SideOf(t, g, p)] = p
                            /\ t.child[g][Other(SideOf(t, g, p))] # p
             /\ b # NULL => b \in LinkedIn(t) /\ t.parent[b] = q /\ b # t.root
<1>1. PICK o, q : o = Other(cis) /\ q = t.child[p][o]
  OBVIOUS
<1>2. PICK g, b : g = t.parent[p] /\ b = t.child[q][cis]
  OBVIOUS
<1>3. /\ o \in Sides /\ t \in Trees /\ Agreed(t) /\ p \in Nodes /\ q # NULL
      /\ below \in [Nodes -> SUBSET Nodes]
  BY <1>1, SideFacts DEF Sound, Ordered, LinkedIn
<1>4. /\ q \in LinkedIn(t) /\ t.parent[q] = p /\ q # t.root /\ q # p
      /\ q \in below[q] /\ below[q] \subseteq below[p] /\ p \notin below[q]
      /\ p \in below[p]
  BY <1>1, <1>3, ChildFacts
<1>5. q \in Nodes /\ b \in Places /\ g \in Places
  BY <1>2, <1>3, <1>4, TreeFields DEF LinkedIn
<1>6. b # NULL => /\ b \in LinkedIn(t) /\ t.parent[b] = q /\ b # t.root /\ b # q
                  /\ b \in below[b] /\ below[b] \subseteq below[q]
  BY <1>2, <1>3, <1>4, ChildFacts
<1>7. b # p /\ b # q
  BY <1>3, <1>4, <1>5, <1>6
<1>8. g = NULL <=> p = t.root
  BY <1>2, <1>3 DEF Agreed, LinkedIn
<1>9. g # NULL => /\ g \in LinkedIn(t) /\ \E s \in Sides : t.child[g][s] = p
  BY <1>2, <1>3, <1>8 DEF Agreed
<1>10. ASSUME g # NULL
       PROVE  /\ g # p /\ g \notin below[p]
              /\ t.child[g][SideOf(t, g, p)] = p
              /\ t.child[g][Other(SideOf(t, g, p))] # p
  <2>1. PICK s \in Sides : t.child[g][s] = p
    BY <1>9, <1>10
  <2>2. g # p /\ g \notin below[p] /\ p # t.child[g][Other(s)]
    BY <1>3, <1>9, <1>10, <2>1, ChildFacts
  <2>3. SideOf(t, g, p) = s
    BY <2>1, <2>2 DEF SideOf, Sides, Other
  <2> QED  BY <2>1, <2>2, <2>3
<1>11. g # p /\ g # q
  BY <1>3, <1>4, <1>5, <1>10
<1>12. g # NULL => b # g
  BY <1>4, <1>6, <1>10
<1> QED
  BY <1>1, <1>2, <1>3, <1>4, <1>5, <1>6, <1>7, <1>8, <1>9, <1>10, <1>11, <1>12

\* What is below the nodes after the rotation at p.
BelowRotated(t, below, cis, p) ==
  LET q == t.child[p][Other(cis)]
  IN  [n \in Nodes |->
         IF n = q THEN below[p]
         ELSE IF n = p THEN {p} \cup Down(t, below, p, cis) \cup Down(t, below, q, cis)
         ELSE below[n]]

\* A rotation leaves a search tree of the same nodes.
LEMMA RotateSound ==
  ASSUME NEW t, NEW below, Sound(t, below), NEW cis \in Sides,
         NEW p \in LinkedIn(t), t.child[p][Other(cis)] # NULL,
         NEW r, Rotated(t, r, cis, p)
  PROVE  /\ Sound(r, BelowRotated(t, below, cis, p))
         /\ LinkedIn(r) = LinkedIn(t)
<1>1. PICK o, q : o = Other(cis) /\ q = t.child[p][o]
  OBVIOUS
<1>2. PICK g, b : g = t.parent[p] /\ b = t.child[q][cis]
  OBVIOUS
<1>3. /\ p \in Nodes /\ q \in LinkedIn(t) /\ q \in Nodes /\ q # p
      /\ t.parent[q] = p /\ q # t.root
      /\ g # p /\ g # q /\ b # p /\ b # q /\ b \in Places /\ g \in Places
      /\ g = NULL <=> p = t.root
      /\ g # NULL => /\ g \in LinkedIn(t) /\ b # g
                     /\ t.child[g][SideOf(t, g, p)] = p
                     /\ t.child[g][Other(SideOf(t, g, p))] # p
      /\ b # NULL => b \in LinkedIn(t) /\ t.parent[b] = q /\ b # t.root
  BY <1>1, <1>2, RotatePlaces
<1>4. /\ o \in Sides /\ o # cis /\ Sides = {cis, o} /\ t \in Trees /\ Agreed(t)
      /\ below \in [Nodes -> SUBSET Nodes] /\ q # NULL /\ p # NULL
      /\ LinkedIn(t) \in SUBSET Nodes
  BY <1>1, <1>3, SideFacts DEF Sound, Ordered, LinkedIn
<1>5. /\ r \in Trees /\ r.red = t.red
      /\ r.root = IF g = NULL THEN q ELSE t.root
      /\ \A n \in Nodes, s \in Sides :
           r.child[n][s] = IF n = p THEN IF s = cis THEN t.child[p][s] ELSE b
                           ELSE IF n = q THEN IF s = cis THEN p ELSE t.child[q][s]
                           ELSE IF n = g /\ s = SideOf(t, g, p) THEN q
                           ELSE t.child[n][s]
      /\ \A n \in Nodes :
           r.parent[n] = IF n = q THEN g ELSE IF n = p THEN q
                         ELSE IF n = b THEN p ELSE t.parent[n]
  BY <1>1, <1>2 DEF Rotated
<1>6. LinkedIn(r) = LinkedIn(t)
  BY <1>3, <1>4, <1>5 DEF LinkedIn
\* The children of the nodes around the rotation.
<1>7. \A n \in LinkedIn(t), s \in Sides :
        t.child[n][s] # NULL =>
          /\ t.child[n][s] \in LinkedIn(t) /\ t.parent[t.child[n][s]] = n
          /\ t.child[n][s] # t.root /\ t.child[n][s] # n
          /\ t.child[n][s] # t.child[n][Other(s)]
  BY ChildFacts
<1>8. \A n \in LinkedIn(t), s \in Sides :
        n \notin {p, q} /\ t.child[n][s] = p => n = g /\ s = SideOf(t, g, p)
  <2> SUFFICES ASSUME NEW n \in LinkedIn(t), NEW s \in Sides, t.child[n][s] = p
               PROVE  n = g /\ s = SideOf(t, g, p)
    OBVIOUS
  <2>1. n = g /\ g # NULL
    BY <1>2, <1>4, <1>7
  <2>2. SideOf(t, g, p) \in Sides
    BY SideOfSides
  <2> QED  BY <1>3, <2>1, <2>2, SideFacts
<1>9. Agreed(r)
  <2>1. r.root # NULL => r.parent[r.root] = NULL
    BY <1>3, <1>4, <1>5, TreeFields DEF Agreed, Places
  <2>2. ASSUME NEW n \in LinkedIn(t), NEW s \in Sides, r.child[n][s] # NULL
        PROVE  r.parent[r.child[n][s]] = n
    <3>1. CASE n = p
      <4>1. CASE s = cis
        <5>1. r.child[n][s] = t.child[p][cis]
          BY <1>3, <1>5, <3>1, <4>1
        <5>2. /\ t.child[p][cis] \in Nodes /\ t.parent[t.child[p][cis]] = p
              /\ t.child[p][cis] # q /\ t.child[p][cis] # p
          BY <1>1, <1>4, <1>7, <2>2, <3>1, <5>1, SideFacts
        <5>3. t.child[p][cis] # b
          BY <1>3, <5>2, <1>4
        <5> QED  BY <1>5, <3>1, <5>1, <5>2, <5>3
      <4>2. CASE s = o
        BY <1>3, <1>4, <1>5, <2>2, <3>1, <4>2
      <4> QED  BY <1>4, <4>1, <4>2
    <3>2. CASE n = q
      <4>1. CASE s = cis
        BY <1>3, <1>5, <3>2, <4>1
      <4>2. CASE s = o
        <5>1. r.child[n][s] = t.child[q][o]
          BY <1>3, <1>4, <1>5, <3>2, <4>2
        <5>2. /\ t.child[q][o] \in Nodes /\ t.parent[t.child[q][o]] = q
              /\ t.child[q][o] # q /\ t.child[q][o] # b
          <6>1. t.child[q][o] # NULL
            BY <2>2, <5>1
          <6>2. /\ t.child[q][o] \in LinkedIn(t) /\ t.parent[t.child[q][o]] = q
                /\ t.child[q][o] # q /\ t.child[q][o] # t.child[q][Other(o)]
            BY <1>3, <1>4, <1>7, <6>1
          <6>3. Other(o) = cis
            BY <1>1, SideFacts
          <6> QED  BY <1>2, <1>4, <6>2, <6>3
        <5>3. t.child[q][o] # p
          BY <1>2, <1>3, <5>2
        <5> QED  BY <1>5, <3>2, <5>1, <5>2, <5>3
      <4> QED  BY <1>4, <4>1, <4>2
    <3>3. CASE n \notin {p, q} /\ n = g /\ s = SideOf(t, g, p)
      BY <1>3, <1>4, <1>5, <3>3
    <3>4. CASE n \notin {p, q} /\ ~(n = g /\ s = SideOf(t, g, p))
      <4>1. r.child[n][s] = t.child[n][s]
        BY <1>4, <1>5, <3>4
      <4>2. t.parent[t.child[n][s]] = n /\ t.child[n][s] \in Nodes
        BY <1>4, <1>7, <2>2, <4>1
      <4>3. t.child[n][s] # p
        BY <1>8, <3>4
      <4>4. t.child[n][s] # q /\ t.child[n][s] # b
        BY <1>3, <1>4, <2>2, <3>4, <4>1, <4>2
      <4> QED  BY <1>5, <4>1, <4>2, <4>3, <4>4
    <3> QED  BY <3>1, <3>2, <3>3, <3>4
  <2>3. ASSUME NEW n \in LinkedIn(t), n # r.root
        PROVE  /\ r.parent[n] \in LinkedIn(t)
               /\ \E s \in Sides : r.child[r.parent[n]][s] = n
    <3>1. CASE n = p
      <4>1. r.parent[p] = q /\ r.child[q][cis] = p
        BY <1>3, <1>5
      <4> QED  BY <1>3, <3>1, <4>1
    <3>2. CASE n = q
      <4>1. g # NULL /\ r.parent[n] = g
        BY <1>3, <1>5, <2>3, <3>2
      <4>2. SideOf(t, g, p) \in Sides /\ g \in Nodes
        BY <1>3, <1>4, <4>1, SideOfSides
      <4>3. r.child[g][SideOf(t, g, p)] = q
        BY <1>3, <1>5, <4>2
      <4> QED  BY <1>3, <3>2, <4>1, <4>2, <4>3
    <3>3. CASE n = b
      <4>1. r.parent[n] = p /\ r.child[p][o] = b
        BY <1>3, <1>4, <1>5, <3>3
      <4> QED  BY <1>4, <3>3, <4>1
    <3>4. CASE n \notin {p, q, b}
      <4>1. r.parent[n] = t.parent[n] /\ n # t.root
        BY <1>3, <1>4, <1>5, <2>3, <3>4
      <4>2. PICK s \in Sides : t.parent[n] \in LinkedIn(t) /\ t.child[t.parent[n]][s] = n
        BY <1>4, <4>1 DEF Agreed
      <4> DEFINE m == t.parent[n]
      <4>3. CASE m = p
        <5>1. s = cis
          BY <1>1, <1>4, <3>4, <4>2, <4>3
        <5>2. r.child[p][cis] = n
          BY <1>3, <1>5, <4>2, <4>3, <5>1
        <5> QED  BY <4>1, <4>2, <4>3, <5>2
      <4>4. CASE m = q
        <5>1. s = o
          BY <1>2, <1>4, <3>4, <4>2, <4>4
        <5>2. r.child[q][o] = n
          BY <1>3, <1>4, <1>5, <4>2, <4>4, <5>1
        <5> QED  BY <1>4, <4>1, <4>2, <4>4, <5>2
      <4>5. CASE m \notin {p, q}
        <5>1. ~(m = g /\ s = SideOf(t, g, p))
          BY <1>3, <1>4, <3>4, <4>2
        <5>2. r.child[m][s] = n
          BY <1>4, <1>5, <4>2, <4>5, <5>1
        <5> QED  BY <4>1, <4>2, <5>2
      <4> QED  BY <4>3, <4>4, <4>5
    <3> QED  BY <3>1, <3>2, <3>3, <3>4
  <2> QED  BY <1>6, <2>1, <2>2, <2>3 DEF Agreed
<1>10. PICK B : B = BelowRotated(t, below, cis, p)
  OBVIOUS
<1>11. \A n \in Nodes :
         B[n] = IF n = q THEN below[p]
                ELSE IF n = p THEN {p} \cup Down(t, below, p, cis) \cup Down(t, below, q, cis)
                ELSE below[n]
  BY <1>1, <1>10 DEF BelowRotated
<1>12. SplitAt(t, below, p) /\ SplitAt(t, below, q)
  BY <1>3 DEF Sound, Ordered
<1>13. /\ below[p] = {p} \cup Down(t, below, p, cis) \cup Down(t, below, p, o)
       /\ \A m \in Down(t, below, p, cis) : Beside(cis, m, p)
       /\ \A m \in Down(t, below, p, o) : Beside(o, m, p)
  BY <1>1, <1>12, SplitEitherWay
<1>14. /\ below[q] = {q} \cup Down(t, below, q, cis) \cup Down(t, below, q, o)
       /\ \A m \in Down(t, below, q, cis) : Beside(cis, m, q)
       /\ \A m \in Down(t, below, q, o) : Beside(o, m, q)
  BY <1>1, <1>12, SplitEitherWay
<1>15. Down(t, below, p, o) = below[q]
  BY <1>1, <1>4 DEF Down
<1>16. B \in [Nodes -> SUBSET Nodes]
  <2>1. below[p] \in SUBSET Nodes /\ below[q] \in SUBSET Nodes
    BY <1>3, <1>4
  <2>2. Down(t, below, p, cis) \in SUBSET Nodes /\ Down(t, below, q, cis) \in SUBSET Nodes
    BY <1>13, <1>14, <2>1
  <2> QED  BY <1>1, <1>3, <1>4, <1>10, <2>1, <2>2 DEF BelowRotated
\* What hangs from the nodes that the rotation does not move.
<1>17. ASSUME NEW n \in LinkedIn(t), NEW s \in Sides, t.child[n][s] \notin {p, q},
              r.child[n][s] = t.child[n][s]
       PROVE  Down(r, B, n, s) = Down(t, below, n, s)
  <2>1. t.child[n][s] \in Places
    BY <1>4, TreeFields
  <2> QED  BY <1>11, <1>17, <2>1 DEF Down, Places
<1>18. SplitAt(r, B, p)
  <2>1. Down(r, B, p, cis) = Down(t, below, p, cis)
    <3>1. r.child[p][cis] = t.child[p][cis] /\ t.child[p][cis] \notin {p, q}
      BY <1>1, <1>3, <1>4, <1>5, <1>7
    <3> QED  BY <1>17, <3>1
  <2>2. Down(r, B, p, o) = Down(t, below, q, cis)
    <3>1. r.child[p][o] = b
      BY <1>3, <1>4, <1>5
    <3> QED  BY <1>2, <1>3, <1>11, <3>1 DEF Down, Places
  <2>3. \A m \in Down(t, below, q, cis) : Beside(o, m, p)
    BY <1>13, <1>14, <1>15
  <2>4. B[p] = {p} \cup Down(t, below, p, cis) \cup Down(t, below, q, cis)
    BY <1>3, <1>11
  <2> QED  BY <1>1, <1>13, <2>1, <2>2, <2>3, <2>4, SplitEitherWay
<1>19. SplitAt(r, B, q)
  <2>1. Down(r, B, q, cis) = B[p]
    BY <1>3, <1>4, <1>5 DEF Down
  <2>2. Down(r, B, q, o) = Down(t, below, q, o)
    <3>1. r.child[q][o] = t.child[q][o]
      BY <1>3, <1>4, <1>5
    <3>2. t.child[q][o] # q
      BY <1>3, <1>4, <1>7
    <3>3. t.child[q][o] # p
      <4> SUFFICES ASSUME t.child[q][o] = p PROVE FALSE
        OBVIOUS
      <4>1. t.parent[t.child[q][o]] = q
        BY <1>3, <1>4, <1>7
      <4> QED  BY <1>2, <1>3, <4>1
    <3> QED  BY <1>3, <1>4, <1>17, <3>1, <3>2, <3>3
  <2>3. B[q] = below[p] /\ B[p] = {p} \cup Down(t, below, p, cis) \cup Down(t, below, q, cis)
    BY <1>3, <1>11
  <2>4. ASSUME NEW m \in B[p] PROVE Beside(cis, m, q)
    <3>1. Beside(o, q, p)
      BY <1>13, <1>14, <1>15
    <3>2. p \in Nodes /\ q \in Nodes /\ m \in Nodes
      BY <1>3, <1>16
    <3>3. Beside(cis, p, q)
      BY <1>1, <1>4, <3>1, SideFacts DEF Beside, Other
    <3>4. CASE m = p
      BY <3>3, <3>4
    <3>5. CASE m \in Down(t, below, p, cis)
      <4>1. Beside(cis, m, p)
        BY <1>13, <3>5
      <4>2. Key[m] \in Int /\ Key[p] \in Int /\ Key[q] \in Int
        BY <3>2
      <4> QED  BY <3>3, <4>1, <4>2 DEF Beside
    <3>6. CASE m \in Down(t, below, q, cis)
      BY <1>14, <3>6
    <3> QED  BY <2>3, <3>4, <3>5, <3>6
  <2>5. B[q] = {q} \cup B[p] \cup Down(t, below, q, o)
    BY <1>13, <1>14, <1>15, <2>3
  <2> QED  BY <1>1, <1>14, <2>1, <2>2, <2>4, <2>5, SplitEitherWay
<1>20. ASSUME NEW n \in LinkedIn(t), n \notin {p, q}
       PROVE  SplitAt(r, B, n)
  <2>1. ASSUME NEW s \in Sides PROVE Down(r, B, n, s) = Down(t, below, n, s)
    <3>1. CASE n = g /\ s = SideOf(t, g, p)
      <4>1. r.child[n][s] = q /\ t.child[n][s] = p
        BY <1>3, <1>4, <1>5, <1>20, <3>1
      <4> QED  BY <1>3, <1>4, <1>11, <4>1 DEF Down
    <3>2. CASE ~(n = g /\ s = SideOf(t, g, p))
      <4>1. r.child[n][s] = t.child[n][s]
        BY <1>4, <1>5, <1>20, <3>2
      <4>2. t.child[n][s] # p
        BY <1>8, <1>20, <3>2
      <4>3. t.child[n][s] # q
        BY <1>3, <1>4, <1>7, <1>20
      <4> QED  BY <1>17, <4>1, <4>2, <4>3
    <3> QED  BY <3>1, <3>2
  <2>2. SplitAt(t, below, n) /\ B[n] = below[n]
    BY <1>4, <1>11, <1>20 DEF Sound, Ordered
  <2> QED  BY <2>1, <2>2 DEF SplitAt, Sides
<1>21. r.root # NULL => B[r.root] = LinkedIn(t)
  <2>1. CASE g = NULL
    BY <1>3, <1>4, <1>5, <1>11, <2>1 DEF Sound, Ordered
  <2>2. CASE g # NULL
    BY <1>3, <1>4, <1>5, <1>11, <2>2, TreeFields DEF Sound, Ordered, Places
  <2> QED  BY <2>1, <2>2
<1>22. r.root # NULL
  BY <1>3, <1>4, <1>5 DEF Sound, Ordered
<1> QED
  <2>1. Ordered(r, B)
    BY <1>6, <1>16, <1>18, <1>19, <1>20, <1>21, <1>22 DEF Ordered
  <2> QED  BY <1>5, <1>6, <1>9, <1>10, <2>1 DEF Sound

-----------------------------------------------------------------------------
(* Linking a node.                                                         *)

\* The path of a search that fails: the nodes it meets, and the last one.
PathTo(t, k, met, p) ==
  /\ met \in SUBSET LinkedIn(t)
  /\ p = NULL => met = {} /\ t.root = NULL
  /\ p # NULL => /\ p \in met /\ t.root \in met
                 /\ t.child[p][Toward(k, p)] = NULL
  /\ \A m \in met : m # p => t.child[m][Toward(k, m)] \in met
  /\ \A m \in met : m # t.root =>
       t.parent[m] \in met /\ t.child[t.parent[m]][Toward(k, t.parent[m])] = m

LEMMA BottomEndsPath ==
  ASSUME NEW t, NEW below, Sound(t, below), NEW k \in Int, tree_find(t, k) = NULL
  PROVE  \E met : PathTo(t, k, met, Bottom(t, k))
<1> DEFINE C == Cardinality(Nodes)
           P(i) == t.child[i][Toward(k, i)] = NULL
<1>0. t \in Trees /\ C \in Nat
  BY CountOfNodes DEF Sound
<1>1. PICK At : At = Search(t, k)
  OBVIOUS
<1>2. /\ At \in [0 .. C -> Places] /\ At[0] = t.root /\ At[C] = NULL
      /\ \A i \in 0 .. C : i # 0 =>
           At[i] = IF At[i - 1] = NULL \/ k = Key[At[i - 1]] THEN At[i - 1]
                   ELSE t.child[At[i - 1]][Toward(k, At[i - 1])]
  BY <1>0, <1>1, SearchSteps DEF tree_find
<1>3. \A i \in 0 .. C : At[i] # NULL => At[i] \in LinkedIn(t) /\ k # Key[At[i]]
  <2> SUFFICES ASSUME NEW i \in 0 .. C, At[i] # NULL
               PROVE  At[i] \in LinkedIn(t) /\ k # Key[At[i]]
    OBVIOUS
  <2>1. At[i] \in LinkedIn(t)
    BY <1>1, SearchNears
  <2>2. tree_find(t, Key[At[i]]) = At[i]
    BY <2>1, LinkedIsFound
  <2> QED  BY <2>1, <2>2
<1>4. \A i \in 0 .. C : i # 0 =>
        At[i] = IF At[i - 1] = NULL THEN NULL
                ELSE t.child[At[i - 1]][Toward(k, At[i - 1])]
  BY <1>0, <1>2, <1>3
<1> DEFINE met == {At[i] : i \in 0 .. C} \ {NULL}
           x == CHOOSE n \in met : P(n)
<1>5. Bottom(t, k) = IF met = {} THEN NULL ELSE x
  BY <1>1 DEF Bottom, Toward
<1>6. CASE t.root = NULL
  <2> DEFINE T == {i \in Nat : i \in 0 .. C => At[i] = NULL}
  <2>1. 0 \in T
    BY <1>2, <1>6
  <2>2. ASSUME NEW i \in Nat, i \in T PROVE i + 1 \in T
    <3> SUFFICES ASSUME i + 1 \in 0 .. C PROVE At[i + 1] = NULL
      OBVIOUS
    <3>1. PICK j : j = i + 1
      OBVIOUS
    <3> QED  BY <1>0, <1>4, <2>2, <3>1
  <2>3. Nat \subseteq T
    <3> HIDE DEF T
    <3> QED  BY <2>1, <2>2, SetInduction
  <2>4. met = {}
    BY <2>3
  <2> HIDE DEF met, x
  <2>5. Bottom(t, k) = NULL
    BY <1>5, <2>4
  <2>6. PathTo(t, k, {}, NULL)
    BY <1>6 DEF PathTo
  <2> QED  BY <2>5, <2>6
<1>7. CASE t.root # NULL
  \* The step after which the search has left the tree.
  <2> DEFINE Inside(i) == \A j \in 0 .. i : At[j] # NULL
             Left(l, i) == Inside(l) /\ \A j \in l + 1 .. i : At[j] = NULL
             T == {i \in Nat : i \in 0 .. C =>
                     Inside(i) \/ \E l \in 0 .. i - 1 : Left(l, i)}
  <2>1. 0 \in T
    BY <1>2, <1>7
  <2>2. ASSUME NEW i \in Nat, i \in T PROVE i + 1 \in T
    <3>1. PICK j : j = i + 1
      OBVIOUS
    <3> SUFFICES ASSUME j \in 0 .. C
                 PROVE  Inside(j) \/ \E l \in 0 .. j - 1 : Left(l, j)
      BY <3>1
    <3>2. i \in 0 .. C /\ j # 0 /\ j - 1 = i
      BY <1>0, <3>1
    <3>3. CASE Inside(i) /\ At[j] # NULL
      BY <3>1, <3>3
    <3>4. CASE Inside(i) /\ At[j] = NULL
      <4>1. Left(i, j)
        BY <3>1, <3>4
      <4> QED  BY <3>2, <4>1
    <3>5. ASSUME NEW l \in 0 .. i - 1, Left(l, i)
          PROVE  Left(l, j) /\ l \in 0 .. j - 1
      <4>1. At[i] = NULL
        BY <3>5
      <4>2. At[j] = NULL
        BY <1>4, <3>2, <4>1
      <4> QED  BY <3>1, <3>5, <4>2
    <3> QED  BY <2>2, <3>2, <3>3, <3>4, <3>5
  <2>3. Nat \subseteq T
    <3> HIDE DEF T
    <3> QED  BY <2>1, <2>2, SetInduction
  <2>4. PICK l \in 0 .. C - 1 : Left(l, C)
    <3>1. C \in T /\ C \in 0 .. C
      BY <1>0, <2>3
    <3>2. ~Inside(C)
      BY <1>2, <3>1
    <3> HIDE DEF Inside, Left
    <3> QED  BY <3>1, <3>2
  <2>5. /\ l \in Nat /\ l < C /\ l \in 0 .. C
        /\ \A j \in 0 .. l : At[j] # NULL /\ j \in 0 .. C
        /\ \A j \in l + 1 .. C : At[j] = NULL
    BY <1>0, <2>4
  <2>6. met = {At[j] : j \in 0 .. l}
    <3>1. \A j \in 0 .. C : At[j] # NULL => j \in 0 .. l
      BY <1>0, <2>5
    <3> QED  BY <2>5, <3>1
  <2>7. ASSUME NEW j \in 0 .. l
        PROVE  /\ At[j] \in met
               /\ j # l => t.child[At[j]][Toward(k, At[j])] = At[j + 1] /\ j + 1 \in 0 .. l
               /\ j = l => t.child[At[j]][Toward(k, At[j])] = NULL
    <3>1. PICK i : i = j + 1
      OBVIOUS
    <3>2. i \in 0 .. C /\ i # 0 /\ i - 1 = j /\ At[j] # NULL
      BY <1>0, <2>5, <3>1
    <3>3. At[i] = t.child[At[j]][Toward(k, At[j])]
      BY <1>4, <3>2
    <3>4. j # l => i \in 0 .. l
      BY <2>5, <3>1
    <3>5. j = l => At[i] = NULL
      BY <2>5, <3>1, <3>2
    <3>6. At[j] \in met
      BY <2>6
    <3> QED  BY <3>1, <3>3, <3>4, <3>5, <3>6
  <2>8. met # {} /\ met \in SUBSET LinkedIn(t) /\ t.root \in met
    <3>1. t.root \in met
      BY <1>2, <2>5, <2>7
    <3>2. \A j \in 0 .. l : At[j] \in LinkedIn(t)
      BY <1>3, <2>5
    <3> QED  BY <2>6, <3>1, <3>2
  <2>9. x = At[l] /\ P(x)
    <3>1. At[l] \in met /\ P(At[l])
      BY <2>5, <2>7
    <3>2. x \in met /\ P(x)
      BY <3>1
    <3>3. PICK j \in 0 .. l : x = At[j]
      BY <2>6, <3>2
    <3>4. j # l => At[j + 1] = NULL /\ j + 1 \in 0 .. l
      BY <2>7, <3>2, <3>3
    <3> QED  BY <2>5, <3>2, <3>3, <3>4
  <2> HIDE DEF met, x
  <2>10. Bottom(t, k) = At[l] /\ At[l] # NULL /\ At[l] \in met
    BY <1>5, <2>5, <2>7, <2>8, <2>9
  <2>11. ASSUME NEW m \in met, m # At[l] PROVE t.child[m][Toward(k, m)] \in met
    <3>1. PICK j \in 0 .. l : m = At[j]
      BY <2>6
    <3> QED  BY <2>7, <2>11, <3>1
  <2>12. ASSUME NEW m \in met, m # t.root
         PROVE  /\ t.parent[m] \in met
                /\ t.child[t.parent[m]][Toward(k, t.parent[m])] = m
    <3>1. PICK j \in 0 .. l : m = At[j]
      BY <2>6
    <3>2. PICK i : i = j - 1
      OBVIOUS
    <3>3. j # 0 /\ i \in 0 .. l /\ i # l /\ i + 1 = j
      BY <1>2, <2>5, <2>12, <3>1, <3>2
    <3>4. At[i] \in met /\ t.child[At[i]][Toward(k, At[i])] = m
      BY <2>7, <3>1, <3>3
    <3>5. Toward(k, At[i]) \in Sides /\ At[i] \in LinkedIn(t) /\ m # NULL
      BY <2>5, <2>8, <3>1, <3>4 DEF Toward, Sides
    <3>6. t.parent[m] = At[i]
      BY <3>4, <3>5, ChildFacts
    <3> QED  BY <3>4, <3>6
  <2>13. PathTo(t, k, met, At[l])
    BY <2>8, <2>9, <2>10, <2>11, <2>12 DEF PathTo
  <2> QED  BY <2>10, <2>13
<1> QED  BY <1>6, <1>7

\* r is t with n, a red leaf below p.
LinkedTo(t, r, n, p) ==
  /\ r \in Trees
  /\ r.root = IF p = NULL THEN n ELSE t.root
  /\ \A m \in Nodes, z \in Sides :
       r.child[m][z] = IF m = n THEN NULL
                       ELSE IF m = p /\ z = Toward(Key[n], p) THEN n
                       ELSE t.child[m][z]
  /\ \A m \in Nodes : r.parent[m] = IF m = n THEN p ELSE t.parent[m]
  /\ r.red = [t.red EXCEPT ![n] = TRUE]

\* r is t without the fields of n.
Freshened(t, r, n) ==
  /\ r \in Trees /\ r.root = t.root
  /\ \A m \in Nodes, z \in Sides :
       r.child[m][z] = IF m = n THEN NULL ELSE t.child[m][z]
  /\ \A m \in Nodes : r.parent[m] = IF m = n THEN NULL ELSE t.parent[m]
  /\ r.red = [t.red EXCEPT ![n] = FALSE]

LEMMA FreshFields ==
  ASSUME NEW t \in Trees, NEW n \in Nodes
  PROVE  Freshened(t, Fresh(t, n), n)
<1>1. PICK r : r = Fresh(t, n)
  OBVIOUS
<1>2. /\ r = [t EXCEPT !.child[n] = [s \in Sides |-> NULL],
                       !.parent[n] = NULL, !.red[n] = FALSE]
      /\ NULL \in Places
  BY <1>1 DEF Fresh, Places
<1>3. r \in Trees
  BY <1>2 DEF Trees
<1>4. /\ r.child = [t.child EXCEPT ![n] = [s \in Sides |-> NULL]]
      /\ r.parent = [t.parent EXCEPT ![n] = NULL]
      /\ r.red = [t.red EXCEPT ![n] = FALSE]
      /\ r.root = t.root
  BY <1>2 DEF Trees
<1>5. \A m \in Nodes, z \in Sides :
        r.child[m][z] = IF m = n THEN NULL ELSE t.child[m][z]
  BY <1>4, TreeFields
<1>6. \A m \in Nodes : r.parent[m] = IF m = n THEN NULL ELSE t.parent[m]
  BY <1>4, TreeFields
<1> QED  BY <1>1, <1>3, <1>4, <1>5, <1>6 DEF Freshened

LEMMA LinkFields ==
  ASSUME NEW t \in Trees, NEW n \in Nodes, NEW p \in Places,
         p = Bottom(t, Key[n]), p # n
  PROVE  LinkedTo(t, Linked(t, n), n, p)
<1>1. PICK s : s = IF p # NULL /\ Key[n] < Key[p] THEN "left" ELSE "right"
  OBVIOUS
<1>2. PICK a : a = IF p = NULL THEN [t EXCEPT !.root = n]
                   ELSE [t EXCEPT !.child[p][s] = n]
  OBVIOUS
<1>3. /\ s \in Sides /\ n \in Places
      /\ p # NULL => s = Toward(Key[n], p) /\ p \in Nodes
  BY <1>1 DEF Sides, Toward, Places
<1>4. /\ a \in Trees /\ a.parent = t.parent /\ a.red = t.red
      /\ a.root = IF p = NULL THEN n ELSE t.root
      /\ \A m \in Nodes, z \in Sides :
           a.child[m][z] = IF m = p /\ z = s THEN n ELSE t.child[m][z]
  <2>1. CASE p = NULL
    BY <1>2, <1>3, <2>1 DEF Trees
  <2>2. CASE p # NULL
    <3>1. ChildSet(t, a, p, s, n)
      BY <1>2, <1>3, <2>2, ChildChanged
    <3> QED  BY <2>2, <3>1 DEF ChildSet
  <2> QED  BY <2>1, <2>2
<1>5. PICK f : f = Fresh(a, n)
  OBVIOUS
<1>6. Freshened(a, f, n)
  BY <1>4, <1>5, FreshFields
<1>7. PICK r : r = [f EXCEPT !.parent[n] = p, !.red[n] = TRUE]
  OBVIOUS
<1>8. f \in Trees
  BY <1>6 DEF Freshened
<1>9. /\ r \in Trees /\ r.child = f.child /\ r.root = f.root
      /\ r.parent = [f.parent EXCEPT ![n] = p]
      /\ r.red = [f.red EXCEPT ![n] = TRUE]
  BY <1>7, <1>8 DEF Trees
<1>10. Linked(t, n) = r
  BY <1>1, <1>2, <1>5, <1>7 DEF Linked
<1>11. \A m \in Nodes, z \in Sides :
         r.child[m][z] = IF m = n THEN NULL
                         ELSE IF m = p /\ z = s THEN n ELSE t.child[m][z]
  BY <1>4, <1>6, <1>9 DEF Freshened
<1>12. \A m \in Nodes, z \in Sides :
         r.child[m][z] = IF m = n THEN NULL
                         ELSE IF m = p /\ z = Toward(Key[n], p) THEN n
                         ELSE t.child[m][z]
  <2>1. CASE p = NULL
    BY <1>11, <2>1
  <2>2. CASE p # NULL
    <3>1. s = Toward(Key[n], p)
      BY <1>3, <2>2
    <3> QED  BY <1>11, <3>1
  <2> QED  BY <2>1, <2>2
<1>13. \A m \in Nodes : r.parent[m] = IF m = n THEN p ELSE t.parent[m]
  BY <1>4, <1>6, <1>8, <1>9, TreeFields DEF Freshened
<1>14. r.red = [t.red EXCEPT ![n] = TRUE]
  <2>1. f.red = [t.red EXCEPT ![n] = FALSE] /\ t.red \in [Nodes -> BOOLEAN]
    BY <1>4, <1>6, TreeFields DEF Freshened
  <2> QED  BY <1>9, <2>1
<1>15. r.root = IF p = NULL THEN n ELSE t.root
  BY <1>4, <1>6, <1>9 DEF Freshened
<1> QED  BY <1>9, <1>10, <1>12, <1>13, <1>14, <1>15 DEF LinkedTo

\* What is below the nodes of the path once n is linked.
BelowLinked(below, met, n) ==
  [m \in Nodes |-> IF m = n THEN {n}
                   ELSE IF m \in met THEN below[m] \cup {n} ELSE below[m]]

\* A node linked where a search for its key has ended leaves a search tree.
LEMMA LinkSound ==
  ASSUME NEW t, NEW below, Sound(t, below), NEW n \in Nodes,
         tree_find(t, Key[n]) = NULL, NEW met, NEW p, PathTo(t, Key[n], met, p),
         NEW r, LinkedTo(t, r, n, p)
  PROVE  /\ n \notin LinkedIn(t)
         /\ LinkedIn(r) = LinkedIn(t) \cup {n}
         /\ Sound(r, BelowLinked(below, met, n))
         /\ p # NULL => p \in LinkedIn(t)
<1> DEFINE k == Key[n]
           L == LinkedIn(t)
<1>0. /\ t \in Trees /\ Agreed(t) /\ L \in SUBSET Nodes /\ k \in Int
      /\ below \in [Nodes -> SUBSET Nodes] /\ n # NULL
  BY DEF Sound, Ordered, LinkedIn
<1>1. n \notin L /\ \A m \in L : Key[m] # k
  BY LinkedIsFound, <1>0
<1>2. /\ met \in SUBSET L
      /\ p = NULL => met = {} /\ t.root = NULL
      /\ p # NULL => p \in met /\ t.root \in met /\ t.child[p][Toward(k, p)] = NULL
      /\ \A m \in met : m # p => t.child[m][Toward(k, m)] \in met
      /\ \A m \in met : m # t.root =>
           t.parent[m] \in met /\ t.child[t.parent[m]][Toward(k, t.parent[m])] = m
  BY DEF PathTo
<1>3. /\ r \in Trees
      /\ r.root = IF p = NULL THEN n ELSE t.root
      /\ \A m \in Nodes, z \in Sides :
           r.child[m][z] = IF m = n THEN NULL
                           ELSE IF m = p /\ z = Toward(k, p) THEN n
                           ELSE t.child[m][z]
      /\ \A m \in Nodes : r.parent[m] = IF m = n THEN p ELSE t.parent[m]
  BY DEF LinkedTo
<1>4. \A m \in L, s \in Sides :
        t.child[m][s] # NULL =>
          /\ t.child[m][s] \in L /\ t.parent[t.child[m][s]] = m
          /\ t.child[m][s] # t.root /\ t.child[m][s] # t.child[m][Other(s)]
  BY ChildFacts
<1>5. (p = NULL => L = {}) /\ (p # NULL => p \in L /\ p # n)
  BY <1>1, <1>2 DEF Sound, Ordered
<1>6. \A m : Toward(k, m) \in Sides
  BY DEF Toward, Sides
<1> HIDE DEF k, L
<1>7. LinkedIn(r) = L \cup {n}
  <2>1. CASE p = NULL
    <3>1. t.root = NULL /\ L = {}
      BY <1>2, <1>5, <2>1
    <3> QED  BY <1>0, <1>3, <2>1, <3>1 DEF L, LinkedIn
  <2>2. CASE p # NULL
    BY <1>0, <1>1, <1>3, <2>2 DEF L, LinkedIn
  <2> QED  BY <2>1, <2>2
<1>8. Agreed(r)
  <2>1. r.root # NULL => r.parent[r.root] = NULL
    <3>1. CASE p = NULL
      BY <1>3, <3>1
    <3>2. CASE p # NULL
      <4>1. t.root \in L /\ t.root # n /\ t.root \in Nodes /\ t.root # NULL
        BY <1>0, <1>1, <1>2, <3>2
      <4> QED  BY <1>0, <1>3, <3>2, <4>1 DEF Agreed
    <3> QED  BY <3>1, <3>2
  <2>2. ASSUME NEW m \in LinkedIn(r), NEW s \in Sides, r.child[m][s] # NULL
        PROVE  r.parent[r.child[m][s]] = m
    <3>1. m \in L /\ m # n /\ m \in Nodes
      BY <1>0, <1>1, <1>3, <1>7, <2>2
    <3>2. CASE m = p /\ s = Toward(k, p)
      BY <1>3, <3>1, <3>2
    <3>3. CASE ~(m = p /\ s = Toward(k, p))
      <4>1. r.child[m][s] = t.child[m][s]
        BY <1>3, <3>1, <3>3
      <4>2. t.child[m][s] \in L /\ t.parent[t.child[m][s]] = m
        BY <1>4, <2>2, <3>1, <4>1
      <4> QED  BY <1>0, <1>1, <1>3, <4>1, <4>2
    <3> QED  BY <3>2, <3>3
  <2>3. ASSUME NEW m \in LinkedIn(r), m # r.root
        PROVE  /\ r.parent[m] \in LinkedIn(r)
               /\ \E s \in Sides : r.child[r.parent[m]][s] = m
    <3>1. CASE m = n
      <4>1. p # NULL /\ r.parent[m] = p
        BY <1>3, <2>3, <3>1
      <4>2. r.child[p][Toward(k, p)] = n
        BY <1>0, <1>3, <1>5, <1>6, <4>1
      <4> QED  BY <1>5, <1>6, <1>7, <3>1, <4>1, <4>2
    <3>2. CASE m # n
      <4>1. m \in L /\ m # t.root /\ r.parent[m] = t.parent[m]
        BY <1>0, <1>3, <1>5, <1>7, <2>3, <3>2
      <4>2. PICK s \in Sides : t.parent[m] \in L /\ t.child[t.parent[m]][s] = m
        BY <1>0, <4>1 DEF Agreed, L
      <4>3. ~(t.parent[m] = p /\ s = Toward(k, p))
        BY <1>0, <1>2, <4>1, <4>2
      <4>4. r.child[t.parent[m]][s] = m
        BY <1>0, <1>1, <1>3, <4>2, <4>3
      <4> QED  BY <1>7, <4>1, <4>2, <4>4
    <3> QED  BY <3>1, <3>2
  <2> QED  BY <2>1, <2>2, <2>3 DEF Agreed
<1>9. PICK B : B = BelowLinked(below, met, n)
  OBVIOUS
<1>10. \A m \in Nodes : B[m] = IF m = n THEN {n}
                               ELSE IF m \in met THEN below[m] \cup {n} ELSE below[m]
  BY <1>9 DEF BelowLinked
<1>11. B \in [Nodes -> SUBSET Nodes]
  BY <1>0, <1>9 DEF BelowLinked
<1>12. SplitAt(r, B, n)
  BY <1>3, <1>10 DEF SplitAt, Down, Sides
\* Of the children of a node, the search meets at most the one it turns to.
<1>13. ASSUME NEW m \in L, NEW s \in Sides, t.child[m][s] \in met
       PROVE  m \in met /\ s = Toward(k, m)
  <2>1. t.child[m][s] # NULL
    BY <1>0, <1>2, <1>13
  <2>2. t.parent[t.child[m][s]] = m /\ t.child[m][s] # t.root
    BY <1>4, <2>1
  <2>3. m \in met /\ t.child[m][Toward(k, m)] = t.child[m][s]
    BY <1>2, <1>13, <2>2
  <2> QED  BY <1>4, <1>6, <2>1, <2>3, SideFacts
<1>14. ASSUME NEW m \in L, NEW s \in Sides, ~(m \in met /\ s = Toward(k, m))
       PROVE  Down(r, B, m, s) = Down(t, below, m, s)
  <2>1. r.child[m][s] = t.child[m][s]
    BY <1>0, <1>1, <1>2, <1>3, <1>14
  <2>2. t.child[m][s] \notin met
    BY <1>13, <1>14
  <2>3. t.child[m][s] # NULL => t.child[m][s] \in Nodes /\ t.child[m][s] # n
    BY <1>0, <1>1, <1>4
  <2> QED  BY <1>10, <2>1, <2>2, <2>3 DEF Down
<1>15. ASSUME NEW m \in met
       PROVE  Down(r, B, m, Toward(k, m)) = Down(t, below, m, Toward(k, m)) \cup {n}
  <2>0. m \in L /\ m \in Nodes /\ m # n /\ Toward(k, m) \in Sides
    BY <1>0, <1>1, <1>2, <1>6
  <2>1. CASE m = p
    <3>1. r.child[m][Toward(k, m)] = n /\ t.child[m][Toward(k, m)] = NULL
      BY <1>0, <1>2, <1>3, <2>0, <2>1
    <3> QED  BY <1>0, <1>10, <3>1 DEF Down
  <2>2. CASE m # p
    <3> DEFINE c == t.child[m][Toward(k, m)]
    <3>1. c \in met /\ r.child[m][Toward(k, m)] = c
      BY <1>2, <1>3, <2>0, <2>2
    <3>2. c \in Nodes /\ c # n /\ c # NULL
      BY <1>0, <1>1, <1>2, <3>1
    <3> HIDE DEF c
    <3>3. B[c] = below[c] \cup {n}
      BY <1>10, <3>1, <3>2
    <3> QED  BY <3>1, <3>2, <3>3 DEF Down, c
  <2> QED  BY <2>1, <2>2
<1>16. ASSUME NEW m \in L PROVE SplitAt(r, B, m)
  <2>0. m \in Nodes /\ m # n /\ SplitAt(t, below, m) /\ Key[m] # k /\ Key[m] \in Int
    BY <1>0, <1>1 DEF Sound, Ordered, L
  <2>1. CASE m \notin met
    <3>1. \A s \in Sides : Down(r, B, m, s) = Down(t, below, m, s)
      BY <1>14, <2>1
    <3>2. B[m] = below[m]
      BY <1>10, <2>0, <2>1
    <3> QED  BY <2>0, <3>1, <3>2 DEF SplitAt, Sides
  <2>2. CASE m \in met
    <3>1. PICK s : s = Toward(k, m)
      OBVIOUS
    <3>2. s \in Sides /\ Other(s) \in Sides /\ Other(s) # s
      BY <1>6, <3>1, SideFacts
    <3>3. /\ Down(r, B, m, s) = Down(t, below, m, s) \cup {n}
          /\ Down(r, B, m, Other(s)) = Down(t, below, m, Other(s))
      BY <1>14, <1>15, <2>2, <3>1, <3>2
    <3>4. B[m] = below[m] \cup {n}
      BY <1>10, <2>0, <2>2
    <3>5. Beside(s, n, m)
      BY <1>0, <2>0, <3>1 DEF Beside, Toward, k
    <3>6. /\ below[m] = {m} \cup Down(t, below, m, s) \cup Down(t, below, m, Other(s))
          /\ \A x \in Down(t, below, m, s) : Beside(s, x, m)
          /\ \A x \in Down(t, below, m, Other(s)) : Beside(Other(s), x, m)
      BY <2>0, <3>2, SplitEitherWay
    <3>7. /\ B[m] = {m} \cup Down(r, B, m, s) \cup Down(r, B, m, Other(s))
          /\ \A x \in Down(r, B, m, s) : Beside(s, x, m)
          /\ \A x \in Down(r, B, m, Other(s)) : Beside(Other(s), x, m)
      BY <3>3, <3>4, <3>5, <3>6
    <3> QED  BY <3>2, <3>7, SplitEitherWay
  <2> QED  BY <2>1, <2>2
<1>17. r.root # NULL /\ B[r.root] = L \cup {n}
  <2>1. CASE p = NULL
    BY <1>0, <1>3, <1>5, <1>10, <2>1
  <2>2. CASE p # NULL
    <3>1. t.root \in met /\ t.root \in L /\ t.root \in Nodes /\ t.root # n /\ t.root # NULL
      BY <1>0, <1>1, <1>2, <2>2
    <3>2. below[t.root] = L
      BY <3>1 DEF Sound, Ordered, L
    <3> QED  BY <1>3, <1>10, <2>2, <3>1, <3>2
  <2> QED  BY <2>1, <2>2
<1> QED
  <2>1. Ordered(r, B)
    BY <1>7, <1>11, <1>12, <1>16, <1>17 DEF Ordered
  <2>2. Sound(r, B)
    BY <1>3, <1>8, <2>1 DEF Sound
  <2> QED  BY <1>1, <1>5, <1>7, <1>9, <2>2 DEF L

-----------------------------------------------------------------------------
(* Unlinking a node.                                                       *)

\* The leftmost node below n: it has no left child, and every other node
\* there has a larger key.
LEMMA LeftmostFacts ==
  ASSUME NEW t, NEW below, Sound(t, below), NEW n \in LinkedIn(t)
  PROVE  LET x == Leftmost(t, n)
         IN  /\ x \in LinkedIn(t) /\ x \in below[n]
             /\ t.child[x]["left"] = NULL
             /\ \A y \in below[n] : y # x => Key[x] < Key[y]
             /\ x # n => t.child[t.parent[x]]["left"] = x
<1> DEFINE C == Cardinality(Nodes)
           L == LinkedIn(t)
           Far(x) == /\ x \in L /\ x \in below[n]
                     /\ \A y \in below[n] : y \in below[x] \/ Key[x] < Key[y]
                     /\ x # n => t.child[t.parent[x]]["left"] = x
<1>0. /\ C \in Nat /\ t \in Trees /\ L \in SUBSET Nodes
      /\ below \in [Nodes -> SUBSET Nodes] /\ "left" \in Sides /\ "right" \in Sides
  BY CountOfNodes DEF Sound, Ordered, LinkedIn, Sides
<1>1. PICK f : /\ f \in [0 .. C -> Nodes] /\ f[0] = n
               /\ \A i \in 0 .. C : i # 0 =>
                    f[i] = IF t.child[f[i - 1]]["left"] = NULL THEN f[i - 1]
                           ELSE t.child[f[i - 1]]["left"]
               /\ f[C] = Leftmost(t, n)
  BY LeftmostSteps
<1>2. \A x \in L : SplitAt(t, below, x) /\ x \in below[x]
  BY DEF Sound, Ordered, SplitAt
\* One step to the left.
<1>3. ASSUME NEW x, Far(x), t.child[x]["left"] # NULL
      PROVE  /\ Far(t.child[x]["left"])
             /\ Cardinality(below[t.child[x]["left"]]) < Cardinality(below[x])
  <2> DEFINE c == t.child[x]["left"]
  <2>1. /\ c \in L /\ t.parent[c] = x /\ c \in below[c] /\ below[c] \subseteq below[x]
        /\ x \notin below[c] /\ x \in below[x] /\ \A m \in below[c] : Beside("left", m, x)
    BY <1>0, <1>3, ChildFacts
  <2>2. below[x] \subseteq below[n]
    BY <1>3, BelowFacts
  <2>3. ASSUME NEW y \in below[n], y \notin below[c] PROVE Key[c] < Key[y]
    <3>0. Key[c] < Key[x] /\ Key[c] \in Int /\ Key[x] \in Int /\ Key[y] \in Int
      BY <1>0, <1>3, <2>1, <2>3 DEF Beside
    <3>1. CASE y \notin below[x]
      BY <1>3, <2>3, <3>0, <3>1
    <3>2. CASE y = x
      BY <3>0, <3>2
    <3>3. CASE y \in below[x] /\ y # x
      <4>1. y \in Down(t, below, x, "right")
        BY <1>2, <1>3, <2>3, <3>3 DEF SplitAt, Down
      <4>2. Beside("right", y, x)
        BY <1>0, <1>2, <1>3, <4>1 DEF SplitAt
      <4> QED  BY <3>0, <4>2 DEF Beside
    <3> QED  BY <3>1, <3>2, <3>3
  <2>4. Far(c)
    BY <2>1, <2>2, <2>3
  <2>5. below[x] \in SUBSET Nodes /\ below[c] \in SUBSET below[x]
    BY <1>0, <1>3, <2>1
  <2>6. Cardinality(below[c]) < Cardinality(below[x])
    BY <2>1, <2>5, FewerBelow
  <2> QED  BY <2>4, <2>6
<1> DEFINE T == {i \in Nat : i \in 0 .. C =>
                   /\ Far(f[i])
                   /\ \/ t.child[f[i]]["left"] = NULL
                      \/ Cardinality(below[f[i]]) + i <= C}
<1>4. \A x \in L : Cardinality(below[x]) \in Nat /\ Cardinality(below[x]) <= C
                   /\ Cardinality(below[x]) # 0
  <2> SUFFICES ASSUME NEW x \in L
               PROVE  /\ Cardinality(below[x]) \in Nat /\ Cardinality(below[x]) <= C
                      /\ Cardinality(below[x]) # 0
    OBVIOUS
  <2>1. below[x] \in SUBSET Nodes /\ x \in below[x]
    BY <1>0, <1>2
  <2>2. IsFiniteSet(below[x]) /\ Cardinality(below[x]) \in Nat /\ Cardinality(below[x]) <= C
    BY <2>1, FS_Subset, BelowFinite
  <2> QED  BY <2>1, <2>2, FS_EmptySet
<1>5. 0 \in T
  <2>1. Far(n)
    BY <1>2
  <2> HIDE DEF Far, L
  <2> QED  BY <1>1, <1>4, <2>1 DEF L
<1>6. ASSUME NEW i \in Nat, i \in T PROVE i + 1 \in T
  <2>1. PICK j : j = i + 1
    OBVIOUS
  <2> SUFFICES ASSUME j \in 0 .. C
               PROVE  /\ Far(f[j])
                      /\ \/ t.child[f[j]]["left"] = NULL
                         \/ Cardinality(below[f[j]]) + j <= C
    BY <2>1
  <2>2. /\ j # 0 /\ j - 1 = i /\ i \in 0 .. C /\ Far(f[i])
        /\ t.child[f[i]]["left"] = NULL \/ Cardinality(below[f[i]]) + i <= C
    BY <1>0, <1>6, <2>1
  <2>3. f[j] = IF t.child[f[i]]["left"] = NULL THEN f[i] ELSE t.child[f[i]]["left"]
    BY <1>1, <2>2
  <2>4. CASE t.child[f[i]]["left"] = NULL
    BY <2>2, <2>3, <2>4
  <2>5. CASE t.child[f[i]]["left"] # NULL
    <3>1. f[j] = t.child[f[i]]["left"]
      BY <2>3, <2>5
    <3>2. Far(f[j]) /\ Cardinality(below[f[j]]) < Cardinality(below[f[i]])
      BY <1>3, <2>2, <2>5, <3>1
    <3>3. Cardinality(below[f[j]]) \in Nat /\ Cardinality(below[f[i]]) \in Nat
      BY <1>4, <2>2, <3>2
    <3>4. Cardinality(below[f[j]]) + j <= C
      BY <1>0, <2>1, <2>2, <2>5, <3>2, <3>3
    <3> HIDE DEF Far
    <3> QED  BY <3>2, <3>4
  <2> QED  BY <2>4, <2>5
<1>7. Nat \subseteq T
  <2> HIDE DEF T
  <2> QED  BY <1>5, <1>6, SetInduction
<1>8. PICK x : x = f[C]
  OBVIOUS
<1>9. Far(x) /\ t.child[x]["left"] = NULL
  <2>1. C \in T /\ C \in 0 .. C
    BY <1>0, <1>7
  <2>2. Far(f[C]) /\ (t.child[f[C]]["left"] = NULL \/ Cardinality(below[f[C]]) + C <= C)
    BY <2>1
  <2> QED  BY <1>0, <1>4, <1>8, <2>2
<1>10. ASSUME NEW y \in below[n], y # x PROVE Key[x] < Key[y]
  <2>1. CASE y \in below[x]
    <3>1. y \in Down(t, below, x, "right")
      BY <1>2, <1>9, <1>10, <2>1 DEF SplitAt, Down
    <3>2. Beside("right", y, x)
      BY <1>0, <1>2, <1>9, <3>1 DEF SplitAt
    <3> QED  BY <3>2 DEF Beside
  <2>2. CASE y \notin below[x]
    BY <1>9, <2>2
  <2> QED  BY <2>1, <2>2
<1> QED  BY <1>1, <1>8, <1>9, <1>10

\* r is t without x, whose place c takes.
Removed(t, r, x, c) ==
  LET g == t.parent[x]
  IN  /\ r \in Trees
      /\ r.root = IF g = NULL THEN c ELSE t.root
      /\ \A m \in Nodes, z \in Sides :
           r.child[m][z] = IF m = x THEN NULL
                           ELSE IF m = g /\ z = SideOf(t, g, x) THEN c
                           ELSE t.child[m][z]
      /\ \A m \in Nodes :
           r.parent[m] = IF m = x THEN NULL
                         ELSE IF m = c THEN g ELSE t.parent[m]
      /\ r.red = [t.red EXCEPT ![x] = FALSE]

\* A node hangs on one side of its parent.
LEMMA ParentFacts ==
  ASSUME NEW t, NEW below, Sound(t, below), NEW x \in LinkedIn(t)
  PROVE  LET g == t.parent[x]
         IN  /\ x \in Nodes /\ g \in Places /\ g # x
             /\ g = NULL <=> x = t.root
             /\ g # NULL => /\ g \in LinkedIn(t) /\ g \notin below[x]
                            /\ t.child[g][SideOf(t, g, x)] = x
                            /\ t.child[g][Other(SideOf(t, g, x))] # x
             /\ \A n \in LinkedIn(t), s \in Sides :
                  t.child[n][s] = x => n = g /\ s = SideOf(t, g, x)
<1>1. PICK g : g = t.parent[x]
  OBVIOUS
<1>2. t \in Trees /\ Agreed(t) /\ x \in Nodes /\ x # NULL /\ g \in Places
  BY <1>1, TreeFields DEF Sound, LinkedIn
<1>3. g = NULL <=> x = t.root
  BY <1>1, <1>2 DEF Agreed, LinkedIn
<1>4. ASSUME g # NULL
      PROVE  /\ g \in LinkedIn(t) /\ g # x /\ g \notin below[x]
             /\ t.child[g][SideOf(t, g, x)] = x
             /\ t.child[g][Other(SideOf(t, g, x))] # x
  <2>1. PICK s \in Sides : g \in LinkedIn(t) /\ t.child[g][s] = x
    BY <1>1, <1>2, <1>3, <1>4 DEF Agreed
  <2>2. g # x /\ g \notin below[x] /\ x # t.child[g][Other(s)]
    BY <1>2, <2>1, ChildFacts
  <2>3. SideOf(t, g, x) = s
    BY <2>1, <2>2 DEF SideOf, Sides, Other
  <2> QED  BY <2>1, <2>2, <2>3
<1>5. ASSUME NEW n \in LinkedIn(t), NEW s \in Sides, t.child[n][s] = x
      PROVE  n = g /\ s = SideOf(t, g, x)
  <2>1. n = g /\ g # NULL
    BY <1>1, <1>2, <1>5, ChildFacts DEF LinkedIn
  <2>2. SideOf(t, g, x) \in Sides
    BY SideOfSides
  <2> QED  BY <1>4, <1>5, <2>1, <2>2, SideFacts
<1>6. g # x
  BY <1>2, <1>4
<1> QED  BY <1>1, <1>2, <1>3, <1>4, <1>5, <1>6

\* What is below the nodes once x is removed.
BelowRemoved(below, x) == [m \in Nodes |-> below[m] \ {x}]

\* Without x the tree is a search tree of the other nodes.
LEMMA RemoveSound ==
  ASSUME NEW t, NEW below, Sound(t, below), NEW x \in LinkedIn(t),
         NEW cis \in Sides, t.child[x][Other(cis)] = NULL,
         NEW r, Removed(t, r, x, t.child[x][cis])
  PROVE  /\ LinkedIn(r) = LinkedIn(t) \ {x}
         /\ Sound(r, BelowRemoved(below, x))
         /\ \A m \in LinkedIn(t), s \in Sides :
              m # x => Down(r, BelowRemoved(below, x), m, s)
                         = Down(t, below, m, s) \ {x}
<1>1. PICK g, c, e : g = t.parent[x] /\ c = t.child[x][cis] /\ e = SideOf(t, g, x)
  OBVIOUS
<1> DEFINE L == LinkedIn(t)
<1>2. /\ x \in Nodes /\ x # NULL /\ g \in Places /\ g # x /\ e \in Sides
      /\ g = NULL <=> x = t.root
      /\ g # NULL => /\ g \in L /\ g \notin below[x] /\ t.child[g][e] = x
                     /\ t.child[g][Other(e)] # x
      /\ \A n \in L, s \in Sides : t.child[n][s] = x => n = g /\ s = e
  <2>1. x # NULL /\ e \in Sides
    BY <1>1, SideOfSides DEF LinkedIn
  <2> QED  BY <1>1, <2>1, ParentFacts
<1>3. /\ t \in Trees /\ Agreed(t) /\ L \in SUBSET Nodes /\ c \in Places
      /\ below \in [Nodes -> SUBSET Nodes] /\ Sides = {cis, Other(cis)}
  BY <1>1, TreeFields, SideFacts DEF Sound, Ordered, LinkedIn
<1>4. /\ r \in Trees
      /\ r.root = IF g = NULL THEN c ELSE t.root
      /\ \A m \in Nodes, z \in Sides :
           r.child[m][z] = IF m = x THEN NULL
                           ELSE IF m = g /\ z = e THEN c ELSE t.child[m][z]
      /\ \A m \in Nodes :
           r.parent[m] = IF m = x THEN NULL
                         ELSE IF m = c THEN g ELSE t.parent[m]
  BY <1>1 DEF Removed
<1>5. c # NULL => /\ c \in L /\ t.parent[c] = x /\ c # t.root /\ c # x
                  /\ c \in below[c] /\ below[c] \subseteq below[x]
                  /\ x \notin below[c] /\ x \in below[x] /\ c \in Nodes
  BY <1>1, <1>3, ChildFacts
<1>6. \A n \in L, s \in Sides :
        t.child[n][s] # NULL =>
          /\ t.child[n][s] \in L /\ t.parent[t.child[n][s]] = n
          /\ t.child[n][s] # t.root
  BY ChildFacts
<1>7. \A s \in Sides : t.child[x][s] \in {NULL, c}
  BY <1>1, <1>3
<1>8. \A n \in L : n # t.root =>
        t.parent[n] \in L /\ \E s \in Sides : t.child[t.parent[n]][s] = n
  BY <1>3 DEF Agreed
<1>9. c # NULL => c # g
  BY <1>2, <1>5
<1> HIDE DEF L
<1>10. LinkedIn(r) = L \ {x}
  <2>1. ASSUME NEW m \in Nodes, m # x
        PROVE  m \in LinkedIn(r) <=> m \in L
    <3>1. CASE m = c
      <4>1. m \in L
        BY <1>5, <2>1, <3>1
      <4>2. m \in LinkedIn(r)
        BY <1>4, <2>1, <3>1 DEF LinkedIn
      <4> QED  BY <4>1, <4>2
    <3>2. CASE m # c
      <4>1. r.parent[m] = t.parent[m]
        BY <1>4, <2>1, <3>2
      <4>2. r.root = m <=> t.root = m
        BY <1>2, <1>4, <2>1, <3>2
      <4> QED  BY <2>1, <4>1, <4>2 DEF L, LinkedIn
    <3> QED  BY <3>1, <3>2
  <2>2. x \notin LinkedIn(r)
    <3>1. r.parent[x] = NULL
      BY <1>2, <1>4
    <3>2. r.root # x
      BY <1>2, <1>4, <1>5
    <3> QED  BY <3>1, <3>2 DEF LinkedIn
  <2>3. LinkedIn(r) \subseteq Nodes
    BY DEF LinkedIn
  <2> QED  BY <1>3, <2>1, <2>2, <2>3
<1>11. Agreed(r)
  <2>1. r.root # NULL => r.parent[r.root] = NULL
    <3>1. CASE g = NULL
      BY <1>3, <1>4, <1>5, <3>1
    <3>2. CASE g # NULL /\ t.root # NULL
      <4>1. t.root # x /\ t.root # c /\ t.root \in Nodes
        BY <1>2, <1>3, <1>5, <3>2, TreeFields DEF Places
      <4> QED  BY <1>3, <1>4, <3>2, <4>1 DEF Agreed
    <3> QED  BY <1>4, <3>1, <3>2
  <2>2. ASSUME NEW m \in LinkedIn(r), NEW s \in Sides, r.child[m][s] # NULL
        PROVE  r.parent[r.child[m][s]] = m
    <3>1. m \in L /\ m # x /\ m \in Nodes
      BY <1>3, <1>10
    <3>2. CASE m = g /\ s = e
      <4>1. r.child[m][s] = c
        BY <1>4, <3>1, <3>2
      <4> QED  BY <1>4, <1>5, <2>2, <3>2, <4>1
    <3>3. CASE ~(m = g /\ s = e)
      <4>1. r.child[m][s] = t.child[m][s] /\ t.child[m][s] # x
        BY <1>2, <1>4, <3>1, <3>3
      <4>2. t.child[m][s] \in L /\ t.parent[t.child[m][s]] = m
        BY <1>6, <2>2, <3>1, <4>1
      <4>3. t.child[m][s] # c
        BY <1>5, <2>2, <3>1, <4>1, <4>2
      <4> QED  BY <1>3, <1>4, <4>1, <4>2, <4>3
    <3> QED  BY <3>2, <3>3
  <2>3. ASSUME NEW m \in LinkedIn(r), m # r.root
        PROVE  /\ r.parent[m] \in LinkedIn(r)
               /\ \E s \in Sides : r.child[r.parent[m]][s] = m
    <3>1. m \in L /\ m # x /\ m \in Nodes
      BY <1>3, <1>10
    <3>2. CASE m = c
      <4>1. g # NULL /\ r.parent[m] = g
        BY <1>4, <2>3, <3>1, <3>2
      <4>2. g \in L /\ g # x /\ g \in Nodes
        BY <1>2, <1>3, <4>1
      <4>3. r.child[g][e] = m
        BY <1>2, <1>4, <3>2, <4>2
      <4> QED  BY <1>2, <1>10, <4>1, <4>2, <4>3
    <3>3. CASE m # c
      <4>1. r.parent[m] = t.parent[m] /\ m # t.root
        BY <1>2, <1>4, <2>3, <3>1, <3>3
      <4>2. PICK s \in Sides : t.parent[m] \in L /\ t.child[t.parent[m]][s] = m
        BY <1>8, <3>1, <4>1
      <4>3. t.parent[m] # x
        <5>1. m # NULL
          BY <3>1
        <5> QED  BY <1>7, <3>3, <4>2, <5>1
      <4>4. ~(t.parent[m] = g /\ s = e)
        BY <1>2, <1>3, <3>1, <4>2
      <4>5. r.child[t.parent[m]][s] = m
        BY <1>3, <1>4, <4>2, <4>3, <4>4
      <4> QED  BY <1>10, <4>1, <4>2, <4>3, <4>5
    <3> QED  BY <3>2, <3>3
  <2> QED  BY <2>1, <2>2, <2>3 DEF Agreed
<1>12. PICK B : B = BelowRemoved(below, x)
  OBVIOUS
<1>13. B \in [Nodes -> SUBSET Nodes] /\ \A m \in Nodes : B[m] = below[m] \ {x}
  BY <1>3, <1>12 DEF BelowRemoved
<1>14. ASSUME NEW m \in L, m # x, NEW s \in Sides
       PROVE  Down(r, B, m, s) = Down(t, below, m, s) \ {x}
  <2>0. m \in Nodes /\ t.child[m][s] \in Places
    BY <1>3, TreeFields
  <2>1. CASE m = g /\ s = e
    <3>1. r.child[m][s] = c /\ t.child[m][s] = x
      BY <1>2, <1>3, <1>4, <1>14, <2>0, <2>1
    <3>2. Down(t, below, m, s) = below[x]
      BY <1>2, <3>1 DEF Down
    <3>3. SplitAt(t, below, x)
      BY DEF Sound, Ordered
    <3>4. below[x] = {x} \cup Down(t, below, x, cis)
      <4>1. Down(t, below, x, Other(cis)) = {}
        BY DEF Down
      <4> QED  BY <3>3, <4>1, SplitEitherWay
    <3>5. Down(t, below, x, cis) = IF c = NULL THEN {} ELSE below[c]
      BY <1>1 DEF Down
    <3>6. Down(r, B, m, s) = IF c = NULL THEN {} ELSE B[c]
      BY <3>1 DEF Down
    <3> QED  BY <1>5, <1>13, <3>2, <3>4, <3>5, <3>6
  <2>2. CASE ~(m = g /\ s = e)
    <3>1. r.child[m][s] = t.child[m][s]
      BY <1>4, <1>14, <2>0, <2>2
    <3> QED  BY <1>13, <2>0, <3>1 DEF Down, Places
  <2> QED  BY <2>1, <2>2
<1>15. ASSUME NEW m \in L, m # x PROVE SplitAt(r, B, m)
  <2>1. SplitAt(t, below, m) /\ B[m] = below[m] \ {x}
    BY <1>3, <1>13 DEF Sound, Ordered, L
  <2>2. \A s \in Sides : Down(r, B, m, s) = Down(t, below, m, s) \ {x}
    BY <1>14, <1>15
  <2> QED  BY <1>15, <2>1, <2>2 DEF SplitAt, Sides
<1>16. r.root # NULL => B[r.root] = L \ {x}
  <2> SUFFICES ASSUME r.root # NULL PROVE B[r.root] = L \ {x}
    OBVIOUS
  <2>1. CASE g = NULL
    <3>1. r.root = c /\ c \in Nodes /\ x = t.root
      BY <1>2, <1>4, <1>5, <2>1
    <3>2. below[x] = L /\ SplitAt(t, below, x)
      BY <1>2, <3>1 DEF Sound, Ordered, L
    <3>3. Down(t, below, x, Other(cis)) = {} /\ Down(t, below, x, cis) = below[c]
      BY <1>1, <3>1 DEF Down
    <3>4. below[x] = {x} \cup below[c]
      BY <3>2, <3>3, SplitEitherWay
    <3> QED  BY <1>5, <1>13, <3>1, <3>2, <3>4
  <2>2. CASE g # NULL
    BY <1>4, <1>13, <2>2, TreeFields, <1>3 DEF Sound, Ordered, L, Places
  <2> QED  BY <2>1, <2>2
<1>17. r.root = NULL => L \ {x} = {}
  <2> SUFFICES ASSUME r.root = NULL PROVE L \ {x} = {}
    OBVIOUS
  <2>1. g = NULL /\ c = NULL
    BY <1>2, <1>4 DEF Sound, Ordered, L
  <2>2. below[x] = L /\ SplitAt(t, below, x)
    BY <1>2, <2>1 DEF Sound, Ordered, L
  <2>3. Down(t, below, x, Other(cis)) = {} /\ Down(t, below, x, cis) = {}
    BY <1>1, <2>1 DEF Down
  <2> QED  BY <2>2, <2>3, SplitEitherWay
<1> QED
  <2>1. Ordered(r, B)
    BY <1>10, <1>13, <1>15, <1>16, <1>17 DEF Ordered
  <2>2. \A m \in L, s \in Sides :
          m # x => Down(r, B, m, s) = Down(t, below, m, s) \ {x}
    BY <1>14
  <2> QED  BY <1>4, <1>10, <1>11, <1>12, <2>1, <2>2 DEF Sound, L

\* Where a pointer to n pointed, r points to x.
Stand(n, x, y) == IF y = n THEN x ELSE y

\* r is t with x in the place of n.
Substituted(t, r, n, x) ==
  /\ r \in Trees
  /\ r.root = Stand(n, x, t.root)
  /\ \A m \in LinkedIn(t), z \in Sides :
       r.child[Stand(n, x, m)][z] = Stand(n, x, t.child[m][z])
  /\ \A m \in Nodes :
       r.parent[m] = IF m = n THEN NULL
                     ELSE Stand(n, x, t.parent[Stand(x, n, m)])
  /\ ~r.red[n]
  /\ \A m \in Nodes : m # n => r.red[m] = t.red[Stand(x, n, m)]

\* The set S with x for n.
Exchanged(n, x, S) == IF n \in S THEN (S \ {n}) \cup {x} ELSE S

LEMMA SubstituteSound ==
  ASSUME NEW t, NEW below, Sound(t, below), NEW n \in LinkedIn(t),
         NEW x \in Nodes, x \notin LinkedIn(t),
         \A s \in Sides : \A y \in Down(t, below, n, s) : Beside(s, y, x),
         \A m \in LinkedIn(t), s \in Sides :
           n \in Down(t, below, m, s) => Beside(s, x, m),
         NEW r, Substituted(t, r, n, x)
  PROVE  /\ LinkedIn(r) = (LinkedIn(t) \ {n}) \cup {x}
         /\ \E B : Sound(r, B)
<1> DEFINE L == LinkedIn(t)
<1>0. /\ t \in Trees /\ Agreed(t) /\ L \in SUBSET Nodes /\ n \in Nodes
      /\ below \in [Nodes -> SUBSET Nodes] /\ n # NULL /\ x # NULL /\ x # n
      /\ n \in L /\ x \notin L
  BY DEF Sound, Ordered, LinkedIn
<1>1. /\ r \in Trees
      /\ r.root = IF t.root = n THEN x ELSE t.root
      /\ \A z \in Sides :
           r.child[x][z] = IF t.child[n][z] = n THEN x ELSE t.child[n][z]
      /\ \A m \in L, z \in Sides :
           m # n => r.child[m][z] = IF t.child[m][z] = n THEN x ELSE t.child[m][z]
      /\ \A m \in Nodes :
           /\ m = x => r.parent[m] = IF t.parent[n] = n THEN x ELSE t.parent[n]
           /\ m = n => r.parent[m] = NULL
           /\ m \notin {n, x} => r.parent[m] = IF t.parent[m] = n THEN x
                                               ELSE t.parent[m]
  BY <1>0 DEF Substituted, Stand
<1>2. \A m \in L, s \in Sides :
        t.child[m][s] # NULL =>
          /\ t.child[m][s] \in L /\ t.parent[t.child[m][s]] = m
          /\ t.child[m][s] # m /\ t.child[m][s] # t.root
          /\ m \notin below[t.child[m][s]]
  BY ChildFacts
<1>3. \A m \in L : m # t.root =>
        t.parent[m] \in L /\ \E s \in Sides : t.child[t.parent[m]][s] = m
  BY <1>0 DEF Agreed
<1>4. t.parent[n] # n /\ (t.parent[n] = NULL <=> t.root = n)
  BY ParentFacts
<1>5. t.root \in L
  BY <1>0, TreeFields DEF Sound, Ordered, L, LinkedIn, Places
<1> HIDE DEF L
<1>6. LinkedIn(r) = (L \ {n}) \cup {x}
  <2>1. n \notin LinkedIn(r)
    BY <1>0, <1>1 DEF LinkedIn
  <2>2. x \in LinkedIn(r)
    BY <1>0, <1>1, <1>4 DEF LinkedIn
  <2>3. ASSUME NEW m \in Nodes, m \notin {n, x}
        PROVE  m \in LinkedIn(r) <=> m \in L
    BY <1>0, <1>1, <2>3 DEF LinkedIn, L
  <2>4. LinkedIn(r) \subseteq Nodes
    BY DEF LinkedIn
  <2> QED  BY <1>0, <2>1, <2>2, <2>3, <2>4
<1>7. Agreed(r)
  <2>1. r.root # NULL => r.parent[r.root] = NULL
    <3>1. CASE t.root = n
      BY <1>0, <1>1, <1>4, <3>1
    <3>2. CASE t.root # n
      <4>1. t.root \in Nodes /\ t.root # x /\ t.parent[t.root] = NULL
        BY <1>0, <1>5 DEF Agreed, L
      <4> QED  BY <1>0, <1>1, <3>2, <4>1
    <3> QED  BY <3>1, <3>2
  <2>2. ASSUME NEW m \in LinkedIn(r), NEW s \in Sides, r.child[m][s] # NULL
        PROVE  r.parent[r.child[m][s]] = m
    <3>1. CASE m = x
      <4>1. r.child[m][s] = t.child[n][s] /\ t.child[n][s] # n
        BY <1>0, <1>1, <1>2, <2>2, <3>1
      <4>2. t.child[n][s] \in L /\ t.parent[t.child[n][s]] = n
        BY <1>0, <1>2, <2>2, <4>1
      <4> QED  BY <1>0, <1>1, <3>1, <4>1, <4>2
    <3>2. CASE m # x
      <4>1. m \in L /\ m # n /\ m \in Nodes
        BY <1>0, <1>6, <3>2
      <4>2. CASE t.child[m][s] = n
        <5>1. r.child[m][s] = x /\ t.parent[n] = m
          BY <1>0, <1>1, <1>2, <3>2, <4>1, <4>2
        <5> QED  BY <1>0, <1>1, <4>1, <5>1
      <4>3. CASE t.child[m][s] # n
        <5>1. r.child[m][s] = t.child[m][s]
          BY <1>1, <3>2, <4>1, <4>3
        <5>2. t.child[m][s] \in L /\ t.parent[t.child[m][s]] = m
          BY <1>2, <2>2, <4>1, <5>1
        <5> QED  BY <1>0, <1>1, <4>1, <4>3, <5>1, <5>2
      <4> QED  BY <4>2, <4>3
    <3> QED  BY <3>1, <3>2
  <2>3. ASSUME NEW m \in LinkedIn(r), m # r.root
        PROVE  /\ r.parent[m] \in LinkedIn(r)
               /\ \E s \in Sides : r.child[r.parent[m]][s] = m
    <3>1. CASE m = x
      <4>1. t.root # n
        BY <1>1, <2>3, <3>1
      <4>2. PICK s \in Sides : t.parent[n] \in L /\ t.child[t.parent[n]][s] = n
        BY <1>0, <1>3, <4>1
      <4>3. r.parent[m] = t.parent[n] /\ t.parent[n] \notin {n, x}
        BY <1>1, <1>4, <3>1, <4>2 DEF L
      <4>4. r.child[t.parent[n]][s] = x
        BY <1>0, <1>1, <4>2, <4>3
      <4> QED  BY <1>6, <3>1, <4>2, <4>3, <4>4
    <3>2. CASE m # x
      <4>1. m \in L /\ m # n /\ m \in Nodes
        BY <1>0, <1>6, <3>2
      <4>2. m # t.root
        BY <1>1, <2>3, <3>2, <4>1
      <4>3. PICK s \in Sides : t.parent[m] \in L /\ t.child[t.parent[m]][s] = m
        BY <1>3, <4>1, <4>2
      <4>4. CASE t.parent[m] = n
        <5>1. r.parent[m] = x
          BY <1>1, <3>2, <4>1, <4>4
        <5>2. r.child[x][s] = m
          BY <1>0, <1>1, <4>1, <4>3, <4>4
        <5> QED  BY <1>6, <5>1, <5>2
      <4>5. CASE t.parent[m] # n
        <5>1. r.parent[m] = t.parent[m] /\ t.parent[m] # x
          BY <1>1, <3>2, <4>1, <4>3, <4>5 DEF L
        <5>2. r.child[t.parent[m]][s] = m
          BY <1>0, <1>1, <4>1, <4>3, <4>5, <5>1
        <5> QED  BY <1>6, <4>3, <4>5, <5>1, <5>2
      <4> QED  BY <4>4, <4>5
    <3> QED  BY <3>1, <3>2
  <2> QED  BY <2>1, <2>2, <2>3 DEF Agreed
<1>8. PICK B : B = [m \in Nodes |-> Exchanged(n, x, below[Stand(x, n, m)])]
  OBVIOUS
<1>9. /\ B \in [Nodes -> SUBSET Nodes]
      /\ B[x] = Exchanged(n, x, below[n])
      /\ \A m \in Nodes \ {x} : B[m] = Exchanged(n, x, below[m])
  BY <1>0, <1>8 DEF Exchanged, Stand
<1>10. ASSUME NEW m \in L, m # n, NEW s \in Sides
       PROVE  Down(r, B, m, s) = Exchanged(n, x, Down(t, below, m, s))
  <2>0. m \in Nodes /\ m # x
    BY <1>0 DEF L
  <2>1. CASE t.child[m][s] = n
    <3>1. r.child[m][s] = x
      BY <1>1, <1>10, <2>0, <2>1
    <3> QED  BY <1>0, <1>9, <2>1, <3>1 DEF Down
  <2>2. CASE t.child[m][s] # n
    <3>1. r.child[m][s] = t.child[m][s]
      BY <1>1, <1>10, <2>0, <2>2
    <3>2. t.child[m][s] # NULL => t.child[m][s] \in Nodes \ {x}
      BY <1>0, <1>2 DEF L
    <3> QED  BY <1>9, <3>1, <3>2 DEF Down, Exchanged
  <2> QED  BY <2>1, <2>2
<1>11. ASSUME NEW s \in Sides
       PROVE  /\ Down(r, B, x, s) = Down(t, below, n, s)
              /\ n \notin Down(t, below, n, s)
  <2>1. t.child[n][s] # n /\ r.child[x][s] = t.child[n][s]
    BY <1>0, <1>1, <1>2 DEF L
  <2>2. t.child[n][s] # NULL =>
          t.child[n][s] \in Nodes \ {x} /\ n \notin below[t.child[n][s]]
    BY <1>0, <1>2 DEF L
  <2> QED  BY <1>9, <2>1, <2>2 DEF Down, Exchanged
<1>12. SplitAt(r, B, x)
  <2>1. SplitAt(t, below, n)
    BY DEF Sound, Ordered
  <2>2. B[x] = {x} \cup Down(r, B, x, "left") \cup Down(r, B, x, "right")
    BY <1>9, <1>11, <2>1 DEF SplitAt, Sides, Exchanged
  <2>3. \A s \in Sides : \A y \in Down(r, B, x, s) : Beside(s, y, x)
    BY <1>11
  <2> QED  BY <2>2, <2>3 DEF SplitAt
<1>13. ASSUME NEW m \in L, m # n PROVE SplitAt(r, B, m)
  <2>0. m \in Nodes /\ m # x /\ SplitAt(t, below, m)
    BY <1>0 DEF Sound, Ordered, L
  <2>1. B[m] = Exchanged(n, x, below[m])
    BY <1>9, <2>0
  <2>2. \A s \in Sides : Down(r, B, m, s) = Exchanged(n, x, Down(t, below, m, s))
    BY <1>10, <1>13
  <2>3. ASSUME NEW s \in Sides, NEW y \in Down(r, B, m, s)
        PROVE  Beside(s, y, m)
    BY <2>0, <2>2, <2>3 DEF SplitAt, Exchanged, L
  <2>4. B[m] = {m} \cup Down(r, B, m, "left") \cup Down(r, B, m, "right")
    <3>1. /\ Down(r, B, m, "left") = Exchanged(n, x, Down(t, below, m, "left"))
          /\ Down(r, B, m, "right") = Exchanged(n, x, Down(t, below, m, "right"))
      BY <2>2 DEF Sides
    <3>2. below[m] = {m} \cup Down(t, below, m, "left") \cup Down(t, below, m, "right")
      BY <2>0 DEF SplitAt
    <3> HIDE DEF L
    <3> QED  BY <1>13, <2>0, <2>1, <3>1, <3>2 DEF Exchanged
  <2> QED  BY <2>3, <2>4 DEF SplitAt
<1>14. B[r.root] = (L \ {n}) \cup {x} /\ r.root # NULL
  <2>0. below[t.root] = L /\ t.root \in Nodes /\ t.root # NULL
    BY <1>0, <1>5 DEF Sound, Ordered, L
  <2>1. n \in L /\ t.root # x
    BY <1>5 DEF L
  <2> QED  BY <1>0, <1>1, <1>9, <2>0, <2>1 DEF Exchanged
<1> QED
  <2>1. Ordered(r, B)
    BY <1>6, <1>9, <1>12, <1>13, <1>14 DEF Ordered
  <2>2. Sound(r, B)
    BY <1>1, <1>7, <2>1 DEF Sound
  <2> QED  BY <1>6, <2>2 DEF L

\* u is what is left of t without x, which has a child on side cis only.
BypassedOn(t, u, x, cis) ==
  /\ t.child[x][Other(cis)] = NULL
  /\ u.node = t.child[x][cis]
  /\ u.parent = t.parent[x]
  /\ u.red = t.red[x]
  /\ Removed(t, Fresh(u.tree, x), x, t.child[x][cis])

LEMMA BypassFields ==
  ASSUME NEW t \in Trees, NEW x \in Nodes, NULL \in {t.child[x][s] : s \in Sides},
         t.parent[x] # x, \A s \in Sides : t.child[x][s] # x
  PROVE  \E cis \in Sides : BypassedOn(t, Bypassed(t, x), x, cis)
<1>1. PICK cis : cis = IF t.child[x]["left"] = NULL THEN "right" ELSE "left"
  OBVIOUS
<1>2. PICK c, g : c = t.child[x][cis] /\ g = t.parent[x]
  OBVIOUS
<1>3. /\ cis \in Sides /\ t.child[x][Other(cis)] = NULL
      /\ c \in Places /\ g \in Places /\ c # x /\ g # x
  BY <1>1, <1>2, TreeFields DEF Sides, Other
<1>4. PICK a, b : a = Replace(t, x, c) /\ b = SetParent(a, c, g)
  OBVIOUS
<1>5. Bypassed(t, x) = [tree |-> b, node |-> c, parent |-> g, red |-> t.red[x]]
  BY <1>1, <1>2, <1>4 DEF Bypassed
<1>6. Replaced(t, a, x, c)
  BY <1>3, <1>4, ReplaceFields
<1>7. /\ a \in Trees /\ a.parent = t.parent /\ a.red = t.red
      /\ a.root = IF g = NULL THEN c ELSE t.root
      /\ \A m \in Nodes, s \in Sides :
           a.child[m][s] = IF g # NULL /\ m = g /\ s = SideOf(t, g, x)
                           THEN c ELSE t.child[m][s]
  BY <1>2, <1>6 DEF Replaced
<1>8. /\ b \in Trees /\ b.child = a.child /\ b.red = a.red /\ b.root = a.root
      /\ \A m \in Nodes : b.parent[m] = IF m = c THEN g ELSE a.parent[m]
  BY <1>3, <1>4, <1>7, SetParentFields
<1>9. PICK r : r = Fresh(b, x)
  OBVIOUS
<1>10. Freshened(b, r, x)
  BY <1>8, <1>9, FreshFields
<1>11. \A m \in Nodes, z \in Sides :
         r.child[m][z] = IF m = x THEN NULL
                         ELSE IF m = g /\ z = SideOf(t, g, x) THEN c
                         ELSE t.child[m][z]
  BY <1>7, <1>8, <1>10 DEF Freshened
<1>12. \A m \in Nodes :
         r.parent[m] = IF m = x THEN NULL ELSE IF m = c THEN g ELSE t.parent[m]
  BY <1>7, <1>8, <1>10 DEF Freshened
<1>13. /\ r \in Trees
       /\ r.root = IF g = NULL THEN c ELSE t.root
       /\ r.red = [t.red EXCEPT ![x] = FALSE]
  <2>1. r \in Trees /\ r.root = IF g = NULL THEN c ELSE t.root
    BY <1>7, <1>8, <1>10 DEF Freshened
  <2>2. b.red = t.red
    BY <1>7, <1>8
  <2> QED  BY <1>10, <2>1, <2>2 DEF Freshened
<1>14. Removed(t, r, x, c)
  BY <1>2, <1>11, <1>12, <1>13 DEF Removed
<1> QED  BY <1>2, <1>3, <1>5, <1>9, <1>14 DEF BypassedOn

\* r is t with x in the place of n, above the left child of n.
InheritedBy(t, r, n, x) ==
  LET g == t.parent[n]
      left == t.child[n]["left"]
  IN  /\ r \in Trees
      /\ r.root = IF g = NULL THEN x ELSE t.root
      /\ \A m \in Nodes, z \in Sides :
           r.child[m][z] = IF m = x /\ z = "left" THEN left
                           ELSE IF g # NULL /\ m = g /\ z = SideOf(t, g, n)
                                THEN x
                           ELSE t.child[m][z]
      /\ \A m \in Nodes :
           r.parent[m] = IF m = x THEN g ELSE IF m = left THEN x ELSE t.parent[m]
      /\ r.red = [t.red EXCEPT ![x] = t.red[n]]

LEMMA InheritFields ==
  ASSUME NEW t \in Trees, NEW n \in Nodes, NEW x \in Nodes, x # n
  PROVE  InheritedBy(t, Inherited(t, n, x), n, x)
<1>1. PICK g, left : g = t.parent[n] /\ left = t.child[n]["left"]
  OBVIOUS
<1>2. g \in Places /\ left \in Places /\ x \in Places /\ "left" \in Sides
  BY <1>1, TreeFields DEF Places, Sides
<1>3. PICK a, b : a = Replace(t, n, x) /\ b = Hung(a, x, "left", left)
  OBVIOUS
<1>4. Replaced(t, a, n, x)
  BY <1>2, <1>3, ReplaceFields
<1>5. /\ a \in Trees /\ a.parent = t.parent /\ a.red = t.red
      /\ a.root = IF g = NULL THEN x ELSE t.root
      /\ \A m \in Nodes, s \in Sides :
           a.child[m][s] = IF g # NULL /\ m = g /\ s = SideOf(t, g, n)
                           THEN x ELSE t.child[m][s]
  BY <1>1, <1>4 DEF Replaced
<1>6. HungBelow(a, b, x, "left", left)
  BY <1>2, <1>3, <1>5, HungFields
<1>7. PICK r : r = [b EXCEPT !.red[x] = t.red[n], !.parent[x] = g]
  OBVIOUS
<1>8. b \in Trees /\ t.red[n] \in BOOLEAN
  BY <1>6, TreeFields DEF HungBelow
<1>9. /\ r \in Trees /\ r.child = b.child /\ r.root = b.root
      /\ r.parent = [b.parent EXCEPT ![x] = g]
      /\ r.red = [b.red EXCEPT ![x] = t.red[n]]
  BY <1>2, <1>7, <1>8 DEF Trees
<1>10. Inherited(t, n, x) = r
  BY <1>1, <1>3, <1>7 DEF Inherited
<1>11. \A m \in Nodes, z \in Sides :
         r.child[m][z] = IF m = x /\ z = "left" THEN left
                         ELSE IF g # NULL /\ m = g /\ z = SideOf(t, g, n) THEN x
                         ELSE t.child[m][z]
  BY <1>5, <1>6, <1>9 DEF HungBelow
<1>12. \A m \in Nodes :
         r.parent[m] = IF m = x THEN g ELSE IF m = left THEN x ELSE t.parent[m]
  BY <1>5, <1>6, <1>8, <1>9, TreeFields DEF HungBelow
<1>13. r.red = [t.red EXCEPT ![x] = t.red[n]]
  BY <1>5, <1>6, <1>9 DEF HungBelow
<1>14. r.root = IF g = NULL THEN x ELSE t.root
  BY <1>5, <1>6, <1>9 DEF HungBelow
<1>15. InheritedBy(t, r, n, x)
  BY <1>1, <1>9, <1>11, <1>12, <1>13, <1>14 DEF InheritedBy
<1> QED  BY <1>10, <1>15

\* x is the successor of n, which has the children left and right, c is the
\* child of x, and g the parent of n.
Succession(t, below, n, left, right, x, c, g) ==
  /\ left = t.child[n]["left"] /\ right = t.child[n]["right"]
  /\ c = t.child[x]["right"] /\ g = t.parent[n]
  /\ left \in Nodes /\ right \in Nodes /\ n \in Nodes /\ x \in Nodes
  /\ x \in LinkedIn(t) /\ x \in below[right]
  /\ c \in Places /\ g \in Places
  /\ left # right /\ left # n /\ right # n /\ x # n /\ x # left
  /\ c # n /\ c # x /\ c # left /\ c # right
  /\ (g # NULL => c # g)
  /\ g # n /\ g # x /\ g # left /\ g # right
  /\ x # t.root /\ (g = NULL <=> n = t.root)
  /\ t.child[x]["left"] = NULL
  /\ \A y \in below[right] : y # x => Key[x] < Key[y]
  /\ x = right => t.parent[x] = n
  /\ x # right => /\ t.parent[x] \in LinkedIn(t) /\ t.parent[x] # n
                  /\ t.parent[x] # x
                  /\ t.child[t.parent[x]]["left"] = x
  /\ t.parent[left] = n /\ t.parent[right] = n
  /\ g # NULL => t.child[g][SideOf(t, g, n)] = n /\ g \in LinkedIn(t)
  /\ \A m \in LinkedIn(t), s \in Sides :
       t.child[m][s] = n => m = g /\ s = SideOf(t, g, n)
  /\ \A m \in Nodes : t.parent[m] = n => m \in {left, right}

LEMMA SuccessorFacts ==
  ASSUME NEW t, NEW below, Sound(t, below), NEW n \in LinkedIn(t),
         \A s \in Sides : t.child[n][s] # NULL
  PROVE  LET left  == t.child[n]["left"]
             right == t.child[n]["right"]
             x     == Leftmost(t, right)
         IN  Succession(t, below, n, left, right, x, t.child[x]["right"],
                        t.parent[n])
<1>1. PICK left, right, x, c, g :
        /\ left = t.child[n]["left"] /\ right = t.child[n]["right"]
        /\ x = Leftmost(t, right) /\ c = t.child[x]["right"] /\ g = t.parent[n]
  OBVIOUS
<1>2. /\ "left" \in Sides /\ "right" \in Sides /\ n \in Nodes
      /\ Other("left") = "right" /\ Other("right") = "left"
  BY DEF Sides, LinkedIn, Other
<1>3. /\ left \in LinkedIn(t) /\ t.parent[left] = n /\ left # n /\ left # right
      /\ left \in below[left] /\ below[left] \subseteq below[n] /\ n \notin below[left]
      /\ \A m \in below[left] : Key[m] < Key[n]
  BY <1>1, <1>2, ChildFacts DEF Beside
<1>4. /\ right \in LinkedIn(t) /\ t.parent[right] = n /\ right # n
      /\ right \in below[right] /\ below[right] \subseteq below[n]
      /\ n \notin below[right] /\ n \in below[n]
      /\ \A m \in below[right] : Key[n] < Key[m]
  BY <1>1, <1>2, ChildFacts DEF Beside, Sides
<1>5. /\ x \in LinkedIn(t) /\ x \in below[right] /\ t.child[x]["left"] = NULL
      /\ \A y \in below[right] : y # x => Key[x] < Key[y]
      /\ x # right => t.child[t.parent[x]]["left"] = x
  BY <1>1, <1>4, LeftmostFacts
<1>6. /\ g \in Places /\ g # n /\ (g = NULL <=> n = t.root)
      /\ g # NULL => /\ g \in LinkedIn(t) /\ g \notin below[n]
                     /\ t.child[g][SideOf(t, g, n)] = n
      /\ \A m \in LinkedIn(t), s \in Sides :
           t.child[m][s] = n => m = g /\ s = SideOf(t, g, n)
  BY <1>1, ParentFacts
<1>7. /\ t \in Trees /\ Agreed(t) /\ LinkedIn(t) \in SUBSET Nodes
      /\ below \in [Nodes -> SUBSET Nodes]
  BY DEF Sound, Ordered, LinkedIn
<1>8. /\ x # n /\ x # t.root
      /\ x # right => t.parent[x] \in below[right] /\ right \notin below[x]
  <2>1. x # right => /\ x # t.root /\ t.parent[x] \in below[right]
                     /\ right \notin below[x]
    BY <1>4, <1>5, BelowFacts
  <2>2. right # t.root
    BY <1>4, <1>7 DEF Agreed, LinkedIn
  <2> QED  BY <1>4, <1>5, <2>1, <2>2
<1>9. x # right => t.parent[x] \in LinkedIn(t) /\ t.parent[x] # n
  BY <1>4, <1>8, BelowFacts
<1>10. x # left /\ \A m \in below[right] : m # left
  <2>1. \A m \in below[right] : m \in Nodes /\ Key[n] < Key[m]
    BY <1>4, <1>7
  <2>2. Key[left] < Key[n] /\ Key[left] \in Int /\ Key[n] \in Int
    BY <1>2, <1>3, <1>7
  <2> QED  BY <1>5, <2>1, <2>2
<1>11. t.parent[x] # x
  BY <1>5, ParentFacts
<1>12. c \in Places
  BY <1>1, <1>2, <1>5, <1>7, TreeFields
<1>13. c # NULL =>
         /\ c \in LinkedIn(t) /\ c # x /\ c \in below[c] /\ below[c] \subseteq below[x]
         /\ x \notin below[c]
  BY <1>1, <1>2, <1>5, ChildFacts
<1>14. below[x] \subseteq below[right]
  BY <1>4, <1>5, BelowFacts
<1>15. NULL # n /\ NULL # x /\ NULL # left /\ NULL # right
  BY <1>2, <1>3, <1>4, <1>5, <1>7
<1>16. c # n /\ c # x /\ c # left /\ c # right
  BY <1>4, <1>8, <1>10, <1>13, <1>14, <1>15
<1>17. g # NULL => g # x /\ g # left /\ g # right /\ g # c
  BY <1>3, <1>4, <1>5, <1>6, <1>13, <1>14
<1>18. c # g \/ (c = NULL /\ g = NULL)
  BY <1>17
<1>19. \A m \in Nodes : t.parent[m] = n => m \in {left, right}
  <2> SUFFICES ASSUME NEW m \in Nodes, t.parent[m] = n
               PROVE  m \in {left, right}
    OBVIOUS
  <2>1. m \in LinkedIn(t) /\ m # t.root
    BY <1>7, <1>15 DEF Agreed, LinkedIn
  <2>2. \E s \in Sides : t.child[n][s] = m
    BY <1>7, <2>1 DEF Agreed
  <2> QED  BY <1>1, <2>2 DEF Sides
<1>20. Succession(t, below, n, left, right, x, c, g)
  BY <1>1, <1>2, <1>3, <1>4, <1>5, <1>6, <1>7, <1>8, <1>9, <1>10, <1>11,
     <1>12, <1>15, <1>16, <1>17, <1>18, <1>19 DEF Succession
<1> QED  BY <1>1, <1>20

\* A node with two children is replaced by its successor, once that has been
\* removed from its own place.
LEMMA SucceedFields ==
  ASSUME NEW t, NEW below, Sound(t, below), NEW n \in LinkedIn(t),
         \A s \in Sides : t.child[n][s] # NULL
  PROVE  LET x == Leftmost(t, t.child[n]["right"])
             u == Succeeded(t, n)
         IN  \E a : /\ Removed(t, a, x, t.child[x]["right"])
                    /\ Substituted(a, Fresh(u.tree, n), n, x)
                    /\ u.node = t.child[x]["right"]
                    /\ u.parent = Stand(n, x, t.parent[x])
                    /\ u.red = t.red[x]
<1>1. PICK left, right, x, c, g, gx, e :
        /\ left = t.child[n]["left"] /\ right = t.child[n]["right"]
        /\ x = Leftmost(t, right) /\ c = t.child[x]["right"] /\ g = t.parent[n]
        /\ gx = t.parent[x] /\ e = SideOf(t, g, n)
  OBVIOUS
<1>0. Succession(t, below, n, left, right, x, c, g)
  BY <1>1, SuccessorFacts
<1>2. /\ left \in Nodes /\ right \in Nodes /\ n \in Nodes /\ x \in Nodes
      /\ x \in LinkedIn(t) /\ x \in below[right] /\ c \in Places /\ g \in Places
      /\ left # right /\ left # n /\ right # n /\ x # n /\ x # left
      /\ c # n /\ c # x /\ c # left /\ c # right /\ (g # NULL => c # g)
      /\ g # n /\ g # x /\ g # left /\ g # right
      /\ x # t.root /\ (g = NULL <=> n = t.root)
      /\ t.child[x]["left"] = NULL
  BY <1>1, <1>0 DEF Succession
<1>3. /\ x = right => gx = n
      /\ x # right => /\ gx \in LinkedIn(t) /\ gx # n /\ gx # x
                      /\ t.child[gx]["left"] = x
  BY <1>1, <1>0 DEF Succession
<1>4. /\ g # NULL => t.child[g][e] = n /\ g \in LinkedIn(t)
      /\ \A m \in LinkedIn(t), s \in Sides : t.child[m][s] = n => m = g /\ s = e
      /\ \A m \in Nodes : t.parent[m] = n => m \in {left, right}
      /\ t.parent[left] = n /\ t.parent[right] = n
  BY <1>1, <1>0 DEF Succession
<1>5. /\ t \in Trees /\ LinkedIn(t) \in SUBSET Nodes /\ NULL \notin Nodes
      /\ e \in Sides /\ "left" \in Sides /\ "right" \in Sides
      /\ \A s \in Sides : s = "left" \/ s = "right"
  BY <1>1, SideOfSides DEF Sound, LinkedIn, Sides
<1>6. gx \in Nodes /\ gx # x
  BY <1>2, <1>3, <1>5
<1>7. PICK a : /\ a = Fresh(Bypassed(t, x).tree, x)
               /\ Removed(t, a, x, c)
  <2>1. NULL \in {t.child[x][s] : s \in Sides}
    BY <1>2, <1>5
  <2>2. \A s \in Sides : t.child[x][s] # x
    BY <1>1, <1>2, <1>5
  <2>3. PICK cis \in Sides : BypassedOn(t, Bypassed(t, x), x, cis)
    BY <1>1, <1>2, <1>5, <1>6, <2>1, <2>2, BypassFields
  <2>4. t.child[x][cis] = c
    BY <1>1, <1>2, <2>3 DEF Sides, Other, BypassedOn
  <2> QED  BY <2>3, <2>4 DEF BypassedOn
<1>8. SideOf(t, gx, x) = IF x = right THEN "right" ELSE "left"
  BY <1>1, <1>2, <1>3 DEF SideOf
<1>9. /\ a \in Trees /\ a.root = t.root
      /\ a.red = [t.red EXCEPT ![x] = FALSE]
      /\ \A m \in Nodes, z \in Sides :
           m # x => a.child[m][z] = IF m = gx /\ z = SideOf(t, gx, x) THEN c
                                    ELSE t.child[m][z]
      /\ \A m \in Nodes :
           m # x => a.parent[m] = IF m = c THEN gx ELSE t.parent[m]
  <2>1. gx # NULL
    BY <1>5, <1>6
  <2>2. a \in Trees /\ a.root = t.root
    BY <1>1, <1>7, <2>1 DEF Removed
  <2>5. a.red = [t.red EXCEPT ![x] = FALSE]
    BY <1>7 DEF Removed
  <2>6. gx = t.parent[x]
    BY <1>1
  <2>3. \A m \in Nodes, z \in Sides :
          m # x => a.child[m][z] = IF m = gx /\ z = SideOf(t, gx, x) THEN c
                                   ELSE t.child[m][z]
    BY <1>7, <2>6 DEF Removed
  <2>4. \A m \in Nodes :
          m # x => a.parent[m] = IF m = c THEN gx ELSE t.parent[m]
    BY <1>7, <2>6 DEF Removed
  <2> QED  BY <2>2, <2>3, <2>4, <2>5
<1>10. PICK i : i = Inherited(t, n, x)
  OBVIOUS
<1>11. InheritedBy(t, i, n, x)
  BY <1>2, <1>5, <1>10, InheritFields
<1>12. /\ i \in Trees
       /\ i.root = IF g = NULL THEN x ELSE t.root
       /\ i.red = [t.red EXCEPT ![x] = t.red[n]]
       /\ \A m \in Nodes, z \in Sides :
            i.child[m][z] = IF m = x /\ z = "left" THEN left
                            ELSE IF g # NULL /\ m = g /\ z = e THEN x
                            ELSE t.child[m][z]
       /\ \A m \in Nodes :
            i.parent[m] = IF m = x THEN g ELSE IF m = left THEN x ELSE t.parent[m]
  BY <1>1, <1>11 DEF InheritedBy
<1>13. PICK d : d = IF x = right THEN SetParent(i, c, x)
                    ELSE Hung(Hung(i, x, "right", right), gx, "left", c)
  OBVIOUS
<1>14. /\ Succeeded(t, n).tree = d /\ Succeeded(t, n).node = c
       /\ Succeeded(t, n).parent = IF x = right THEN x ELSE gx
       /\ Succeeded(t, n).red = t.red[x]
  BY <1>1, <1>10, <1>13 DEF Succeeded
<1>15. /\ d \in Trees /\ d.red = i.red /\ d.root = i.root
       /\ \A m \in Nodes, z \in Sides :
            d.child[m][z] = IF x # right /\ m = gx /\ z = "left" THEN c
                            ELSE IF x # right /\ m = x /\ z = "right" THEN right
                            ELSE i.child[m][z]
       /\ \A m \in Nodes :
            d.parent[m] = IF m = c THEN IF x = right THEN x ELSE gx
                          ELSE IF x # right /\ m = right THEN x
                          ELSE i.parent[m]
  <2>1. CASE x = right
    <3>1. x \in Places
      BY <1>2 DEF Places
    <3>2. /\ d \in Trees /\ d.child = i.child /\ d.red = i.red /\ d.root = i.root
          /\ \A m \in Nodes : d.parent[m] = IF m = c THEN x ELSE i.parent[m]
      <4>1. d = SetParent(i, c, x)
        BY <1>13, <2>1
      <4>2. c \in Places /\ i \in Trees
        BY <1>2, <1>12
      <4> QED  BY <3>1, <4>1, <4>2, SetParentFields
    <3>3. \A m \in Nodes, z \in Sides :
            d.child[m][z] = IF x # right /\ m = gx /\ z = "left" THEN c
                            ELSE IF x # right /\ m = x /\ z = "right" THEN right
                            ELSE i.child[m][z]
      BY <2>1, <3>2
    <3>4. \A m \in Nodes :
            d.parent[m] = IF m = c THEN IF x = right THEN x ELSE gx
                          ELSE IF x # right /\ m = right THEN x
                          ELSE i.parent[m]
      BY <2>1, <3>2
    <3> QED  BY <3>2, <3>3, <3>4
  <2>2. CASE x # right
    <3>1. PICK b : b = Hung(i, x, "right", right)
      OBVIOUS
    <3>2. right \in Places
      BY <1>2 DEF Places
    <3>3. HungBelow(i, b, x, "right", right)
      BY <1>2, <1>5, <1>12, <3>1, <3>2, HungFields
    <3>4. HungBelow(b, d, gx, "left", c)
      <4>1. b \in Trees
        BY <3>3 DEF HungBelow
      <4> QED  BY <1>2, <1>5, <1>6, <1>13, <2>2, <3>1, <4>1, HungFields
    <3> QED  BY <2>2, <3>3, <3>4 DEF HungBelow
  <2> QED  BY <2>1, <2>2
<1>16. PICK r : r = Fresh(d, n) /\ Freshened(d, r, n)
  BY <1>2, <1>15, FreshFields
<1>17. /\ r \in Trees /\ r.root = d.root
       /\ r.red = [d.red EXCEPT ![n] = FALSE]
       /\ \A m \in Nodes, z \in Sides : m # n => r.child[m][z] = d.child[m][z]
       /\ \A m \in Nodes : r.parent[m] = IF m = n THEN NULL ELSE d.parent[m]
  BY <1>16 DEF Freshened
<1>18. r.root = Stand(n, x, a.root)
  BY <1>2, <1>9, <1>12, <1>15, <1>17 DEF Stand
<1>19. \A m \in LinkedIn(a), z \in Sides :
         r.child[Stand(n, x, m)][z] = Stand(n, x, a.child[m][z])
  <2> SUFFICES ASSUME NEW m \in LinkedIn(a), NEW z \in Sides
               PROVE  r.child[Stand(n, x, m)][z] = Stand(n, x, a.child[m][z])
    OBVIOUS
  <2>1. m \in LinkedIn(t) /\ m # x /\ m \in Nodes
    <3>1. LinkedIn(a) = LinkedIn(t) \ {x}
      <4>1. "right" \in Sides /\ t.child[x][Other("right")] = NULL
        BY <1>2, <1>5 DEF Other
      <4>2. Removed(t, a, x, t.child[x]["right"])
        BY <1>1, <1>7
      <4>3. x \in LinkedIn(t)
        BY <1>2
      <4> QED  BY <4>1, <4>2, <4>3, RemoveSound
    <3> QED  BY <1>5, <3>1
  <2>2. CASE m = n
    <3>1. r.child[x][z] = IF x # right /\ z = "right" THEN right ELSE i.child[x][z]
      BY <1>2, <1>6, <1>15, <1>17
    <3>2. i.child[x][z] = IF z = "left" THEN left ELSE t.child[x][z]
      BY <1>2, <1>12
    <3>3. a.child[n][z] = IF x = right /\ z = "right" THEN c ELSE t.child[n][z]
      BY <1>2, <1>3, <1>8, <1>9
    <3> QED  BY <1>1, <1>2, <1>5, <2>2, <3>1, <3>2, <3>3 DEF Stand
  <2>3. CASE m # n
    <3>1. r.child[m][z] = IF x # right /\ m = gx /\ z = "left" THEN c
                          ELSE IF g # NULL /\ m = g /\ z = e THEN x
                          ELSE t.child[m][z]
      BY <1>12, <1>15, <1>17, <2>1, <2>3
    <3>2. a.child[m][z] = IF x # right /\ m = gx /\ z = "left" THEN c
                          ELSE t.child[m][z]
      BY <1>3, <1>8, <1>9, <2>1, <2>3
    <3>3. Stand(n, x, m) = m
      BY <2>3 DEF Stand
    <3>4. CASE x # right /\ m = gx /\ z = "left"
      BY <1>2, <3>1, <3>2, <3>3, <3>4 DEF Stand
    <3>5. CASE ~(x # right /\ m = gx /\ z = "left")
      <4>1. a.child[m][z] = t.child[m][z]
        BY <3>2, <3>5
      <4>2. r.child[m][z] = IF g # NULL /\ m = g /\ z = e THEN x ELSE t.child[m][z]
        BY <3>1, <3>5
      <4>3. (g # NULL /\ m = g /\ z = e) <=> t.child[m][z] = n
        BY <1>4, <1>5, <2>1
      <4> QED  BY <3>3, <4>1, <4>2, <4>3 DEF Stand
    <3> QED  BY <3>4, <3>5
  <2> QED  BY <2>2, <2>3
<1>20. \A m \in Nodes :
         r.parent[m] = IF m = n THEN NULL
                       ELSE Stand(n, x, a.parent[Stand(x, n, m)])
  <2> SUFFICES ASSUME NEW m \in Nodes, m # n
               PROVE  r.parent[m] = Stand(n, x, a.parent[Stand(x, n, m)])
    BY <1>17
  <2>1. r.parent[m] = IF m = c THEN IF x = right THEN x ELSE gx
                      ELSE IF x # right /\ m = right THEN x
                      ELSE IF m = x THEN g ELSE IF m = left THEN x
                      ELSE t.parent[m]
    BY <1>12, <1>15, <1>17
  <2>2. CASE m = x
    <3>1. a.parent[n] = g
      BY <1>1, <1>2, <1>9
    <3> QED  BY <1>2, <2>1, <2>2, <3>1 DEF Stand
  <2>3. CASE m # x
    <3>1. a.parent[m] = IF m = c THEN gx ELSE t.parent[m]
      BY <1>9, <2>3
    <3>2. Stand(x, n, m) = m
      BY <2>3 DEF Stand
    <3>3. CASE m = c
      BY <1>3, <2>1, <3>1, <3>2, <3>3 DEF Stand
    <3>4. CASE m # c
      BY <1>4, <2>1, <2>3, <3>1, <3>2, <3>4 DEF Stand
    <3> QED  BY <3>3, <3>4
  <2> QED  BY <2>2, <2>3
<1>21. ~r.red[n] /\ \A m \in Nodes : m # n => r.red[m] = a.red[Stand(x, n, m)]
  <2>1. t.red \in [Nodes -> BOOLEAN]
    BY <1>5, TreeFields
  <2>2. d.red = [t.red EXCEPT ![x] = t.red[n]]
    BY <1>12, <1>15
  <2>3. r.red = [[t.red EXCEPT ![x] = t.red[n]] EXCEPT ![n] = FALSE]
    BY <1>17, <2>2
  <2>4. ~r.red[n] /\ r.red[x] = t.red[n]
    BY <1>2, <2>1, <2>3
  <2>5. a.red[n] = t.red[n]
    BY <1>2, <1>9, <2>1
  <2>6. ASSUME NEW m \in Nodes, m # n, m # x PROVE r.red[m] = a.red[m]
    <3>1. r.red[m] = t.red[m]
      BY <1>2, <2>1, <2>3, <2>6
    <3>2. a.red[m] = t.red[m]
      BY <1>2, <1>9, <2>1, <2>6
    <3> QED  BY <3>1, <3>2
  <2> QED  BY <2>4, <2>5, <2>6 DEF Stand
<1>22. Substituted(a, r, n, x)
  BY <1>17, <1>18, <1>19, <1>20, <1>21 DEF Substituted
<1>23. Stand(n, x, gx) = IF x = right THEN x ELSE gx
  BY <1>3 DEF Stand
<1> QED  BY <1>1, <1>7, <1>14, <1>16, <1>22, <1>23

\* The successor fits where the node stood.
LEMMA SucceedSound ==
  ASSUME NEW t, NEW below, Sound(t, below), NEW n \in LinkedIn(t),
         NEW left, NEW right, NEW x, NEW c, NEW g,
         Succession(t, below, n, left, right, x, c, g),
         NEW a, Removed(t, a, x, c), NEW r, Substituted(a, r, n, x)
  PROVE  /\ LinkedIn(a) = LinkedIn(t) \ {x} /\ n \in LinkedIn(a) /\ x \in LinkedIn(t)
         /\ Sound(a, BelowRemoved(below, x))
         /\ LinkedIn(r) = LinkedIn(t) \ {n}
         /\ \E B : Sound(r, B)
<1>1. /\ left = t.child[n]["left"] /\ right = t.child[n]["right"]
      /\ c = t.child[x]["right"]
  BY DEF Succession
<1>2. /\ x \in Nodes /\ x \in LinkedIn(t) /\ x \in below[right] /\ x # n
      /\ n \in Nodes /\ t.child[x]["left"] = NULL
      /\ left \in Nodes /\ right \in Nodes
      /\ \A y \in below[right] : y # x => Key[x] < Key[y]
  BY DEF Succession
<1>3. /\ "left" \in Sides /\ "right" \in Sides /\ Other("right") = "left"
      /\ \A s \in Sides : s \in {"left", "right"}
  BY DEF Sides, Other
<1>4. PICK B : B = BelowRemoved(below, x)
  OBVIOUS
<1>5. /\ LinkedIn(a) = LinkedIn(t) \ {x}
      /\ Sound(a, B)
      /\ \A m \in LinkedIn(t), s \in Sides :
           m # x => Down(a, B, m, s) = Down(t, below, m, s) \ {x}
  BY <1>1, <1>2, <1>3, <1>4, RemoveSound
<1>6. n \in LinkedIn(a) /\ x \notin LinkedIn(a)
  BY <1>2, <1>5
<1>7. /\ below \in [Nodes -> SUBSET Nodes] /\ LinkedIn(t) \in SUBSET Nodes
      /\ right \in LinkedIn(t) /\ left \in LinkedIn(t)
      /\ right # NULL /\ left # NULL
  BY <1>1, <1>2, <1>3, ChildFacts DEF Sound, Ordered, LinkedIn
<1>8. SplitAt(t, below, n)
  BY DEF Sound, Ordered
<1>9. ASSUME NEW s \in Sides, NEW y \in Down(a, B, n, s)
      PROVE  Beside(s, y, x)
  <2>1. y \in Down(t, below, n, s) /\ y # x
    BY <1>2, <1>5, <1>9
  <2>2. Beside(s, y, n) /\ Beside("right", x, n)
    BY <1>1, <1>2, <1>3, <1>7, <1>8, <2>1 DEF SplitAt, Down
  <2>3. CASE s = "left"
    <3>1. y \in Nodes
      BY <1>1, <1>7, <2>1, <2>3 DEF Down
    <3> QED  BY <1>2, <2>2, <2>3, <3>1 DEF Beside
  <2>4. CASE s = "right"
    <3>1. y \in below[right]
      BY <1>1, <1>7, <2>1, <2>4 DEF Down
    <3> QED  BY <1>2, <2>1, <2>4, <3>1 DEF Beside
  <2> QED  BY <1>3, <2>3, <2>4
<1>10. ASSUME NEW m \in LinkedIn(a), NEW s \in Sides, n \in Down(a, B, m, s)
       PROVE  Beside(s, x, m)
  <2>1. m \in LinkedIn(t) /\ n \in Down(t, below, m, s)
    BY <1>5, <1>10
  <2>2. PICK k : k = t.child[m][s] /\ k # NULL /\ n \in below[k]
    BY <2>1 DEF Down
  <2>3. k \in LinkedIn(t)
    BY <2>1, <2>2, ChildFacts
  <2>4. below[n] \subseteq below[k]
    BY <2>2, <2>3, BelowFacts
  <2>5. below[right] \subseteq below[n]
    BY <1>1, <1>3, <1>7, ChildFacts
  <2>6. x \in Down(t, below, m, s)
    BY <1>2, <2>2, <2>4, <2>5 DEF Down
  <2>7. SplitAt(t, below, m)
    BY <2>1 DEF Sound, Ordered
  <2> QED  BY <2>6, <2>7 DEF SplitAt
<1>11. /\ LinkedIn(r) = (LinkedIn(a) \ {n}) \cup {x}
       /\ \E C : Sound(r, C)
  BY <1>2, <1>5, <1>6, <1>9, <1>10, SubstituteSound
<1>12. LinkedIn(r) = LinkedIn(t) \ {n}
  BY <1>2, <1>5, <1>11
<1> QED  BY <1>2, <1>4, <1>5, <1>6, <1>11, <1>12

-----------------------------------------------------------------------------
(* The colours.                                                            *)

Own(t, n) == IF t.red[n] THEN 0 ELSE 1

High(h, n) == IF n = NULL THEN 0 ELSE h[n]

Lack(lack, n, s) == IF <<n, s>> \in lack THEN 1 ELSE 0

\* h tells how many black nodes every way down from a node passes, with one
\* more where the tree lacks one.
Level(t, h, lack) ==
  /\ h \in [Nodes -> Nat]
  /\ \A n \in LinkedIn(t), s \in Sides :
       h[n] = Own(t, n) + High(h, t.child[n][s]) + Lack(lack, n, s)

\* No red node has a red parent, except one.
Apart(t, except) ==
  \A n \in LinkedIn(t), s \in Sides :
    t.red[n] /\ IsRed(t, t.child[n][s]) => t.child[n][s] = except

\* r is t in other colours.
Recolours(t, r) ==
  /\ t \in Trees /\ r \in Trees
  /\ r.root = t.root /\ r.child = t.child /\ r.parent = t.parent

LEMMA RecolourSound ==
  ASSUME NEW t, NEW r, Recolours(t, r)
  PROVE  /\ LinkedIn(r) = LinkedIn(t)
         /\ \A below : Sound(t, below) => Sound(r, below)
<1>1. LinkedIn(r) = LinkedIn(t)
  BY DEF Recolours, LinkedIn
<1>2. ASSUME NEW below, Sound(t, below) PROVE Sound(r, below)
  <2>1. Agreed(r)
    BY <1>1, <1>2 DEF Sound, Agreed, Recolours
  <2>2. \A n, s : Down(r, below, n, s) = Down(t, below, n, s)
    BY DEF Down, Recolours
  <2>3. \A n : SplitAt(t, below, n) => SplitAt(r, below, n)
    BY <2>2 DEF SplitAt
  <2>4. Ordered(r, below)
    BY <1>1, <1>2, <2>3 DEF Sound, Ordered, Recolours
  <2> QED  BY <2>1, <2>4 DEF Sound, Recolours
<1> QED  BY <1>1, <1>2

\* The colour of a node counts once.
LEMMA SameOwn ==
  ASSUME NEW t, NEW r, NEW m, NEW n, r.red[m] = t.red[n]
  PROVE  Own(r, m) = Own(t, n)
  BY DEF Own

\* Where a black node is removed, its place lacks one.
LEMMA RemovedLevel ==
  ASSUME NEW t, NEW below, Sound(t, below), NEW x \in LinkedIn(t),
         NEW cis \in Sides, t.child[x][Other(cis)] = NULL,
         NEW r, Removed(t, r, x, t.child[x][cis]),
         NEW h, Level(t, h, {}), Apart(t, NULL)
  PROVE  LET g == t.parent[x]
             e == SideOf(t, g, x)
             c == t.child[x][cis]
         IN  /\ Level(r, h, IF t.red[x] THEN {} ELSE {<<g, e>>})
             /\ Apart(r, IF t.red[x] THEN NULL ELSE c)
             /\ t.red[x] => ~IsRed(r, c)
<1>1. PICK g, e, c : g = t.parent[x] /\ e = SideOf(t, g, x) /\ c = t.child[x][cis]
  OBVIOUS
<1>2. /\ t \in Trees /\ r \in Trees /\ t.red \in [Nodes -> BOOLEAN]
      /\ LinkedIn(t) \in SUBSET Nodes /\ c \in Places /\ x # NULL
  BY <1>1, TreeFields DEF Sound, LinkedIn, Removed
<1>3. LinkedIn(r) = LinkedIn(t) \ {x}
  BY RemoveSound
<1>4. /\ g # x /\ e \in Sides
      /\ g # NULL => t.child[g][e] = x /\ g \in LinkedIn(t)
      /\ \A n \in LinkedIn(t), s \in Sides : t.child[n][s] = x => n = g /\ s = e
  <2>1. /\ g # x
        /\ g # NULL => t.child[g][e] = x /\ g \in LinkedIn(t)
        /\ \A n \in LinkedIn(t), s \in Sides : t.child[n][s] = x => n = g /\ s = e
    BY <1>1, ParentFacts
  <2> QED  BY <1>1, <2>1, SideOfSides
<1>5. c # x
  BY <1>1, <1>2, ChildFacts
<1>6. \A m \in Nodes, z \in Sides :
        m # x => r.child[m][z] = IF m = g /\ z = e THEN c ELSE t.child[m][z]
  <2>1. Removed(t, r, x, c) /\ g = t.parent[x] /\ e = SideOf(t, g, x)
    BY <1>1
  <2> QED  BY <2>1 DEF Removed
<1>7. \A m \in Nodes : m # x => r.red[m] = t.red[m]
  <2>1. r.red = [t.red EXCEPT ![x] = FALSE]
    BY DEF Removed
  <2> QED  BY <1>2, <2>1
<1>8. h \in [Nodes -> Nat]
  BY DEF Level
<1>9. \A m \in LinkedIn(t), s \in Sides : h[m] = Own(t, m) + High(h, t.child[m][s])
  <2>1. \A m \in LinkedIn(t), s \in Sides :
          /\ h[m] = Own(t, m) + High(h, t.child[m][s]) + Lack({}, m, s)
          /\ Lack({}, m, s) = 0
    BY DEF Level, Lack
  <2>2. \A m \in LinkedIn(t), s \in Sides :
          Own(t, m) \in Int /\ High(h, t.child[m][s]) \in Int
    BY <1>2, <1>8, TreeFields DEF Own, High, Places
  <2> QED  BY <2>1, <2>2
<1>10. \A n : High(h, n) = IF n = NULL THEN 0 ELSE h[n]
  BY DEF High
<1>11. PICK lack : lack = IF t.red[x] THEN {} ELSE {<<g, e>>}
  OBVIOUS
<1>12. \A m, s : Lack(lack, m, s) = IF m = g /\ s = e THEN Own(t, x) ELSE 0
  BY <1>11 DEF Lack, Own
<1>13. Level(r, h, lack)
  <2> SUFFICES ASSUME NEW m \in LinkedIn(r), NEW s \in Sides
               PROVE  h[m] = Own(r, m) + High(h, r.child[m][s]) + Lack(lack, m, s)
    BY <1>8 DEF Level
  <2>1. m \in LinkedIn(t) /\ m # x /\ m \in Nodes
    BY <1>2, <1>3
  <2>2. Own(r, m) = Own(t, m) /\ Own(t, m) \in Int /\ Own(t, x) \in Int
    BY <1>7, <2>1, SameOwn DEF Own
  <2>3. CASE m = g /\ s = e
    <3>1. h[m] = Own(t, m) + h[x]
      BY <1>2, <1>4, <1>9, <1>10, <2>1, <2>3
    <3>2. h[x] = Own(t, x) + High(h, c)
      BY <1>1, <1>9
    <3>3. r.child[m][s] = c
      BY <1>6, <2>1, <2>3
    <3>4. High(h, c) \in Int
      BY <1>2, <1>8 DEF High, Places
    <3> QED  BY <1>12, <2>2, <2>3, <3>1, <3>2, <3>3, <3>4
  <2>4. CASE ~(m = g /\ s = e)
    <3>1. r.child[m][s] = t.child[m][s]
      BY <1>6, <2>1, <2>4
    <3>2. Lack(lack, m, s) = 0
      BY <1>12, <2>4
    <3>3. h[m] = Own(t, m) + High(h, t.child[m][s]) /\ h[m] \in Int
      BY <1>8, <1>9, <2>1
    <3>4. High(h, t.child[m][s]) \in Int
      BY <1>2, <1>8, <2>1, TreeFields DEF High, Places
    <3> QED  BY <2>2, <3>1, <3>2, <3>3, <3>4
  <2> QED  BY <2>3, <2>4
<1>14. t.red[x] => ~IsRed(t, c)
  BY <1>1 DEF Apart, IsRed
<1>15. IsRed(r, c) <=> IsRed(t, c)
  BY <1>2, <1>5, <1>7 DEF IsRed, Places
<1>16. ASSUME NEW m \in LinkedIn(r), NEW s \in Sides,
              r.red[m], IsRed(r, r.child[m][s])
       PROVE  ~t.red[x] /\ r.child[m][s] = c
  <2>1. m \in LinkedIn(t) /\ m # x /\ m \in Nodes /\ t.red[m]
    BY <1>2, <1>3, <1>7, <1>16
  <2>2. CASE m = g /\ s = e
    <3>1. t.child[m][s] = x
      BY <1>2, <1>4, <2>1, <2>2
    <3>2. ~t.red[x]
      BY <1>2, <2>1, <3>1 DEF Apart, IsRed
    <3> QED  BY <1>6, <2>1, <2>2, <3>2
  <2>3. CASE ~(m = g /\ s = e)
    <3>1. r.child[m][s] = t.child[m][s] /\ t.child[m][s] # x
      BY <1>4, <1>6, <2>1, <2>3
    <3>2. IsRed(t, t.child[m][s])
      BY <1>2, <1>7, <1>16, <2>1, <3>1, TreeFields DEF IsRed, Places
    <3> QED  BY <2>1, <3>2 DEF Apart, IsRed
  <2> QED  BY <2>2, <2>3
<1>17. Apart(r, IF t.red[x] THEN NULL ELSE c)
  BY <1>16 DEF Apart
<1> QED  BY <1>1, <1>11, <1>13, <1>14, <1>15, <1>17

\* A node that takes the place and the colour of another changes no level.
LEMMA SubstitutedLevel ==
  ASSUME NEW t, NEW below, Sound(t, below), NEW n \in LinkedIn(t),
         NEW x \in Nodes, x \notin LinkedIn(t), NEW r, Substituted(t, r, n, x),
         LinkedIn(r) = (LinkedIn(t) \ {n}) \cup {x},
         NEW h, NEW lack, NEW left,
         Level(t, h, lack), NEW except, Apart(t, except), except # n,
         \A m \in LinkedIn(t), s \in Sides :
           <<Stand(n, x, m), s>> \in left <=> <<m, s>> \in lack
  PROVE  /\ Level(r, [h EXCEPT ![x] = h[n]], left)
         /\ Apart(r, except)
<1>1. /\ t \in Trees /\ LinkedIn(t) \in SUBSET Nodes /\ n \in Nodes /\ n # NULL
      /\ x # n /\ x # NULL
  BY DEF Sound, LinkedIn
<1>2. \A m \in LinkedIn(t), z \in Sides :
        r.child[Stand(n, x, m)][z] = Stand(n, x, t.child[m][z])
  BY DEF Substituted
<1>3. \A m \in LinkedIn(t) : r.red[Stand(n, x, m)] = t.red[m]
  <2>1. \A m \in Nodes : m # n => r.red[m] = t.red[Stand(x, n, m)]
    BY DEF Substituted
  <2> QED  BY <1>1, <2>1 DEF Stand
<1>4. PICK k : k = [h EXCEPT ![x] = h[n]]
  OBVIOUS
<1>5. /\ h \in [Nodes -> Nat] /\ k \in [Nodes -> Nat]
      /\ \A m \in LinkedIn(t) : k[Stand(n, x, m)] = h[m]
  BY <1>1, <1>4 DEF Level, Stand
<1>6. \A m \in LinkedIn(r) : \E y \in LinkedIn(t) : m = Stand(n, x, y)
  BY <1>1 DEF Stand
<1>7. \A m \in LinkedIn(t), s \in Sides :
        t.child[m][s] = NULL \/ t.child[m][s] \in LinkedIn(t)
  BY ChildFacts
<1>8. ASSUME NEW m \in LinkedIn(t), NEW s \in Sides
      PROVE  /\ k[Stand(n, x, m)] = Own(r, Stand(n, x, m))
                  + High(k, r.child[Stand(n, x, m)][s]) + Lack(left, Stand(n, x, m), s)
             /\ r.red[Stand(n, x, m)] /\ IsRed(r, r.child[Stand(n, x, m)][s]) =>
                  r.child[Stand(n, x, m)][s] = except
  <2>1. h[m] = Own(t, m) + High(h, t.child[m][s]) + Lack(lack, m, s)
    BY DEF Level
  <2>2. Own(r, Stand(n, x, m)) = Own(t, m)
    BY <1>3, SameOwn
  <2>3. Lack(left, Stand(n, x, m), s) = Lack(lack, m, s)
    BY DEF Lack
  <2>4. PICK c : c = t.child[m][s]
    OBVIOUS
  <2>5. r.child[Stand(n, x, m)][s] = Stand(n, x, c)
    BY <1>2, <2>4
  <2>6. CASE c = NULL
    <3>1. Stand(n, x, c) = NULL
      BY <1>1, <2>6 DEF Stand
    <3> QED  BY <1>5, <2>1, <2>2, <2>3, <2>4, <2>5, <2>6, <3>1 DEF High, IsRed
  <2>7. CASE c # NULL
    <3>1. c \in LinkedIn(t)
      BY <1>7, <2>4, <2>7
    <3>2. Stand(n, x, c) # NULL /\ k[Stand(n, x, c)] = h[c] /\ r.red[Stand(n, x, c)] = t.red[c]
      BY <1>1, <1>3, <1>5, <2>7, <3>1 DEF Stand
    <3>3. High(k, Stand(n, x, c)) = High(h, c)
      BY <2>7, <3>2 DEF High
    <3>4. t.red[m] /\ t.red[c] => c = except
      BY <2>4, <2>7 DEF Apart, IsRed
    <3>5. c = except => Stand(n, x, c) = except
      BY DEF Stand
    <3>6. r.red[Stand(n, x, m)] = t.red[m]
      BY <1>3
    <3> QED  BY <1>5, <2>1, <2>2, <2>3, <2>4, <2>5, <3>2, <3>3, <3>4, <3>5, <3>6
              DEF IsRed
  <2> QED  BY <2>6, <2>7
<1>9. Level(r, k, left)
  BY <1>5, <1>6, <1>8 DEF Level
<1>10. Apart(r, except)
  BY <1>6, <1>8 DEF Apart
<1> QED  BY <1>4, <1>9, <1>10

\* After a removal: c stands on side e of p, or at the root, and unless the
\* removed node was red the tree lacks a black node there.
Deficit(t, h, p, e, c, red) ==
  /\ Level(t, h, IF red THEN {} ELSE {<<p, e>>})
  /\ Apart(t, IF red THEN NULL ELSE c)
  /\ red => ~IsRed(t, c)
  /\ e \in Sides /\ p \in Places /\ c \in Places
  /\ p = NULL => t.root = c /\ ~red
  /\ p # NULL => p \in LinkedIn(t) /\ t.child[p][e] = c /\ ~IsRed(t, t.root)

LEMMA RemovedDeficit ==
  ASSUME NEW t, NEW below, Sound(t, below), NEW x \in LinkedIn(t),
         NEW cis \in Sides, t.child[x][Other(cis)] = NULL,
         NEW r, Removed(t, r, x, t.child[x][cis]),
         NEW h, Level(t, h, {}), Apart(t, NULL), ~IsRed(t, t.root)
  PROVE  Deficit(r, h, t.parent[x], SideOf(t, t.parent[x], x), t.child[x][cis],
                 t.red[x])
<1>1. PICK g, e, c : g = t.parent[x] /\ e = SideOf(t, g, x) /\ c = t.child[x][cis]
  OBVIOUS
<1>2. /\ t \in Trees /\ t.red \in [Nodes -> BOOLEAN] /\ x \in Nodes
      /\ LinkedIn(t) \in SUBSET Nodes /\ c \in Places /\ x # NULL
  BY <1>1, TreeFields DEF Sound, LinkedIn
<1>3. LinkedIn(r) = LinkedIn(t) \ {x}
  BY RemoveSound
<1>4. /\ Level(r, h, IF t.red[x] THEN {} ELSE {<<g, e>>})
      /\ Apart(r, IF t.red[x] THEN NULL ELSE c)
      /\ t.red[x] => ~IsRed(r, c)
  BY <1>1, RemovedLevel
<1>5. e \in Sides
  BY <1>1, SideOfSides
<1>6. /\ g \in Places /\ g # x
      /\ g = NULL <=> x = t.root
      /\ g # NULL => g \in LinkedIn(t)
  BY <1>1, ParentFacts
<1>7. Removed(t, r, x, c) /\ g = t.parent[x] /\ e = SideOf(t, g, x)
  BY <1>1
<1>8. g = NULL => r.root = c /\ ~t.red[x]
  <2>1. g = NULL => r.root = c
    BY <1>7 DEF Removed
  <2> QED  BY <1>2, <1>6, <2>1 DEF IsRed
<1>9. g # NULL => g \in LinkedIn(r) /\ r.child[g][e] = c
  <2> SUFFICES ASSUME g # NULL PROVE g \in LinkedIn(r) /\ r.child[g][e] = c
    OBVIOUS
  <2>1. g \in LinkedIn(r) /\ g \in Nodes
    BY <1>2, <1>3, <1>6
  <2>2. r.child[g][e] = c
    BY <1>5, <1>6, <1>7, <2>1 DEF Removed
  <2> QED  BY <2>1, <2>2
<1>10. g # NULL => ~IsRed(r, r.root)
  <2> SUFFICES ASSUME g # NULL, r.root # NULL PROVE ~r.red[r.root]
    BY DEF IsRed
  <2>1. r.root = t.root /\ t.root # x /\ t.root \in Nodes
    BY <1>2, <1>6, <1>7, TreeFields DEF Removed, Places
  <2>2. r.red = [t.red EXCEPT ![x] = FALSE]
    BY <1>7 DEF Removed
  <2>3. ~t.red[t.root]
    BY <2>1 DEF IsRed
  <2> QED  BY <1>2, <2>1, <2>2, <2>3
<1>11. Deficit(r, h, g, e, c, t.red[x])
  BY <1>2, <1>4, <1>5, <1>6, <1>8, <1>9, <1>10 DEF Deficit
<1> QED  BY <1>1, <1>11

LEMMA SubstitutedDeficit ==
  ASSUME NEW t, NEW below, Sound(t, below), NEW n \in LinkedIn(t),
         NEW x \in Nodes, x \notin LinkedIn(t), NEW r, Substituted(t, r, n, x),
         LinkedIn(r) = (LinkedIn(t) \ {n}) \cup {x},
         NEW h, NEW p, NEW e, NEW c, NEW red \in BOOLEAN, Deficit(t, h, p, e, c, red),
         p # NULL, c # n
  PROVE  \E k : Deficit(r, k, Stand(n, x, p), e, c, red)
<1>1. /\ Level(t, h, IF red THEN {} ELSE {<<p, e>>})
      /\ Apart(t, IF red THEN NULL ELSE c)
      /\ red => ~IsRed(t, c)
      /\ e \in Sides /\ p \in Places /\ c \in Places
      /\ p \in LinkedIn(t) /\ t.child[p][e] = c /\ ~IsRed(t, t.root)
  BY DEF Deficit
<1>2. /\ t \in Trees /\ LinkedIn(t) \in SUBSET Nodes /\ n # NULL /\ x # NULL
      /\ n \in Nodes /\ x # n /\ t.root \in LinkedIn(t)
  BY TreeFields DEF Sound, Ordered, LinkedIn, Places
<1>3. PICK q, lack, left :
        /\ q = Stand(n, x, p)
        /\ lack = IF red THEN {} ELSE {<<p, e>>}
        /\ left = IF red THEN {} ELSE {<<q, e>>}
  OBVIOUS
<1>4. \A m \in LinkedIn(t), s \in Sides :
        <<Stand(n, x, m), s>> \in left <=> <<m, s>> \in lack
  <2> SUFFICES ASSUME NEW m \in LinkedIn(t), NEW s \in Sides
               PROVE  <<Stand(n, x, m), s>> \in left <=> <<m, s>> \in lack
    OBVIOUS
  <2>1. Stand(n, x, m) = q <=> m = p
    BY <1>1, <1>3 DEF Stand
  <2> QED  BY <1>3, <2>1
<1>5. PICK except : except = IF red THEN NULL ELSE c
  OBVIOUS
<1>6. /\ Level(r, [h EXCEPT ![x] = h[n]], left)
      /\ Apart(r, except)
  <2>1. Level(t, h, lack) /\ Apart(t, except) /\ except # n
    BY <1>1, <1>2, <1>3, <1>5
  <2> QED  BY <1>4, <2>1, SubstitutedLevel
<1>7. c # NULL => c \in LinkedIn(t)
  BY <1>1, ChildFacts
<1>8. \A m \in Nodes : m # n => r.red[m] = t.red[Stand(x, n, m)]
  BY DEF Substituted
<1>9. red => ~IsRed(r, c)
  <2>1. c # NULL => r.red[c] = t.red[c]
    BY <1>2, <1>7, <1>8 DEF Stand
  <2> QED  BY <1>1, <2>1 DEF IsRed
<1>10. q \in LinkedIn(r) /\ q \in Places /\ q # NULL
  BY <1>1, <1>2, <1>3 DEF Stand, Places
<1>11. r.child[q][e] = c
  <2>1. r.child[q][e] = Stand(n, x, t.child[p][e])
    BY <1>1, <1>3 DEF Substituted
  <2> QED  BY <1>1, <2>1 DEF Stand
<1>12. ~IsRed(r, r.root)
  <2>1. r.root = Stand(n, x, t.root) /\ t.root # NULL /\ t.root \in Nodes
    BY <1>2 DEF Substituted
  <2>2. r.red[Stand(n, x, t.root)] = t.red[t.root]
    BY <1>2, <1>8, <2>1 DEF Stand
  <2> QED  BY <1>1, <1>2, <2>1, <2>2 DEF IsRed
<1>13. Deficit(r, [h EXCEPT ![x] = h[n]], q, e, c, red)
  BY <1>1, <1>3, <1>5, <1>6, <1>9, <1>10, <1>11, <1>12 DEF Deficit
<1> QED  BY <1>3, <1>13

\* What tree_del has done when its loop begins.
LEMMA UnlinkFacts ==
  ASSUME NEW t, NEW below, Sound(t, below), NEW n \in LinkedIn(t),
         NEW h, Level(t, h, {}), Apart(t, NULL), ~IsRed(t, t.root)
  PROVE  LET u == Unlinked(t, n)
             r == Fresh(u.tree, n)
         IN  /\ LinkedIn(r) = LinkedIn(t) \ {n}
             /\ \E B : Sound(r, B)
             /\ u.red \in BOOLEAN
             /\ \E k, e : Deficit(r, k, u.parent, e, u.node, u.red)
<1>1. PICK u, r : u = Unlinked(t, n) /\ r = Fresh(u.tree, n)
  OBVIOUS
<1>2. t \in Trees /\ t.red \in [Nodes -> BOOLEAN] /\ n \in Nodes
  BY TreeFields DEF Sound, LinkedIn
<1>3. CASE NULL \in {t.child[n][s] : s \in Sides}
  <2>1. u = Bypassed(t, n)
    BY <1>1, <1>3 DEF Unlinked
  <2>2. t.parent[n] # n /\ \A s \in Sides : t.child[n][s] # n
    <3>1. t.parent[n] # n
      BY ParentFacts
    <3>2. n # NULL
      BY <1>2
    <3> QED  BY <3>1, <3>2, ChildFacts
  <2>3. PICK cis \in Sides : BypassedOn(t, u, n, cis)
    BY <1>2, <1>3, <2>1, <2>2, BypassFields
  <2>4. /\ t.child[n][Other(cis)] = NULL /\ u.node = t.child[n][cis]
        /\ u.parent = t.parent[n] /\ u.red = t.red[n]
        /\ Removed(t, r, n, t.child[n][cis])
    BY <1>1, <2>3 DEF BypassedOn
  <2>5. LinkedIn(r) = LinkedIn(t) \ {n} /\ Sound(r, BelowRemoved(below, n))
    BY <2>4, RemoveSound
  <2>6. Deficit(r, h, t.parent[n], SideOf(t, t.parent[n], n), t.child[n][cis], t.red[n])
    BY <2>4, RemovedDeficit
  <2>7. u.red \in BOOLEAN
    BY <1>2, <2>4
  <2> QED  BY <1>1, <2>4, <2>5, <2>6, <2>7
<1>4. CASE \A s \in Sides : t.child[n][s] # NULL
  <2>1. u = Succeeded(t, n)
    BY <1>1, <1>4 DEF Unlinked
  <2>2. PICK x : x = Leftmost(t, t.child[n]["right"])
    OBVIOUS
  <2>3. PICK a : /\ Removed(t, a, x, t.child[x]["right"])
                 /\ Substituted(a, r, n, x)
                 /\ u.node = t.child[x]["right"]
                 /\ u.parent = Stand(n, x, t.parent[x])
                 /\ u.red = t.red[x]
    BY <1>1, <1>4, <2>1, <2>2, SucceedFields
  <2>4. Succession(t, below, n, t.child[n]["left"], t.child[n]["right"], x,
                   t.child[x]["right"], t.parent[n])
    BY <1>4, <2>2, SuccessorFacts
  <2>5. /\ LinkedIn(a) = LinkedIn(t) \ {x} /\ n \in LinkedIn(a) /\ x \in LinkedIn(t)
        /\ Sound(a, BelowRemoved(below, x))
        /\ LinkedIn(r) = LinkedIn(t) \ {n}
        /\ \E B : Sound(r, B)
    BY <2>3, <2>4, SucceedSound
  <2>6. /\ t.child[x]["left"] = NULL /\ t.child[x]["right"] # n /\ x # t.root
        /\ x \in Nodes /\ x # n
    BY <2>4 DEF Succession
  <2>7. "right" \in Sides /\ t.child[x][Other("right")] = NULL
    BY <2>6 DEF Sides, Other
  <2>8. t.parent[x] # NULL
    BY <2>5, <2>6, ParentFacts
  <2>9. Deficit(a, h, t.parent[x], SideOf(t, t.parent[x], x), t.child[x]["right"],
                t.red[x])
    BY <2>3, <2>5, <2>7, RemovedDeficit
  <2>10. t.red[x] \in BOOLEAN
    BY <1>2, <2>6
  <2>11. LinkedIn(r) = (LinkedIn(a) \ {n}) \cup {x} /\ x \notin LinkedIn(a)
    BY <2>5, <2>6
  <2>12. \E k : Deficit(r, k, Stand(n, x, t.parent[x]), SideOf(t, t.parent[x], x),
                        t.child[x]["right"], t.red[x])
    BY <2>3, <2>5, <2>6, <2>8, <2>9, <2>10, <2>11, SubstitutedDeficit
  <2> QED  BY <1>1, <2>3, <2>5, <2>10, <2>12
<1> QED  BY <1>3, <1>4

\* Colours that are the same leave all as it was.
LEMMA SameColours ==
  ASSUME NEW t, NEW r, Recolours(t, r), \A m \in LinkedIn(t) : r.red[m] = t.red[m],
         NEW below, Sound(t, below)
  PROVE  /\ \A h, lack : Level(t, h, lack) => Level(r, h, lack)
         /\ \A except : Apart(t, except) => Apart(r, except)
         /\ \A m : (m = NULL \/ m \in LinkedIn(t)) => (IsRed(r, m) <=> IsRed(t, m))
<1>1. LinkedIn(r) = LinkedIn(t) /\ r.child = t.child
  BY RecolourSound DEF Recolours
<1>2. \A m \in LinkedIn(t) : Own(r, m) = Own(t, m)
  BY SameOwn
<1>3. \A m : (m = NULL \/ m \in LinkedIn(t)) => (IsRed(r, m) <=> IsRed(t, m))
  BY DEF IsRed
<1>4. \A m \in LinkedIn(t), s \in Sides :
        t.child[m][s] = NULL \/ t.child[m][s] \in LinkedIn(t)
  BY ChildFacts
<1>5. ASSUME NEW h, NEW lack, Level(t, h, lack) PROVE Level(r, h, lack)
  BY <1>1, <1>2, <1>5 DEF Level
<1>6. ASSUME NEW except, Apart(t, except) PROVE Apart(r, except)
  BY <1>1, <1>3, <1>4, <1>6 DEF Apart
<1> QED  BY <1>3, <1>5, <1>6

LEMMA RedFields ==
  ASSUME NEW t \in Trees, NEW n \in Nodes, NEW v \in BOOLEAN
  PROVE  LET r == [t EXCEPT !.red[n] = v]
         IN  Recolours(t, r) /\ r.red = [t.red EXCEPT ![n] = v]
<1>1. PICK r : r = [t EXCEPT !.red[n] = v]
  OBVIOUS
<1>2. r \in Trees
  BY <1>1 DEF Trees
<1>3. /\ r.root = t.root /\ r.child = t.child /\ r.parent = t.parent
      /\ r.red = [t.red EXCEPT ![n] = v]
  BY <1>1 DEF Trees
<1> QED  BY <1>1, <1>2, <1>3 DEF Recolours

\* A red node where the tree lacks a black one makes up for it.
LEMMA BlackenLevel ==
  ASSUME NEW t, NEW below, Sound(t, below), NEW c \in LinkedIn(t), t.red[c],
         NEW h, NEW lack, Level(t, h, lack), Apart(t, c),
         \A m \in LinkedIn(t), s \in Sides : <<m, s>> \in lack <=> t.child[m][s] = c
  PROVE  LET r == Blackened(t, c)
         IN  /\ Recolours(t, r)
             /\ \E k : Level(r, k, {})
             /\ Apart(r, NULL)
             /\ ~r.red[c]
             /\ \A m \in Nodes : m # c => r.red[m] = t.red[m]
<1>1. /\ t \in Trees /\ LinkedIn(t) \in SUBSET Nodes /\ c \in Nodes /\ c # NULL
      /\ t.red \in [Nodes -> BOOLEAN]
  BY TreeFields DEF Sound, LinkedIn
<1>2. PICK r : r = Blackened(t, c)
  OBVIOUS
<1>3. Recolours(t, r) /\ r.red = [t.red EXCEPT ![c] = FALSE]
  <2>1. r = [t EXCEPT !.red[c] = FALSE]
    BY <1>1, <1>2 DEF Blackened
  <2> QED  BY <1>1, <2>1, RedFields
<1>4. LinkedIn(r) = LinkedIn(t) /\ r.child = t.child
  BY <1>3, RecolourSound DEF Recolours
<1>5. ~r.red[c] /\ \A m \in Nodes : m # c => r.red[m] = t.red[m]
  BY <1>1, <1>3
<1>6. PICK k : k = [h EXCEPT ![c] = h[c] + 1]
  OBVIOUS
<1>7. /\ h \in [Nodes -> Nat] /\ k \in [Nodes -> Nat]
      /\ k[c] = h[c] + 1 /\ \A m \in Nodes : m # c => k[m] = h[m]
  BY <1>1, <1>6 DEF Level
<1>8. \A m \in LinkedIn(t), s \in Sides :
        t.child[m][s] \in Places /\ t.child[c][s] # c
  BY <1>1, ChildFacts, TreeFields
<1>9. Level(r, k, {})
  <2> SUFFICES ASSUME NEW m \in LinkedIn(t), NEW s \in Sides
               PROVE  k[m] = Own(r, m) + High(k, t.child[m][s]) + Lack({}, m, s)
    BY <1>4, <1>7 DEF Level
  <2>1. h[m] = Own(t, m) + High(h, t.child[m][s]) + Lack(lack, m, s)
    BY DEF Level
  <2>2. Lack({}, m, s) = 0
    BY DEF Lack
  <2>3. Lack(lack, m, s) = IF t.child[m][s] = c THEN 1 ELSE 0
    BY DEF Lack
  <2>4. High(k, t.child[m][s]) = High(h, t.child[m][s]) + Lack(lack, m, s)
        /\ High(h, t.child[m][s]) \in Nat
    BY <1>1, <1>7, <1>8, <2>3 DEF High, Places
  <2>5. CASE m = c
    <3>1. Own(r, m) = 1 /\ Own(t, m) = 0 /\ Lack(lack, m, s) = 0
      BY <1>5, <1>8, <2>3, <2>5 DEF Own
    <3> QED  BY <1>7, <2>1, <2>2, <2>4, <2>5, <3>1
  <2>6. CASE m # c
    <3>1. Own(r, m) = Own(t, m) /\ Own(t, m) \in Nat /\ k[m] = h[m]
      BY <1>1, <1>5, <1>7, <2>6, SameOwn DEF Own
    <3>2. Lack(lack, m, s) \in Nat
      BY <2>3
    <3> QED  BY <2>1, <2>2, <2>4, <3>1, <3>2
  <2> QED  BY <2>5, <2>6
<1>10. Apart(r, NULL)
  <2> SUFFICES ASSUME NEW m \in LinkedIn(t), NEW s \in Sides,
                      r.red[m], IsRed(r, t.child[m][s])
               PROVE  FALSE
    BY <1>4 DEF Apart
  <2>1. t.child[m][s] # c /\ t.child[m][s] \in Nodes /\ m # c
    BY <1>1, <1>5, <1>8 DEF IsRed, Places
  <2>2. t.red[m] /\ IsRed(t, t.child[m][s])
    BY <1>1, <1>5, <2>1 DEF IsRed
  <2> QED  BY <2>1, <2>2 DEF Apart
<1> QED  BY <1>2, <1>3, <1>5, <1>9, <1>10

-----------------------------------------------------------------------------
(* Rotation and the colours.                                               *)

\* The children of every node after the rotation at p, over which q rises
\* with its child f, while p takes its child b.
Turned(t, r, cis, p, q, b, f) ==
  /\ r.child[p][cis] = t.child[p][cis]
  /\ r.child[p][Other(cis)] = b
  /\ r.child[q][cis] = p
  /\ r.child[q][Other(cis)] = f
  /\ p \in LinkedIn(t) /\ q \in LinkedIn(t) /\ q # p
  /\ \A m \in LinkedIn(t), s \in Sides :
       m # p /\ m # q =>
         \/ t.child[m][s] = p /\ r.child[m][s] = q
         \/ /\ r.child[m][s] = t.child[m][s]
            /\ t.child[m][s] # p /\ t.child[m][s] # q
            /\ t.child[m][s] = f => f = NULL

LEMMA RotatedChildren ==
  ASSUME NEW t, NEW below, Sound(t, below), NEW cis \in Sides,
         NEW p \in LinkedIn(t), NEW q, q = t.child[p][Other(cis)], q # NULL,
         NEW r, Rotated(t, r, cis, p)
  PROVE  Turned(t, r, cis, p, q, t.child[q][cis], t.child[q][Other(cis)])
<1>1. PICK f, b, g :
        /\ f = t.child[q][Other(cis)] /\ b = t.child[q][cis] /\ g = t.parent[p]
  OBVIOUS
<1>2. /\ p \in Nodes /\ q \in LinkedIn(t) /\ q \in Nodes /\ q # p /\ q # NULL
      /\ g # p /\ g # q
      /\ g # NULL => t.child[g][SideOf(t, g, p)] = p
  <2>1. /\ p \in Nodes /\ q \in LinkedIn(t) /\ q \in Nodes /\ q # p
        /\ g # p /\ g # q
        /\ g # NULL => t.child[g][SideOf(t, g, p)] = p
    BY <1>1, RotatePlaces
  <2> QED  BY <1>1, <2>1
<1>3. \A n \in Nodes, s \in Sides :
        r.child[n][s] = IF n = p THEN IF s = cis THEN t.child[p][s] ELSE b
                        ELSE IF n = q THEN IF s = cis THEN p ELSE t.child[q][s]
                        ELSE IF n = g /\ s = SideOf(t, g, p) THEN q
                        ELSE t.child[n][s]
  BY <1>1 DEF Rotated
<1>4. cis \in Sides /\ Other(cis) \in Sides /\ Other(cis) # cis
  BY SideFacts
<1>5. /\ r.child[p][cis] = t.child[p][cis] /\ r.child[p][Other(cis)] = b
      /\ r.child[q][cis] = p /\ r.child[q][Other(cis)] = f
  BY <1>1, <1>2, <1>3, <1>4
<1>6. LinkedIn(t) \in SUBSET Nodes
  BY DEF LinkedIn
<1>7. \A m \in LinkedIn(t), s \in Sides :
        t.child[m][s] # NULL => t.parent[t.child[m][s]] = m
  BY ChildFacts
<1>8. t.parent[q] = p /\ (f # NULL => t.parent[f] = q)
  BY <1>1, <1>2, <1>4, <1>7
<1>9. \A m \in LinkedIn(t), s \in Sides :
        t.child[m][s] = p => m = g /\ s = SideOf(t, g, p)
  BY <1>1, ParentFacts
<1>10. ASSUME NEW m \in LinkedIn(t), NEW s \in Sides, m # p, m # q
       PROVE  \/ t.child[m][s] = p /\ r.child[m][s] = q
              \/ /\ r.child[m][s] = t.child[m][s]
                 /\ t.child[m][s] # p /\ t.child[m][s] # q
                 /\ t.child[m][s] = f => f = NULL
  <2>1. CASE m = g /\ s = SideOf(t, g, p)
    <3>1. g # NULL /\ m \in Nodes
      BY <1>6, <2>1, TreeAssumption
    <3> QED  BY <1>2, <1>3, <1>10, <2>1, <3>1
  <2>2. CASE ~(m = g /\ s = SideOf(t, g, p))
    <3>1. r.child[m][s] = t.child[m][s] /\ t.child[m][s] # p
      BY <1>3, <1>6, <1>9, <1>10, <2>2
    <3>2. t.child[m][s] # q /\ (t.child[m][s] = f => f = NULL)
      BY <1>2, <1>7, <1>8, <1>10
    <3> QED  BY <3>1, <3>2
  <2> QED  BY <2>1, <2>2
<1>11. Turned(t, r, cis, p, q, b, f)
  BY <1>2, <1>5, <1>10 DEF Turned
<1> QED  BY <1>1, <1>11

\* The levels after a rotation: those of p and q are new, and that of f when
\* its colour is.
LEMMA TurnedLevel ==
  ASSUME NEW t, NEW below, Sound(t, below), NEW r \in Trees,
         LinkedIn(r) = LinkedIn(t), NEW cis \in Sides,
         NEW p, NEW q, NEW b, NEW f, Turned(t, r, cis, p, q, b, f),
         NEW h, NEW lack, Level(t, h, lack),
         NEW k \in [Nodes -> Nat], NEW left,
         k[q] = h[p],
         \A m \in LinkedIn(t) :
           m # p /\ m # q =>
             /\ k[m] - Own(r, m) = h[m] - Own(t, m)
             /\ m # f => k[m] = h[m]
             /\ \A s \in Sides : Lack(left, m, s) = Lack(lack, m, s),
         k[p] = Own(r, p) + High(k, t.child[p][cis]) + Lack(left, p, cis),
         k[p] = Own(r, p) + High(k, b) + Lack(left, p, Other(cis)),
         k[q] = Own(r, q) + k[p] + Lack(left, q, cis),
         k[q] = Own(r, q) + High(k, f) + Lack(left, q, Other(cis))
  PROVE  Level(r, k, left)
<1>1. /\ LinkedIn(t) \in SUBSET Nodes /\ h \in [Nodes -> Nat] /\ t \in Trees
      /\ p \in Nodes /\ q \in Nodes /\ p # NULL /\ q # NULL
  BY DEF Turned, Level, LinkedIn, Sound
<1>2. \A s \in Sides : s = cis \/ s = Other(cis)
  BY SideFacts
<1>3. SUFFICES ASSUME NEW m \in LinkedIn(t), NEW s \in Sides
               PROVE  k[m] = Own(r, m) + High(k, r.child[m][s]) + Lack(left, m, s)
  BY DEF Level
<1>4. CASE m = p
  BY <1>2, <1>4 DEF Turned
<1>5. CASE m = q
  <2>1. High(k, p) = k[p]
    BY <1>1 DEF High
  <2> QED  BY <1>2, <1>5, <2>1 DEF Turned
<1>6. CASE m # p /\ m # q
  <2>1. h[m] = Own(t, m) + High(h, t.child[m][s]) + Lack(lack, m, s)
    BY DEF Level
  <2>2. High(k, r.child[m][s]) = High(h, t.child[m][s])
    <3>1. CASE t.child[m][s] = p /\ r.child[m][s] = q
      BY <1>1, <3>1 DEF High
    <3>2. CASE /\ r.child[m][s] = t.child[m][s]
               /\ t.child[m][s] # p /\ t.child[m][s] # q
               /\ t.child[m][s] = f => f = NULL
      <4>1. t.child[m][s] = NULL \/ t.child[m][s] \in LinkedIn(t)
        BY ChildFacts
      <4> QED  BY <3>2, <4>1 DEF High
    <3> QED  BY <1>6, <3>1, <3>2 DEF Turned
  <2>3. /\ k[m] - Own(r, m) = h[m] - Own(t, m)
        /\ Lack(left, m, s) = Lack(lack, m, s)
    BY <1>6
  <2>4. Own(r, m) \in Int /\ Own(t, m) \in Int /\ Lack(lack, m, s) \in Int
    BY DEF Own, Lack
  <2>5. k[m] \in Int /\ h[m] \in Int /\ High(h, t.child[m][s]) \in Int
    BY <1>1, TreeFields DEF High, Places
  <2> QED  BY <2>1, <2>2, <2>3, <2>4, <2>5
<1> QED  BY <1>4, <1>5, <1>6

\* The red pairs after a rotation.
LEMMA TurnedApart ==
  ASSUME NEW t, NEW r, LinkedIn(r) = LinkedIn(t), NEW cis \in Sides,
         NEW p, NEW q, NEW b, NEW f, Turned(t, r, cis, p, q, b, f), NEW except,
         \A m \in LinkedIn(t), s \in Sides :
           m # p /\ m # q /\ r.red[m] =>
             /\ t.child[m][s] = p /\ IsRed(r, q) => q = except
             /\ t.child[m][s] # p /\ IsRed(r, t.child[m][s]) => t.child[m][s] = except,
         r.red[p] /\ IsRed(r, t.child[p][cis]) => t.child[p][cis] = except,
         r.red[p] /\ IsRed(r, b) => b = except,
         r.red[q] /\ IsRed(r, p) => p = except,
         r.red[q] /\ IsRed(r, f) => f = except
  PROVE  Apart(r, except)
<1>1. \A s \in Sides : s = cis \/ s = Other(cis)
  BY SideFacts
<1>2. SUFFICES ASSUME NEW m \in LinkedIn(t), NEW s \in Sides,
                      r.red[m], IsRed(r, r.child[m][s])
               PROVE  r.child[m][s] = except
  BY DEF Apart
<1>3. CASE m = p
  BY <1>1, <1>2, <1>3 DEF Turned
<1>4. CASE m = q
  BY <1>1, <1>2, <1>4 DEF Turned
<1>5. CASE m # p /\ m # q
  BY <1>2, <1>5 DEF Turned
<1> QED  BY <1>3, <1>4, <1>5

-----------------------------------------------------------------------------
(* The invariant.                                                          *)

ShortIn(t, c) == c.op = "del" /\ c.node # t.root

Calls == [op : {"none", "add", "del"}, node : Places, parent : Places]

(* The tree t while the call c is at work: a search tree whose ways down   *)
(* pass equally many black nodes, but for the place where a removal lacks  *)
(* one, and which has no red pair but for the node of an addition.         *)
Good(t, c) ==
  /\ c \in Calls
  /\ c.op = "none" => c = Idle
  /\ \E below : Sound(t, below)
  /\ \E h : Level(t, h, IF ShortIn(t, c)
                        THEN {<<c.parent, SideOf(t, c.parent, c.node)>>} ELSE {})
  /\ Apart(t, IF c.op = "add" THEN c.node ELSE NULL)
  /\ IsRed(t, t.root) => c.op = "add" /\ c.node = t.root
  /\ c.op = "add" => /\ c.node \in LinkedIn(t) /\ t.red[c.node]
                     /\ c.parent = t.parent[c.node]
  /\ c.op = "del" => ~IsRed(t, c.node)
  /\ ShortIn(t, c) =>
       /\ c.parent \in LinkedIn(t)
       /\ t.child[c.parent][SideOf(t, c.parent, c.node)] = c.node

IInv == Good(tree, call)

LEMMA GoodIdle ==
  ASSUME NEW t, NEW below, Sound(t, below), NEW h, Level(t, h, {}),
         Apart(t, NULL), ~IsRed(t, t.root)
  PROVE  Good(t, Idle)
<1>1. Idle \in Calls /\ Idle.op = "none" /\ ~ShortIn(t, Idle)
  BY DEF Idle, Calls, Places, ShortIn
<1> QED  BY <1>1 DEF Good

LEMMA GoodAdd ==
  ASSUME NEW t, NEW below, Sound(t, below), NEW h, Level(t, h, {}),
         NEW n \in LinkedIn(t), t.red[n], Apart(t, n),
         IsRed(t, t.root) => n = t.root
  PROVE  Good(t, [op |-> "add", node |-> n, parent |-> t.parent[n]])
<1>1. PICK c : c = [op |-> "add", node |-> n, parent |-> t.parent[n]]
  OBVIOUS
<1>2. n \in Nodes /\ t.parent[n] \in Places
  BY TreeFields DEF LinkedIn, Sound
<1>3. c \in Calls /\ c.op = "add" /\ c.node = n /\ ~ShortIn(t, c)
      /\ c.parent = t.parent[n]
  BY <1>1, <1>2 DEF Calls, Places, ShortIn
<1>4. Good(t, c)
  BY <1>3 DEF Good
<1> QED  BY <1>1, <1>4

\* The side on which a place lacks a black node is the side SideOf tells.
LEMMA LackingSide ==
  ASSUME NEW t, NEW below, Sound(t, below), NEW h, NEW p \in LinkedIn(t),
         NEW e \in Sides, Level(t, h, {<<p, e>>}), NEW c, t.child[p][e] = c
  PROVE  SideOf(t, p, c) = e
<1>1. t.child[p][Other(e)] # c
  <2>1. CASE c # NULL
    BY <2>1, ChildFacts
  <2>2. CASE c = NULL
    <3>1. Other(e) \in Sides /\ Other(e) # e
      BY SideFacts
    <3>2. /\ h[p] = Own(t, p) + High(h, NULL) + Lack({<<p, e>>}, p, e)
          /\ h[p] = Own(t, p) + High(h, t.child[p][Other(e)])
                      + Lack({<<p, e>>}, p, Other(e))
      BY <2>2, <3>1 DEF Level
    <3>3. Lack({<<p, e>>}, p, e) = 1 /\ Lack({<<p, e>>}, p, Other(e)) = 0
      BY <3>1 DEF Lack
    <3>4. Own(t, p) \in Int /\ High(h, NULL) = 0
      BY DEF Own, High
    <3> QED  BY <2>2, <3>2, <3>3, <3>4
  <2> QED  BY <2>1, <2>2
<1> QED  BY <1>1 DEF SideOf, Sides, Other

LEMMA GoodDel ==
  ASSUME NEW t, NEW below, Sound(t, below), NEW h, NEW p \in Places, NEW e \in Sides,
         NEW c \in Places, Level(t, h, {<<p, e>>}), Apart(t, NULL),
         ~IsRed(t, t.root), ~IsRed(t, c),
         p = NULL => t.root = c,
         p # NULL => p \in LinkedIn(t) /\ t.child[p][e] = c
  PROVE  Good(t, [op |-> "del", node |-> c, parent |-> p])
<1>1. PICK d : d = [op |-> "del", node |-> c, parent |-> p]
  OBVIOUS
<1>2. d \in Calls /\ d.op = "del" /\ d.node = c /\ d.parent = p
  BY <1>1 DEF Calls
<1>3. CASE p = NULL
  <2>1. ~ShortIn(t, d)
    BY <1>2, <1>3 DEF ShortIn
  <2>2. Level(t, h, {})
    <3>1. \A m \in LinkedIn(t), s \in Sides : Lack({<<p, e>>}, m, s) = Lack({}, m, s)
      BY <1>3 DEF Lack, LinkedIn
    <3> QED  BY <3>1 DEF Level
  <2> QED  BY <1>1, <1>2, <2>1, <2>2 DEF Good
<1>4. CASE p # NULL
  <2>1. p \in LinkedIn(t) /\ t.child[p][e] = c
    BY <1>4
  <2>2. c # t.root
    <3>1. t.root # NULL
      BY <2>1 DEF Sound, Ordered
    <3> QED  BY <2>1, <3>1, ChildFacts
  <2>3. ShortIn(t, d)
    BY <1>2, <2>2 DEF ShortIn
  <2>4. SideOf(t, p, c) = e
    BY <2>1, LackingSide
  <2> QED  BY <1>1, <1>2, <2>1, <2>3, <2>4 DEF Good
<1> QED  BY <1>3, <1>4

-----------------------------------------------------------------------------
(* tree_add and tree_del before their loops.                               *)

LEMMA InitGood == Init => IInv
<1> SUFFICES ASSUME Init PROVE Good(tree, call)
  BY DEF IInv
<1>1. tree \in Trees /\ tree.root = NULL /\ call = Idle
  BY DEF Init, Trees, Places
<1>2. LinkedIn(tree) = {}
  BY DEF Init, LinkedIn
<1>3. PICK below, h : below = [n \in Nodes |-> {}] /\ h = [n \in Nodes |-> 0]
  OBVIOUS
<1>4. Sound(tree, below)
  BY <1>1, <1>2, <1>3 DEF Sound, Agreed, Ordered
<1>5. Level(tree, h, {}) /\ Apart(tree, NULL) /\ ~IsRed(tree, tree.root)
  BY <1>1, <1>2, <1>3 DEF Level, Apart, IsRed
<1> QED  BY <1>1, <1>4, <1>5, GoodIdle

\* What the invariant says of an idle tree.
LEMMA IdleFacts ==
  ASSUME NEW t, Good(t, Idle)
  PROVE  \E below, h : /\ Sound(t, below) /\ Level(t, h, {}) /\ Apart(t, NULL)
                       /\ ~IsRed(t, t.root)
<1>1. Idle.op = "none" /\ ~ShortIn(t, Idle)
  BY DEF Idle, ShortIn
<1> QED  BY <1>1 DEF Good

LEMMA AddFacts ==
  ASSUME NEW t, NEW below, Sound(t, below), NEW n \in Nodes,
         tree_find(t, Key[n]) = NULL,
         NEW h, Level(t, h, {}), Apart(t, NULL), ~IsRed(t, t.root)
  PROVE  LET r == Linked(t, n)
         IN  /\ LinkedIn(r) = LinkedIn(t) \cup {n} /\ n \notin LinkedIn(t)
             /\ Good(r, [op |-> "add", node |-> n, parent |-> r.parent[n]])
<1>1. PICK r, p : r = Linked(t, n) /\ p = Bottom(t, Key[n])
  OBVIOUS
<1>2. /\ t \in Trees /\ LinkedIn(t) \in SUBSET Nodes /\ Key[n] \in Int /\ n # NULL
      /\ t.red \in [Nodes -> BOOLEAN]
  BY TreeFields DEF Sound, LinkedIn
<1>3. PICK met : PathTo(t, Key[n], met, p)
  BY <1>1, <1>2, BottomEndsPath
<1>4. n \notin LinkedIn(t)
  BY <1>2, LinkedIsFound
<1>5. p \in Places /\ p # n /\ (p # NULL => p \in LinkedIn(t))
  BY <1>2, <1>3, <1>4 DEF PathTo, Places
<1>6. LinkedTo(t, r, n, p)
  BY <1>1, <1>2, <1>5, LinkFields
<1>7. /\ LinkedIn(r) = LinkedIn(t) \cup {n}
      /\ Sound(r, BelowLinked(below, met, n))
  BY <1>3, <1>6, LinkSound
<1>8. /\ r.root = IF p = NULL THEN n ELSE t.root
      /\ \A m \in Nodes, z \in Sides :
           r.child[m][z] = IF m = n THEN NULL
                           ELSE IF m = p /\ z = Toward(Key[n], p) THEN n
                           ELSE t.child[m][z]
      /\ r.red = [t.red EXCEPT ![n] = TRUE]
  <2>1. r.red = [t.red EXCEPT ![n] = TRUE]
    BY <1>6 DEF LinkedTo
  <2> QED  BY <1>6, <2>1 DEF LinkedTo
<1>9. r.red[n] /\ \A m \in Nodes : m # n => r.red[m] = t.red[m]
  BY <1>2, <1>8
<1>10. p # NULL => t.child[p][Toward(Key[n], p)] = NULL
  BY <1>3 DEF PathTo
<1>11. PICK k : k = [h EXCEPT ![n] = 0]
  OBVIOUS
<1>12. /\ h \in [Nodes -> Nat] /\ k \in [Nodes -> Nat] /\ k[n] = 0
       /\ \A m \in Nodes : m # n => k[m] = h[m]
  BY <1>11 DEF Level
<1>13. \A m \in LinkedIn(t), s \in Sides :
         t.child[m][s] = NULL \/ t.child[m][s] \in LinkedIn(t)
  BY ChildFacts
<1>14. ASSUME NEW m \in LinkedIn(t), NEW s \in Sides
       PROVE  /\ High(k, r.child[m][s]) = High(h, t.child[m][s])
              /\ r.child[m][s] = n \/ r.child[m][s] = t.child[m][s]
  <2>1. m \in Nodes /\ m # n
    BY <1>2, <1>4
  <2>2. CASE m = p /\ s = Toward(Key[n], p)
    <3>1. r.child[m][s] = n /\ t.child[m][s] = NULL
      BY <1>2, <1>8, <1>10, <2>1, <2>2
    <3> QED  BY <1>2, <1>12, <3>1 DEF High
  <2>3. CASE ~(m = p /\ s = Toward(Key[n], p))
    <3>1. r.child[m][s] = t.child[m][s]
      BY <1>8, <2>1, <2>3
    <3> QED  BY <1>2, <1>4, <1>12, <1>13, <3>1 DEF High
  <2> QED  BY <2>2, <2>3
<1>15. Level(r, k, {})
  <2> SUFFICES ASSUME NEW m \in LinkedIn(r), NEW s \in Sides
               PROVE  k[m] = Own(r, m) + High(k, r.child[m][s]) + Lack({}, m, s)
    BY <1>12 DEF Level
  <2>1. Lack({}, m, s) = 0
    BY DEF Lack
  <2>2. CASE m = n
    BY <1>8, <1>9, <1>12, <2>1, <2>2 DEF Own, High
  <2>3. CASE m # n
    <3>1. m \in LinkedIn(t) /\ m \in Nodes
      BY <1>2, <1>7, <2>3
    <3>2. h[m] = Own(t, m) + High(h, t.child[m][s]) + Lack({}, m, s)
      BY <3>1 DEF Level
    <3>3. Own(r, m) = Own(t, m)
      BY <1>9, <2>3, <3>1, SameOwn
    <3> QED  BY <1>12, <1>14, <2>3, <3>1, <3>2, <3>3
  <2> QED  BY <2>2, <2>3
<1>16. Apart(r, n)
  <2> SUFFICES ASSUME NEW m \in LinkedIn(r), NEW s \in Sides,
                      r.red[m], IsRed(r, r.child[m][s]), r.child[m][s] # n
               PROVE  FALSE
    BY DEF Apart
  <2>1. m # n
    BY <1>2, <1>8 DEF IsRed
  <2>2. m \in LinkedIn(t) /\ m \in Nodes
    BY <1>2, <1>7, <2>1
  <2>3. r.child[m][s] = t.child[m][s] /\ t.child[m][s] \in LinkedIn(t)
    BY <1>13, <1>14, <2>2 DEF IsRed
  <2>4. t.red[m] /\ IsRed(t, t.child[m][s])
    BY <1>2, <1>9, <2>1, <2>2, <2>3 DEF IsRed
  <2> QED  BY <2>2, <2>4 DEF Apart, IsRed
<1>17. IsRed(r, r.root) => n = r.root
  <2> SUFFICES ASSUME IsRed(r, r.root), n # r.root PROVE FALSE
    OBVIOUS
  <2>1. r.root = t.root /\ t.root \in Nodes
    BY <1>2, <1>8, TreeFields DEF IsRed, Places
  <2>2. IsRed(t, t.root)
    BY <1>9, <2>1 DEF IsRed
  <2> QED  BY <2>2
<1>18. n \in LinkedIn(r)
  BY <1>7
<1>19. Good(r, [op |-> "add", node |-> n, parent |-> r.parent[n]])
  BY <1>7, <1>9, <1>15, <1>16, <1>17, <1>18, GoodAdd
<1> QED  BY <1>1, <1>4, <1>7, <1>19

-----------------------------------------------------------------------------
(* The loop of tree_add.                                                   *)

\* n and its parent p are red, and its grandparent g is black; p hangs on
\* the side cis of g, and u on the other.
RedPair(t, below, h, n, p, g, cis, u) ==
  /\ Sound(t, below) /\ Level(t, h, {}) /\ Apart(t, n)
  /\ n \in LinkedIn(t) /\ p \in LinkedIn(t) /\ g \in LinkedIn(t)
  /\ t.red[n] /\ t.red[p] /\ ~t.red[g] /\ ~IsRed(t, t.root)
  /\ t.parent[n] = p /\ t.parent[p] = g /\ (\E s \in Sides : t.child[p][s] = n)
  /\ cis \in Sides /\ t.child[g][cis] = p /\ t.child[g][Other(cis)] = u
  /\ n # p /\ n # g /\ p # g /\ u # p /\ u # g /\ u # n
  /\ n # t.root /\ p # t.root

LEMMA RebalancingFacts ==
  ASSUME IInv, Rebalancing
  PROVE  /\ call.op = "add"
         /\ \E below, h : RedPair(tree, below, h, call.node, call.parent, Grandparent,
                                  InsertSide, Uncle)
<1>1. PICK n, p, g, cis, u :
        /\ n = call.node /\ p = call.parent /\ g = Grandparent
        /\ cis = InsertSide /\ u = Uncle
  OBVIOUS
<1>2. /\ g = tree.parent[p] /\ cis = SideOf(tree, g, p)
      /\ u = tree.child[g][Other(cis)]
  BY <1>1 DEF Grandparent, InsertSide, Uncle
<1>3. call.op = "add" /\ ~ShortIn(tree, call) /\ p # NULL /\ tree.red[p]
  BY <1>1 DEF Rebalancing, IsRed, ShortIn
<1>4. PICK below, h : Sound(tree, below) /\ Level(tree, h, {})
  BY <1>3 DEF IInv, Good
<1>5. /\ Apart(tree, n) /\ n \in LinkedIn(tree) /\ tree.red[n]
      /\ p = tree.parent[n] /\ (IsRed(tree, tree.root) => n = tree.root)
  BY <1>1, <1>3 DEF IInv, Good
<1>6. n # tree.root /\ p \in LinkedIn(tree) /\ n # p
  BY <1>3, <1>5, <1>4, ParentFacts
<1>7. ~IsRed(tree, tree.root) /\ p # tree.root
  BY <1>3, <1>5, <1>6 DEF IsRed
<1>8. /\ g \in LinkedIn(tree) /\ g # p /\ g # NULL
      /\ tree.child[g][cis] = p
  BY <1>2, <1>4, <1>6, <1>7, ParentFacts
<1>9. PICK s \in Sides : tree.child[p][s] = n
  BY <1>4, <1>5, <1>6 DEF Sound, Agreed
<1>10. cis \in Sides /\ Other(cis) \in Sides
  BY <1>2, SideOfSides, SideFacts
<1>11. n # NULL
  BY <1>5 DEF LinkedIn
<1>12. n # g
  <2>1. g \notin below[p]
    BY <1>3, <1>4, <1>8, <1>10, ChildFacts
  <2>2. n \in below[n] /\ below[n] \subseteq below[p]
    BY <1>4, <1>6, <1>9, <1>11, ChildFacts
  <2> QED  BY <2>1, <2>2
<1>13. ~tree.red[g]
  <2>1. tree.red[g] => p = n
    BY <1>3, <1>5, <1>8, <1>10 DEF Apart, IsRed
  <2> QED  BY <1>6, <2>1
<1>14. u # p
  BY <1>2, <1>3, <1>4, <1>8, <1>10, ChildFacts
<1>15. u # g /\ u # n
  <2>1. u # NULL => u # g /\ tree.parent[u] = g
    BY <1>2, <1>4, <1>8, <1>10, ChildFacts
  <2> QED  BY <1>5, <1>8, <1>11, <2>1
<1>16. RedPair(tree, below, h, n, p, g, cis, u)
  BY <1>2, <1>3, <1>4, <1>5, <1>6, <1>7, <1>8, <1>9, <1>10, <1>12, <1>13, <1>14,
     <1>15 DEF RedPair
<1> QED  BY <1>1, <1>3, <1>16

LEMMA RedFields3 ==
  ASSUME NEW t \in Trees, NEW p \in Nodes, NEW u \in Nodes, NEW g \in Nodes
  PROVE  LET r == Recoloured(t, p, u, g)
         IN  /\ Recolours(t, r)
             /\ r.red = [[[t.red EXCEPT ![p] = FALSE] EXCEPT ![u] = FALSE]
                           EXCEPT ![g] = TRUE]
<1>1. PICK r : r = Recoloured(t, p, u, g)
  OBVIOUS
<1>2. /\ r.root = t.root /\ r.child = t.child /\ r.parent = t.parent
      /\ r.red = [[[t.red EXCEPT ![p] = FALSE] EXCEPT ![u] = FALSE] EXCEPT ![g] = TRUE]
  BY <1>1 DEF Recoloured, Trees
<1>3. r \in Trees
  BY <1>1 DEF Recoloured, Trees
<1> QED  BY <1>1, <1>2, <1>3 DEF Recolours

\* A red uncle: the red pair moves up.
LEMMA RecolourGood ==
  ASSUME NEW t, NEW below, NEW h, NEW n, NEW p, NEW g, NEW cis, NEW u,
         RedPair(t, below, h, n, p, g, cis, u), IsRed(t, u)
  PROVE  LET r == Recoloured(t, p, u, g)
         IN  /\ LinkedIn(r) = LinkedIn(t)
             /\ r.parent = t.parent
             /\ Sound(r, below)
             /\ Good(r, [op |-> "add", node |-> g, parent |-> t.parent[g]])
<1>1. PICK r : r = Recoloured(t, p, u, g)
  OBVIOUS
<1>2. /\ Sound(t, below) /\ Level(t, h, {}) /\ Apart(t, n)
      /\ n \in LinkedIn(t) /\ p \in LinkedIn(t) /\ g \in LinkedIn(t)
      /\ t.red[n] /\ t.red[p] /\ ~t.red[g] /\ ~IsRed(t, t.root)
      /\ cis \in Sides /\ t.child[g][cis] = p /\ t.child[g][Other(cis)] = u
      /\ t.parent[n] = p
      /\ n # p /\ n # g /\ p # g /\ u # p /\ u # g /\ u # n
  BY DEF RedPair
<1>3. /\ t \in Trees /\ LinkedIn(t) \in SUBSET Nodes /\ u # NULL /\ t.red[u]
      /\ t.red \in [Nodes -> BOOLEAN] /\ h \in [Nodes -> Nat]
  BY <1>2, TreeFields DEF Sound, LinkedIn, IsRed, Level
<1>4. Other(cis) \in Sides /\ \A s \in Sides : s = cis \/ s = Other(cis)
  BY <1>2, SideFacts
<1>5. u \in LinkedIn(t) /\ t.parent[u] = g /\ t.parent[p] = g
  <2>1. p # NULL
    BY <1>2, <1>3
  <2> QED  BY <1>2, <1>3, <1>4, <2>1, ChildFacts
<1>6. /\ Recolours(t, r)
      /\ r.red = [[[t.red EXCEPT ![p] = FALSE] EXCEPT ![u] = FALSE] EXCEPT ![g] = TRUE]
  BY <1>1, <1>2, <1>3, <1>5, RedFields3
<1>7. /\ ~r.red[p] /\ ~r.red[u] /\ r.red[g]
      /\ \A m \in Nodes : m # p /\ m # u /\ m # g => r.red[m] = t.red[m]
  BY <1>2, <1>3, <1>5, <1>6
<1>8. /\ LinkedIn(r) = LinkedIn(t) /\ Sound(r, below)
      /\ r.child = t.child /\ r.parent = t.parent /\ r.root = t.root
  BY <1>2, <1>6, RecolourSound DEF Recolours
<1>9. PICK k : k = [m \in Nodes |-> IF m = p \/ m = u THEN h[m] + 1 ELSE h[m]]
  OBVIOUS
<1>10. /\ k \in [Nodes -> Nat]
       /\ \A m \in Nodes : k[m] = IF m = p \/ m = u THEN h[m] + 1 ELSE h[m]
  BY <1>3, <1>9
<1>11. \A m \in LinkedIn(t), s \in Sides :
         /\ t.child[m][s] = NULL \/ t.child[m][s] \in LinkedIn(t)
         /\ t.child[m][s] # NULL => t.parent[t.child[m][s]] = m
  BY <1>2, ChildFacts
<1>12. Level(r, k, {})
  <2> SUFFICES ASSUME NEW m \in LinkedIn(t), NEW s \in Sides
               PROVE  k[m] = Own(r, m) + High(k, t.child[m][s]) + Lack({}, m, s)
    BY <1>8, <1>10 DEF Level
  <2>1. h[m] = Own(t, m) + High(h, t.child[m][s]) + Lack({}, m, s) /\ Lack({}, m, s) = 0
    BY <1>2 DEF Level, Lack
  <2>2. m \in Nodes /\ h[m] \in Int
    BY <1>3
  <2>3. High(h, t.child[m][s]) \in Int
    BY <1>3, <1>11 DEF High
  <2>4. CASE m = g
    <3>1. t.child[m][s] = p \/ t.child[m][s] = u
      BY <1>2, <1>4, <2>4
    <3>2. High(k, t.child[m][s]) = High(h, t.child[m][s]) + 1
      BY <1>2, <1>3, <1>5, <1>10, <3>1 DEF High
    <3>3. Own(r, m) = 0 /\ Own(t, m) = 1 /\ k[m] = h[m]
      BY <1>2, <1>7, <1>10, <2>2, <2>4 DEF Own
    <3> QED  BY <2>1, <2>2, <2>3, <3>2, <3>3
  <2>5. CASE m # g
    <3>1. t.child[m][s] # p /\ t.child[m][s] # u
      BY <1>2, <1>3, <1>5, <1>11, <2>5
    <3>2. High(k, t.child[m][s]) = High(h, t.child[m][s])
      BY <1>3, <1>10, <1>11, <3>1 DEF High
    <3>3. CASE m = p \/ m = u
      <4>1. Own(r, m) = 1 /\ Own(t, m) = 0 /\ k[m] = h[m] + 1
        BY <1>2, <1>3, <1>7, <1>10, <2>2, <3>3 DEF Own
      <4> QED  BY <2>1, <2>2, <2>3, <3>2, <4>1
    <3>4. CASE m # p /\ m # u
      <4>1. Own(r, m) = Own(t, m) /\ k[m] = h[m]
        BY <1>7, <1>10, <2>2, <2>5, <3>4, SameOwn
      <4> QED  BY <2>1, <3>2, <4>1
    <3> QED  BY <3>3, <3>4
  <2> QED  BY <2>4, <2>5
<1>13. Apart(r, g)
  <2> SUFFICES ASSUME NEW m \in LinkedIn(t), NEW s \in Sides, r.red[m],
                      IsRed(r, t.child[m][s]), t.child[m][s] # g
               PROVE  FALSE
    BY <1>8 DEF Apart
  <2>1. t.child[m][s] # NULL /\ t.child[m][s] # p /\ t.child[m][s] # u /\ m # p /\ m # u
    BY <1>7 DEF IsRed
  <2>2. m # g
    BY <1>2, <1>4, <2>1
  <2>3. t.red[m] /\ IsRed(t, t.child[m][s])
    BY <1>3, <1>7, <1>11, <2>1, <2>2 DEF IsRed
  <2>4. t.child[m][s] = n
    BY <1>2, <2>3 DEF Apart
  <2> QED  BY <1>2, <1>11, <2>1, <2>4
<1>14. IsRed(r, r.root) => g = r.root
  <2> SUFFICES ASSUME IsRed(r, r.root), r.root # g PROVE FALSE
    OBVIOUS
  <2>1. t.root # NULL /\ t.root \in Nodes /\ t.root # p /\ t.root # u
    BY <1>3, <1>7, <1>8, TreeFields DEF IsRed, Places
  <2> QED  BY <1>2, <1>7, <1>8, <2>1 DEF IsRed
<1>15. Good(r, [op |-> "add", node |-> g, parent |-> r.parent[g]])
  BY <1>2, <1>7, <1>8, <1>12, <1>13, <1>14, GoodAdd
<1> QED  BY <1>1, <1>8, <1>15

\* r is t after the rotation at p, over which q rises.
Rotation(t, r, cis, p, q, b, f) ==
  /\ r \in Trees /\ r.red = t.red /\ LinkedIn(r) = LinkedIn(t)
  /\ q = t.child[p][Other(cis)] /\ b = t.child[q][cis] /\ f = t.child[q][Other(cis)]
  /\ Turned(t, r, cis, p, q, b, f)
  /\ r.root = IF t.root = p THEN q ELSE t.root
  /\ \A n \in Nodes : r.parent[n] = IF n = q THEN t.parent[p] ELSE IF n = p THEN q
                                    ELSE IF n = b THEN p ELSE t.parent[n]
  /\ p \in Nodes /\ q \in Nodes /\ b \in Places /\ f \in Places
  /\ b # p /\ b # q /\ f # p /\ f # q /\ (b # NULL => b # f)
  /\ t.child[p][cis] # p /\ t.child[p][cis] # q
  /\ t.child[p][cis] \in Places

LEMMA RotateStep ==
  ASSUME NEW t, NEW below, Sound(t, below), NEW cis \in Sides,
         NEW p \in LinkedIn(t), NEW q, q = t.child[p][Other(cis)], q # NULL
  PROVE  LET r == tree__rotate(t, cis, p)
         IN  /\ Rotation(t, r, cis, p, q, t.child[q][cis], t.child[q][Other(cis)])
             /\ Sound(r, BelowRotated(t, below, cis, p))
<1>1. PICK r, b, f, g :
        /\ r = tree__rotate(t, cis, p) /\ b = t.child[q][cis]
        /\ f = t.child[q][Other(cis)] /\ g = t.parent[p]
  OBVIOUS
<1>2. /\ p \in Nodes /\ q \in LinkedIn(t) /\ q \in Nodes /\ q # p
      /\ g # p /\ g # q /\ b # p /\ b # q /\ b \in Places
      /\ (g = NULL <=> p = t.root)
  BY <1>1, RotatePlaces
<1>3. t \in Trees /\ Other(cis) \in Sides /\ Other(cis) # cis
  BY SideFacts DEF Sound
<1>4. Rotated(t, r, cis, p)
  BY <1>1, <1>2, <1>3, RotateFields
<1>5. LinkedIn(r) = LinkedIn(t) /\ Sound(r, BelowRotated(t, below, cis, p))
  BY <1>4, RotateSound
<1>6. Turned(t, r, cis, p, q, b, f)
  BY <1>1, <1>4, RotatedChildren
<1>7. r \in Trees /\ r.red = t.red
  BY <1>4 DEF Rotated
<1>8. r.root = IF t.root = p THEN q ELSE t.root
  BY <1>1, <1>2, <1>4 DEF Rotated
<1>9. \A n \in Nodes : r.parent[n] = IF n = q THEN g ELSE IF n = p THEN q
                                     ELSE IF n = b THEN p ELSE t.parent[n]
  BY <1>1, <1>4 DEF Rotated
<1>10. q \in below[q] /\ p \notin below[q]
  BY <1>2, <1>3, ChildFacts
<1>11. f \in Places /\ f # p /\ f # q
  <2>1. f # NULL => f # q /\ f \in below[f] /\ below[f] \subseteq below[q]
    BY <1>1, <1>2, <1>3, ChildFacts
  <2> QED  BY <1>1, <1>2, <1>3, <1>10, <2>1, TreeFields
<1>12. b # NULL => b # f
  BY <1>1, <1>2, ChildFacts
<1>13. t.child[p][cis] # p /\ t.child[p][cis] # q /\ t.child[p][cis] \in Places
  <2>1. t.child[p][cis] # NULL => t.child[p][cis] # p /\ t.child[p][cis] # q
    BY <1>3, ChildFacts
  <2> QED  BY <1>2, <1>3, <2>1, TreeFields
<1>14. Rotation(t, r, cis, p, q, b, f)
  BY <1>1, <1>2, <1>5, <1>6, <1>7, <1>8, <1>9, <1>11, <1>12, <1>13 DEF Rotation
<1> QED  BY <1>1, <1>5, <1>14

\* n hangs on the inner side of p.
InnerPair(t, below, h, n, p, g, cis, u) ==
  RedPair(t, below, h, n, p, g, cis, u) /\ n = t.child[p][Other(cis)]

\* p has come below n, and is now the node of the pair.
OuterPair(t, r, h, n, p, g, cis, u) ==
  /\ LinkedIn(r) = LinkedIn(t) /\ r.red = t.red
  /\ r.child[n][cis] = p
  /\ \E B : RedPair(r, B, h, p, n, g, cis, u)

\* The inner rotation brings a red pair to the outer side.
LEMMA InnerRotation ==
  ASSUME NEW t, NEW below, NEW h, NEW n, NEW p, NEW g, NEW cis, NEW u,
         InnerPair(t, below, h, n, p, g, cis, u)
  PROVE  OuterPair(t, tree__rotate(t, cis, p), h, n, p, g, cis, u)
<1> SUFFICES ASSUME RedPair(t, below, h, n, p, g, cis, u),
                    n = t.child[p][Other(cis)],
                    NEW r, r = tree__rotate(t, cis, p)
             PROVE  /\ LinkedIn(r) = LinkedIn(t) /\ r.red = t.red
                    /\ r.child[n][cis] = p
                    /\ \E B : RedPair(r, B, h, p, n, g, cis, u)
  BY DEF InnerPair, OuterPair
<1>1. PICK b, f :
        r = tree__rotate(t, cis, p) /\ b = t.child[n][cis] /\ f = t.child[n][Other(cis)]
  OBVIOUS
<1>2. /\ Sound(t, below) /\ Level(t, h, {}) /\ Apart(t, n)
      /\ n \in LinkedIn(t) /\ p \in LinkedIn(t) /\ g \in LinkedIn(t)
      /\ t.red[n] /\ t.red[p] /\ ~t.red[g] /\ ~IsRed(t, t.root)
      /\ t.parent[n] = p /\ t.parent[p] = g
      /\ cis \in Sides /\ t.child[g][cis] = p /\ t.child[g][Other(cis)] = u
      /\ n # p /\ n # g /\ p # g /\ u # p /\ u # g /\ u # n
      /\ n # t.root /\ p # t.root
  BY DEF RedPair
<1>3. n # NULL /\ p # NULL /\ g # NULL /\ Other(cis) \in Sides
      /\ LinkedIn(t) \in SUBSET Nodes
  BY <1>2, SideFacts DEF LinkedIn
<1>4. /\ Rotation(t, r, cis, p, n, b, f)
      /\ Sound(r, BelowRotated(t, below, cis, p))
  BY <1>1, <1>2, <1>3, RotateStep
<1>5. /\ r \in Trees /\ r.red = t.red /\ LinkedIn(r) = LinkedIn(t)
      /\ Turned(t, r, cis, p, n, b, f)
      /\ r.root = t.root
      /\ r.parent[p] = n /\ r.parent[n] = g
      /\ b # n /\ f # n
  BY <1>2, <1>3, <1>4 DEF Rotation
<1>6. /\ r.child[n][cis] = p
      /\ r.child[g][cis] = n /\ r.child[g][Other(cis)] = u
  BY <1>2, <1>3, <1>5 DEF Turned
<1>7. h \in [Nodes -> Nat]
  BY <1>2 DEF Level
<1>8. \A m \in LinkedIn(t), s \in Sides :
        h[m] = Own(t, m) + High(h, t.child[m][s]) /\ Own(t, m) \in Int
  <2>1. \A m \in LinkedIn(t), s \in Sides :
          /\ h[m] = Own(t, m) + High(h, t.child[m][s]) + Lack({}, m, s)
          /\ Lack({}, m, s) = 0 /\ Own(t, m) \in Int
          /\ High(h, t.child[m][s]) \in Int
    BY <1>2, <1>7, TreeFields DEF Level, Lack, Own, High, Places, Sound, LinkedIn
  <2> QED  BY <2>1
<1>9. Own(t, n) = 0 /\ Own(t, p) = 0 /\ \A m : Own(r, m) = Own(t, m)
  BY <1>2, <1>5 DEF Own
<1>10. High(h, n) = h[n] /\ h[n] \in Nat /\ h[p] \in Nat
  BY <1>2, <1>3, <1>7 DEF High
<1>11. /\ h[p] = High(h, t.child[p][cis]) /\ h[p] = h[n]
       /\ h[n] = High(h, b) /\ h[n] = High(h, f)
  <2>1. /\ h[p] = Own(t, p) + High(h, t.child[p][cis])
        /\ h[p] = Own(t, p) + High(h, n)
        /\ h[n] = Own(t, n) + High(h, b) /\ h[n] = Own(t, n) + High(h, f)
    BY <1>1, <1>2, <1>3, <1>8
  <2>2. \A m \in Places : High(h, m) \in Int
    BY <1>7 DEF High, Places
  <2>3. b \in Places /\ f \in Places /\ t.child[p][cis] \in Places
    BY <1>4 DEF Rotation
  <2> QED  BY <1>9, <1>10, <2>1, <2>2, <2>3
<1>12. \A m, s : Lack({}, m, s) = 0
  BY DEF Lack
<1>13. Level(r, h, {})
  <2>1. \A m \in Places : High(h, m) \in Int
    BY <1>7 DEF High, Places
  <2>2. b \in Places /\ f \in Places /\ t.child[p][cis] \in Places
    BY <1>4 DEF Rotation
  <2>3. /\ h[p] = Own(r, p) + High(h, t.child[p][cis]) + Lack({}, p, cis)
        /\ h[p] = Own(r, p) + High(h, b) + Lack({}, p, Other(cis))
        /\ h[n] = Own(r, n) + h[p] + Lack({}, n, cis)
        /\ h[n] = Own(r, n) + High(h, f) + Lack({}, n, Other(cis))
    BY <1>9, <1>10, <1>11, <1>12, <2>1, <2>2
  <2>4. \A m \in LinkedIn(t) :
          m # p /\ m # n =>
            /\ h[m] - Own(r, m) = h[m] - Own(t, m)
            /\ m # f => h[m] = h[m]
            /\ \A s \in Sides : Lack({}, m, s) = Lack({}, m, s)
    BY <1>9
  <2>5. h[n] = h[p]
    BY <1>11
  <2>6. Sound(t, below) /\ Level(t, h, {}) /\ cis \in Sides
    BY <1>2
  <2> QED  BY <1>5, <1>7, <2>3, <2>4, <2>5, <2>6, TurnedLevel
<1>14. Apart(r, p)
  <2>1. ASSUME NEW m \in LinkedIn(t), NEW s \in Sides, m # p, m # n, r.red[m]
        PROVE  /\ t.child[m][s] = p /\ IsRed(r, n) => n = p
               /\ t.child[m][s] # p /\ IsRed(r, t.child[m][s]) => t.child[m][s] = p
    <3>1. t.child[m][s] # p
      BY <1>2, <1>3, <1>5, <2>1 DEF Apart, IsRed
    <3>2. t.child[m][s] # n
      BY <1>2, <1>3, <2>1, ChildFacts
    <3> QED  BY <1>2, <1>5, <2>1, <3>1, <3>2 DEF Apart, IsRed
  <2>2. ~IsRed(t, t.child[p][cis])
    <3>1. t.child[p][cis] # n
      BY <1>4 DEF Rotation
    <3> QED  BY <1>2, <3>1 DEF Apart
  <2>3. ~IsRed(t, b) /\ ~IsRed(t, f)
    BY <1>1, <1>2, <1>3, <1>5 DEF Apart
  <2>4. ~IsRed(r, t.child[p][cis]) /\ ~IsRed(r, b) /\ ~IsRed(r, f)
    BY <1>5, <2>2, <2>3 DEF IsRed
  <2> QED  BY <1>2, <1>5, <2>1, <2>4, TurnedApart
<1>15. RedPair(r, BelowRotated(t, below, cis, p), h, p, n, g, cis, u)
  <2>1. ~IsRed(r, r.root)
    BY <1>2, <1>5 DEF IsRed
  <2> QED  BY <1>2, <1>4, <1>5, <1>6, <1>13, <1>14, <2>1 DEF RedPair
<1> QED  BY <1>1, <1>5, <1>6, <1>15

LEMMA RedFields2 ==
  ASSUME NEW t \in Trees, NEW p \in Nodes, NEW g \in Nodes,
         NEW v \in BOOLEAN, NEW w \in BOOLEAN
  PROVE  LET r == [t EXCEPT !.red[p] = v, !.red[g] = w]
         IN  /\ Recolours(t, r)
             /\ r.red = [[t.red EXCEPT ![p] = v] EXCEPT ![g] = w]
<1>1. PICK r : r = [t EXCEPT !.red[p] = v, !.red[g] = w]
  OBVIOUS
<1>2. /\ r.root = t.root /\ r.child = t.child /\ r.parent = t.parent
      /\ r.red = [[t.red EXCEPT ![p] = v] EXCEPT ![g] = w]
  BY <1>1 DEF Trees
<1>3. r \in Trees
  BY <1>1 DEF Trees
<1> QED  BY <1>1, <1>2, <1>3 DEF Recolours

\* Without the lack of a place, a level is the sum of two.
LEMMA LevelSums ==
  ASSUME NEW t \in Trees, NEW h, NEW lack, Level(t, h, lack)
  PROVE  /\ h \in [Nodes -> Nat]
         /\ \A m \in Places : High(h, m) \in Nat
         /\ \A m : Own(t, m) \in Nat
         /\ \A m, s : Lack(lack, m, s) \in Nat
         /\ \A m \in LinkedIn(t), s \in Sides :
              /\ t.child[m][s] \in Places
              /\ h[m] = Own(t, m) + High(h, t.child[m][s]) + Lack(lack, m, s)
  BY TreeFields DEF Level, High, Own, Lack, Places, LinkedIn

\* n hangs on the outer side of p, and u is no red uncle.
ReadyPair(t, below, h, n, p, g, cis, u) ==
  RedPair(t, below, h, n, p, g, cis, u) /\ n = t.child[p][cis] /\ ~IsRed(t, u)

\* The pair is no more: p is black.
PairEnded(t, r, n, p) ==
  /\ LinkedIn(r) = LinkedIn(t)
  /\ Good(r, [op |-> "add", node |-> n, parent |-> r.parent[n]])
  /\ r.parent[n] = p /\ ~r.red[p]

\* The outer rotation ends the loop.
LEMMA OuterRotation ==
  ASSUME NEW t, NEW below, NEW h, NEW n, NEW p, NEW g, NEW cis, NEW u,
         ReadyPair(t, below, h, n, p, g, cis, u)
  PROVE  PairEnded(t, tree__rotate(Swapped(t, p, g), Other(cis), g), n, p)
<1> SUFFICES ASSUME RedPair(t, below, h, n, p, g, cis, u), n = t.child[p][cis],
                    ~IsRed(t, u),
                    NEW r, r = tree__rotate(Swapped(t, p, g), Other(cis), g)
             PROVE  /\ LinkedIn(r) = LinkedIn(t)
                    /\ Good(r, [op |-> "add", node |-> n, parent |-> r.parent[n]])
                    /\ r.parent[n] = p /\ ~r.red[p]
  BY DEF ReadyPair, PairEnded
<1>1. PICK c, b, far :
        /\ c = [t EXCEPT !.red[p] = FALSE, !.red[g] = TRUE] /\ far = Other(cis)
        /\ r = tree__rotate(c, far, g) /\ b = t.child[p][far]
  BY DEF Swapped
<1>2. /\ Sound(t, below) /\ Level(t, h, {}) /\ Apart(t, n)
      /\ n \in LinkedIn(t) /\ p \in LinkedIn(t) /\ g \in LinkedIn(t)
      /\ t.red[n] /\ t.red[p] /\ ~t.red[g] /\ ~IsRed(t, t.root)
      /\ t.parent[n] = p /\ t.parent[p] = g
      /\ cis \in Sides /\ t.child[g][cis] = p /\ t.child[g][far] = u
      /\ n # p /\ n # g /\ p # g /\ u # p /\ u # g /\ u # n
      /\ n # t.root /\ p # t.root
  BY <1>1 DEF RedPair
<1>3. /\ n # NULL /\ p # NULL /\ g # NULL /\ far \in Sides /\ Other(far) = cis
      /\ far # cis
      /\ LinkedIn(t) \in SUBSET Nodes /\ t \in Trees /\ t.red \in [Nodes -> BOOLEAN]
      /\ n \in Nodes /\ p \in Nodes /\ g \in Nodes
  BY <1>1, <1>2, SideFacts, TreeFields DEF LinkedIn, Sound
<1>4. Recolours(t, c) /\ c.red = [[t.red EXCEPT ![p] = FALSE] EXCEPT ![g] = TRUE]
  BY <1>1, <1>3, RedFields2
<1>5. /\ ~c.red[p] /\ c.red[g]
      /\ \A m \in Nodes : m # p /\ m # g => c.red[m] = t.red[m]
  BY <1>2, <1>3, <1>4
<1>6. /\ Sound(c, below) /\ LinkedIn(c) = LinkedIn(t)
      /\ c.child = t.child /\ c.parent = t.parent /\ c.root = t.root
  BY <1>2, <1>4, RecolourSound DEF Recolours
<1>7. p = c.child[g][Other(far)] /\ g \in LinkedIn(c)
  BY <1>2, <1>3, <1>6
<1>8. /\ Rotation(c, r, far, g, p, b, n)
      /\ Sound(r, BelowRotated(c, below, far, g))
  <2>1. /\ Rotation(c, r, far, g, p, c.child[p][far], c.child[p][Other(far)])
        /\ Sound(r, BelowRotated(c, below, far, g))
    <3>1. r = tree__rotate(c, far, g) /\ far \in Sides /\ p # NULL /\ Sound(c, below)
      BY <1>1, <1>3, <1>6
    <3> QED  BY <1>7, <3>1, RotateStep
  <2> QED  BY <1>1, <1>3, <1>6, <2>1
<1>9. /\ r \in Trees /\ r.red = c.red /\ LinkedIn(r) = LinkedIn(t)
      /\ Turned(c, r, far, g, p, b, n)
      /\ r.root = IF t.root = g THEN p ELSE t.root
      /\ b \in Places /\ b # g /\ b # p /\ (b # NULL => b # n)
      /\ \A m \in Nodes : r.parent[m] = IF m = p THEN c.parent[g] ELSE IF m = g THEN p
                                        ELSE IF m = b THEN g ELSE c.parent[m]
  BY <1>6, <1>8 DEF Rotation
<1>10. r.parent[n] = p
  BY <1>2, <1>3, <1>6, <1>9
<1>11. /\ ~r.red[p] /\ r.red[g] /\ r.red[n]
       /\ \A m \in Nodes : m # p /\ m # g => r.red[m] = t.red[m]
  BY <1>2, <1>3, <1>5, <1>9
<1>12. Turned(t, r, far, g, p, b, n)
  BY <1>6, <1>9 DEF Turned
<1>13. /\ h \in [Nodes -> Nat]
       /\ \A m \in Places : High(h, m) \in Nat
       /\ \A m \in LinkedIn(t), s \in Sides :
            h[m] = Own(t, m) + High(h, t.child[m][s])
       /\ \A m, s : Lack({}, m, s) = 0
  <2>1. \A m, s : Lack({}, m, s) = 0
    BY DEF Lack
  <2> QED  BY <1>2, <1>3, <2>1, LevelSums
<1>14. PICK k : k = [h EXCEPT ![p] = h[g], ![g] = h[p]]
  OBVIOUS
<1>15. /\ k \in [Nodes -> Nat] /\ k[p] = h[g] /\ k[g] = h[p]
       /\ \A m \in Nodes : m # p /\ m # g => k[m] = h[m]
  BY <1>2, <1>3, <1>13, <1>14
<1>16. /\ Own(t, p) = 0 /\ Own(t, n) = 0 /\ Own(t, g) = 1
       /\ Own(r, p) = 1 /\ Own(r, g) = 0
       /\ \A m \in Nodes : m # p /\ m # g => Own(r, m) = Own(t, m)
  BY <1>2, <1>11 DEF Own
<1>17. u \in Places /\ High(k, u) = High(h, u) /\ High(k, b) = High(h, b)
       /\ High(k, n) = h[n] /\ High(h, n) = h[n] /\ High(h, p) = h[p]
  <2>1. u \in Places
    BY <1>2, <1>3, TreeFields
  <2>2. \A m \in Places : m # p /\ m # g => High(k, m) = High(h, m)
    BY <1>15 DEF High, Places
  <2>3. High(h, n) = h[n] /\ High(h, p) = h[p] /\ n \in Places
    BY <1>3 DEF High, Places
  <2> QED  BY <1>2, <1>9, <2>1, <2>2, <2>3
<1>18. /\ h[g] = 1 + High(h, u) /\ h[g] = 1 + h[p]
       /\ h[p] = h[n] /\ h[p] = High(h, b)
  <2>1. /\ h[g] = Own(t, g) + High(h, u) /\ h[g] = Own(t, g) + High(h, p)
        /\ h[p] = Own(t, p) + High(h, n) /\ h[p] = Own(t, p) + High(h, b)
    BY <1>1, <1>2, <1>3, <1>13
  <2>2. /\ High(h, u) \in Nat /\ High(h, b) \in Nat /\ h[n] \in Nat /\ h[p] \in Nat
    BY <1>3, <1>9, <1>13, <1>17
  <2> QED  BY <1>16, <1>17, <2>1, <2>2
<1>19. h[p] \in Nat /\ h[g] \in Nat /\ h[n] \in Nat /\ High(h, u) \in Nat
  BY <1>3, <1>13, <1>17
<1>20. Level(r, k, {})
  <2>1. /\ k[g] = Own(r, g) + High(k, t.child[g][far]) + Lack({}, g, far)
        /\ k[g] = Own(r, g) + High(k, b) + Lack({}, g, Other(far))
        /\ k[p] = Own(r, p) + k[g] + Lack({}, p, far)
        /\ k[p] = Own(r, p) + High(k, n) + Lack({}, p, Other(far))
    BY <1>2, <1>13, <1>15, <1>16, <1>17, <1>18, <1>19
  <2>2. \A m \in LinkedIn(t) :
          m # g /\ m # p =>
            /\ k[m] - Own(r, m) = h[m] - Own(t, m)
            /\ m # n => k[m] = h[m]
            /\ \A s \in Sides : Lack({}, m, s) = Lack({}, m, s)
    BY <1>3, <1>15, <1>16
  <2>3. k[p] = h[g]
    BY <1>15
  <2>4. Sound(t, below) /\ Level(t, h, {}) /\ k \in [Nodes -> Nat] /\ r \in Trees
        /\ LinkedIn(r) = LinkedIn(t) /\ far \in Sides
    BY <1>2, <1>3, <1>9, <1>15
  <2> QED  BY <1>12, <2>1, <2>2, <2>3, <2>4, TurnedLevel
<1>21. Apart(r, n)
  <2>1. ASSUME NEW m \in LinkedIn(t), NEW s \in Sides, m # g, m # p, r.red[m]
        PROVE  /\ t.child[m][s] = g /\ IsRed(r, p) => p = n
               /\ t.child[m][s] # g /\ IsRed(r, t.child[m][s]) => t.child[m][s] = n
    <3>1. m \in Nodes /\ t.red[m] /\ t.child[m][s] \in Places
      BY <1>3, <1>11, <2>1, TreeFields
    <3>2. t.child[m][s] # g /\ IsRed(r, t.child[m][s]) => IsRed(t, t.child[m][s])
      BY <1>11, <3>1 DEF IsRed, Places
    <3> QED  BY <1>2, <1>11, <3>1, <3>2 DEF Apart, IsRed
  <2>2. ~IsRed(r, t.child[g][far])
    BY <1>2, <1>11, <1>17 DEF IsRed, Places
  <2>3. ~IsRed(r, b)
    <3>1. ~IsRed(t, b)
      <4>1. IsRed(t, b) => b = n
        BY <1>1, <1>2, <1>3 DEF Apart
      <4> QED  BY <1>9, <4>1 DEF IsRed
    <3> QED  BY <1>9, <1>11, <3>1 DEF IsRed, Places
  <2>4. ~r.red[p] /\ LinkedIn(r) = LinkedIn(t) /\ far \in Sides
    BY <1>3, <1>9, <1>11
  <2> QED  BY <1>12, <2>1, <2>2, <2>3, <2>4, TurnedApart
<1>22. ~IsRed(r, r.root)
  <2>1. CASE t.root = g
    BY <1>9, <1>11, <2>1 DEF IsRed
  <2>2. CASE t.root # g
    <3>1. t.root \in Places /\ r.root = t.root
      BY <1>3, <1>9, <2>2, TreeFields
    <3> QED  BY <1>2, <1>11, <2>2, <3>1 DEF IsRed, Places
  <2> QED  BY <2>1, <2>2
<1>23. Good(r, [op |-> "add", node |-> n, parent |-> r.parent[n]])
  <2>1. n \in LinkedIn(r)
    BY <1>2, <1>9
  <2> QED  BY <1>8, <1>11, <1>20, <1>21, <1>22, <2>1, GoodAdd
<1> QED  BY <1>1, <1>9, <1>10, <1>11, <1>23

-----------------------------------------------------------------------------
(* The actions of tree_add.                                                *)

LEMMA AddKeeps ==
  ASSUME IInv, NEW n \in Nodes, Add(n)
  PROVE  /\ IInv' /\ n \notin LinkedIn(tree)
         /\ LinkedIn(tree') = LinkedIn(tree) \cup {n}
<1>1. /\ call = Idle /\ tree_find(tree, Key[n]) = NULL /\ tree' = Linked(tree, n)
      /\ call' = [op |-> "add", node |-> n, parent |-> tree'.parent[n]]
  BY DEF Add
<1>2. Good(tree, Idle)
  BY <1>1 DEF IInv
<1>3. PICK below, h : /\ Sound(tree, below) /\ Level(tree, h, {})
                      /\ Apart(tree, NULL) /\ ~IsRed(tree, tree.root)
  BY <1>2, IdleFacts
<1>4. /\ LinkedIn(tree') = LinkedIn(tree) \cup {n} /\ n \notin LinkedIn(tree)
      /\ Good(tree', call')
  BY <1>1, <1>3, AddFacts
<1> QED  BY <1>4 DEF IInv

LEMMA AddRecolourKeeps ==
  ASSUME IInv, AddRecolour
  PROVE  /\ IInv' /\ LinkedIn(tree') = LinkedIn(tree)
         /\ \E below, h : /\ RedPair(tree, below, h, call.node, call.parent,
                                     Grandparent, InsertSide, Uncle)
                          /\ Sound(tree', below)
         /\ tree'.parent = tree.parent
<1>1. /\ Rebalancing /\ IsRed(tree, Uncle)
      /\ tree' = Recoloured(tree, call.parent, Uncle, Grandparent)
      /\ call' = [call EXCEPT !.node = Grandparent,
                              !.parent = tree.parent[Grandparent]]
  BY DEF AddRecolour
<1>2. PICK below, h :
        RedPair(tree, below, h, call.node, call.parent, Grandparent, InsertSide, Uncle)
  BY <1>1, RebalancingFacts
<1>3. /\ LinkedIn(tree') = LinkedIn(tree) /\ tree'.parent = tree.parent
      /\ Sound(tree', below)
      /\ Good(tree', [op |-> "add", node |-> Grandparent,
                      parent |-> tree.parent[Grandparent]])
  BY <1>1, <1>2, RecolourGood
<1>4. call \in Calls /\ call.op = "add"
  BY <1>1 DEF IInv, Good, Rebalancing
<1>5. call' = [op |-> "add", node |-> Grandparent, parent |-> tree.parent[Grandparent]]
  BY <1>1, <1>4 DEF Calls
<1> QED  BY <1>2, <1>3, <1>5 DEF IInv

LEMMA AddRotateKeeps ==
  ASSUME IInv, AddRotate
  PROVE  IInv' /\ LinkedIn(tree') = LinkedIn(tree) /\ ~Rebalancing'
<1>1. PICK n, p, g, cis, u :
        /\ n = call.node /\ p = call.parent /\ g = Grandparent
        /\ cis = InsertSide /\ u = Uncle
  OBVIOUS
<1>2. PICK inner : inner = (n = tree.child[p][Other(cis)])
  OBVIOUS
<1>3. PICK a, node : /\ a = IF inner THEN tree__rotate(tree, cis, p) ELSE tree
                     /\ node = IF inner THEN p ELSE n
  OBVIOUS
<1>4. /\ Rebalancing /\ ~IsRed(tree, u)
      /\ tree' = tree__rotate(Swapped(a, a.parent[node], g), Other(cis), g)
      /\ call' = [call EXCEPT !.node = node, !.parent = tree'.parent[node]]
  BY <1>1, <1>2, <1>3 DEF AddRotate
<1>5. PICK below, h : RedPair(tree, below, h, n, p, g, cis, u)
  BY <1>1, <1>4, RebalancingFacts
<1>6. /\ a.parent[node] \in LinkedIn(tree) /\ LinkedIn(a) = LinkedIn(tree)
      /\ ~IsRed(a, u)
      /\ node = a.child[a.parent[node]][cis]
      /\ \E B : RedPair(a, B, h, node, a.parent[node], g, cis, u)
  <2>1. CASE inner
    <3>1. a = tree__rotate(tree, cis, p) /\ node = p /\ n = tree.child[p][Other(cis)]
      BY <1>2, <1>3, <2>1
    <3>2. /\ LinkedIn(a) = LinkedIn(tree) /\ a.red = tree.red /\ a.child[n][cis] = p
          /\ \E B : RedPair(a, B, h, p, n, g, cis, u)
      <4>1. InnerPair(tree, below, h, n, p, g, cis, u)
        BY <1>5, <3>1 DEF InnerPair
      <4>2. OuterPair(tree, tree__rotate(tree, cis, p), h, n, p, g, cis, u)
        BY <4>1, InnerRotation
      <4> QED  BY <3>1, <4>2 DEF OuterPair
    <3>3. PICK B : RedPair(a, B, h, p, n, g, cis, u)
      BY <3>2
    <3>4. a.parent[p] = n
      BY <3>3 DEF RedPair
    <3>5. n \in LinkedIn(tree)
      BY <1>5 DEF RedPair
    <3>6. ~IsRed(a, u)
      BY <1>4, <3>2 DEF IsRed
    <3> QED  BY <3>1, <3>2, <3>3, <3>4, <3>5, <3>6
  <2>2. CASE ~inner
    <3>1. a = tree /\ node = n /\ n # tree.child[p][Other(cis)]
      BY <1>2, <1>3, <2>2
    <3>2. /\ tree.parent[n] = p /\ p \in LinkedIn(tree) /\ cis \in Sides
          /\ \E s \in Sides : tree.child[p][s] = n
      BY <1>5 DEF RedPair
    <3>3. n = tree.child[p][cis]
      BY <3>1, <3>2, SideFacts
    <3> QED  BY <1>4, <1>5, <3>1, <3>2, <3>3
  <2> QED  BY <2>1, <2>2
<1>7. PICK B, q : q = a.parent[node] /\ RedPair(a, B, h, node, q, g, cis, u)
  BY <1>6
<1>8. /\ tree' = tree__rotate(Swapped(a, q, g), Other(cis), g)
      /\ node = a.child[q][cis] /\ ~IsRed(a, u)
  BY <1>4, <1>6, <1>7
<1>9. /\ LinkedIn(tree') = LinkedIn(a)
      /\ Good(tree', [op |-> "add", node |-> node, parent |-> tree'.parent[node]])
      /\ tree'.parent[node] = q /\ ~tree'.red[q]
  <2>1. tree' = tree__rotate(Swapped(a, q, g), Other(cis), g)
    BY <1>8
  <2>2. ReadyPair(a, B, h, node, q, g, cis, u)
    BY <1>7, <1>8 DEF ReadyPair
  <2>3. PairEnded(a, tree__rotate(Swapped(a, q, g), Other(cis), g), node, q)
    BY <2>2, OuterRotation
  <2>4. PairEnded(a, tree', node, q)
    BY <2>1, <2>3
  <2> QED  BY <2>4 DEF PairEnded
<1>10. call \in Calls /\ call.op = "add"
  BY <1>4 DEF IInv, Good, Rebalancing
<1>11. call' = [op |-> "add", node |-> node, parent |-> tree'.parent[node]]
  BY <1>4, <1>10 DEF Calls
<1>12. ~Rebalancing'
  BY <1>9, <1>11 DEF Rebalancing, IsRed
<1> QED  BY <1>6, <1>9, <1>11, <1>12 DEF IInv

LEMMA AddDoneKeeps ==
  ASSUME IInv, AddDone
  PROVE  IInv' /\ LinkedIn(tree') = LinkedIn(tree) /\ call' = Idle
<1>1. /\ call.op = "add" /\ ~Rebalancing
      /\ tree' = [tree EXCEPT !.red[tree.root] = FALSE] /\ call' = Idle
  BY DEF AddDone
<1>2. ~ShortIn(tree, call)
  BY <1>1 DEF ShortIn
<1>3. PICK below, h : Sound(tree, below) /\ Level(tree, h, {})
  BY <1>2 DEF IInv, Good
<1>4. /\ Apart(tree, call.node) /\ call.node \in LinkedIn(tree) /\ tree.red[call.node]
      /\ (IsRed(tree, tree.root) => call.node = tree.root)
      /\ call.parent = tree.parent[call.node]
  BY <1>1 DEF IInv, Good
<1>5. tree.root # NULL /\ tree.root \in LinkedIn(tree) /\ tree.root \in Nodes
  <2>1. tree.root # NULL /\ tree.root \in Places
    BY <1>3, <1>4, TreeFields DEF Sound, Ordered
  <2> QED  BY <2>1 DEF LinkedIn, Places
<1>6. tree' = Blackened(tree, tree.root) /\ tree \in Trees /\ tree.red \in [Nodes -> BOOLEAN]
  BY <1>1, <1>3, <1>5, TreeFields DEF Blackened, Sound
<1>7. CASE tree.red[tree.root]
  <2>1. Apart(tree, tree.root)
    BY <1>4, <1>5, <1>7 DEF IsRed
  <2>2. \A m \in LinkedIn(tree), s \in Sides :
          <<m, s>> \in {} <=> tree.child[m][s] = tree.root
    BY <1>3, <1>5, ChildFacts
  <2>3. /\ Recolours(tree, tree')
        /\ \E k : Level(tree', k, {})
        /\ Apart(tree', NULL)
        /\ ~tree'.red[tree.root]
    BY <1>3, <1>5, <1>6, <1>7, <2>1, <2>2, BlackenLevel
  <2>4. Sound(tree', below) /\ LinkedIn(tree') = LinkedIn(tree)
    BY <1>3, <2>3, RecolourSound
  <2>5. ~IsRed(tree', tree'.root)
    BY <2>3 DEF IsRed, Recolours
  <2> QED  BY <1>1, <2>3, <2>4, <2>5, GoodIdle DEF IInv
<1>8. CASE ~tree.red[tree.root]
  <2>1. Recolours(tree, tree') /\ tree'.red = [tree.red EXCEPT ![tree.root] = FALSE]
    BY <1>1, <1>5, <1>6, RedFields
  <2>2. \A m \in LinkedIn(tree) : tree'.red[m] = tree.red[m]
    <3>1. LinkedIn(tree) \in SUBSET Nodes /\ tree.red[tree.root] = FALSE
      BY <1>5, <1>6, <1>8 DEF LinkedIn
    <3> QED  BY <1>5, <1>6, <2>1, <3>1
  <2>3. Sound(tree', below) /\ LinkedIn(tree') = LinkedIn(tree)
    BY <1>3, <2>1, RecolourSound
  <2>4. Level(tree', h, {}) /\ Apart(tree', call.node)
    BY <1>3, <1>4, <2>1, <2>2, SameColours
  <2>5. ~IsRed(tree', tree'.root)
    BY <1>5, <1>8, <2>1, <2>2 DEF IsRed, Recolours
  <2>6. Apart(tree', NULL)
    <3>1. ASSUME NEW m \in LinkedIn(tree), NEW s \in Sides, tree.red[m],
                 IsRed(tree, tree.child[m][s])
          PROVE  FALSE
      <4>1. tree.child[m][s] = call.node
        BY <1>4, <3>1 DEF Apart
      <4>2. call.node # NULL
        BY <1>4 DEF LinkedIn
      <4>3. call.parent = m
        BY <1>3, <1>4, <4>1, <4>2, ChildFacts
      <4>4. IsRed(tree, m)
        BY <3>1 DEF IsRed, LinkedIn
      <4> QED  BY <1>1, <4>3, <4>4 DEF Rebalancing
    <3>2. Apart(tree, NULL)
      BY <3>1 DEF Apart
    <3> QED  BY <1>3, <2>1, <2>2, <3>2, SameColours
  <2> QED  BY <1>1, <2>3, <2>4, <2>5, <2>6, GoodIdle DEF IInv
<1> QED  BY <1>7, <1>8

-----------------------------------------------------------------------------
(* tree_del.                                                               *)

\* A node is the only child that its place holds.
LEMMA OnlyPlace ==
  ASSUME NEW t, NEW below, Sound(t, below), NEW p, NEW e \in Sides,
         NEW c, c # NULL, c \in Places, p = NULL => t.root = c,
         p # NULL => p \in LinkedIn(t) /\ t.child[p][e] = c
  PROVE  /\ c \in LinkedIn(t) /\ c \in Nodes
         /\ p = NULL <=> c = t.root
         /\ \A m \in LinkedIn(t), s \in Sides :
              <<m, s>> \in {<<p, e>>} <=> t.child[m][s] = c
<1>1. c \in Nodes
  BY DEF Places
<1>2. CASE p = NULL
  <2>1. c = t.root /\ c \in LinkedIn(t)
    BY <1>1, <1>2 DEF LinkedIn
  <2>2. \A m \in LinkedIn(t), s \in Sides : t.child[m][s] # c
    BY <2>1, ChildFacts
  <2>3. \A m \in LinkedIn(t) : m # p
    BY <1>2 DEF LinkedIn
  <2> QED  BY <1>1, <1>2, <2>1, <2>2, <2>3
<1>3. CASE p # NULL
  <2>1. p \in LinkedIn(t) /\ t.child[p][e] = c
    BY <1>3
  <2>2. c \in LinkedIn(t) /\ c # t.root /\ t.parent[c] = p /\ t.child[p][Other(e)] # c
    BY <2>1, ChildFacts
  <2>3. \A m \in LinkedIn(t), s \in Sides : t.child[m][s] = c => m = p
    BY <2>2, ChildFacts
  <2>4. \A s \in Sides : s = e \/ s = Other(e)
    BY SideFacts
  <2> QED  BY <1>1, <1>3, <2>1, <2>2, <2>3, <2>4
<1> QED  BY <1>2, <1>3

\* A red node was removed: nothing is lacking.
LEMMA RedRemoved ==
  ASSUME NEW t, NEW below, Sound(t, below), NEW h, NEW p, NEW e, NEW c,
         Deficit(t, h, p, e, c, TRUE)
  PROVE  Good(t, Idle)
<1>1. Level(t, h, {}) /\ Apart(t, NULL) /\ ~IsRed(t, t.root)
  BY DEF Deficit
<1> QED  BY <1>1, GoodIdle

\* The place of the removed node has a red child, which makes up for it.
LEMMA RedChildStays ==
  ASSUME NEW t, NEW below, Sound(t, below), NEW h, NEW p, NEW e, NEW c,
         Deficit(t, h, p, e, c, FALSE), IsRed(t, c)
  PROVE  Good(Blackened(t, c), Idle) /\ LinkedIn(Blackened(t, c)) = LinkedIn(t)
<1>1. /\ Level(t, h, {<<p, e>>}) /\ Apart(t, c) /\ e \in Sides
      /\ p \in Places /\ c \in Places /\ c # NULL /\ t.red[c]
      /\ p = NULL => t.root = c
      /\ p # NULL => p \in LinkedIn(t) /\ t.child[p][e] = c /\ ~IsRed(t, t.root)
  BY DEF Deficit, IsRed
<1>2. /\ c \in LinkedIn(t) /\ c \in Nodes
      /\ p = NULL <=> c = t.root
      /\ \A m \in LinkedIn(t), s \in Sides :
           <<m, s>> \in {<<p, e>>} <=> t.child[m][s] = c
  BY <1>1, OnlyPlace
<1>3. PICK r : r = Blackened(t, c)
  OBVIOUS
<1>4. /\ Recolours(t, r) /\ \E k : Level(r, k, {}) /\ Apart(r, NULL) /\ ~r.red[c]
      /\ \A m \in Nodes : m # c => r.red[m] = t.red[m]
  BY <1>1, <1>2, <1>3, BlackenLevel
<1>5. Sound(r, below) /\ LinkedIn(r) = LinkedIn(t) /\ r.root = t.root
  BY <1>4, RecolourSound DEF Recolours
<1>6. ~IsRed(r, r.root)
  <2>1. t.root \in Places
    BY TreeFields DEF Sound
  <2> QED  BY <1>1, <1>2, <1>4, <1>5, <2>1 DEF IsRed, Places
<1>7. Good(r, Idle)
  BY <1>4, <1>5, <1>6, GoodIdle
<1> QED  BY <1>3, <1>5, <1>7

\* A black node was removed whose place has none to make up for it.
LEMMA BlackRemoved ==
  ASSUME NEW t, NEW below, Sound(t, below), NEW h, NEW p, NEW e, NEW c,
         Deficit(t, h, p, e, c, FALSE), ~IsRed(t, c)
  PROVE  Good(t, [op |-> "del", node |-> c, parent |-> p])
<1>1. /\ Level(t, h, {<<p, e>>}) /\ Apart(t, c) /\ e \in Sides
      /\ p \in Places /\ c \in Places
      /\ p = NULL => t.root = c
      /\ p # NULL => p \in LinkedIn(t) /\ t.child[p][e] = c
      /\ ~IsRed(t, t.root)
  BY DEF Deficit
<1>2. Apart(t, NULL)
  BY <1>1 DEF Apart
<1> QED  BY <1>1, <1>2, GoodDel

LEMMA DelKeeps ==
  ASSUME IInv, NEW n \in Nodes, Del(n)
  PROVE  /\ IInv' /\ n \in LinkedIn(tree)
         /\ LinkedIn(tree') = LinkedIn(tree) \ {n}
<1>1. PICK u, t : u = Unlinked(tree, n) /\ t = Fresh(u.tree, n)
  OBVIOUS
<1>2. /\ call = Idle /\ tree_find(tree, Key[n]) = n
      /\ u.red \/ IsRed(t, u.node) =>
           tree' = (IF u.red THEN t ELSE Blackened(t, u.node)) /\ call' = Idle
      /\ ~(u.red \/ IsRed(t, u.node)) =>
           tree' = t /\ call' = [op |-> "del", node |-> u.node, parent |-> u.parent]
  BY <1>1 DEF Del
<1>3. Good(tree, Idle)
  BY <1>2 DEF IInv
<1>4. PICK below, h : /\ Sound(tree, below) /\ Level(tree, h, {})
                      /\ Apart(tree, NULL) /\ ~IsRed(tree, tree.root)
  BY <1>3, IdleFacts
<1>5. n \in LinkedIn(tree)
  <2>1. Key[n] \in Int /\ n # NULL
    OBVIOUS
  <2> QED  BY <1>2, <1>4, <2>1, FoundIsLinked
<1>6. /\ LinkedIn(t) = LinkedIn(tree) \ {n} /\ u.red \in BOOLEAN
      /\ \E B : Sound(t, B)
      /\ \E k, e : Deficit(t, k, u.parent, e, u.node, u.red)
  BY <1>1, <1>4, <1>5, UnlinkFacts
<1>7. PICK B, k, e : Sound(t, B) /\ Deficit(t, k, u.parent, e, u.node, u.red)
  BY <1>6
<1>8. CASE u.red = TRUE
  <2>1. tree' = t /\ call' = Idle
    BY <1>2, <1>8
  <2>2. Good(t, Idle)
    BY <1>7, <1>8, RedRemoved
  <2> QED  BY <1>5, <1>6, <2>1, <2>2 DEF IInv
<1>9. CASE u.red = FALSE /\ IsRed(t, u.node)
  <2>1. tree' = Blackened(t, u.node) /\ call' = Idle
    BY <1>2, <1>9
  <2>2. Good(Blackened(t, u.node), Idle) /\ LinkedIn(Blackened(t, u.node)) = LinkedIn(t)
    <3>1. Deficit(t, k, u.parent, e, u.node, FALSE) /\ Sound(t, B)
      BY <1>7, <1>9
    <3> QED  BY <1>9, <3>1, RedChildStays
  <2>3. Good(tree', call') /\ LinkedIn(tree') = LinkedIn(t)
    BY <2>1, <2>2
  <2> QED  BY <1>5, <1>6, <2>3 DEF IInv
<1>10. CASE u.red = FALSE /\ ~IsRed(t, u.node)
  <2>1. tree' = t /\ call' = [op |-> "del", node |-> u.node, parent |-> u.parent]
    BY <1>2, <1>10
  <2>2. Good(t, [op |-> "del", node |-> u.node, parent |-> u.parent])
    BY <1>7, <1>10, BlackRemoved
  <2> QED  BY <1>5, <1>6, <2>1, <2>2 DEF IInv
<1> QED  BY <1>6, <1>8, <1>9, <1>10

\* The root is black as it is.
LEMMA RootBlackened ==
  ASSUME NEW t, Good(t, Idle)
  PROVE  Good(Blackened(t, t.root), Idle) /\ LinkedIn(Blackened(t, t.root)) = LinkedIn(t)
<1>1. PICK r : r = Blackened(t, t.root)
  OBVIOUS
<1>2. PICK below, h : /\ Sound(t, below) /\ Level(t, h, {}) /\ Apart(t, NULL)
                      /\ ~IsRed(t, t.root)
  BY IdleFacts
<1>3. CASE t.root = NULL
  <2>1. r = t
    BY <1>1, <1>3 DEF Blackened
  <2> QED  BY <1>1, <2>1
<1>4. CASE t.root # NULL
  <2>1. t \in Trees /\ t.root \in Nodes /\ t.red \in [Nodes -> BOOLEAN]
    BY <1>2, <1>4, TreeFields DEF Sound, Places
  <2>2. r = [t EXCEPT !.red[t.root] = FALSE] /\ t.red[t.root] = FALSE
    BY <1>1, <1>2, <1>4, <2>1 DEF Blackened, IsRed
  <2>3. Recolours(t, r) /\ r.red = [t.red EXCEPT ![t.root] = FALSE]
    BY <2>1, <2>2, RedFields
  <2>4. LinkedIn(t) \in SUBSET Nodes
    BY DEF LinkedIn
  <2>5. \A m \in LinkedIn(t) : r.red[m] = t.red[m]
    BY <2>1, <2>2, <2>3, <2>4
  <2>6. Sound(r, below) /\ LinkedIn(r) = LinkedIn(t) /\ r.root = t.root
    BY <1>2, <2>3, RecolourSound DEF Recolours
  <2>7. Level(r, h, {}) /\ Apart(r, NULL)
    BY <1>2, <2>3, <2>5, SameColours
  <2>8. ~IsRed(r, r.root)
    BY <2>1, <2>2, <2>3, <2>6 DEF IsRed
  <2> QED  BY <1>1, <2>6, <2>7, <2>8, GoodIdle
<1> QED  BY <1>3, <1>4

LEMMA DelDoneKeeps ==
  ASSUME IInv, DelDone
  PROVE  IInv' /\ LinkedIn(tree') = LinkedIn(tree) /\ call' = Idle
<1>1. /\ call.op = "del" /\ ~Short /\ call.node = tree.root
      /\ tree' = Blackened(tree, tree.root) /\ call' = Idle
  BY DEF DelDone, Short
<1>2. ~ShortIn(tree, call)
  BY <1>1 DEF ShortIn
<1>3. PICK below, h : /\ Sound(tree, below) /\ Level(tree, h, {})
  BY <1>2 DEF IInv, Good
<1>4. Apart(tree, NULL) /\ ~IsRed(tree, tree.root)
  BY <1>1 DEF IInv, Good
<1>5. Good(tree, Idle)
  BY <1>3, <1>4, GoodIdle
<1>6. Good(tree', Idle) /\ LinkedIn(tree') = LinkedIn(tree)
  BY <1>1, <1>5, RootBlackened
<1> QED  BY <1>1, <1>6 DEF IInv

-----------------------------------------------------------------------------
(* The loop of tree_del: what surrounds the place that lacks a black node. *)

\* The place on side cis of p, which holds node, lacks a black node.
ShortAt(t, below, h, p, cis, node) ==
  /\ Sound(t, below) /\ Level(t, h, {<<p, cis>>}) /\ Apart(t, NULL)
  /\ ~IsRed(t, t.root) /\ ~IsRed(t, node)
  /\ p \in LinkedIn(t) /\ cis \in Sides /\ t.child[p][cis] = node

LEMMA ShortFacts ==
  ASSUME IInv, Short
  PROVE  \E below, h : ShortAt(tree, below, h, call.parent, DelSide, call.node)
<1>1. call.op = "del" /\ ShortIn(tree, call)
  BY DEF Short, ShortIn
<1>2. DelSide \in Sides /\ DelSide = SideOf(tree, call.parent, call.node)
  BY SideOfSides DEF DelSide
<1>3. PICK below, h : Sound(tree, below) /\ Level(tree, h, {<<call.parent, DelSide>>})
  BY <1>1, <1>2 DEF IInv, Good
<1>4. /\ Apart(tree, NULL) /\ ~IsRed(tree, tree.root) /\ ~IsRed(tree, call.node)
      /\ call.parent \in LinkedIn(tree)
      /\ tree.child[call.parent][DelSide] = call.node
  BY <1>1, <1>2 DEF IInv, Good
<1> QED  BY <1>2, <1>3, <1>4 DEF ShortAt

\* p, its children node and s, and the children of s.
Family(t, p, cis, node, s, near, far) ==
  /\ p \in LinkedIn(t) /\ s \in LinkedIn(t) /\ cis \in Sides
  /\ t.child[p][cis] = node /\ t.child[p][Other(cis)] = s
  /\ t.child[s][cis] = near /\ t.child[s][Other(cis)] = far
  /\ p # NULL /\ s # NULL /\ p # s /\ s # t.root
  /\ node # p /\ node # s /\ near # p /\ near # s /\ far # p /\ far # s
  /\ node # NULL => node \in LinkedIn(t) /\ node # near /\ node # far /\ node # t.root
  /\ near # NULL => near \in LinkedIn(t) /\ near # far /\ near # t.root
  /\ far # NULL => far \in LinkedIn(t) /\ far # t.root
  /\ LinkedIn(t) \in SUBSET Nodes /\ t.red \in [Nodes -> BOOLEAN] /\ t \in Trees

LEMMA FamilyFacts ==
  ASSUME NEW t, NEW below, Sound(t, below), NEW p \in LinkedIn(t), NEW cis \in Sides,
         NEW s, s = t.child[p][Other(cis)], s # NULL
  PROVE  Family(t, p, cis, t.child[p][cis], s, t.child[s][cis], t.child[s][Other(cis)])
<1>1. PICK node, near, far, o :
        /\ node = t.child[p][cis] /\ near = t.child[s][cis]
        /\ far = t.child[s][Other(cis)] /\ o = Other(cis)
  OBVIOUS
<1>2. o \in Sides /\ o # cis /\ Other(o) = cis
  BY <1>1, SideFacts
<1>3. /\ LinkedIn(t) \in SUBSET Nodes /\ t.red \in [Nodes -> BOOLEAN] /\ t \in Trees
      /\ p # NULL
  BY TreeFields DEF Sound, LinkedIn
<1>4. t.child[p][o] = s /\ t.child[s][o] = far
  BY <1>1
<1>5. /\ s \in LinkedIn(t) /\ t.parent[s] = p /\ s # t.root /\ s # p
      /\ below[s] \subseteq below[p] /\ p \notin below[s] /\ s # node
  BY <1>1, <1>2, <1>4, ChildFacts
<1>6. node # NULL => node \in LinkedIn(t) /\ t.parent[node] = p /\ node # t.root /\ node # p
  BY <1>1, ChildFacts
<1>7. near # NULL => /\ near \in LinkedIn(t) /\ t.parent[near] = s /\ near # t.root
                     /\ near # s /\ near \in below[near] /\ below[near] \subseteq below[s]
                     /\ near # far
  BY <1>1, <1>5, ChildFacts
<1>8. far # NULL => /\ far \in LinkedIn(t) /\ t.parent[far] = s /\ far # t.root
                    /\ far # s /\ far \in below[far] /\ below[far] \subseteq below[s]
  BY <1>1, <1>2, <1>4, <1>5, ChildFacts
<1>9. near # p /\ far # p
  BY <1>3, <1>5, <1>7, <1>8
<1>10. node # NULL => node # near /\ node # far
  BY <1>5, <1>6, <1>7, <1>8
<1>11. node # p /\ node # s /\ near # s /\ far # s
  BY <1>3, <1>5, <1>6, <1>7, <1>8
<1>12. Family(t, p, cis, node, s, near, far)
  BY <1>1, <1>3, <1>5, <1>6, <1>7, <1>8, <1>9, <1>10, <1>11 DEF Family
<1> QED  BY <1>1, <1>12

\* The levels of the family.
Heights(t, h, p, node, s, near, far) ==
  /\ h \in [Nodes -> Nat]
  /\ h[p] \in Nat /\ h[s] \in Nat
  /\ High(h, node) \in Nat /\ High(h, near) \in Nat /\ High(h, far) \in Nat
  /\ h[p] = Own(t, p) + High(h, node) + 1
  /\ h[p] = Own(t, p) + h[s]
  /\ h[s] = Own(t, s) + High(h, near)
  /\ h[s] = Own(t, s) + High(h, far)

LEMMA FamilyHeights ==
  ASSUME NEW t, NEW h, NEW p, NEW cis, NEW node, NEW s, NEW near, NEW far,
         Family(t, p, cis, node, s, near, far), Level(t, h, {<<p, cis>>})
  PROVE  Heights(t, h, p, node, s, near, far)
<1>1. /\ p \in LinkedIn(t) /\ s \in LinkedIn(t) /\ cis \in Sides
      /\ t.child[p][cis] = node /\ t.child[p][Other(cis)] = s
      /\ t.child[s][cis] = near /\ t.child[s][Other(cis)] = far
      /\ p # s /\ s # NULL /\ p \in Nodes /\ s \in Nodes /\ t \in Trees
  BY DEF Family
<1>2. Other(cis) \in Sides /\ Other(cis) # cis
  BY <1>1, SideFacts
<1>3. /\ h \in [Nodes -> Nat]
      /\ \A m \in Places : High(h, m) \in Nat
      /\ \A m \in LinkedIn(t), z \in Sides :
           /\ t.child[m][z] \in Places
           /\ h[m] = Own(t, m) + High(h, t.child[m][z]) + Lack({<<p, cis>>}, m, z)
  BY <1>1, LevelSums
<1>4. /\ Lack({<<p, cis>>}, p, cis) = 1 /\ Lack({<<p, cis>>}, p, Other(cis)) = 0
      /\ \A z \in Sides : Lack({<<p, cis>>}, s, z) = 0
  BY <1>1, <1>2 DEF Lack
<1>5. /\ High(h, node) \in Nat /\ High(h, near) \in Nat /\ High(h, far) \in Nat
      /\ High(h, s) = h[s]
  BY <1>1, <1>2, <1>3 DEF High
<1>6. h[p] \in Nat /\ h[s] \in Nat /\ Own(t, p) \in Nat /\ Own(t, s) \in Nat
  BY <1>1, <1>3 DEF Own
<1>7. h[p] = Own(t, p) + High(h, node) + 1
  BY <1>1, <1>3, <1>4
<1>8. h[p] = Own(t, p) + h[s]
  <2>1. h[p] = Own(t, p) + High(h, s) + 0
    BY <1>1, <1>2, <1>3, <1>4
  <2> QED  BY <1>5, <1>6, <2>1
<1>9. h[s] = Own(t, s) + High(h, near)
  <2>1. h[s] = Own(t, s) + High(h, near) + 0
    BY <1>1, <1>3, <1>4
  <2> QED  BY <1>5, <1>6, <2>1
<1>10. h[s] = Own(t, s) + High(h, far)
  <2>1. h[s] = Own(t, s) + High(h, far) + 0
    BY <1>1, <1>2, <1>3, <1>4
  <2> QED  BY <1>5, <1>6, <2>1
<1> QED  BY <1>3, <1>5, <1>6, <1>7, <1>8, <1>9, <1>10 DEF Heights

\* The place that lacks a black node has a sibling.
LEMMA SiblingThere ==
  ASSUME NEW t, NEW below, NEW h, NEW p, NEW cis, NEW node,
         ShortAt(t, below, h, p, cis, node)
  PROVE  t.child[p][Other(cis)] # NULL
<1>1. PICK s : s = t.child[p][Other(cis)]
  OBVIOUS
<1>2. /\ p \in LinkedIn(t) /\ cis \in Sides /\ t.child[p][cis] = node /\ t \in Trees
      /\ Level(t, h, {<<p, cis>>})
  BY DEF ShortAt, Sound
<1>3. Other(cis) \in Sides /\ Other(cis) # cis
  BY <1>2, SideFacts
<1>4. /\ \A m \in Places : High(h, m) \in Nat
      /\ \A m : Own(t, m) \in Nat
      /\ \A m \in LinkedIn(t), z \in Sides :
           /\ t.child[m][z] \in Places
           /\ h[m] = Own(t, m) + High(h, t.child[m][z]) + Lack({<<p, cis>>}, m, z)
  BY <1>2, LevelSums
<1>5. Lack({<<p, cis>>}, p, cis) = 1 /\ Lack({<<p, cis>>}, p, Other(cis)) = 0
  BY <1>3 DEF Lack
<1>6. /\ h[p] = Own(t, p) + High(h, node) + 1 /\ h[p] = Own(t, p) + High(h, s) + 0
      /\ High(h, node) \in Nat /\ High(h, s) \in Nat /\ Own(t, p) \in Nat
  BY <1>1, <1>2, <1>3, <1>4, <1>5
<1>7. High(h, s) # 0
  BY <1>6
<1> QED  BY <1>1, <1>7 DEF High

\* r is the rotation of t in the colours of c.
TurnedIn(t, c, r, cis, p, q, b, f) ==
  /\ r \in Trees /\ r.red = c.red /\ LinkedIn(r) = LinkedIn(t)
  /\ Turned(t, r, cis, p, q, b, f)
  /\ r.root = IF t.root = p THEN q ELSE t.root
  /\ \E B : Sound(r, B)

LEMMA RotateColours ==
  ASSUME NEW t, NEW below, Sound(t, below), NEW c, Recolours(t, c),
         NEW cis \in Sides, NEW p \in LinkedIn(t),
         NEW q, q = t.child[p][Other(cis)], q # NULL
  PROVE  TurnedIn(t, c, tree__rotate(c, cis, p), cis, p, q, t.child[q][cis],
                  t.child[q][Other(cis)])
<1>1. PICK r, b, f : /\ r = tree__rotate(c, cis, p) /\ b = t.child[q][cis]
                     /\ f = t.child[q][Other(cis)]
  OBVIOUS
<1>2. Sound(c, below) /\ LinkedIn(c) = LinkedIn(t) /\ c.child = t.child /\ c.root = t.root
  BY RecolourSound DEF Recolours
<1>3. /\ Rotation(c, r, cis, p, q, b, f)
      /\ Sound(r, BelowRotated(c, below, cis, p))
  BY <1>1, <1>2, RotateStep
<1>4. /\ r \in Trees /\ r.red = c.red /\ LinkedIn(r) = LinkedIn(t)
      /\ Turned(c, r, cis, p, q, b, f)
      /\ r.root = IF c.root = p THEN q ELSE c.root
  BY <1>2, <1>3 DEF Rotation
<1>5. Turned(t, r, cis, p, q, b, f)
  BY <1>2, <1>4 DEF Turned
<1>6. r.root = IF t.root = p THEN q ELSE t.root
  BY <1>2, <1>4
<1>7. TurnedIn(t, c, r, cis, p, q, b, f)
  BY <1>3, <1>4, <1>5, <1>6 DEF TurnedIn
<1> QED  BY <1>1, <1>7

-----------------------------------------------------------------------------
(* The sibling of the short place becomes black.                           *)

BlackSib(t, below, h, p, cis, node, s) ==
  /\ ShortAt(t, below, h, p, cis, node)
  /\ s = t.child[p][Other(cis)] /\ s # NULL /\ ~t.red[s]

LEMMA SwappedFields ==
  ASSUME NEW t \in Trees, NEW s \in Nodes, NEW p \in Nodes
  PROVE  /\ Recolours(t, Swapped(t, s, p))
         /\ Swapped(t, s, p).red = [[t.red EXCEPT ![s] = FALSE] EXCEPT ![p] = TRUE]
  BY RedFields2 DEF Swapped

\* The tree once the sibling s is black.
Lifted(t, p, cis, s) == tree__rotate(Swapped(t, s, p), cis, p)

LEMMA RedSiblingTurned ==
  ASSUME NEW t, NEW below, NEW h, NEW p, NEW cis, NEW node,
         ShortAt(t, below, h, p, cis, node),
         NEW s, s = t.child[p][Other(cis)], s # NULL, t.red[s]
  PROVE  LET r == Lifted(t, p, cis, s)
         IN  /\ LinkedIn(r) = LinkedIn(t) /\ r.red[p]
             /\ \E B, k : BlackSib(r, B, k, p, cis, node, r.child[p][Other(cis)])
<1>1. PICK c, r, near, far :
        /\ c = Swapped(t, s, p) /\ r = tree__rotate(c, cis, p)
        /\ near = t.child[s][cis] /\ far = t.child[s][Other(cis)]
  OBVIOUS
<1>2. /\ Sound(t, below) /\ Level(t, h, {<<p, cis>>}) /\ Apart(t, NULL)
      /\ ~IsRed(t, t.root) /\ ~IsRed(t, node)
      /\ p \in LinkedIn(t) /\ cis \in Sides /\ t.child[p][cis] = node
  BY DEF ShortAt
<1>3. Family(t, p, cis, node, s, near, far)
  BY <1>1, <1>2, FamilyFacts
<1>4. Heights(t, h, p, node, s, near, far)
  BY <1>2, <1>3, FamilyHeights
<1>5. /\ p \in Nodes /\ s \in Nodes /\ p # s /\ s # t.root /\ s \in LinkedIn(t)
      /\ node # p /\ node # s /\ near # p /\ near # s /\ far # p /\ far # s
      /\ near # NULL => near # far
      /\ t \in Trees /\ LinkedIn(t) \in SUBSET Nodes /\ t.red \in [Nodes -> BOOLEAN]
      /\ t.child[s][cis] = near /\ t.child[s][Other(cis)] = far
  BY <1>3 DEF Family
<1>6. Other(cis) \in Sides /\ Other(cis) # cis
  BY <1>2, SideFacts
<1>7. node \in Places /\ near \in Places /\ far \in Places
  BY <1>2, <1>5, <1>6, TreeFields
<1>8. ~t.red[p] /\ ~IsRed(t, near) /\ ~IsRed(t, far)
  <2>1. IsRed(t, s)
    BY DEF IsRed
  <2> QED  BY <1>2, <1>5, <1>6, <2>1 DEF Apart, IsRed
<1>9. Recolours(t, c) /\ c.red = [[t.red EXCEPT ![s] = FALSE] EXCEPT ![p] = TRUE]
  BY <1>1, <1>5, SwappedFields
<1>10. TurnedIn(t, c, r, cis, p, s, near, far)
  BY <1>1, <1>2, <1>9, RotateColours
<1>11. /\ r \in Trees /\ r.red = c.red /\ LinkedIn(r) = LinkedIn(t)
       /\ Turned(t, r, cis, p, s, near, far)
       /\ r.root = IF t.root = p THEN s ELSE t.root
  BY <1>10 DEF TurnedIn
<1>12. PICK B : Sound(r, B)
  BY <1>10 DEF TurnedIn
<1>13. /\ ~r.red[s] /\ r.red[p]
       /\ \A m \in Nodes : m # s /\ m # p => r.red[m] = t.red[m]
  BY <1>5, <1>9, <1>11
<1>14. PICK k : k = [h EXCEPT ![s] = h[p], ![p] = h[s]]
  OBVIOUS
<1>15. h \in [Nodes -> Nat]
  BY <1>4 DEF Heights
<1>16. /\ k \in [Nodes -> Nat] /\ k[s] = h[p] /\ k[p] = h[s]
       /\ \A m \in Nodes : m # s /\ m # p => k[m] = h[m]
  BY <1>5, <1>14, <1>15
<1>17. /\ Own(t, p) = 1 /\ Own(t, s) = 0 /\ Own(r, p) = 0 /\ Own(r, s) = 1
       /\ \A m \in Nodes : m # s /\ m # p => Own(r, m) = Own(t, m)
  BY <1>5, <1>8, <1>13 DEF Own
<1>18. /\ High(k, node) = High(h, node) /\ High(k, near) = High(h, near)
       /\ High(k, far) = High(h, far)
  BY <1>5, <1>7, <1>16 DEF High, Places
<1>19. /\ h[p] \in Nat /\ h[s] \in Nat
       /\ High(h, node) \in Nat /\ High(h, near) \in Nat /\ High(h, far) \in Nat
       /\ h[p] = 1 + High(h, node) + 1
       /\ h[p] = 1 + h[s]
       /\ h[s] = 0 + High(h, near)
       /\ h[s] = 0 + High(h, far)
  BY <1>4, <1>17 DEF Heights
<1>20. PICK lack : lack = {<<p, cis>>}
  OBVIOUS
<1>21. /\ Lack(lack, p, cis) = 1 /\ Lack(lack, p, Other(cis)) = 0
       /\ Lack(lack, s, cis) = 0 /\ Lack(lack, s, Other(cis)) = 0
  BY <1>5, <1>6, <1>20 DEF Lack
<1>22. Level(r, k, lack)
  <2>1. /\ k[p] = Own(r, p) + High(k, t.child[p][cis]) + Lack(lack, p, cis)
        /\ k[p] = Own(r, p) + High(k, near) + Lack(lack, p, Other(cis))
        /\ k[s] = Own(r, s) + k[p] + Lack(lack, s, cis)
        /\ k[s] = Own(r, s) + High(k, far) + Lack(lack, s, Other(cis))
    BY <1>2, <1>16, <1>17, <1>18, <1>19, <1>21
  <2>2. \A m \in LinkedIn(t) :
          m # p /\ m # s =>
            /\ k[m] - Own(r, m) = h[m] - Own(t, m)
            /\ m # far => k[m] = h[m]
            /\ \A z \in Sides : Lack(lack, m, z) = Lack(lack, m, z)
    BY <1>5, <1>16, <1>17
  <2>3. k[s] = h[p] /\ Level(t, h, lack)
    BY <1>2, <1>16, <1>20
  <2>4. Sound(t, below) /\ k \in [Nodes -> Nat] /\ r \in Trees
        /\ LinkedIn(r) = LinkedIn(t) /\ cis \in Sides
    BY <1>2, <1>11, <1>16
  <2> QED  BY <1>11, <2>1, <2>2, <2>3, <2>4, TurnedLevel
<1>23. ~IsRed(r, near) /\ ~IsRed(r, far) /\ ~IsRed(r, node)
  BY <1>2, <1>5, <1>7, <1>8, <1>13 DEF IsRed, Places
<1>24. Apart(r, NULL)
  <2>1. ASSUME NEW m \in LinkedIn(t), NEW z \in Sides, m # p, m # s, r.red[m]
        PROVE  /\ t.child[m][z] = p /\ IsRed(r, s) => s = NULL
               /\ t.child[m][z] # p /\ IsRed(r, t.child[m][z]) => t.child[m][z] = NULL
    <3>1. m \in Nodes /\ t.red[m] /\ t.child[m][z] \in Places
      BY <1>5, <1>13, <2>1, TreeFields
    <3>2. t.child[m][z] # p /\ IsRed(r, t.child[m][z]) => IsRed(t, t.child[m][z])
      BY <1>13, <3>1 DEF IsRed, Places
    <3> QED  BY <1>2, <1>13, <3>1, <3>2 DEF Apart, IsRed
  <2>2. ~IsRed(r, t.child[p][cis]) /\ ~IsRed(r, near) /\ ~r.red[s]
    BY <1>2, <1>13, <1>23
  <2> QED  BY <1>2, <1>11, <2>1, <2>2, TurnedApart
<1>25. ~IsRed(r, r.root)
  <2>1. CASE t.root = p
    BY <1>11, <1>13, <2>1 DEF IsRed
  <2>2. CASE t.root # p
    <3>1. t.root \in Places /\ r.root = t.root
      BY <1>5, <1>11, <2>2, TreeFields
    <3> QED  BY <1>2, <1>5, <1>13, <2>2, <3>1 DEF IsRed, Places
  <2> QED  BY <2>1, <2>2
<1>26. r.child[p][cis] = node /\ r.child[p][Other(cis)] = near
  BY <1>2, <1>11 DEF Turned
<1>27. near # NULL /\ ~r.red[near]
  <2>1. near # NULL
    BY <1>19 DEF High
  <2> QED  BY <1>23, <2>1 DEF IsRed
<1>28. ShortAt(r, B, k, p, cis, node)
  BY <1>2, <1>11, <1>12, <1>20, <1>22, <1>23, <1>24, <1>25, <1>26 DEF ShortAt
<1>29. BlackSib(r, B, k, p, cis, node, r.child[p][Other(cis)])
  BY <1>26, <1>27, <1>28 DEF BlackSib
<1> QED  BY <1>1, <1>11, <1>13, <1>29 DEF Lifted

\* What the loop works on once the sibling is black.
LEMMA BlackSiblingFacts ==
  ASSUME IInv, Short
  PROVE  /\ Sibling # NULL /\ call.parent \in LinkedIn(tree)
         /\ LinkedIn(WithBlackSibling) = LinkedIn(tree)
         /\ ~WithBlackSibling.red[call.parent] => WithBlackSibling = tree
         /\ \E B, k : BlackSib(WithBlackSibling, B, k, call.parent, DelSide,
                               call.node, NewSibling)
<1>1. PICK p, cis, node, s, w :
        /\ p = call.parent /\ cis = DelSide /\ node = call.node /\ s = Sibling
        /\ w = WithBlackSibling
  OBVIOUS
<1>2. PICK below, h : ShortAt(tree, below, h, p, cis, node)
  BY <1>1, ShortFacts
<1>3. s = tree.child[p][Other(cis)] /\ s # NULL
  BY <1>1, <1>2, SiblingThere DEF Sibling
<1>4. p \in LinkedIn(tree)
  BY <1>2 DEF ShortAt
<1>5. NewSibling = w.child[p][Other(cis)]
  BY <1>1 DEF NewSibling
<1>6. CASE tree.red[s]
  <2>1. w = Lifted(tree, p, cis, s)
    BY <1>1, <1>6 DEF WithBlackSibling, Lifted
  <2>2. /\ LinkedIn(w) = LinkedIn(tree) /\ w.red[p]
        /\ \E B, k : BlackSib(w, B, k, p, cis, node, w.child[p][Other(cis)])
    BY <1>2, <1>3, <1>6, <2>1, RedSiblingTurned
  <2> QED  BY <1>1, <1>3, <1>4, <1>5, <2>2
<1>7. CASE ~tree.red[s]
  <2>1. w = tree
    BY <1>1, <1>7 DEF WithBlackSibling
  <2>2. BlackSib(w, below, h, p, cis, node, w.child[p][Other(cis)])
    BY <1>2, <1>3, <1>7, <2>1 DEF BlackSib
  <2> QED  BY <1>1, <1>3, <1>4, <1>5, <2>1, <2>2
<1> QED  BY <1>6, <1>7

-----------------------------------------------------------------------------
(* The sibling becomes as short as the place.                              *)

\* s is red and p black, all other colours are those of t.
Reddened(t, r, s, p) ==
  /\ Recolours(t, r) /\ r.red[s] /\ ~r.red[p]
  /\ \A m \in Nodes : m # s /\ m # p => r.red[m] = t.red[m]

\* Unless p was red the place of p lacks a black node.
LacksAbove(t, p, lack) ==
  /\ t.red[p] => lack = {}
  /\ ~t.red[p] => lack = {<<t.parent[p], SideOf(t, t.parent[p], p)>>}

Evened(t, r, below, p, lack) ==
  /\ LinkedIn(r) = LinkedIn(t) /\ Sound(r, below)
  /\ \E k : Level(r, k, lack)
  /\ Apart(r, NULL) /\ ~IsRed(r, r.root) /\ ~IsRed(r, p)

LEMMA SiblingReddened ==
  ASSUME NEW t, NEW below, NEW h, NEW p, NEW cis, NEW node, NEW s,
         BlackSib(t, below, h, p, cis, node, s),
         \A z \in Sides : ~IsRed(t, t.child[s][z]),
         NEW r, Reddened(t, r, s, p), NEW lack, LacksAbove(t, p, lack)
  PROVE  Evened(t, r, below, p, lack)
<1>1. PICK near, far, g, e :
        /\ near = t.child[s][cis] /\ far = t.child[s][Other(cis)]
        /\ g = t.parent[p] /\ e = SideOf(t, g, p)
        /\ t.red[p] => lack = {}
        /\ ~t.red[p] => lack = {<<g, e>>}
  BY DEF LacksAbove
<1>2. /\ Sound(t, below) /\ Level(t, h, {<<p, cis>>}) /\ Apart(t, NULL)
      /\ ~IsRed(t, t.root) /\ ~IsRed(t, node)
      /\ p \in LinkedIn(t) /\ cis \in Sides /\ t.child[p][cis] = node
      /\ s = t.child[p][Other(cis)] /\ s # NULL /\ ~t.red[s]
  BY DEF BlackSib, ShortAt
<1>3. Family(t, p, cis, node, s, near, far)
  BY <1>1, <1>2, FamilyFacts
<1>4. Heights(t, h, p, node, s, near, far)
  BY <1>2, <1>3, FamilyHeights
<1>5. /\ p \in Nodes /\ s \in Nodes /\ p # s /\ s # t.root /\ s \in LinkedIn(t)
      /\ p # NULL
      /\ node # p /\ node # s /\ near # p /\ near # s /\ far # p /\ far # s
      /\ t \in Trees /\ LinkedIn(t) \in SUBSET Nodes /\ t.red \in [Nodes -> BOOLEAN]
      /\ t.child[s][cis] = near /\ t.child[s][Other(cis)] = far
  BY <1>3 DEF Family
<1>6. /\ Other(cis) \in Sides /\ Other(cis) # cis
      /\ \A z \in Sides : z = cis \/ z = Other(cis)
  BY <1>2, SideFacts
<1>7. /\ LinkedIn(r) = LinkedIn(t) /\ Sound(r, below)
      /\ r.child = t.child /\ r.root = t.root
  BY <1>2, RecolourSound DEF Reddened, Recolours
<1>8. /\ r.red[s] /\ ~r.red[p]
      /\ \A m \in Nodes : m # s /\ m # p => r.red[m] = t.red[m]
  BY DEF Reddened
<1>9. \A m \in LinkedIn(t), z \in Sides : t.child[m][z] = p <=> m = g /\ z = e
  <2>1. \A m \in LinkedIn(t), z \in Sides : t.child[m][z] = p => m = g /\ z = e
    BY <1>1, <1>2, ParentFacts
  <2>2. \A m \in LinkedIn(t), z \in Sides : m = g /\ z = e => t.child[m][z] = p
    <3>1. \A m \in LinkedIn(t) : m # NULL
      BY <1>5
    <3>2. g # NULL => t.child[g][e] = p
      BY <1>1, <1>2, ParentFacts
    <3> QED  BY <3>1, <3>2
  <2> QED  BY <2>1, <2>2
<1>10. PICK d : d = Own(t, p)
  OBVIOUS
<1>11. /\ d \in {0, 1} /\ (d = 0 <=> t.red[p])
       /\ Own(t, s) = 1 /\ Own(r, s) = 0 /\ Own(r, p) = 1
       /\ \A m \in Nodes : m # s /\ m # p => Own(r, m) = Own(t, m) /\ Own(t, m) \in Nat
  BY <1>2, <1>8, <1>10 DEF Own
<1>12. \A m \in LinkedIn(t), z \in Sides :
         Lack(lack, m, z) = IF t.child[m][z] = p THEN d ELSE 0
  <2>1. CASE t.red[p]
    BY <1>1, <1>11, <2>1 DEF Lack
  <2>2. CASE ~t.red[p]
    <3>1. d = 1 /\ lack = {<<g, e>>}
      BY <1>1, <1>11, <2>2
    <3> QED  BY <1>9, <3>1 DEF Lack
  <2> QED  BY <2>1, <2>2
<1>13. /\ h \in [Nodes -> Nat]
       /\ h[p] \in Nat /\ h[s] \in Nat
       /\ High(h, node) \in Nat /\ High(h, near) \in Nat /\ High(h, far) \in Nat
       /\ h[p] = d + High(h, node) + 1
       /\ h[p] = d + h[s]
       /\ h[s] = 1 + High(h, near)
       /\ h[s] = 1 + High(h, far)
  BY <1>4, <1>10, <1>11 DEF Heights
<1>14. PICK k : k = [h EXCEPT ![s] = h[s] - 1, ![p] = h[p] - d]
  OBVIOUS
<1>15. /\ k \in [Nodes -> Nat] /\ k[s] = h[s] - 1 /\ k[p] = h[p] - d
       /\ \A m \in Nodes : m # s /\ m # p => k[m] = h[m]
  <2>1. h[s] - 1 \in Nat /\ h[p] - d \in Nat
    BY <1>11, <1>13
  <2> QED  BY <1>5, <1>13, <1>14, <2>1
<1>16. \A m \in Places : m # s /\ m # p => High(k, m) = High(h, m) /\ High(h, m) \in Nat
  BY <1>13, <1>15 DEF High, Places
<1>17. High(k, s) = k[s] /\ High(h, s) = h[s] /\ High(k, p) = k[p] /\ High(h, p) = h[p]
  BY <1>2, <1>5 DEF High
<1>18. \A m \in LinkedIn(t), z \in Sides :
         /\ t.child[m][z] \in Places
         /\ t.child[m][z] = s => m = p
  <2>1. t.parent[s] = p
    BY <1>2, <1>6, ChildFacts
  <2> QED  BY <1>2, <1>5, <2>1, ChildFacts, TreeFields
<1>19. Level(r, k, lack)
  <2> SUFFICES ASSUME NEW m \in LinkedIn(t), NEW z \in Sides
               PROVE  k[m] = Own(r, m) + High(k, t.child[m][z]) + Lack(lack, m, z)
    BY <1>7, <1>15 DEF Level
  <2>1. CASE m = s
    <3>1. t.child[m][z] = near \/ t.child[m][z] = far
      BY <1>5, <1>6, <2>1
    <3>2. /\ t.child[m][z] # s /\ t.child[m][z] # p /\ t.child[m][z] \in Places
          /\ h[s] = 1 + High(h, t.child[m][z])
      BY <1>5, <1>13, <1>18, <3>1
    <3>3. High(k, t.child[m][z]) = High(h, t.child[m][z]) /\ High(h, t.child[m][z]) \in Nat
      BY <1>16, <3>2
    <3>4. Lack(lack, m, z) = 0
      BY <1>12, <3>2
    <3> QED  BY <1>11, <1>13, <1>15, <2>1, <3>2, <3>3, <3>4
  <2>2. CASE m = p /\ z = cis
    <3>1. Lack(lack, m, z) = 0 /\ t.child[m][z] = node
      BY <1>2, <1>5, <1>12, <2>2
    <3>2. High(k, node) = High(h, node)
      BY <1>5, <1>16, <1>18, <2>2, <3>1
    <3> QED  BY <1>11, <1>13, <1>15, <2>2, <3>1, <3>2
  <2>3. CASE m = p /\ z = Other(cis)
    <3>1. Lack(lack, m, z) = 0 /\ t.child[m][z] = s
      BY <1>2, <1>5, <1>12, <2>3
    <3> QED  BY <1>11, <1>13, <1>15, <1>17, <2>3, <3>1
  <2>4. CASE m # s /\ m # p
    <3>1. h[m] = Own(t, m) + High(h, t.child[m][z]) + Lack({<<p, cis>>}, m, z)
      BY <1>2 DEF Level
    <3>2. Lack({<<p, cis>>}, m, z) = 0
      BY <2>4 DEF Lack
    <3>3. m \in Nodes /\ k[m] = h[m] /\ Own(r, m) = Own(t, m) /\ Own(t, m) \in Nat
      BY <1>5, <1>11, <1>15, <2>4
    <3>4. CASE t.child[m][z] = p
      <4>1. Lack(lack, m, z) = d
        BY <1>12, <3>4
      <4> QED  BY <1>11, <1>13, <1>15, <1>17, <3>1, <3>2, <3>3, <3>4, <4>1
    <3>5. CASE t.child[m][z] # p
      <4>1. Lack(lack, m, z) = 0
        BY <1>12, <3>5
      <4>2. High(k, t.child[m][z]) = High(h, t.child[m][z]) /\ High(h, t.child[m][z]) \in Nat
        BY <1>16, <1>18, <2>4, <3>5
      <4> QED  BY <3>1, <3>2, <3>3, <4>1, <4>2
    <3> QED  BY <3>4, <3>5
  <2> QED  BY <1>6, <2>1, <2>2, <2>3, <2>4
<1>20. Apart(r, NULL)
  <2> SUFFICES ASSUME NEW m \in LinkedIn(t), NEW z \in Sides,
                      r.red[m], IsRed(r, t.child[m][z])
               PROVE  FALSE
    BY <1>7 DEF Apart
  <2>1. m # p /\ t.child[m][z] # p /\ t.child[m][z] # s /\ t.child[m][z] \in Places
    BY <1>8, <1>18 DEF IsRed
  <2>2. IsRed(t, t.child[m][z])
    BY <1>8, <2>1 DEF IsRed, Places
  <2>3. m # s
    BY <2>2
  <2>4. t.red[m]
    BY <1>5, <1>8, <2>1, <2>3
  <2> QED  BY <1>2, <2>2, <2>4 DEF Apart, IsRed
<1>21. ~IsRed(r, r.root)
  <2>1. t.root \in Places
    BY <1>5, TreeFields
  <2> QED  BY <1>2, <1>5, <1>7, <1>8, <2>1 DEF IsRed, Places
<1>22. ~IsRed(r, p)
  BY <1>8 DEF IsRed
<1> QED  BY <1>7, <1>19, <1>20, <1>21, <1>22 DEF Evened

LEMMA DelRecolourKeeps ==
  ASSUME IInv, DelRecolour
  PROVE  /\ IInv' /\ LinkedIn(tree') = LinkedIn(tree)
         /\ Short' => /\ Recolours(tree, tree') /\ call.parent \in LinkedIn(tree)
                      /\ call'.parent = tree.parent[call.parent]
<1>1. PICK w, p, cis, node, s, t :
        /\ w = WithBlackSibling /\ p = call.parent /\ cis = DelSide
        /\ node = call.node /\ s = NewSibling /\ t = [w EXCEPT !.red[s] = TRUE]
  OBVIOUS
<1>2. /\ Short /\ ~RedNephew
      /\ t.red[p] => tree' = Blackened(t, p) /\ call' = Idle
      /\ ~t.red[p] => tree' = t /\ call' = UpFrom(t, p)
  BY <1>1 DEF DelRecolour
<1>3. /\ p \in LinkedIn(tree) /\ LinkedIn(w) = LinkedIn(tree)
      /\ ~w.red[p] => w = tree
      /\ \E B, k : BlackSib(w, B, k, p, cis, node, s)
  BY <1>1, <1>2, BlackSiblingFacts
<1>4. PICK below, h : BlackSib(w, below, h, p, cis, node, s)
  BY <1>3
<1>5. \A z \in Sides : ~IsRed(w, w.child[s][z])
  BY <1>1, <1>2 DEF RedNephew
<1>6. /\ Sound(w, below) /\ cis \in Sides /\ p \in LinkedIn(w)
      /\ s = w.child[p][Other(cis)] /\ s # NULL
  BY <1>4 DEF BlackSib, ShortAt
<1>7. w \in Trees /\ s \in Nodes /\ p \in Nodes /\ p # s /\ w.red \in [Nodes -> BOOLEAN]
  <2>1. Other(cis) \in Sides
    BY <1>6, SideFacts
  <2>2. s # p /\ s \in LinkedIn(w)
    BY <1>6, <2>1, ChildFacts
  <2> QED  BY <1>6, <2>2, TreeFields DEF Sound, LinkedIn
<1>8. Recolours(w, t) /\ t.red = [w.red EXCEPT ![s] = TRUE]
  BY <1>1, <1>7, RedFields
<1>9. t.red[s] = TRUE /\ \A m \in Nodes : m # s => t.red[m] = w.red[m]
  BY <1>7, <1>8
<1>10. CASE w.red[p]
  <2>1. tree' = [t EXCEPT !.red[p] = FALSE] /\ call' = Idle
    BY <1>2, <1>7, <1>9, <1>10 DEF Blackened
  <2>2. t \in Trees /\ t.red \in [Nodes -> BOOLEAN]
    BY <1>8, TreeFields DEF Recolours
  <2>3. Recolours(t, tree') /\ tree'.red = [t.red EXCEPT ![p] = FALSE]
    BY <1>7, <2>1, <2>2, RedFields
  <2>4. Recolours(w, tree')
    BY <1>8, <2>3 DEF Recolours
  <2>5. tree'.red[s] /\ ~tree'.red[p]
        /\ \A m \in Nodes : m # s /\ m # p => tree'.red[m] = w.red[m]
    BY <1>7, <1>9, <2>2, <2>3
  <2>6. Reddened(w, tree', s, p)
    BY <2>4, <2>5 DEF Reddened
  <2>7. /\ LinkedIn(tree') = LinkedIn(w) /\ Sound(tree', below)
        /\ \E k : Level(tree', k, {})
        /\ Apart(tree', NULL) /\ ~IsRed(tree', tree'.root)
    <3>1. LacksAbove(w, p, {})
      BY <1>10 DEF LacksAbove
    <3>2. Evened(w, tree', below, p, {})
      BY <1>4, <1>5, <2>6, <3>1, SiblingReddened
    <3> QED  BY <3>2 DEF Evened
  <2>8. Good(tree', Idle) /\ ~Short'
    BY <2>1, <2>7, GoodIdle DEF Short, Idle
  <2> QED  BY <1>3, <2>1, <2>7, <2>8 DEF IInv
<1>11. CASE ~w.red[p]
  <2>1. tree' = t /\ call' = [op |-> "del", node |-> p, parent |-> t.parent[p]]
    BY <1>2, <1>7, <1>9, <1>11 DEF UpFrom
  <2>2. Reddened(w, t, s, p)
    BY <1>7, <1>8, <1>9, <1>11 DEF Reddened
  <2>3. PICK g, e : g = w.parent[p] /\ e = SideOf(w, g, p)
    OBVIOUS
  <2>4. /\ LinkedIn(t) = LinkedIn(w) /\ Sound(t, below)
        /\ \E k : Level(t, k, {<<g, e>>})
        /\ Apart(t, NULL) /\ ~IsRed(t, t.root) /\ ~IsRed(t, p)
    <3>1. LacksAbove(w, p, {<<g, e>>})
      BY <1>11, <2>3 DEF LacksAbove
    <3>2. Evened(w, t, below, p, {<<g, e>>})
      BY <1>4, <1>5, <2>2, <3>1, SiblingReddened
    <3> QED  BY <3>2 DEF Evened
  <2>5. t.parent = w.parent /\ t.child = w.child /\ t.root = w.root
    BY <1>8 DEF Recolours
  <2>6. /\ g \in Places /\ e \in Sides /\ p \in Places
        /\ g = NULL => t.root = p
        /\ g # NULL => g \in LinkedIn(t) /\ t.child[g][e] = p
    <3>1. /\ g \in Places /\ (g = NULL => w.root = p)
          /\ g # NULL => g \in LinkedIn(w) /\ w.child[g][e] = p
      BY <1>6, <2>3, ParentFacts
    <3> QED  BY <1>7, <2>3, <2>4, <2>5, <3>1, SideOfSides DEF Places
  <2>7. Good(t, [op |-> "del", node |-> p, parent |-> g])
    BY <2>4, <2>6, GoodDel
  <2>8. call' = [op |-> "del", node |-> p, parent |-> g]
    BY <2>1, <2>3, <2>5
  <2>9. /\ Recolours(tree, tree') /\ p \in LinkedIn(tree)
        /\ call'.parent = tree.parent[p]
    BY <1>3, <1>8, <1>11, <2>1, <2>3, <2>8
  <2> QED  BY <1>1, <1>3, <2>1, <2>4, <2>7, <2>8, <2>9 DEF IInv
<1> QED  BY <1>10, <1>11

-----------------------------------------------------------------------------
(* A red nephew makes up for the black node that is lacking.               *)

\* The red nephew is on the outer side.
FarRed(t, below, h, p, cis, node) ==
  LET s == t.child[p][Other(cis)]
  IN  /\ BlackSib(t, below, h, p, cis, node, s)
      /\ IsRed(t, t.child[s][Other(cis)])

\* A red nephew on the inner side is brought to the outer side.
LEMMA NearTurned ==
  ASSUME NEW t, NEW below, NEW h, NEW p, NEW cis, NEW node, NEW s,
         BlackSib(t, below, h, p, cis, node, s),
         NEW near, near = t.child[s][cis], IsRed(t, near),
         ~IsRed(t, t.child[s][Other(cis)])
  PROVE  LET a == tree__rotate(Swapped(t, near, s), Other(cis), s)
         IN  /\ LinkedIn(a) = LinkedIn(t)
             /\ \E B, k : FarRed(a, B, k, p, cis, node)
<1>1. PICK c, a, o, far, b, f :
        /\ c = Swapped(t, near, s) /\ o = Other(cis) /\ a = tree__rotate(c, o, s)
        /\ far = t.child[s][o] /\ b = t.child[near][o] /\ f = t.child[near][cis]
  OBVIOUS
<1>2. /\ Sound(t, below) /\ Level(t, h, {<<p, cis>>}) /\ Apart(t, NULL)
      /\ ~IsRed(t, t.root) /\ ~IsRed(t, node)
      /\ p \in LinkedIn(t) /\ cis \in Sides /\ t.child[p][cis] = node
      /\ s = t.child[p][o] /\ s # NULL /\ ~t.red[s]
  BY <1>1 DEF BlackSib, ShortAt
<1>3. o \in Sides /\ o # cis /\ Other(o) = cis
  BY <1>1, <1>2, SideFacts
<1>4. Family(t, p, cis, node, s, near, far)
  BY <1>1, <1>2, FamilyFacts
<1>5. Heights(t, h, p, node, s, near, far)
  BY <1>2, <1>4, FamilyHeights
<1>6. /\ p \in Nodes /\ s \in Nodes /\ p # s /\ s # t.root /\ s \in LinkedIn(t)
      /\ t \in Trees /\ LinkedIn(t) \in SUBSET Nodes /\ t.red \in [Nodes -> BOOLEAN]
      /\ near # NULL /\ near \in Nodes /\ near \in LinkedIn(t) /\ near # t.root
      /\ near # p /\ near # s /\ node # s /\ (node # NULL => node # near)
      /\ t.red[near] /\ ~IsRed(t, far)
  BY <1>1, <1>4 DEF Family, IsRed
<1>7. Family(t, s, o, far, near, b, f)
  <2>1. near = t.child[s][Other(o)]
    BY <1>3
  <2>2. Family(t, s, o, t.child[s][o], near, t.child[near][o], t.child[near][Other(o)])
    BY <1>2, <1>3, <1>6, <2>1, FamilyFacts
  <2> QED  BY <1>1, <1>3, <2>2
<1>8. /\ far # s /\ far # near /\ b # s /\ b # near /\ f # s /\ f # near
      /\ t.child[near][o] = b /\ t.child[near][cis] = f /\ t.child[s][o] = far
  BY <1>1, <1>7 DEF Family
<1>9. far \in Places /\ b \in Places /\ f \in Places /\ node \in Places
  BY <1>1, <1>2, <1>3, <1>6, TreeFields
<1>10. ~IsRed(t, b)
  BY <1>2, <1>3, <1>6, <1>8 DEF Apart, IsRed
<1>11. Recolours(t, c) /\ c.red = [[t.red EXCEPT ![near] = FALSE] EXCEPT ![s] = TRUE]
  BY <1>1, <1>6, SwappedFields
<1>12. TurnedIn(t, c, a, o, s, near, b, f)
  <2>1. near = t.child[s][Other(o)]
    BY <1>3
  <2>2. TurnedIn(t, c, tree__rotate(c, o, s), o, s, near, t.child[near][o],
                 t.child[near][Other(o)])
    BY <1>2, <1>3, <1>6, <1>11, <2>1, RotateColours
  <2> QED  BY <1>1, <1>3, <2>2
<1>13. /\ a \in Trees /\ a.red = c.red /\ LinkedIn(a) = LinkedIn(t)
       /\ Turned(t, a, o, s, near, b, f)
       /\ a.root = t.root
  BY <1>6, <1>12 DEF TurnedIn
<1>14. PICK B : Sound(a, B)
  BY <1>12 DEF TurnedIn
<1>15. /\ ~a.red[near] /\ a.red[s]
       /\ \A m \in Nodes : m # near /\ m # s => a.red[m] = t.red[m]
  BY <1>6, <1>11, <1>13
<1>16. PICK k : k = [h EXCEPT ![near] = h[s], ![s] = h[s] - 1]
  OBVIOUS
<1>17. /\ Own(t, s) = 1 /\ Own(t, near) = 0 /\ Own(a, s) = 0 /\ Own(a, near) = 1
       /\ \A m \in Nodes : m # s /\ m # near => Own(a, m) = Own(t, m)
  BY <1>2, <1>6, <1>15 DEF Own
<1>18. /\ h \in [Nodes -> Nat] /\ h[s] \in Nat /\ h[near] \in Nat
       /\ High(h, far) \in Nat
       /\ h[s] = 1 + h[near] /\ h[s] = 1 + High(h, far)
  <2>1. /\ h \in [Nodes -> Nat] /\ h[s] \in Nat /\ High(h, far) \in Nat
        /\ h[s] = 1 + High(h, near) /\ h[s] = 1 + High(h, far)
    BY <1>5, <1>17 DEF Heights
  <2>2. High(h, near) = h[near] /\ h[near] \in Nat
    BY <1>6, <2>1 DEF High
  <2> QED  BY <2>1, <2>2
<1>19. PICK lack : lack = {<<p, cis>>}
  OBVIOUS
<1>20. \A z \in Sides : Lack(lack, s, z) = 0 /\ Lack(lack, near, z) = 0
  BY <1>6, <1>19 DEF Lack
<1>21. /\ High(h, b) \in Nat /\ High(h, f) \in Nat
       /\ h[near] = High(h, b) /\ h[near] = High(h, f)
  <2>1. t \in Trees /\ Level(t, h, lack)
    BY <1>2, <1>6, <1>19
  <2>2. /\ \A m \in Places : High(h, m) \in Nat
        /\ \A m \in LinkedIn(t), z \in Sides :
             h[m] = Own(t, m) + High(h, t.child[m][z]) + Lack(lack, m, z)
    BY <2>1, LevelSums
  <2>3. High(h, b) \in Nat /\ High(h, f) \in Nat
    BY <1>9, <2>2
  <2>4. h[near] = 0 + High(h, b) + 0 /\ h[near] = 0 + High(h, f) + 0
    <3>1. /\ h[near] = Own(t, near) + High(h, t.child[near][o]) + Lack(lack, near, o)
          /\ h[near] = Own(t, near) + High(h, t.child[near][cis]) + Lack(lack, near, cis)
      BY <1>2, <1>3, <1>6, <2>2
    <3>2. Own(t, near) = 0 /\ Lack(lack, near, o) = 0 /\ Lack(lack, near, cis) = 0
      BY <1>2, <1>3, <1>17, <1>20
    <3> QED  BY <1>8, <3>1, <3>2
  <2> QED  BY <2>3, <2>4
<1>22. /\ k \in [Nodes -> Nat] /\ k[near] = h[s] /\ k[s] = h[s] - 1
       /\ \A m \in Nodes : m # near /\ m # s => k[m] = h[m]
  <2>1. h[s] - 1 \in Nat
    BY <1>18
  <2> QED  BY <1>6, <1>16, <1>18, <2>1
<1>23. /\ High(k, far) = High(h, far) /\ High(k, b) = High(h, b)
       /\ High(k, f) = High(h, f)
  BY <1>8, <1>9, <1>22 DEF High, Places
<1>24. Level(a, k, lack)
  <2>1. /\ k[s] = Own(a, s) + High(k, t.child[s][o]) + Lack(lack, s, o)
        /\ k[s] = Own(a, s) + High(k, b) + Lack(lack, s, Other(o))
        /\ k[near] = Own(a, near) + k[s] + Lack(lack, near, o)
        /\ k[near] = Own(a, near) + High(k, f) + Lack(lack, near, Other(o))
    <3>1. /\ Lack(lack, s, o) = 0 /\ Lack(lack, s, Other(o)) = 0
          /\ Lack(lack, near, o) = 0 /\ Lack(lack, near, Other(o)) = 0
          /\ t.child[s][o] = far
      BY <1>2, <1>3, <1>8, <1>20
    <3>2. k[s] \in Nat /\ k[s] = High(k, far) /\ k[s] = High(k, b)
          /\ k[near] = 1 + k[s] /\ k[near] = 1 + High(k, f)
      <4>1. /\ h[s] \in Nat /\ h[near] \in Nat /\ h[s] = 1 + h[near]
            /\ h[near] = High(h, far)
        BY <1>18
      <4>2. k[s] = h[s] - 1 /\ k[near] = h[s]
        BY <1>22
      <4>3. k[s] = h[near] /\ k[near] = 1 + h[near] /\ k[s] \in Nat
        BY <4>1, <4>2
      <4> QED  BY <1>21, <1>23, <4>1, <4>3
    <3>3. k[s] = 0 + k[s] + 0 /\ k[near] = 1 + k[s] + 0
      BY <3>2
    <3>4. Own(a, s) = 0 /\ Own(a, near) = 1
      BY <1>17
    <3>5. /\ k[s] = 0 + High(k, far) + 0 /\ k[s] = 0 + High(k, b) + 0
          /\ k[near] = 1 + k[s] + 0 /\ k[near] = 1 + High(k, f) + 0
      BY <3>2, <3>3, <1>18, <1>21, <1>23
    <3> QED  BY <3>1, <3>4, <3>5
  <2>2. \A m \in LinkedIn(t) :
          m # s /\ m # near =>
            /\ k[m] - Own(a, m) = h[m] - Own(t, m)
            /\ m # f => k[m] = h[m]
            /\ \A z \in Sides : Lack(lack, m, z) = Lack(lack, m, z)
    BY <1>6, <1>17, <1>22
  <2>3. k[near] = h[s] /\ Level(t, h, lack)
    BY <1>2, <1>19, <1>22
  <2>4. Sound(t, below) /\ k \in [Nodes -> Nat] /\ a \in Trees
        /\ LinkedIn(a) = LinkedIn(t) /\ o \in Sides
    BY <1>2, <1>3, <1>13, <1>22
  <2> QED  BY <1>13, <2>1, <2>2, <2>3, <2>4, TurnedLevel
<1>25. ~IsRed(a, far) /\ ~IsRed(a, b) /\ ~IsRed(a, node) /\ ~IsRed(a, a.root)
  <2>1. a.root = t.root /\ t.root \in Places
    BY <1>6, <1>13, TreeFields
  <2> QED  BY <1>2, <1>6, <1>8, <1>9, <1>10, <1>15, <2>1 DEF IsRed, Places
<1>26. Apart(a, NULL)
  <2>1. ASSUME NEW m \in LinkedIn(t), NEW z \in Sides, m # s, m # near, a.red[m]
        PROVE  /\ t.child[m][z] = s /\ IsRed(a, near) => near = NULL
               /\ t.child[m][z] # s /\ IsRed(a, t.child[m][z]) => t.child[m][z] = NULL
    <3>1. m \in Nodes /\ t.red[m] /\ t.child[m][z] \in Places
      BY <1>6, <1>15, <2>1, TreeFields
    <3>2. t.child[m][z] # s /\ IsRed(a, t.child[m][z]) => IsRed(t, t.child[m][z])
      BY <1>15, <3>1 DEF IsRed, Places
    <3> QED  BY <1>2, <1>15, <3>1, <3>2 DEF Apart, IsRed
  <2>2. ~IsRed(a, t.child[s][o]) /\ ~IsRed(a, b) /\ ~a.red[near]
    BY <1>8, <1>15, <1>25
  <2> QED  BY <1>3, <1>13, <2>1, <2>2, TurnedApart
<1>27. a.child[p][cis] = node /\ a.child[p][o] = near /\ a.child[near][o] = s
  BY <1>2, <1>3, <1>6, <1>13 DEF Turned
<1>28. ShortAt(a, B, k, p, cis, node)
  BY <1>2, <1>13, <1>14, <1>19, <1>24, <1>25, <1>26, <1>27 DEF ShortAt
<1>29. BlackSib(a, B, k, p, cis, node, near)
  BY <1>1, <1>6, <1>15, <1>27, <1>28 DEF BlackSib
<1>30. FarRed(a, B, k, p, cis, node)
  <2>1. a.child[p][Other(cis)] = near /\ IsRed(a, a.child[near][Other(cis)])
    BY <1>1, <1>2, <1>15, <1>27 DEF IsRed
  <2> QED  BY <1>29, <2>1 DEF FarRed
<1> QED  BY <1>1, <1>13, <1>30

PassedColours(t, r, s, p, far) ==
  /\ Recolours(t, r)
  /\ r.red[s] = t.red[p] /\ ~r.red[p] /\ ~r.red[far]
  /\ \A m \in Nodes : m # s /\ m # p /\ m # far => r.red[m] = t.red[m]

LEMMA PassedFields ==
  ASSUME NEW t \in Trees, NEW s \in Nodes, NEW p \in Nodes, NEW far \in Nodes,
         s # p, s # far, p # far
  PROVE  PassedColours(t, Passed(t, s, p, far), s, p, far)
<1>1. PICK r : r = Passed(t, s, p, far)
  OBVIOUS
<1>2. t.red[p] \in BOOLEAN
  BY TreeFields
<1>3. /\ r.root = t.root /\ r.child = t.child /\ r.parent = t.parent
      /\ r.red = [[[t.red EXCEPT ![s] = t.red[p]] EXCEPT ![p] = FALSE]
                    EXCEPT ![far] = FALSE]
  BY <1>1 DEF Passed, Trees
<1>4. r \in Trees
  <2>1. r.red \in [Nodes -> BOOLEAN]
    BY <1>2, <1>3, TreeFields
  <2>2. \E x : r = [t EXCEPT !.red = x]
    BY <1>1 DEF Passed
  <2>3. PICK x : r = [t EXCEPT !.red = x]
    BY <2>2
  <2>4. x = r.red
    BY <2>3 DEF Trees
  <2> QED  BY <2>1, <2>3, <2>4 DEF Trees
<1>5. Recolours(t, r)
  BY <1>3, <1>4 DEF Recolours
<1>6. /\ r.red[s] = t.red[p] /\ ~r.red[p] /\ ~r.red[far]
      /\ \A m \in Nodes : m # s /\ m # p /\ m # far => r.red[m] = t.red[m]
  <2>1. t.red \in [Nodes -> BOOLEAN]
    BY TreeFields
  <2> QED  BY <1>3, <2>1
<1>7. PassedColours(t, r, s, p, far)
  BY <1>5, <1>6 DEF PassedColours
<1> QED  BY <1>1, <1>7

\* The rotation over a sibling with a red child on the outer side ends the loop.
LEMMA FarTurned ==
  ASSUME NEW t, NEW below, NEW h, NEW p, NEW cis, NEW node,
         FarRed(t, below, h, p, cis, node),
         NEW s, s = t.child[p][Other(cis)], NEW far, far = t.child[s][Other(cis)]
  PROVE  LET r == tree__rotate(Passed(t, s, p, far), cis, p)
         IN  LinkedIn(r) = LinkedIn(t) /\ Good(r, Idle)
<1>1. PICK c, r, near :
        /\ c = Passed(t, s, p, far) /\ r = tree__rotate(c, cis, p)
        /\ near = t.child[s][cis]
  OBVIOUS
<1>2. /\ Sound(t, below) /\ Level(t, h, {<<p, cis>>}) /\ Apart(t, NULL)
      /\ ~IsRed(t, t.root) /\ ~IsRed(t, node)
      /\ p \in LinkedIn(t) /\ cis \in Sides /\ t.child[p][cis] = node
      /\ s # NULL /\ ~t.red[s] /\ far # NULL /\ t.red[far]
  BY DEF FarRed, BlackSib, ShortAt, IsRed
<1>3. Family(t, p, cis, node, s, near, far)
  BY <1>1, <1>2, FamilyFacts
<1>4. Heights(t, h, p, node, s, near, far)
  BY <1>2, <1>3, FamilyHeights
<1>5. /\ p \in Nodes /\ s \in Nodes /\ p # s /\ s # t.root /\ s \in LinkedIn(t)
      /\ far \in Nodes /\ far \in LinkedIn(t) /\ far # p /\ far # s /\ far # t.root
      /\ node # p /\ node # s /\ node # far /\ near # p /\ near # s /\ near # far
      /\ t \in Trees /\ LinkedIn(t) \in SUBSET Nodes /\ t.red \in [Nodes -> BOOLEAN]
      /\ t.child[p][Other(cis)] = s
      /\ t.child[s][cis] = near /\ t.child[s][Other(cis)] = far
  BY <1>2, <1>3 DEF Family
<1>6. Other(cis) \in Sides /\ Other(cis) # cis
  BY <1>2, SideFacts
<1>7. node \in Places /\ near \in Places
  BY <1>2, <1>5, <1>6, TreeFields
<1>8. /\ Recolours(t, c)
      /\ c.red[s] = t.red[p] /\ ~c.red[p] /\ ~c.red[far]
      /\ \A m \in Nodes : m # s /\ m # p /\ m # far => c.red[m] = t.red[m]
  <2>1. PassedColours(t, c, s, p, far)
    BY <1>1, <1>5, PassedFields
  <2> QED  BY <2>1 DEF PassedColours
<1>9. TurnedIn(t, c, r, cis, p, s, near, far)
  BY <1>1, <1>2, <1>8, RotateColours
<1>10. /\ r \in Trees /\ r.red = c.red /\ LinkedIn(r) = LinkedIn(t)
       /\ Turned(t, r, cis, p, s, near, far)
       /\ r.root = IF t.root = p THEN s ELSE t.root
  BY <1>9 DEF TurnedIn
<1>11. PICK B : Sound(r, B)
  BY <1>9 DEF TurnedIn
<1>12. /\ r.red[s] = t.red[p] /\ ~r.red[p] /\ ~r.red[far]
       /\ \A m \in Nodes : m # s /\ m # p /\ m # far => r.red[m] = t.red[m]
  BY <1>5, <1>8, <1>10
<1>13. /\ Own(t, s) = 1 /\ Own(t, far) = 0
       /\ Own(r, s) = Own(t, p) /\ Own(r, p) = 1 /\ Own(r, far) = 1
       /\ \A m \in Nodes : m # s /\ m # p /\ m # far => Own(r, m) = Own(t, m)
  BY <1>2, <1>5, <1>12 DEF Own
<1>14. PICK d : d = Own(t, p) /\ d \in Nat
  BY DEF Own
<1>15. /\ h \in [Nodes -> Nat]
       /\ h[p] \in Nat /\ h[s] \in Nat /\ h[far] \in Nat
       /\ High(h, node) \in Nat /\ High(h, near) \in Nat
       /\ h[p] = d + High(h, node) + 1
       /\ h[p] = d + h[s]
       /\ h[s] = 1 + High(h, near)
       /\ h[s] = 1 + h[far]
  <2>1. h \in [Nodes -> Nat]
    BY <1>4 DEF Heights
  <2>2. High(h, far) = h[far] /\ h[far] \in Nat
    BY <1>2, <1>5, <2>1 DEF High
  <2> QED  BY <1>4, <1>13, <1>14, <2>2 DEF Heights
<1>16. High(h, near) = High(h, node) /\ h[far] = High(h, node)
  BY <1>14, <1>15
<1>17. PICK k : k = [h EXCEPT ![s] = h[p], ![far] = h[far] + 1,
                              ![p] = 1 + High(h, node)]
  OBVIOUS
<1>18. /\ k \in [Nodes -> Nat] /\ k[s] = h[p] /\ k[far] = h[far] + 1
       /\ k[p] = 1 + High(h, node)
       /\ \A m \in Nodes : m # s /\ m # far /\ m # p => k[m] = h[m]
  <2>1. h[far] + 1 \in Nat /\ 1 + High(h, node) \in Nat
    BY <1>15
  <2> QED  BY <1>5, <1>15, <1>17, <2>1
<1>19. /\ High(k, node) = High(h, node) /\ High(k, near) = High(h, near)
       /\ High(k, far) = k[far]
  BY <1>2, <1>5, <1>7, <1>18 DEF High, Places
<1>20. PICK lack : lack = {<<p, cis>>}
  OBVIOUS
<1>21. \A m, z : Lack({}, m, z) = 0
  BY DEF Lack
<1>22. \A m, z : m # p => Lack(lack, m, z) = 0
  BY <1>20 DEF Lack
<1>23. Level(r, k, {})
  <2>1. /\ k[p] = 1 + High(k, node) + 0
        /\ k[p] = 1 + High(k, near) + 0
        /\ k[s] = d + k[p] + 0
        /\ k[s] = d + High(k, far) + 0
    <3>1. k[p] \in Nat /\ k[p] = 1 + High(h, node)
      <4>1. k[p] = 1 + High(h, node)
        BY <1>18, Zenon
      <4>2. 1 + High(h, node) \in Nat
        BY <1>15
      <4> QED  BY <4>1, <4>2
    <3>2. k[s] = d + High(h, node) + 1 /\ High(k, far) = High(h, node) + 1
      BY <1>15, <1>16, <1>18, <1>19
    <3> QED  BY <1>14, <1>15, <1>16, <1>19, <3>1, <3>2
  <2>2. /\ k[p] = Own(r, p) + High(k, t.child[p][cis]) + Lack({}, p, cis)
        /\ k[p] = Own(r, p) + High(k, near) + Lack({}, p, Other(cis))
        /\ k[s] = Own(r, s) + k[p] + Lack({}, s, cis)
        /\ k[s] = Own(r, s) + High(k, far) + Lack({}, s, Other(cis))
    BY <1>2, <1>13, <1>14, <1>21, <2>1
  <2>3. ASSUME NEW m \in LinkedIn(t), m # p, m # s
        PROVE  /\ k[m] - Own(r, m) = h[m] - Own(t, m)
               /\ m # far => k[m] = h[m]
               /\ \A z \in Sides : Lack({}, m, z) = Lack(lack, m, z)
    <3>1. k[m] - Own(r, m) = h[m] - Own(t, m)
      <4>1. CASE m = far
        <5>1. k[far] = h[far] + 1 /\ h[far] \in Nat
          BY <1>15, <1>18
        <5>2. k[far] - 1 = h[far] - 0
          BY <5>1
        <5> QED  BY <1>13, <4>1, <5>2
      <4>2. CASE m # far
        BY <1>5, <1>13, <1>18, <2>3, <4>2
      <4> QED  BY <4>1, <4>2
    <3>2. m # far => k[m] = h[m]
      BY <1>5, <1>18, <2>3
    <3> QED  BY <1>21, <1>22, <2>3, <3>1, <3>2
  <2>4. k[s] = h[p] /\ Level(t, h, lack)
    BY <1>2, <1>18, <1>20
  <2>5. Sound(t, below) /\ k \in [Nodes -> Nat] /\ r \in Trees
        /\ LinkedIn(r) = LinkedIn(t) /\ cis \in Sides
    BY <1>2, <1>10, <1>18
  <2> QED  BY <1>10, <2>2, <2>3, <2>4, <2>5, TurnedLevel
<1>24. Apart(r, NULL)
  <2>1. ASSUME NEW m \in LinkedIn(t), NEW z \in Sides, m # p, m # s, r.red[m]
        PROVE  /\ t.child[m][z] = p /\ IsRed(r, s) => s = NULL
               /\ t.child[m][z] # p /\ IsRed(r, t.child[m][z]) => t.child[m][z] = NULL
    <3>1. m \in Nodes /\ t.red[m] /\ t.child[m][z] \in Places
      BY <1>5, <1>12, <2>1, TreeFields
    <3>2. t.child[m][z] # s
      <4>1. Agreed(t)
        BY <1>2 DEF Sound
      <4>2. t.child[p][Other(cis)] = s /\ p \in LinkedIn(t) /\ Other(cis) \in Sides
        BY <1>2, <1>5, <1>6
      <4>3. t.parent[s] = p
        BY <1>2, <4>1, <4>2 DEF Agreed
      <4>4. t.child[m][z] # NULL => t.parent[t.child[m][z]] = m
        BY <2>1, <4>1 DEF Agreed
      <4> QED  BY <1>2, <2>1, <4>3, <4>4
    <3>3. t.child[m][z] # p /\ IsRed(r, t.child[m][z]) => IsRed(t, t.child[m][z])
      BY <1>12, <3>1, <3>2 DEF IsRed, Places
    <3>4. t.child[m][z] = p /\ IsRed(r, s) => IsRed(t, p)
      BY <1>2, <1>5, <1>12 DEF IsRed
    <3>5. t.child[m][z] = p /\ IsRed(t, p) => FALSE
      <4>1. p # NULL
        BY <1>5
      <4> QED  BY <1>2, <3>1, <4>1 DEF Apart, IsRed
    <3> QED  BY <1>2, <3>1, <3>3, <3>4, <3>5 DEF Apart, IsRed
  <2>2. ~r.red[p] /\ ~IsRed(r, p) /\ ~IsRed(r, far)
    BY <1>12 DEF IsRed
  <2>3. \A m \in LinkedIn(t), z \in Sides :
          m # p /\ m # s /\ r.red[m] =>
            /\ t.child[m][z] = p /\ IsRed(r, s) => s = NULL
            /\ t.child[m][z] # p /\ IsRed(r, t.child[m][z]) => t.child[m][z] = NULL
    BY <2>1
  <2>4. /\ r.red[p] /\ IsRed(r, t.child[p][cis]) => t.child[p][cis] = NULL
        /\ r.red[p] /\ IsRed(r, near) => near = NULL
        /\ r.red[s] /\ IsRed(r, p) => p = NULL
        /\ r.red[s] /\ IsRed(r, far) => far = NULL
    BY <2>2
  <2>5. cis \in Sides /\ LinkedIn(r) = LinkedIn(t) /\ Turned(t, r, cis, p, s, near, far)
    BY <1>2, <1>10
  <2> QED  BY <2>3, <2>4, <2>5, TurnedApart
<1>25. ~IsRed(r, r.root)
  <2>1. CASE t.root = p
    <3>1. r.root = s /\ ~t.red[p]
      BY <1>2, <1>5, <1>10, <2>1 DEF IsRed
    <3> QED  BY <1>12, <3>1 DEF IsRed
  <2>2. CASE t.root # p
    <3>1. t.root \in Places /\ r.root = t.root
      BY <1>5, <1>10, <2>2, TreeFields
    <3> QED  BY <1>2, <1>5, <1>12, <2>2, <3>1 DEF IsRed, Places
  <2> QED  BY <2>1, <2>2
<1>26. Good(r, Idle)
  BY <1>11, <1>23, <1>24, <1>25, GoodIdle
<1> QED  BY <1>1, <1>10, <1>26

LEMMA DelRotateKeeps ==
  ASSUME IInv, DelRotate
  PROVE  IInv' /\ LinkedIn(tree') = LinkedIn(tree) /\ call' = Idle
<1>1. PICK t, p, cis, node, s, near, far :
        /\ t = WithBlackSibling /\ p = call.parent /\ cis = DelSide
        /\ node = call.node /\ s = NewSibling
        /\ near = t.child[s][cis] /\ far = t.child[s][Other(cis)]
  OBVIOUS
<1>2. PICK a, sib, end, b :
        /\ a = IF IsRed(t, far) THEN t
               ELSE tree__rotate(Swapped(t, near, s), Other(cis), s)
        /\ sib = a.child[p][Other(cis)] /\ end = a.child[sib][Other(cis)]
        /\ b = tree__rotate(Passed(a, sib, p, end), cis, p)
  OBVIOUS
<1>3. /\ Short /\ RedNephew /\ call' = Idle
      /\ tree' = Blackened(b, b.root)
  BY <1>1, <1>2 DEF DelRotate
<1>4. /\ LinkedIn(t) = LinkedIn(tree)
      /\ \E B, k : BlackSib(t, B, k, p, cis, node, s)
  BY <1>1, <1>3, BlackSiblingFacts
<1>5. PICK below, h : BlackSib(t, below, h, p, cis, node, s)
  BY <1>4
<1>6. cis \in Sides /\ s = t.child[p][Other(cis)]
  BY <1>5 DEF BlackSib, ShortAt
<1>7. IsRed(t, near) \/ IsRed(t, far)
  <2>1. PICK z \in Sides : IsRed(t, t.child[s][z])
    BY <1>1, <1>3 DEF RedNephew
  <2>2. z = cis \/ z = Other(cis)
    BY <1>6, SideFacts
  <2> QED  BY <1>1, <2>1, <2>2
<1>8. LinkedIn(a) = LinkedIn(tree) /\ \E B, k : FarRed(a, B, k, p, cis, node)
  <2>1. CASE IsRed(t, far)
    <3>1. a = t
      BY <1>2, <2>1
    <3>2. FarRed(t, below, h, p, cis, node)
      BY <1>1, <1>5, <1>6, <2>1 DEF FarRed
    <3> QED  BY <1>4, <3>1, <3>2
  <2>2. CASE ~IsRed(t, far)
    <3>1. a = tree__rotate(Swapped(t, near, s), Other(cis), s)
      BY <1>2, <2>2
    <3>2. IsRed(t, near) /\ ~IsRed(t, t.child[s][Other(cis)]) /\ near = t.child[s][cis]
      BY <1>1, <1>7, <2>2
    <3>3. LinkedIn(a) = LinkedIn(t) /\ \E B, k : FarRed(a, B, k, p, cis, node)
      BY <1>5, <3>1, <3>2, NearTurned
    <3> QED  BY <1>4, <3>3
  <2> QED  BY <2>1, <2>2
<1>9. PICK B, k : FarRed(a, B, k, p, cis, node)
  BY <1>8
<1>10. LinkedIn(b) = LinkedIn(a) /\ Good(b, Idle)
  <2>1. b = tree__rotate(Passed(a, sib, p, end), cis, p)
        /\ sib = a.child[p][Other(cis)] /\ end = a.child[sib][Other(cis)]
    BY <1>2
  <2>2. LET r == tree__rotate(Passed(a, sib, p, end), cis, p)
        IN  LinkedIn(r) = LinkedIn(a) /\ Good(r, Idle)
    BY <1>9, <2>1, FarTurned
  <2> QED  BY <2>1, <2>2
<1>11. /\ Good(Blackened(b, b.root), Idle)
       /\ LinkedIn(Blackened(b, b.root)) = LinkedIn(b)
  BY <1>10, RootBlackened
<1> QED  BY <1>3, <1>8, <1>10, <1>11 DEF IInv

-----------------------------------------------------------------------------
(* The invariant holds.                                                    *)

\* A step links one node, unlinks one, or leaves the linked nodes alone.
LEMMA NextKeeps ==
  ASSUME IInv, [Next]_vars
  PROVE  IInv'
<1>1. CASE UNCHANGED vars
  BY <1>1 DEF vars, IInv
<1>2. ASSUME NEW n \in Nodes, Add(n) PROVE IInv'
  BY <1>2, AddKeeps
<1>3. ASSUME NEW n \in Nodes, AddRefused(n) PROVE IInv'
  BY <1>3 DEF AddRefused, IInv
<1>4. ASSUME NEW n \in Nodes, Del(n) PROVE IInv'
  BY <1>4, DelKeeps
<1>5. CASE AddRecolour
  BY <1>5, AddRecolourKeeps
<1>6. CASE AddRotate
  BY <1>6, AddRotateKeeps
<1>7. CASE AddDone
  BY <1>7, AddDoneKeeps
<1>8. CASE DelRotate
  BY <1>8, DelRotateKeeps
<1>9. CASE DelRecolour
  BY <1>9, DelRecolourKeeps
<1>10. CASE DelDone
  BY <1>10, DelDoneKeeps
<1> QED  BY <1>1, <1>2, <1>3, <1>4, <1>5, <1>6, <1>7, <1>8, <1>9, <1>10 DEF Next, Loop

(* The fields keep their shapes, the pointers are those of one ordered     *)
(* tree, and its levels and colours are as the call at work left them.     *)
THEOREM AlwaysGood == Spec => []IInv
<1>1. Init => IInv
  BY InitGood
<1>2. IInv /\ [Next]_vars => IInv'
  BY NextKeeps
<1> QED  BY <1>1, <1>2, PTL DEF Spec

-----------------------------------------------------------------------------
(* The parts of RedBlack.                                                  *)

LEMMA InTreeLinked == InTree = LinkedIn(tree)
  BY DEF InTree, LinkedIn

LEMMA PointersDoAgree ==
  ASSUME IInv
  PROVE  PointersAgree
<1>1. PICK below : Sound(tree, below)
  BY DEF IInv, Good
<1>2. InTree = LinkedIn(tree)
  BY InTreeLinked
<1>3. tree.root # NULL => tree.root \in InTree /\ tree.parent[tree.root] = NULL
  <2>1. tree.root \in Places
    BY <1>1, TreeFields DEF Sound
  <2> QED  BY <1>1, <2>1 DEF InTree, Places, Sound, Agreed
<1>4. ASSUME NEW n \in InTree, NEW c \in Children(n)
      PROVE  c \in InTree /\ tree.parent[c] = n
  <2>1. PICK s \in Sides : c = tree.child[n][s]
    BY DEF Children
  <2>2. c # NULL
    BY DEF Children
  <2> QED  BY <1>1, <1>2, <2>1, <2>2, ChildFacts
<1>5. ASSUME NEW n \in InTree \ {tree.root}
      PROVE  tree.parent[n] \in InTree /\ n \in Children(tree.parent[n])
  <2>1. /\ tree.parent[n] \in LinkedIn(tree)
        /\ \E s \in Sides : tree.child[tree.parent[n]][s] = n
    BY <1>1, <1>2 DEF Sound, Agreed
  <2>2. n # NULL
    BY <1>2 DEF LinkedIn
  <2> QED  BY <1>2, <2>1, <2>2 DEF Children
<1> QED  BY <1>3, <1>4, <1>5 DEF PointersAgree

LEMMA SearchesDoFind ==
  ASSUME IInv
  PROVE  SearchesFind
<1>1. PICK below : Sound(tree, below)
  BY DEF IInv, Good
<1>2. ASSUME NEW n \in Nodes PROVE n \in InTree <=> tree_find(tree, Key[n]) = n
  <2>1. Key[n] \in Int /\ n # NULL
    OBVIOUS
  <2>2. n \in LinkedIn(tree) => tree_find(tree, Key[n]) = n
    BY <1>1, LinkedIsFound
  <2>3. tree_find(tree, Key[n]) = n => n \in LinkedIn(tree)
    BY <1>1, <2>1, FoundIsLinked
  <2> QED  BY <2>2, <2>3, InTreeLinked
<1> QED  BY <1>2 DEF SearchesFind

LEMMA RedsAreApart ==
  ASSUME IInv
  PROVE  RedsApart
<1>1. PICK below : Sound(tree, below)
  BY DEF IInv, Good
<1>2. call.op # "add" => ~IsRed(tree, tree.root)
  BY DEF IInv, Good
<1>3. ASSUME NEW n \in InTree, IsRed(tree, n), IsRed(tree, tree.parent[n])
      PROVE  Rebalancing /\ n = call.node
  <2>1. n \in LinkedIn(tree) /\ n # NULL /\ n \in Nodes
    BY InTreeLinked DEF LinkedIn
  <2>2. tree.parent[n] # NULL /\ tree.red[tree.parent[n]]
    BY <1>3 DEF IsRed
  <2>3. n # tree.root
    BY <1>1, <2>1, <2>2 DEF Sound, Agreed
  <2>4. PICK s \in Sides : /\ tree.parent[n] \in LinkedIn(tree)
                           /\ tree.child[tree.parent[n]][s] = n
    BY <1>1, <2>1, <2>3 DEF Sound, Agreed
  <2>5. call.op = "add" /\ n = call.node
    <3>1. Apart(tree, IF call.op = "add" THEN call.node ELSE NULL)
      BY DEF IInv, Good
    <3>2. n = IF call.op = "add" THEN call.node ELSE NULL
      BY <1>3, <2>2, <2>4, <3>1 DEF Apart
    <3> QED  BY <2>1, <3>2
  <2>6. call.parent = tree.parent[n]
    BY <2>5 DEF IInv, Good
  <2> QED  BY <1>3, <2>5, <2>6 DEF Rebalancing
<1> QED  BY <1>2, <1>3 DEF RedsApart

LEMMA NeverFollowsNULL ==
  ASSUME IInv
  PROVE  NeverThroughNULL
<1>1. Rebalancing => Grandparent # NULL
  <2> SUFFICES ASSUME Rebalancing PROVE Grandparent # NULL
    OBVIOUS
  <2>1. \E below, h : RedPair(tree, below, h, call.node, call.parent, Grandparent,
                              InsertSide, Uncle)
    BY RebalancingFacts
  <2> QED  BY <2>1 DEF RedPair, LinkedIn
<1>2. Short => call.parent # NULL /\ Sibling # NULL /\ NewSibling # NULL
  <2> SUFFICES ASSUME Short
               PROVE  call.parent # NULL /\ Sibling # NULL /\ NewSibling # NULL
    OBVIOUS
  <2>1. /\ Sibling # NULL /\ call.parent \in LinkedIn(tree)
        /\ \E B, k : BlackSib(WithBlackSibling, B, k, call.parent, DelSide,
                              call.node, NewSibling)
    BY BlackSiblingFacts
  <2> QED  BY <2>1 DEF BlackSib, LinkedIn
<1> QED  BY <1>1, <1>2 DEF NeverThroughNULL

-----------------------------------------------------------------------------
(* The black nodes on the ways down.                                       *)

\* The way up from a child is the way up from its parent, and the child.
LEMMA AboveChild ==
  ASSUME NEW t, NEW below, Sound(t, below), NEW n \in LinkedIn(t), NEW s \in Sides,
         NEW c, c = t.child[n][s], c # NULL
  PROVE  /\ Above(t, below, c) = Above(t, below, n) \cup {c}
         /\ c \notin Above(t, below, n)
<1>1. /\ c \in LinkedIn(t) /\ t.parent[c] = n
      /\ c \in below[c] /\ below[c] \subseteq below[n] /\ n \notin below[c]
  BY ChildFacts
<1>2. ASSUME NEW m \in LinkedIn(t), c \in below[m], m # c PROVE n \in below[m]
  BY <1>1, <1>2, BelowFacts
<1>3. ASSUME NEW m \in LinkedIn(t), n \in below[m] PROVE c \in below[m]
  <2>1. below[n] \subseteq below[m]
    BY <1>3, BelowFacts
  <2> QED  BY <1>1, <2>1
<1> QED  BY <1>1, <1>2, <1>3 DEF Above

LEMMA AboveRoot ==
  ASSUME NEW t, NEW below, Sound(t, below), NEW n \in LinkedIn(t)
  PROVE  /\ t.root \in Above(t, below, n)
         /\ Above(t, below, t.root) = {t.root}
<1>1. t.root \in LinkedIn(t) /\ below[t.root] = LinkedIn(t)
  <2>1. t.root # NULL /\ t.root \in Places
    BY TreeFields DEF Sound, Ordered
  <2> QED  BY <2>1 DEF Sound, Ordered, LinkedIn, Places
<1>2. \A m \in LinkedIn(t) : t.root \in below[m] => m = t.root
  BY BelowFacts
<1> QED  BY <1>1, <1>2 DEF Above

\* The black nodes on the way up from n.
BlacksAbove(t, below, n) == {m \in Above(t, below, n) : ~t.red[m]}

LEMMA BlacksOfChild ==
  ASSUME NEW t, NEW below, Sound(t, below), NEW n \in LinkedIn(t), NEW s \in Sides,
         NEW c, c = t.child[n][s], c # NULL
  PROVE  /\ Cardinality(BlacksAbove(t, below, n)) \in Nat
         /\ Cardinality(BlacksAbove(t, below, c))
              = Cardinality(BlacksAbove(t, below, n)) + Own(t, c)
<1>1. /\ Above(t, below, c) = Above(t, below, n) \cup {c}
      /\ c \notin Above(t, below, n)
  BY AboveChild
<1>2. BlacksAbove(t, below, n) \in SUBSET Nodes
  BY DEF BlacksAbove, Above, LinkedIn
<1>3. /\ IsFiniteSet(BlacksAbove(t, below, n))
      /\ Cardinality(BlacksAbove(t, below, n)) \in Nat
  BY <1>2, BelowFinite
<1>4. CASE t.red[c]
  <2>1. BlacksAbove(t, below, c) = BlacksAbove(t, below, n) /\ Own(t, c) = 0
    BY <1>1, <1>4 DEF BlacksAbove, Own
  <2> QED  BY <1>3, <2>1
<1>5. CASE ~t.red[c]
  <2>1. /\ BlacksAbove(t, below, c) = BlacksAbove(t, below, n) \cup {c}
        /\ Own(t, c) = 1 /\ c \notin BlacksAbove(t, below, n)
    BY <1>1, <1>5 DEF BlacksAbove, Own
  <2>2. PICK S : S = BlacksAbove(t, below, n)
    OBVIOUS
  <2>3. Cardinality(S \cup {c}) = Cardinality(S) + 1
    BY <1>3, <2>1, <2>2, FS_AddElement
  <2> QED  BY <1>3, <2>1, <2>2, <2>3
<1> QED  BY <1>3, <1>4, <1>5

\* The number of black nodes from the root through n to any end below n, with
\* one more if the tree lacks one on that way above n.
Whole(t, below, h, c, n) ==
  Cardinality(BlacksAbove(t, below, n)) + h[n] - Own(t, n)
    + (IF ShortIn(t, c) /\ c.node \in Above(t, below, n) THEN 1 ELSE 0)

\* The place that lacks a black node.
LackOf(t, c) ==
  IF ShortIn(t, c) THEN {<<c.parent, SideOf(t, c.parent, c.node)>>} ELSE {}

LEMMA WholeOfChild ==
  ASSUME NEW t, NEW below, Sound(t, below), NEW c, Good(t, c),
         NEW h, Level(t, h, LackOf(t, c)), NEW n \in LinkedIn(t), NEW s \in Sides,
         NEW m, m = t.child[n][s], m # NULL
  PROVE  Whole(t, below, h, c, m) = Whole(t, below, h, c, n)
<1>1. /\ Cardinality(BlacksAbove(t, below, n)) \in Nat
      /\ Cardinality(BlacksAbove(t, below, m))
           = Cardinality(BlacksAbove(t, below, n)) + Own(t, m)
  BY BlacksOfChild
<1>2. /\ Above(t, below, m) = Above(t, below, n) \cup {m}
      /\ m \notin Above(t, below, n)
  BY AboveChild
<1>3. m \in LinkedIn(t) /\ m \in Nodes /\ n \in Nodes /\ t.parent[m] = n
  BY ChildFacts DEF LinkedIn
<1>4. /\ h[n] = Own(t, n) + h[m] + Lack(LackOf(t, c), n, s)
      /\ h[n] \in Nat /\ h[m] \in Nat
  BY <1>3 DEF Level, High
<1>5. Own(t, n) \in Nat /\ Own(t, m) \in Nat
  BY DEF Own
<1>6. CASE ~ShortIn(t, c)
  <2>1. Lack(LackOf(t, c), n, s) = 0
    BY <1>6 DEF Lack, LackOf
  <2> QED  BY <1>1, <1>4, <1>5, <1>6, <2>1 DEF Whole
<1>7. CASE ShortIn(t, c)
  <2>1. PICK p, e : p = c.parent /\ e = SideOf(t, c.parent, c.node)
    OBVIOUS
  <2>2. p \in LinkedIn(t) /\ t.child[p][e] = c.node /\ e \in Sides
        /\ LackOf(t, c) = {<<p, e>>}
    BY <1>7, <2>1, SideOfSides DEF Good, LackOf
  <2>3. c.node = m <=> <<n, s>> = <<p, e>>
    <3>1. c.node = m => <<n, s>> = <<p, e>>
      <4>1. CASE c.node = m
        <5>1. /\ p \in LinkedIn(t) /\ t.child[p][e] = m /\ p # NULL /\ m \in Places
          BY <1>3, <2>2, <4>1 DEF LinkedIn, Places
        <5> QED  BY <2>2, <5>1, OnlyPlace
      <4> QED  BY <4>1
    <3> QED  BY <2>2, <3>1
  <2>4. CASE c.node = m
    <3>1. Lack(LackOf(t, c), n, s) = 1
      BY <2>2, <2>3, <2>4 DEF Lack
    <3>2. c.node \in Above(t, below, m) /\ c.node \notin Above(t, below, n)
      BY <1>2, <2>4
    <3> QED  BY <1>1, <1>4, <1>5, <1>7, <3>1, <3>2 DEF Whole
  <2>5. CASE c.node # m
    <3>1. Lack(LackOf(t, c), n, s) = 0
      BY <2>2, <2>3, <2>5 DEF Lack
    <3>2. c.node \in Above(t, below, m) <=> c.node \in Above(t, below, n)
      BY <1>2, <2>5
    <3> QED  BY <1>1, <1>4, <1>5, <1>7, <3>1, <3>2 DEF Whole
  <2> QED  BY <2>4, <2>5
<1> QED  BY <1>6, <1>7

\* It is the same for every node.
LEMMA WholeOfAll ==
  ASSUME NEW t, NEW below, Sound(t, below), NEW c, Good(t, c),
         NEW h, Level(t, h, LackOf(t, c)), NEW n \in LinkedIn(t)
  PROVE  Whole(t, below, h, c, n) = Whole(t, below, h, c, t.root)
<1> SUFFICES ASSUME Whole(t, below, h, c, n) # Whole(t, below, h, c, t.root)
             PROVE  FALSE
  OBVIOUS
<1> DEFINE W(m) == Whole(t, below, h, c, m)
           S == {m \in Above(t, below, n) : W(m) # W(t.root)}
<1>1. /\ n \in Above(t, below, n)
      /\ \A m \in Above(t, below, n) :
           t.parent[m] # NULL => t.parent[m] \in Above(t, below, n)
      /\ \A R \in SUBSET Above(t, below, n) :
           n \in R /\ (\A m \in R : t.parent[m] # NULL => t.parent[m] \in R)
             => R = Above(t, below, n)
  BY AboveClosed
<1>2. t.root \in Above(t, below, n)
  BY AboveRoot
<1>3. ASSUME NEW m \in S, t.parent[m] # NULL PROVE t.parent[m] \in S
  <2>1. m \in LinkedIn(t) /\ t.parent[m] \in Above(t, below, n) /\ m # NULL
    BY <1>1, <1>3 DEF Above, LinkedIn
  <2>2. m # t.root
    BY <1>3, <2>1 DEF Sound, Agreed
  <2>3. PICK s \in Sides : /\ t.parent[m] \in LinkedIn(t)
                           /\ t.child[t.parent[m]][s] = m
    BY <2>1, <2>2 DEF Sound, Agreed
  <2>4. W(m) = W(t.parent[m])
    BY <2>1, <2>3, WholeOfChild
  <2> QED  BY <2>1, <2>4
<1>4. n \in S
  BY <1>1
<1>5. t.root \in S
  <2> HIDE DEF S
  <2>1. S \in SUBSET Above(t, below, n)
    BY DEF S
  <2> QED  BY <1>1, <1>2, <1>3, <1>4, <2>1
<1> QED  BY <1>5

LEMMA BlacksAreEqual ==
  ASSUME IInv
  PROVE  EqualBlacks
<1>1. PICK below, h : Sound(tree, below) /\ Level(tree, h, LackOf(tree, call))
  BY DEF IInv, Good, LackOf
<1>2. InTree = LinkedIn(tree) /\ LinkedIn(tree) \in SUBSET Nodes
  BY InTreeLinked DEF LinkedIn
<1>3. \A n \in LinkedIn(tree) : Up(n) = Above(tree, below, n)
  BY <1>1, UpIsAbove DEF Up, UpIn
<1>4. Short <=> ShortIn(tree, call)
  BY DEF Short, ShortIn
<1> DEFINE lack(e) == IF Short /\ e \in ShortEnds THEN 1 ELSE 0
           N == Whole(tree, below, h, call, tree.root)
<1>5. ASSUME NEW e \in Ends PROVE Blacks(e[1]) + lack(e) = N
  <2>1. PICK n \in LinkedIn(tree), s \in Sides :
          e = <<n, s>> /\ e[1] = n /\ tree.child[n][s] = NULL
    BY <1>2 DEF Ends
  <2>2. PICK b : /\ b = Cardinality(BlacksAbove(tree, below, n))
                 /\ Blacks(n) = b /\ b \in Nat
    <3>1. BlacksAbove(tree, below, n) \in SUBSET Nodes
      BY DEF BlacksAbove, Above, LinkedIn
    <3>2. Cardinality(BlacksAbove(tree, below, n)) \in Nat
      BY <3>1, BelowFinite
    <3>3. {m \in Up(n) : ~tree.red[m]} = BlacksAbove(tree, below, n)
      BY <1>3 DEF BlacksAbove
    <3> QED  BY <3>2, <3>3 DEF Blacks
  <2>3. Whole(tree, below, h, call, n) = N
    BY <1>1, WholeOfAll DEF IInv
  <2>4. /\ h[n] = Own(tree, n) + Lack(LackOf(tree, call), n, s)
        /\ h[n] \in Nat /\ Own(tree, n) \in Nat
    <3>1. /\ h[n] = Own(tree, n) + High(h, NULL) + Lack(LackOf(tree, call), n, s)
          /\ h[n] \in Nat
      BY <1>1, <1>2, <2>1 DEF Level
    <3>2. High(h, NULL) = 0 /\ Own(tree, n) \in Nat
          /\ Lack(LackOf(tree, call), n, s) \in Nat
      BY DEF High, Own, Lack
    <3> QED  BY <3>1, <3>2
  <2>5. lack(e) = Lack(LackOf(tree, call), n, s)
                    + (IF ShortIn(tree, call) /\ call.node \in Above(tree, below, n)
                       THEN 1 ELSE 0)
    <3>1. CASE ~ShortIn(tree, call)
      BY <1>4, <3>1 DEF Lack, LackOf
    <3>2. CASE ShortIn(tree, call)
      <4>1. /\ LackOf(tree, call) = {<<call.parent, DelSide>>}
            /\ tree.child[call.parent][DelSide] = call.node
        BY <3>2 DEF LackOf, DelSide, IInv, Good
      <4>2. Up(e[1]) = Above(tree, below, n)
        BY <1>3, <2>1
      <4>3. CASE call.node = NULL
        <5>1. call.node \notin Above(tree, below, n)
          BY <1>2, <4>3 DEF Above
        <5>2. e \in ShortEnds <=> <<n, s>> = <<call.parent, DelSide>>
          BY <2>1, <4>2, <4>3, <5>1 DEF ShortEnds
        <5> QED  BY <1>4, <3>2, <4>1, <5>1, <5>2 DEF Lack
      <4>4. CASE call.node # NULL
        <5>1. Lack(LackOf(tree, call), n, s) = 0
          BY <2>1, <4>1, <4>4 DEF Lack
        <5>2. e \in ShortEnds <=> call.node \in Above(tree, below, n)
          BY <4>2, <4>4 DEF ShortEnds
        <5> QED  BY <1>4, <3>2, <5>1, <5>2
      <4> QED  BY <4>3, <4>4
    <3> QED  BY <3>1, <3>2
  <2>6. PICK a, z : /\ a = Lack(LackOf(tree, call), n, s) /\ a \in Nat
                    /\ z = (IF ShortIn(tree, call) /\ call.node \in Above(tree, below, n)
                            THEN 1 ELSE 0)
                    /\ z \in Nat
    BY DEF Lack
  <2>7. N = b + h[n] - Own(tree, n) + z /\ h[n] = Own(tree, n) + a /\ lack(e) = a + z
    BY <2>2, <2>3, <2>4, <2>5, <2>6 DEF Whole
  <2> HIDE DEF lack, N
  <2>8. b + lack(e) = N
    BY <2>2, <2>4, <2>6, <2>7
  <2> QED  BY <2>1, <2>2, <2>8
<1>6. Cardinality({Blacks(e[1]) + lack(e) : e \in Ends}) <= 1
  <2> HIDE DEF lack, N
  <2>1. {Blacks(e[1]) + lack(e) : e \in Ends} \in SUBSET {N}
    BY <1>5
  <2>2. IsFiniteSet({N}) /\ Cardinality({N}) = 1
    BY FS_Singleton
  <2> QED  BY <2>1, <2>2, FS_Subset
<1> QED  BY <1>6 DEF EqualBlacks

(* Between any two iterations of tree_add and tree_del the linked nodes    *)
(* are a balanced search tree, and no pointer the loops follow untested is *)
(* NULL, for any finite set of nodes and any keys.                         *)
THEOREM IsRedBlack == Spec => []RedBlack
<1>1. IInv => RedBlack
  BY PointersDoAgree, SearchesDoFind, BlacksAreEqual, RedsAreApart, NeverFollowsNULL
     DEF RedBlack
<1> QED  BY <1>1, AlwaysGood, PTL

-----------------------------------------------------------------------------
(* The loops climb.                                                        *)

\* The way up from the parent of a node is shorter.
LEMMA ParentIsHigher ==
  ASSUME NEW t, NEW below, Sound(t, below), NEW n \in LinkedIn(t), t.parent[n] # NULL
  PROVE  /\ t.parent[n] \in LinkedIn(t)
         /\ Cardinality(UpIn(t, t.parent[n])) < Cardinality(UpIn(t, n))
<1>1. n # NULL /\ n # t.root
  BY DEF LinkedIn, Sound, Agreed
<1>2. PICK s \in Sides : t.parent[n] \in LinkedIn(t) /\ t.child[t.parent[n]][s] = n
  BY <1>1 DEF Sound, Agreed
<1>3. /\ Above(t, below, n) = Above(t, below, t.parent[n]) \cup {n}
      /\ n \notin Above(t, below, t.parent[n])
  BY <1>1, <1>2, AboveChild
<1>4. Above(t, below, n) \in SUBSET Nodes
  BY DEF Above, LinkedIn
<1>5. Cardinality(Above(t, below, t.parent[n])) < Cardinality(Above(t, below, n))
  <2>1. Above(t, below, t.parent[n]) \in SUBSET Above(t, below, n)
        /\ n \in Above(t, below, n)
    BY <1>3
  <2> QED  BY <1>3, <1>4, <2>1, FewerBelow
<1> QED  BY <1>2, <1>5, UpIsAbove

\* Trees with the same root and the same parents have the same ways up.
LEMMA SameUp ==
  ASSUME NEW t, NEW r, NEW below, Sound(t, below), Sound(r, below),
         LinkedIn(r) = LinkedIn(t), NEW n \in LinkedIn(t)
  PROVE  UpIn(r, n) = UpIn(t, n)
<1>1. Above(r, below, n) = Above(t, below, n)
  BY DEF Above
<1> QED  BY <1>1, UpIsAbove

LEMMA RecolourClimbs ==
  ASSUME IInv, AddRecolour, Rebalancing'
  PROVE  Cardinality(UpIn(tree', call'.parent)) < Cardinality(UpIn(tree, call.parent))
<1>1. PICK below, h : /\ RedPair(tree, below, h, call.node, call.parent,
                                 Grandparent, InsertSide, Uncle)
                      /\ Sound(tree', below)
                      /\ LinkedIn(tree') = LinkedIn(tree)
  BY AddRecolourKeeps
<1>2. PICK p, g, q : p = call.parent /\ g = Grandparent /\ q = tree.parent[g]
  OBVIOUS
<1>3. /\ Sound(tree, below) /\ p \in LinkedIn(tree) /\ g \in LinkedIn(tree)
      /\ tree.parent[p] = g /\ g # NULL
  BY <1>1, <1>2 DEF RedPair, LinkedIn
<1>4. call'.parent = q
  <2>1. call \in Calls
    BY DEF IInv, Good
  <2> QED  BY <1>2, <2>1 DEF AddRecolour, Calls
<1>5. q # NULL
  BY <1>4 DEF Rebalancing, IsRed
<1>6. Cardinality(UpIn(tree, g)) < Cardinality(UpIn(tree, p))
  BY <1>3, ParentIsHigher
<1>7. q \in LinkedIn(tree) /\ Cardinality(UpIn(tree, q)) < Cardinality(UpIn(tree, g))
  BY <1>2, <1>3, <1>5, ParentIsHigher
<1>8. UpIn(tree', q) = UpIn(tree, q)
  BY <1>1, <1>3, <1>7, SameUp
<1>9. /\ Cardinality(UpIn(tree, g)) \in Nat /\ Cardinality(UpIn(tree, p)) \in Nat
      /\ Cardinality(UpIn(tree, q)) \in Nat
  <2>1. \A n \in LinkedIn(tree) : UpIn(tree, n) = Above(tree, below, n)
    BY <1>3, UpIsAbove
  <2>2. \A n : Above(tree, below, n) \in SUBSET Nodes
    BY DEF Above, LinkedIn
  <2>3. \A n : Cardinality(Above(tree, below, n)) \in Nat
    BY <2>2, BelowFinite
  <2> QED  BY <1>3, <1>7, <2>1, <2>3
<1> QED  BY <1>2, <1>4, <1>6, <1>7, <1>8, <1>9

LEMMA ShortClimbs ==
  ASSUME IInv, DelRecolour, Short'
  PROVE  Cardinality(UpIn(tree', call'.parent)) < Cardinality(UpIn(tree, call.parent))
<1>1. /\ Recolours(tree, tree') /\ call.parent \in LinkedIn(tree)
      /\ call'.parent = tree.parent[call.parent] /\ IInv'
  BY DelRecolourKeeps
<1>2. PICK p, q : p = call.parent /\ q = tree.parent[p]
  OBVIOUS
<1>3. PICK below : Sound(tree, below)
  BY DEF IInv, Good
<1>4. Sound(tree', below) /\ LinkedIn(tree') = LinkedIn(tree)
  BY <1>1, <1>3, RecolourSound
<1>5. q # NULL
  <2>1. ShortIn(tree', call')
    BY DEF Short, ShortIn
  <2>2. call'.parent \in LinkedIn(tree')
    BY <1>1, <2>1 DEF IInv, Good
  <2> QED  BY <1>1, <1>2, <2>2 DEF LinkedIn
<1>6. q \in LinkedIn(tree) /\ Cardinality(UpIn(tree, q)) < Cardinality(UpIn(tree, p))
  BY <1>1, <1>2, <1>3, <1>5, ParentIsHigher
<1>7. UpIn(tree', q) = UpIn(tree, q)
  BY <1>3, <1>4, <1>6, SameUp
<1> QED  BY <1>1, <1>2, <1>6, <1>7

(* An iteration of the loop of tree_add or of tree_del that another        *)
(* follows has moved towards the root.                                     *)
THEOREM LoopsDoClimb == Spec => LoopsClimb
<1>1. ASSUME IInv, [Next]_vars PROVE [Climbs]_vars
  <2> SUFFICES ASSUME call.op # "none", Rebalancing' \/ Short', Next
               PROVE  Cardinality(Up(call.parent)') < Cardinality(Up(call.parent))
    BY <1>1 DEF Climbs
  <2>0. /\ Up(call.parent) = UpIn(tree, call.parent)
        /\ Up(call.parent)' = UpIn(tree', call'.parent)
    BY DEF Up, UpIn
  <2>1. call # Idle
    BY DEF Idle
  <2>2. ASSUME NEW n \in Nodes, Add(n) \/ AddRefused(n) \/ Del(n) PROVE FALSE
    BY <2>1, <2>2 DEF Add, AddRefused, Del
  <2>3. call' # Idle
    BY DEF Idle, Rebalancing, Short
  <2>4. CASE AddRecolour
    <3>1. Rebalancing'
      <4>1. call \in Calls /\ call.op = "add"
        BY <1>1, <2>4 DEF IInv, Good, AddRecolour, Rebalancing
      <4>2. call'.op = "add"
        BY <2>4, <4>1 DEF AddRecolour, Calls
      <4> QED  BY <4>2 DEF Short
    <3> QED  BY <1>1, <2>0, <2>4, <3>1, RecolourClimbs
  <2>5. CASE AddRotate
    <3>1. call \in Calls /\ call.op = "add"
      BY <1>1, <2>5 DEF IInv, Good, AddRotate, Rebalancing
    <3>2. call'.op = "add"
      BY <2>5, <3>1 DEF AddRotate, Calls
    <3>3. ~Rebalancing'
      BY <1>1, <2>5, AddRotateKeeps
    <3> QED  BY <3>2, <3>3 DEF Short
  <2>6. CASE AddDone
    BY <2>3, <2>6 DEF AddDone
  <2>7. CASE DelRotate
    BY <2>3, <2>7 DEF DelRotate
  <2>8. CASE DelRecolour
    <3>1. call'.op = "del"
      BY <2>3, <2>8 DEF DelRecolour, UpFrom
    <3>2. Short'
      BY <3>1 DEF Rebalancing
    <3> QED  BY <1>1, <2>0, <2>8, <3>2, ShortClimbs
  <2>9. CASE DelDone
    BY <2>3, <2>9 DEF DelDone
  <2> QED  BY <2>2, <2>4, <2>5, <2>6, <2>7, <2>8, <2>9 DEF Next, Loop
<1> QED  BY <1>1, AlwaysGood, PTL DEF Spec, LoopsClimb

-----------------------------------------------------------------------------
(* The dictionary.                                                         *)

\* The call of a step that rebalances changes nothing that is linked.
LEMMA LoopKeepsLinks ==
  ASSUME IInv, Loop
  PROVE  InTree' = InTree /\ result' = result
<1>1. LinkedIn(tree') = LinkedIn(tree)
  <2>1. CASE AddRecolour
    BY <2>1, AddRecolourKeeps
  <2>2. CASE AddRotate
    BY <2>2, AddRotateKeeps
  <2>3. CASE AddDone
    BY <2>3, AddDoneKeeps
  <2>4. CASE DelRotate
    BY <2>4, DelRotateKeeps
  <2>5. CASE DelRecolour
    BY <2>5, DelRecolourKeeps
  <2>6. CASE DelDone
    BY <2>6, DelDoneKeeps
  <2> QED  BY <2>1, <2>2, <2>3, <2>4, <2>5, <2>6 DEF Loop
<1>2. result' = result
  BY DEF Loop, AddRecolour, AddRotate, AddDone, DelRotate, DelRecolour, DelDone
<1> QED  BY <1>1, <1>2 DEF InTree, LinkedIn

(* tree_add and tree_del do to the linked nodes what a dictionary does to  *)
(* its entries, and the loops do nothing to them.                          *)
THEOREM IsDictionary == Spec => ImplementsDictionary
<1>1. Init => Promise!Init
  <2> SUFFICES ASSUME Init PROVE InTree = {} /\ result = 0
    BY DEF Promise!Init
  <2> QED  BY DEF Init, InTree
<1>2. ASSUME IInv, [Next]_vars PROVE [Promise!Next]_<<InTree, result>>
  <2>1. PICK below : Sound(tree, below)
    BY <1>2 DEF IInv, Good
  <2>2. /\ InTree = LinkedIn(tree) /\ InTree' = LinkedIn(tree')
        /\ LinkedIn(tree) \in SUBSET Nodes
    BY DEF InTree, LinkedIn
  <2>3. \A x \in LinkedIn(tree) : tree_find(tree, Key[x]) = x
    BY <2>1, LinkedIsFound
  <2>4. ASSUME NEW n \in Nodes, Add(n) PROVE Promise!Insert(n)
    <3>1. LinkedIn(tree') = LinkedIn(tree) \cup {n}
      BY <1>2, <2>4, AddKeeps
    <3>2. tree_find(tree, Key[n]) = NULL /\ result' = 0
      BY <2>4 DEF Add
    <3>3. \A x \in InTree : Key[x] # Key[n]
      BY <2>2, <2>3, <3>2
    <3> QED  BY <2>2, <3>1, <3>2, <3>3 DEF Promise!Insert, Promise!Taken
  <2>5. ASSUME NEW n \in Nodes, AddRefused(n) PROVE Promise!Refuse(n)
    <3>1. /\ tree_find(tree, Key[n]) # NULL /\ result' = -1 /\ tree' = tree
      BY <2>5 DEF AddRefused
    <3>2. Key[n] \in Int
      OBVIOUS
    <3>3. PICK x \in LinkedIn(tree) : Key[x] = Key[n]
      BY <2>1, <3>1, <3>2, FoundIsLinked
    <3>4. InTree' = InTree
      BY <2>2, <3>1
    <3> QED  BY <2>2, <3>1, <3>3, <3>4 DEF Promise!Refuse, Promise!Taken
  <2>6. ASSUME NEW n \in Nodes, Del(n) PROVE Promise!Remove(n)
    <3>1. n \in LinkedIn(tree) /\ LinkedIn(tree') = LinkedIn(tree) \ {n}
      BY <1>2, <2>6, DelKeeps
    <3>2. result' = result
      BY <2>6 DEF Del
    <3> QED  BY <2>2, <3>1, <3>2 DEF Promise!Remove
  <2>7. CASE Loop
    BY <1>2, <2>7, LoopKeepsLinks
  <2>8. CASE UNCHANGED vars
    BY <2>8 DEF vars, InTree
  <2> QED  BY <1>2, <2>4, <2>5, <2>6, <2>7, <2>8 DEF Next, Promise!Next
<1>3. [Promise!Next]_<<InTree, result>> <=> [Promise!Next]_(Promise!vars)
  BY DEF Promise!vars
<1> QED  BY <1>1, <1>2, <1>3, AlwaysGood, PTL DEF Spec, ImplementsDictionary, Promise!Spec

=============================================================================
