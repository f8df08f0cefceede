------------------------------- MODULE RBTree --------------------------------
(***************************************************************************)
(* The red-black tree of wepoll.c, which holds the sockets of a port and   *)
(* the ports of the process.  The nodes lie inside the objects they find,  *)
(* so the tree moves nodes and never copies them.  One step links or       *)
(* unlinks a node, or is one iteration of a rebalancing loop.              *)
(***************************************************************************)
EXTENDS Integers, FiniteSets

CONSTANTS Nodes, Key, NULL

ASSUME TreeAssumption ==
  NULL \notin Nodes /\ Key \in [Nodes -> Int] /\ IsFiniteSet(Nodes)

VARIABLES
  tree,      \* the root, and the fields of every node
  call,      \* the call that is rebalancing, its node and its parent
  result     \* what the last tree_add returned

vars == <<tree, call, result>>

Sides == {"left", "right"}
Other(cis) == IF cis = "left" THEN "right" ELSE "left"

Idle == [op |-> "none", node |-> NULL, parent |-> NULL]

\* The fields of a node after tree_node_init.  An object is freed after its
\* tree_del, and its memory is cleared before the next tree_add.
Fresh(t, n) == [t EXCEPT !.child[n] = [s \in Sides |-> NULL],
                         !.parent[n] = NULL, !.red[n] = FALSE]

Init ==
  /\ tree = [root   |-> NULL,
             child  |-> [n \in Nodes |-> [s \in Sides |-> NULL]],
             parent |-> [n \in Nodes |-> NULL],
             red    |-> [n \in Nodes |-> FALSE]]
  /\ call = Idle
  /\ result = 0

----------------------------------------------------------------------------
IsRed(t, n) == n # NULL /\ t.red[n]

\* The side of p on which its child n hangs.
SideOf(t, p, n) == IF t.child[p]["left"] = n THEN "left" ELSE "right"

SetParent(t, n, p) == IF n = NULL THEN t ELSE [t EXCEPT !.parent[n] = p]

\* q takes the place of n below the parent of n, or at the root.
Replace(t, n, q) ==
  LET p == t.parent[n]
  IN  IF p = NULL THEN [t EXCEPT !.root = q]
      ELSE [t EXCEPT !.child[p][SideOf(t, p, n)] = q]

\* q takes the place of its parent p, and p will hang on q.
Raised(t, p, q) ==
  [Replace(t, p, q) EXCEPT !.parent[q] = t.parent[p], !.parent[p] = q]

\* b, if there is one, becomes the child of p on the side s.
Hung(t, p, s, b) == SetParent([t EXCEPT !.child[p][s] = b], b, p)

tree__rotate(t, cis, p) ==
  LET q == t.child[p][Other(cis)]
      a == Raised(t, p, q)
  IN  [Hung(a, p, Other(cis), a.child[q][cis]) EXCEPT !.child[q][cis] = p]

\* p is black and q red, as before a rotation.
Swapped(t, p, q) == [t EXCEPT !.red[p] = FALSE, !.red[q] = TRUE]

\* Where a search for k is after i steps.
Search(t, k) ==
  LET At[i \in 0 .. Cardinality(Nodes)] ==
        IF i = 0 THEN t.root
        ELSE LET n == At[i - 1]
             IN  IF n = NULL \/ k = Key[n] THEN n
                 ELSE t.child[n][IF k < Key[n] THEN "left" ELSE "right"]
  IN  At

tree_find(t, k) == Search(t, k)[Cardinality(Nodes)]

\* The last node a search for k meets, NULL in an empty tree.
Bottom(t, k) ==
  LET path == Search(t, k)
      met  == {path[i] : i \in 0 .. Cardinality(Nodes)} \ {NULL}
  IN  IF met = {} THEN NULL
      ELSE CHOOSE n \in met :
             t.child[n][IF k < Key[n] THEN "left" ELSE "right"] = NULL

----------------------------------------------------------------------------
(* tree_add                                                                *)

Linked(t, n) ==
  LET p == Bottom(t, Key[n])
      s == IF p # NULL /\ Key[n] < Key[p] THEN "left" ELSE "right"
      a == IF p = NULL THEN [t EXCEPT !.root = n]
           ELSE [t EXCEPT !.child[p][s] = n]
  IN  [Fresh(a, n) EXCEPT !.parent[n] = p, !.red[n] = TRUE]

\* Slip: an equal key goes to the right.
AddUnchecked(n) ==
  /\ call = Idle
  /\ tree_find(tree, Key[n]) # n
  /\ tree' = Linked(tree, n)
  /\ call' = [op |-> "add", node |-> n, parent |-> tree'.parent[n]]
  /\ result' = 0

Add(n) ==
  /\ call = Idle
  /\ tree_find(tree, Key[n]) = NULL
  /\ tree' = Linked(tree, n)
  /\ call' = [op |-> "add", node |-> n, parent |-> tree'.parent[n]]
  /\ result' = 0

AddRefused(n) ==
  /\ call = Idle
  /\ tree_find(tree, Key[n]) \notin {NULL, n}
  /\ result' = -1
  /\ UNCHANGED <<tree, call>>

Rebalancing == call.op = "add" /\ IsRed(tree, call.parent)

\* The loops' p and what surrounds it; cis is the side p hangs on.
Grandparent == tree.parent[call.parent]
InsertSide  == SideOf(tree, Grandparent, call.parent)
Uncle       == tree.child[Grandparent][Other(InsertSide)]

Recoloured(t, p, u, g) ==
  [t EXCEPT !.red[p] = FALSE, !.red[u] = FALSE, !.red[g] = TRUE]

AddRecolour ==
  /\ Rebalancing
  /\ IsRed(tree, Uncle)
  /\ tree' = Recoloured(tree, call.parent, Uncle, Grandparent)
  /\ call' = [call EXCEPT !.node = Grandparent,
                          !.parent = tree.parent[Grandparent]]
  /\ UNCHANGED result

AddRotate ==
  /\ Rebalancing
  /\ ~IsRed(tree, Uncle)
  /\ LET cis   == InsertSide
         g     == Grandparent
         inner == call.node = tree.child[call.parent][Other(cis)]
         a     == IF inner THEN tree__rotate(tree, cis, call.parent) ELSE tree
         node  == IF inner THEN call.parent ELSE call.node
         p     == a.parent[node]
     IN  /\ tree' = tree__rotate(Swapped(a, p, g), Other(cis), g)
         /\ call' = [call EXCEPT !.node = node, !.parent = tree'.parent[node]]
  /\ UNCHANGED result

AddDone ==
  /\ call.op = "add" /\ ~Rebalancing
  /\ tree' = [tree EXCEPT !.red[tree.root] = FALSE]
  /\ call' = Idle
  /\ UNCHANGED result

----------------------------------------------------------------------------
(* tree_del                                                                *)

\* The leftmost node below n.
Leftmost(t, n) ==
  LET At[i \in 0 .. Cardinality(Nodes)] ==
        IF i = 0 THEN n
        ELSE LET m == At[i - 1]
             IN  IF t.child[m]["left"] = NULL THEN m ELSE t.child[m]["left"]
  IN  At[Cardinality(Nodes)]

\* n with at most one child: that child takes its place.
Bypassed(t, n) ==
  LET next == t.child[n][IF t.child[n]["left"] = NULL THEN "right" ELSE "left"]
  IN  [tree   |-> SetParent(Replace(t, n, next), next, t.parent[n]),
       node   |-> next,
       parent |-> t.parent[n],
       red    |-> t.red[n]]

\* next takes the place of n, its colour and its left child.
Inherited(t, n, next) ==
  [Hung(Replace(t, n, next), next, "left", t.child[n]["left"])
     EXCEPT !.red[next] = t.red[n], !.parent[next] = t.parent[n]]

\* n with two children: its successor takes its place and its colour, and
\* the successor's right child takes the place of the successor.
Succeeded(t, n) ==
  LET right == t.child[n]["right"]
      next  == Leftmost(t, right)
      below == t.child[next]["right"]
      p     == IF next = right THEN next ELSE t.parent[next]
      a     == Inherited(t, n, next)
  IN  [tree   |-> IF next = right THEN SetParent(a, below, next)
                  ELSE Hung(Hung(a, next, "right", right), p, "left", below),
       node   |-> below,
       parent |-> p,
       red    |-> t.red[next]]

\* Slip: the colour that leaves the tree is that of the node, not of the
\* place where the tree became shorter.
UnlinkedColour(t, n) ==
  LET u == IF NULL \in {t.child[n][s] : s \in Sides}
           THEN Bypassed(t, n) ELSE Succeeded(t, n)
  IN  [u EXCEPT !.red = t.red[n]]

\* The tree without n, and the place where a black node may be missing.
Unlinked(t, n) ==
  IF NULL \in {t.child[n][s] : s \in Sides} THEN Bypassed(t, n)
  ELSE Succeeded(t, n)

Blackened(t, n) == IF n = NULL THEN t ELSE [t EXCEPT !.red[n] = FALSE]

Del(n) ==
  /\ call = Idle
  /\ tree_find(tree, Key[n]) = n
  /\ LET u == Unlinked(tree, n)
         t == Fresh(u.tree, n)
     IN  IF u.red \/ IsRed(t, u.node)
         THEN /\ tree' = IF u.red THEN t ELSE Blackened(t, u.node)
              /\ call' = Idle
         ELSE /\ tree' = t
              /\ call' = [op |-> "del", node |-> u.node, parent |-> u.parent]
  /\ UNCHANGED result

Short == call.op = "del" /\ call.node # tree.root

DelSide == SideOf(tree, call.parent, call.node)
Sibling == tree.child[call.parent][Other(DelSide)]

\* The tree once the sibling of the short place is black.
WithBlackSibling ==
  IF ~tree.red[Sibling] THEN tree
  ELSE tree__rotate(Swapped(tree, Sibling, call.parent), DelSide, call.parent)

NewSibling == WithBlackSibling.child[call.parent][Other(DelSide)]

RedNephew ==
  \E s \in Sides : IsRed(WithBlackSibling, WithBlackSibling.child[NewSibling][s])

\* s takes over the colour of p, which is black as is far.
Passed(t, s, p, far) ==
  [t EXCEPT !.red[s] = t.red[p], !.red[p] = FALSE, !.red[far] = FALSE]

DelRotate ==
  /\ Short
  /\ RedNephew
  /\ LET cis  == DelSide
         p    == call.parent
         t    == WithBlackSibling
         s    == NewSibling
         near == t.child[s][cis]
         a    == IF IsRed(t, t.child[s][Other(cis)]) THEN t
                 ELSE tree__rotate(Swapped(t, near, s), Other(cis), s)
         sib  == a.child[p][Other(cis)]
         far  == a.child[sib][Other(cis)]
         b    == tree__rotate(Passed(a, sib, p, far), cis, p)
     IN  tree' = Blackened(b, b.root)
  /\ call' = Idle
  /\ UNCHANGED result

\* Slip: the parent is not moved along with the node.
StillAt(t, p) == [op |-> "del", node |-> p, parent |-> p]

UpFrom(t, p) == [op |-> "del", node |-> p, parent |-> t.parent[p]]

\* The sibling's side becomes as short as the other, and the place moves up;
\* a red parent makes up for both.
DelRecolour ==
  /\ Short
  /\ ~RedNephew
  /\ LET p == call.parent
         t == [WithBlackSibling EXCEPT !.red[NewSibling] = TRUE]
     IN  IF t.red[p]
         THEN tree' = Blackened(t, p) /\ call' = Idle
         ELSE tree' = t /\ call' = UpFrom(t, p)
  /\ UNCHANGED result

DelDone ==
  /\ call.op = "del" /\ ~Short
  /\ tree' = Blackened(tree, call.node)
  /\ call' = Idle
  /\ UNCHANGED result

Loop == AddRecolour \/ AddRotate \/ AddDone \/ DelRotate \/ DelRecolour \/ DelDone

Next ==
  \/ \E n \in Nodes : Add(n) \/ AddRefused(n) \/ Del(n)
  \/ Loop

Spec == Init /\ [][Next]_vars

----------------------------------------------------------------------------
\* The nodes that are linked, judged by their own fields.
InTree == {n \in Nodes : tree.root = n \/ tree.parent[n] # NULL}

Children(n) == {tree.child[n][s] : s \in Sides} \ {NULL}

(* After any step of any call the pointers up and the pointers down are    *)
(* those of one tree: tree_del starts from the pointers of the node it is  *)
(* given and never searches.                                               *)
PointersAgree ==
  LET linked == InTree
  IN  /\ tree.root # NULL => tree.root \in linked /\ tree.parent[tree.root] = NULL
      /\ \A n \in linked : \A c \in Children(n) : c \in linked /\ tree.parent[c] = n
      /\ \A n \in linked \ {tree.root} :
           tree.parent[n] \in linked /\ n \in Children(tree.parent[n])

(* A search finds exactly the nodes that are linked, also between the      *)
(* rotations, and never the node of a refused addition.                    *)
SearchesFind ==
  \A n \in Nodes : n \in InTree <=> tree_find(tree, Key[n]) = n

\* The nodes from n up to the root.
Up(n) ==
  LET At[i \in 0 .. Cardinality(Nodes)] ==
        IF i = 0 THEN {n}
        ELSE LET below == At[i - 1]
             IN  below \cup ({tree.parent[m] : m \in below} \ {NULL})
  IN  At[Cardinality(Nodes)]

Blacks(n) == Cardinality({m \in Up(n) : ~tree.red[m]})

\* The places where a search that fails ends.
Ends == {e \in InTree \X Sides : tree.child[e[1]][e[2]] = NULL}

\* In a removal, the ends below the place that lacks a black node.
ShortEnds ==
  {e \in Ends : \/ call.node \in Up(e[1])
                \/ call.node = NULL /\ e = <<call.parent, DelSide>>}

(* Every search that fails passes the same number of black nodes.  While a *)
(* removal is under way those through its current place, and no others,    *)
(* pass one less: the loop moves the defect up and never spreads it.       *)
EqualBlacks ==
  LET lack(e) == IF Short /\ e \in ShortEnds THEN 1 ELSE 0
  IN  Cardinality({Blacks(e[1]) + lack(e) : e \in Ends}) <= 1

(* No red node has a red parent; while an addition is under way the node   *)
(* it is at may be the exception, and the root may be red.  Together with  *)
(* EqualBlacks this is what keeps searches short.                          *)
RedsApart ==
  /\ call.op # "add" => ~IsRed(tree, tree.root)
  /\ \A n \in InTree :
       IsRed(tree, n) /\ IsRed(tree, tree.parent[n]) =>
         Rebalancing /\ n = call.node

(* The loops follow pointers without testing them: the parent of a red     *)
(* parent, the sibling of a place that lacks a black node, before and      *)
(* after the rotation.                                                     *)
NeverThroughNULL ==
  /\ Rebalancing => Grandparent # NULL
  /\ Short => call.parent # NULL /\ Sibling # NULL /\ NewSibling # NULL

(* All of what a balanced search tree is, between any two steps.           *)
RedBlack ==
  PointersAgree /\ SearchesFind /\ EqualBlacks /\ RedsApart /\ NeverThroughNULL

(* The linked nodes are a dictionary: one node for each key, a refusal for *)
(* a second, and rotations change nothing.                                 *)
Promise == INSTANCE Dictionary WITH entries <- InTree
ImplementsDictionary == Promise!Spec

(* No loop runs for ever: an iteration that is followed by another of the  *)
(* same call has moved towards the root.                                   *)
Climbs ==
  call.op # "none" /\ (Rebalancing' \/ Short') =>
    Cardinality(Up(call.parent)') < Cardinality(Up(call.parent))

LoopsClimb == [][Climbs]_vars
=============================================================================
