----------------------------- MODULE Dictionary ------------------------------
(***************************************************************************)
(* What a tree of wepoll.c is to its users: a map from keys to nodes that  *)
(* refuses a second node for a key.                                        *)
(***************************************************************************)
EXTENDS Integers

CONSTANTS Nodes, Key

VARIABLES
  entries,    \* the nodes that are found, each under its key
  result      \* what the last tree_add returned

vars == <<entries, result>>

Taken == {Key[n] : n \in entries}

Init == entries = {} /\ result = 0

Insert(n) ==
  /\ Key[n] \notin Taken
  /\ entries' = entries \cup {n}
  /\ result' = 0

Refuse(n) ==
  /\ Key[n] \in Taken
  /\ result' = -1
  /\ UNCHANGED entries

Remove(n) ==
  /\ n \in entries
  /\ entries' = entries \ {n}
  /\ UNCHANGED result

Next == \E n \in Nodes : Insert(n) \/ Refuse(n) \/ Remove(n)

Spec == Init /\ [][Next]_vars
=============================================================================
