------------------------------ MODULE MCRBTree -------------------------------
(***************************************************************************)
(* A small instance of the red-black tree.                                 *)
(***************************************************************************)
EXTENDS RBTree

CONSTANT TreeSize

\* The last node is added under a key that another node has.
TreeNodes == 1 .. TreeSize
TreeKeys  == [n \in TreeNodes |-> IF n = TreeSize THEN 2 ELSE n]
=============================================================================
