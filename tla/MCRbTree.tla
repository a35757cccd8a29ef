------------------------------ MODULE MCRbTree ------------------------------
(***************************************************************************)
(* Small instances of RbTree for TLC.  Nodes are numbers.                  *)
(***************************************************************************)
EXTENDS RbTree

CONSTANT NodeCount

MCNode == 1..NodeCount

\* A container never holds two nodes of one key: node n is the one for key n.
OwnKey == [n \in MCNode |-> n]

\* A chain's caller may offer a second node with a key already there.
PairedKey == [n \in MCNode |-> (n + 1) \div 2]
=============================================================================
