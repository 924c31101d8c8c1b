------------------------------- MODULE MCBST -------------------------------
(* BST with constants from the .cfg file; the addresses are                *)
(* interchangeable.                                                        *)
EXTENDS BST, TLC

Symmetry == Permutations(Nodes)
=============================================================================
