------------------------------- MODULE MCAVL -------------------------------
(* AVL alone, for what the library's test asserts of its insertion.        *)
EXTENDS AVL
=============================================================================
