---------------------------- MODULE MCBPlusTree ----------------------------
(* BPlusTree with constants from MCBPlusInserted.cfg.                      *)
EXTENDS BPlusTree
=============================================================================
