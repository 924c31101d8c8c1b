---------------------------- MODULE BPlusClient ----------------------------
(***************************************************************************)
(* b_plus_tree_tc: the test of the B+ tree, which inserts the inode number *)
(* of every file in its data directory and then deletes them again.  The   *)
(* test creates its files in the order of their names and inserts them in  *)
(* that order or the opposite one; which inode numbers they get is up to   *)
(* the file system, so that the keys come in any order here.  The order of *)
(* deletion is left open, too: the test offers the same two.  A client of  *)
(* this kind grows a tree of three levels with few keys, and takes it down *)
(* to one.                                                                 *)
(***************************************************************************)
EXTENDS BPlusTree

VARIABLES
  uninserted,  (* keys still to insert                                     *)
  undeleted    (* keys still to delete                                     *)

clientVars == <<vars, uninserted, undeleted>>

ClientInit ==
  /\ Init
  /\ uninserted = Keys
  /\ undeleted = Keys

(* bplus_tree_tc_insert_handle.                                            *)
InsertHandle ==
  /\ status = "running"
  /\ \E key \in uninserted :
       Insert(key) /\ uninserted' = uninserted \ {key}
  /\ UNCHANGED undeleted

(* bplus_tree_tc_delete_handle.                                            *)
DeleteHandle ==
  /\ status = "running"
  /\ uninserted = {}
  /\ \E key \in undeleted :
       Delete(key) /\ undeleted' = undeleted \ {key}
  /\ UNCHANGED uninserted

ClientNext == InsertHandle \/ DeleteHandle

ClientSpec == ClientInit /\ [][ClientNext]_clientVars
=============================================================================
