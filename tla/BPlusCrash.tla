----------------------------- MODULE BPlusCrash -----------------------------
(***************************************************************************)
(* The B+ tree under crashes.  The node files, the root file and their     *)
(* inode numbers survive a crash, and bplus_tree_init without force_init   *)
(* finds the meta directory and reuses them as they are.  An operation may *)
(* be interrupted between any two of the files that it writes; each is     *)
(* written by one write, which is taken to happen as a whole.              *)
(***************************************************************************)
EXTENDS BPlusTree

CONSTANT MaxCrashes   (* bound                                             *)

ASSUME BPlusCrashAssumption == MaxCrashes \in Nat

VARIABLE crashes      (* the number of crashes so far                      *)

crashVars == <<vars, crashes>>

CrashInit ==
  /\ Init
  /\ crashes = 0

(* What the files hold when an operation on the memory m stops after some  *)
(* of what it does to them: it creates its new nodes, writes the root file *)
(* when the root changes (bplus_tree_adjust_root), and writes the nodes    *)
(* changed, each of which, if it is empty, it then deletes.                *)
Interrupted(m) ==
  LET new == FreeIds(disk, Cardinality(DOMAIN m.disk \ DOMAIN disk))
      Before(n) == Flush(m)[n - 1]
      next(n) == Elements(m)[n]
      Created == {[disk |-> WithNodes(disk, SubSeq(new, 1, n)), root |-> root] :
                    n \in 0 .. Len(new)}
      Between == {[disk |-> Before(n).disk, root |-> m.root] : n \in DOMAIN Elements(m)}
      Emptied == {[disk |-> [Before(n).disk EXCEPT ![next(n).id] = next(n).node],
                   root |-> m.root] :
                    n \in {n \in DOMAIN Elements(m) : next(n).id # 0 /\ NrItems(next(n).node) = 0}}
  IN  Created \cup Between \cup Emptied

(* The program stops there; the next start changes nothing.                *)
Stops(m) ==
  /\ m.ok
  /\ \E files \in Interrupted(m) :
       disk' = files.disk /\ root' = files.root
  /\ rc' = "EOK"
  /\ UNCHANGED status

(* In bplus_tree_insert or bplus_tree_delete; what only reads leaves all   *)
(* files as they are.                                                      *)
CrashInInsert(key) ==
  LET s == Search(key)
  IN  /\ s.end = "leaf" /\ ~s.found
      /\ NewNodes(Memory(s)) <= Cardinality(NodeIds \ DOMAIN disk)  \* bound
      /\ \E errno \in BOOLEAN : Stops(InsertItem(Memory(s), key, errno))

CrashInDelete(key) ==
  LET s == Search(key)
  IN  /\ s.end = "leaf" /\ s.found
      /\ \E errno \in BOOLEAN : Stops(DeleteItem(Memory(s), errno))

CrashWith(key) ==
  /\ status = "running"
  /\ crashes < MaxCrashes
  /\ CrashInInsert(key) \/ CrashInDelete(key)
  /\ crashes' = crashes + 1

(* Keys are only inserted and searched for.                                *)
InsertOrCrash ==
  \/ InsertOnly /\ UNCHANGED crashes
  \/ /\ status = "running"
     /\ crashes < MaxCrashes
     /\ \E key \in Keys : CrashInInsert(key)
     /\ crashes' = crashes + 1

InsertCrashSpec == CrashInit /\ [][InsertOrCrash]_crashVars

-----------------------------------------------------------------------------
(* Properties                                                              *)

(* While keys are only inserted, no node is lost: each node file that a    *)
(* split allocates hangs in the tree once the split has been written, up   *)
(* to the split that makes the fourth level.  A crash may leave files      *)
(* behind that no node leads to.                                           *)
NoNodeLost ==
  status = "running" /\ crashes = 0 /\ UpToThreeLevels => DOMAIN disk = Reachable

(* ... and each hangs at its level, also in what a crash leaves.           *)
TreeWhole == Balanced /\ NoNodeLost

(* While keys are only inserted, no node of the tree leads to a node that  *)
(* has been allocated but not written, wherever an insertion stopped: the  *)
(* nodes of a split are written before the one that leads to them, except  *)
(* that the root file is written first and may name an empty leaf.         *)
LinksWritten ==
  status = "running" => \A id \in Reachable \ {root} : NrItems(disk[id]) # 0

OS == INSTANCE OrderedSet WITH contents <- Items, answer <- rc

(* bplus_tree_insert and bplus_tree_search_key implement the ordered set,  *)
(* from the empty tree and from what each crash left: whatever splits, an  *)
(* insertion that is not interrupted and returns EOK adds the key it was   *)
(* called with to the leaves of the tree, adds no other and takes none     *)
(* out; a call that returns anything else, or does not return, leaves the  *)
(* keys as they are.  Excepted is the insertion that makes the fourth      *)
(* level.                                                                  *)
ImplementsOrderedSet ==
  OS!Init /\ [][UNCHANGED crashes /\ (UpToThreeLevels => UpToThreeLevels') =>
                  /\ OS!Next
                  /\ \A key \in Keys :
                       rc' = "EOK" /\ Insert(key) => OS!Insert(key) \/ OS!End]_crashVars

(* Insertions and deletions in any order, also after a crash in one.       *)
(* Deletion can leave a link to a node that it has deleted; a node that is *)
(* then allocated with the same inode number hangs at that link, too.      *)
LinkReused ==
  \E id \in Reachable : Links(id) \cap (DOMAIN disk' \ DOMAIN disk) # {}

(* Unless that happens, no operation makes leaves differ in depth.         *)
BalanceKept == [][Balanced' \/ ~Balanced \/ LinkReused]_crashVars

(* No node hangs at two links.                                             *)
EachLinkedOnce ==
  LET LinkOf(l) == Dc(disk[l[1]], l[2])
      inner == {id \in Reachable : ~IsLeaf(disk[id])}
      links == {l \in inner \X Words :
                  l[2] <= NrKeys(disk[l[1]]) /\ LinkOf(l) \in DOMAIN disk}
  IN  \A l1, l2 \in links : LinkOf(l1) = LinkOf(l2) => l1 = l2

(* In trees that are balanced and whose nodes hang at one link, no         *)
(* operation adds or loses more than one key.  Merging and borrowing       *)
(* leaves, merging their parents and giving up a root move every other     *)
(* item to a node of the tree.  Excepted are an insertion that makes the   *)
(* fourth level, deletions below a parent without room for a key more (the *)
(* key written for a new first item overwrites its disk child 0), and an   *)
(* insertion that gets the inode number at the end of such an old link.    *)
ParentFull(key) ==
  Search(key).pe[1].node.nr_items = MAX_KEYS + MAX_DC

OneKeyAtATime ==
  [][UNCHANGED crashes /\ status' = "running" =>
       LET lost == Items \ Items'
           added == Items' \ Items
       IN  \/ Cardinality(lost) + Cardinality(added) <= 1
           \/ added = {} /\ \E key \in lost : ParentFull(key)
           \/ UpToThreeLevels /\ ~UpToThreeLevels'
           \/ LinkReused
           \/ ~(Balanced /\ EachLinkedOnce)]_crashVars
=============================================================================
