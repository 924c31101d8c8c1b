--------------------------- MODULE MCBPlusClient ---------------------------
(***************************************************************************)
(* The tree under two clients: the library's own test, which grows it to   *)
(* three levels before it deletes (BPlusClient), and one that inserts,     *)
(* searches and deletes in any order and may crash in between.  The        *)
(* bounds: the test's files got ascending inode numbers or descending      *)
(* ones, and it stops before it deletes the keys Kept; the second client   *)
(* uses FewKeys and at most FewNodes node files.                           *)
(***************************************************************************)
EXTENDS BPlusClient, BPlusCrash

CONSTANTS FewKeys, FewNodes, Kept

VARIABLE client  (* "ascending", "descending" or "any"                     *)

MCInit ==
  /\ ClientInit
  /\ crashes = 0
  /\ client \in {"ascending", "descending", "any"}

TestNext ==
  /\ ClientNext
  /\ \A i \in Keys \ uninserted', j \in uninserted' :
       IF client = "ascending" THEN i < j ELSE i > j
  /\ Kept \subseteq undeleted'
  /\ UNCHANGED crashes

AnyNext ==
  /\ status = "running"
  /\ \E key \in FewKeys :
       \/ (SearchKey(key) \/ Insert(key) \/ Delete(key)) /\ UNCHANGED crashes
       \/ CrashWith(key)
  /\ Cardinality(DOMAIN disk') <= FewNodes
  /\ UNCHANGED <<uninserted, undeleted>>

MCNext ==
  /\ \/ client # "any" /\ TestNext
     \/ client = "any" /\ AnyNext
  /\ UNCHANGED client

MCSpec == MCInit /\ [][MCNext]_<<crashVars, uninserted, undeleted, client>>

(* As in MCBPlusCrash.                                                     *)
View == <<disk = disk, root, DOMAIN disk, [id \in Reachable |-> disk[id]], status,
          crashes, uninserted, undeleted, client>>
=============================================================================
