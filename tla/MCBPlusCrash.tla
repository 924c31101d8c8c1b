---------------------------- MODULE MCBPlusCrash ----------------------------
(* BPlusCrash with constants from MCBPlusCrash.cfg.                        *)
EXTENDS BPlusCrash

(* Return codes, and the contents of nodes that the tree does not lead to, *)
(* make no difference to any later step.  (TLC sorts a disk that is        *)
(* compared, which it has to do before the nodes are picked out.)          *)
View == <<disk = disk, root, DOMAIN disk, [id \in Reachable |-> disk[id]], status, crashes>>
=============================================================================
