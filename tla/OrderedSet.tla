----------------------------- MODULE OrderedSet -----------------------------
(***************************************************************************)
(* What the B+ tree promises about the keys it holds to a client that      *)
(* inserts and searches.  An insertion that returns EOK adds the key of    *)
(* the call; no other call adds a key, and none loses one.  An insertion   *)
(* that finds its key is a search.  What a search answers is no part of    *)
(* this promise: in a tree of three levels it can miss a key, which is     *)
(* then inserted again.  The program may end in a call (a failed           *)
(* assertion, a bad pointer, a loop that does not end); that changes       *)
(* nothing.                                                                *)
(***************************************************************************)
CONSTANT
  Keys       (* the keys                                                   *)

VARIABLES
  contents,  (* the keys stored                                            *)
  answer,    (* return code of the last call                               *)
  status     (* "running", or "ended" once a call did not return           *)

vars == <<contents, answer, status>>

Init ==
  /\ contents = {}
  /\ answer = "EOK"
  /\ status = "running"

Insert(key) ==
  /\ status = "running"
  /\ contents' = contents \cup {key}
  /\ answer' = "EOK"
  /\ UNCHANGED status

Search ==
  /\ status = "running"
  /\ answer' \in {"EEXIST", "ENOENT"}
  /\ UNCHANGED <<contents, status>>

End ==
  /\ status = "running"
  /\ status' = "ended"
  /\ UNCHANGED <<contents, answer>>

Next == End \/ Search \/ \E key \in Keys : Insert(key)

Spec == Init /\ [][Next]_vars
=============================================================================
