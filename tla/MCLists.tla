------------------------------ MODULE MCLists ------------------------------
(***************************************************************************)
(* The lists and the programs on them for one run: the caller of a list    *)
(* passes positions, or is the stack of stack_prob_11 on a dll (user).     *)
(* Constants come from the .cfg file; the addresses are interchangeable.   *)
(***************************************************************************)
EXTENDS ListProblems, TLC

VARIABLES user, middle, count

Middle == INSTANCE MiddleStack

MCInit ==
  \/ user = "positions" /\ Init /\ middle = NULL /\ count = 0
  \/ user = "middle" /\ Middle!MiddleInit

MCNext ==
  /\ \/ user = "positions" /\ Next /\ UNCHANGED <<middle, count>>
     \/ /\ user = "positions"
        /\ status = "running"
        /\ Reverse \/ MergeSort
        /\ UNCHANGED <<middle, count>>
     \/ user = "middle" /\ Middle!MiddleNext
  /\ UNCHANGED user

MCSpec == MCInit /\ [][MCNext]_<<user, vars, middle, count>>

Symmetry == Permutations(Nodes)
MCPositions == -1 .. 6
MCData == 1 .. 3

-----------------------------------------------------------------------------
(* The stack of stack_prob_11 knows its middle.                            *)
MiddleKept == user = "middle" => Middle!MiddleKept
=============================================================================
