------------------------------ MODULE MCStacks ------------------------------
(***************************************************************************)
(* The array stack and its clients for one run: a behaviour is any         *)
(* sequence of operations of Stack, or one of the programs StackRecursion, *)
(* MinStack and StackScans (client), and leaves the variables of the       *)
(* others as they are at the start.  The payloads of the scans are what    *)
(* they push, those of the others a few integers.                          *)
(***************************************************************************)
EXTENDS StackRecursion, StackScans

CONSTANT Payloads   (* what is pushed where the payload is left open       *)

VARIABLES client, temp_top, temp_node, temp_live, temp_rc, temp_out

Bare == INSTANCE Stack WITH Data <- Payloads
Recursion == INSTANCE StackRecursion WITH Data <- Payloads
MinS == INSTANCE MinStack WITH Data <- Payloads

temp == <<temp_top, temp_node, temp_live, temp_rc, temp_out>>

MCInit ==
  /\ client \in {"bare", "recursion", "min", "scan"}
  /\ RecursionInit
  /\ MinS!MinInit
  /\ ScanInit
  /\ client = "scan" \/ <<problem, input>> = <<"pairs", <<>>>>

MCNext ==
  /\ \/ client = "bare" /\ Bare!Next /\ UNCHANGED <<locals, temp, scan>>
     \/ client = "recursion" /\ Recursion!RecursionNext /\ UNCHANGED <<temp, scan>>
     \/ client = "min" /\ MinS!MinNext /\ UNCHANGED <<locals, scan>>
     \/ client = "scan" /\ ScanNext /\ UNCHANGED <<locals, temp>>
  /\ UNCHANGED client

(* There is one thread: a call or scan that runs takes its next step.      *)
MCSpec ==
  /\ MCInit
  /\ [][MCNext]_<<client, vars, locals, temp, scan>>
  /\ WF_<<vars, locals>>(client = "recursion" /\ Recursion!Running)
  /\ WF_<<vars, scan>>(client = "scan" /\ ScanNext)

-----------------------------------------------------------------------------
(* Inputs of up to so many characters: ( ) [ ] for pairs, ( ) for valid,   *)
(* three numbers for preorder; and expressions of three digits, of which   *)
(* the operands of the last operator have up to four and two, as well as   *)
(* two expressions that do not fit and strings that are no expressions.    *)
UpTo(n, S) == UNION {[1 .. k -> S] : k \in 0 .. n}

Larger(E, F) ==
  E \cup {<<40>> \o e \o <<41>> : e \in E}
    \cup {e \o <<op>> \o f : e \in E, op \in {42, 43, 45}, f \in F}

Expressions ==
  LET one == {<<48 + d>> : d \in 1 .. 3}
      two == Larger(one, {<<50>>})
  IN  Larger(Larger(two, {<<49>>, <<40, 51, 45, 50, 41>>}), {<<51>>, <<50, 43, 49>>, <<40, 49, 45, 51, 41>>})

(* ((((1)))) in one more pair of parentheses, and 1+(1+(1+1)).             *)
TooDeep == {<<40, 40, 40, 40, 40, 49, 41, 41, 41, 41, 41>>,
            <<49, 43, 40, 49, 43, 40, 49, 43, 49, 41, 41>>}

MCInputs ==
  [problem : {"pairs"}, input : UpTo(5, {40, 41, 91, 93})]
    \cup [problem : {"valid"}, input : UpTo(8, {40, 41})]
    \cup [problem : {"preorder"}, input : UpTo(5, 1 .. 4)]
    \cup [problem : {"postfix"}, input : Expressions \cup TooDeep \cup UpTo(4, {40, 41, 42, 50})]

MCData == -60 .. 125
MCPayloads == 1 .. 3

-----------------------------------------------------------------------------
(* The least item of stack_prob_9 is on top of its second stack.           *)
MinOnTop == client = "min" => MinS!MinOnTop

(* Every call of the recursion returns, and every scan reports an answer   *)
(* or aborts.                                                              *)
CallsReturn ==
  /\ [](call # "none" => <>(pc = "caller"))
  /\ client = "scan" => <>(phase \in {"done", "aborted"})
=============================================================================
