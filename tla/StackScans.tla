----------------------------- MODULE StackScans -----------------------------
(***************************************************************************)
(* The problems that read a string or an array once and keep what they     *)
(* still need on a stack: the value of an infix expression by way of its   *)
(* postfix form (stack_prob_3.c, then stack_prob_2.c), matching            *)
(* parentheses (stack_prob_4.c), the longest valid substring of            *)
(* parentheses (stack_prob_12.c), and whether an array is the preorder of  *)
(* a search tree (stack_prob_13.c).  A behaviour solves one problem for    *)
(* one input, a step is one pass of a loop, and at most one stack          *)
(* operation where a pass makes several.  Characters are their codes.      *)
(***************************************************************************)
EXTENDS Stack, SequencesExt, FiniteSetsExt

CONSTANT Inputs   (* problems with their inputs, [problem, input]          *)

VARIABLES
  problem,  (* "postfix", "value", "pairs", "valid" or "preorder"          *)
  input,    (* the string or array read                                    *)
  i,        (* the next position of it                                     *)
  phase,    (* "loop", a place inside a pass, "done" or "aborted"          *)
  val,      (* val, node2 or root: what the running function remembers     *)
  printed,  (* the characters printed                                      *)
  result,   (* what it reports                                             *)
  asked     (* the expression that "value" is asked about                  *)

scan == <<problem, input, i, phase, val, printed, result, asked>>

INT_MIN == -1000

ScanInit ==
  /\ Init
  /\ \E x \in Inputs :
       /\ problem = x.problem
       /\ input = x.input
       /\ asked = x.input
  /\ i = 1
  /\ phase = "start"
  /\ val = INT_MIN
  /\ printed = <<>>
  /\ result = 0

Open(ch) == ch \in {40, 91, 123}                               (* ( [ {  *)
IsPair(ch1, ch2) == <<ch1, ch2>> \in {<<40, 41>>, <<91, 93>>, <<123, 125>>}
Digit(ch) == ch \in 48 .. 57

(* stack_find_prec for + and -, for *, and for anything else.              *)
Precedence(ch) == CASE ch \in {43, 45} -> 1 [] ch = 42 -> 2 [] OTHER -> 0

Evaluated(val1, val2, operator) ==
  CASE operator = 43 -> val1 + val2
    [] operator = 45 -> val1 - val2
    [] operator = 42 -> val1 * val2

-----------------------------------------------------------------------------
Ch == input[i]
Peeked == st_node[st_top]

At(p, place) == problem = p /\ phase = place
Reading(p) == At(p, "loop") /\ i <= Len(input)
Finished(p) == At(p, "loop") /\ i > Len(input)

GoTo(place) == phase' = place /\ UNCHANGED <<problem, input, asked, i>>
NextPass == phase' = "loop" /\ i' = i + 1 /\ UNCHANGED <<problem, input, asked>>
Keep == UNCHANGED <<val, printed, result>>

(* stack_push where the return code is asserted.                           *)
PushAsserted(d) ==
  /\ Push(d)
  /\ IF rc' = "EOK" THEN NextPass ELSE GoTo("aborted")

-----------------------------------------------------------------------------
(* stack_prob_3: infix to postfix.                                         *)
PrintPopped ==
  /\ Pop
  /\ printed' = Append(printed, out')
  /\ UNCHANGED <<val, result>>

Operand ==
  /\ Reading("postfix")
  /\ Digit(Ch)
  /\ printed' = Append(printed, Ch)
  /\ NextPass
  /\ UNCHANGED <<vars, val, result>>

OpenBracket ==
  /\ Reading("postfix")
  /\ Ch = 40
  /\ PushAsserted(Ch)
  /\ Keep

(* stack_prob_3_handle_case_2.                                             *)
CloseBracket ==
  /\ Reading("postfix")
  /\ Ch = 41
  /\ \/ ~StackEmpty /\ Peeked # 40 /\ PrintPopped /\ GoTo("loop")
     \/ ~StackEmpty /\ Peeked = 40 /\ Pop /\ NextPass /\ Keep
     \/ StackEmpty /\ NextPass /\ UNCHANGED vars /\ Keep

(* Slip: an operator of the same precedence stays on the stack.            *)
GoesFirstSlip == ~StackEmpty /\ Precedence(Peeked) > Precedence(Ch)

GoesFirst == ~StackEmpty /\ Precedence(Peeked) >= Precedence(Ch)

(* stack_prob_3_handle_case_3.                                             *)
InfixOperator ==
  /\ Reading("postfix")
  /\ ~Digit(Ch) /\ Ch \notin {40, 41}
  /\ \/ GoesFirst /\ PrintPopped /\ GoTo("loop")
     \/ ~GoesFirst /\ PushAsserted(Ch) /\ Keep

(* The operators left are printed, and stack_prob_2 is given the result,   *)
(* with a stack of its own.                                                *)
PrintRest ==
  /\ Finished("postfix")
  /\ ~StackEmpty
  /\ PrintPopped
  /\ GoTo("loop")

HandOver ==
  /\ Finished("postfix")
  /\ StackEmpty
  /\ problem' = "value"
  /\ input' = printed
  /\ i' = 1
  /\ st_node' = [n \in Slots |-> NoData]
  /\ UNCHANGED <<st_top, live, rc, out, phase, val, printed, result, asked>>

-----------------------------------------------------------------------------
(* stack_prob_2: node2 and node1 point at two popped nodes; both are read  *)
(* before the result goes where node1 points.  What is no operator aborts, *)
(* and so does a missing operand, or, at the end, a missing result.        *)
PushValue ==
  /\ Reading("value")
  /\ Digit(Ch)
  /\ Push(Ch - 48)
  /\ NextPass
  /\ Keep

PopNode2 ==
  /\ Reading("value")
  /\ ~Digit(Ch)
  /\ Pop
  /\ val' = st_top
  /\ GoTo(IF rc' = "EOK" THEN "node1" ELSE "aborted")
  /\ UNCHANGED <<printed, result>>

PopNode1 ==
  /\ At("value", "node1")
  /\ Pop
  /\ IF rc' = "EOK" /\ Precedence(Ch) > 0
     THEN result' = Evaluated(out', st_node[val], Ch) /\ GoTo("push")
     ELSE UNCHANGED result /\ GoTo("aborted")
  /\ UNCHANGED <<val, printed>>

PushResult ==
  /\ At("value", "push")
  /\ Push(result)
  /\ NextPass
  /\ Keep

ReportValue ==
  /\ Finished("value")
  /\ Pop
  /\ IF rc' = "EOK"
     THEN result' = out' /\ GoTo("done")
     ELSE UNCHANGED result /\ GoTo("aborted")
  /\ UNCHANGED <<val, printed>>

-----------------------------------------------------------------------------
(* stack_prob_4.  A wrong pair aborts; the text printed, SUCCESS (1) or    *)
(* ERROR (0), and what stack_dealloc_stack returns are the answer.         *)
PairOpen ==
  /\ Reading("pairs")
  /\ Open(Ch)
  /\ PushAsserted(Ch)
  /\ Keep

PairClose ==
  /\ Reading("pairs")
  /\ ~Open(Ch)
  /\ Pop
  /\ CASE rc' = "ENOENT" -> GoTo("mismatch")
       [] rc' = "EOK" /\ IsPair(out', Ch) -> NextPass
       [] OTHER -> GoTo("aborted")
  /\ Keep

ReportPairs ==
  /\ \/ Finished("pairs") /\ result' = 1
     \/ At("pairs", "mismatch") /\ result' = 0
  /\ Dealloc
  /\ GoTo("done")
  /\ UNCHANGED <<val, printed>>

-----------------------------------------------------------------------------
(* stack_prob_12_main: positions, counted from 0, of parentheses not yet   *)
(* matched, above that of the last one that cannot be.                     *)
ValidStart ==
  /\ At("valid", "start")
  /\ Push(-1)
  /\ GoTo("loop")
  /\ Keep

ValidOpen ==
  /\ Reading("valid")
  /\ Ch = 40
  /\ Push(i - 1)
  /\ NextPass
  /\ Keep

ValidClose ==
  /\ Reading("valid")
  /\ Ch = 41
  /\ Pop
  /\ GoTo("popped")
  /\ Keep

ValidMeasure ==
  /\ At("valid", "popped")
  /\ \/ ~StackEmpty /\ result' = Max({result, i - 1 - Peeked}) /\ UNCHANGED vars
     \/ StackEmpty /\ Push(i - 1) /\ UNCHANGED result
  /\ NextPass
  /\ UNCHANGED <<val, printed>>

-----------------------------------------------------------------------------
(* stack_prob_13_main, root being val.                                     *)
PreorderSmaller ==
  /\ Reading("preorder")
  /\ Ch < val
  /\ result' = 1
  /\ GoTo("done")
  /\ UNCHANGED <<vars, val, printed>>

PreorderPop ==
  /\ Reading("preorder")
  /\ Ch >= val
  /\ GoTo("right")
  /\ UNCHANGED <<vars, val, printed, result>>

SmallerOnTop == ~StackEmpty /\ Peeked < Ch

(* Slip: what is smaller is looked at and not popped.                      *)
PreorderRightSlip ==
  /\ At("preorder", "right")
  /\ \/ SmallerOnTop /\ val' = Peeked /\ GoTo("right") /\ UNCHANGED vars
     \/ ~SmallerOnTop /\ Push(Ch) /\ NextPass /\ UNCHANGED val
  /\ UNCHANGED <<printed, result>>

PreorderRight ==
  /\ At("preorder", "right")
  /\ \/ SmallerOnTop /\ Pop /\ val' = out' /\ GoTo("right")
     \/ ~SmallerOnTop /\ Push(Ch) /\ NextPass /\ UNCHANGED val
  /\ UNCHANGED <<printed, result>>

(* The other problems begin with the loop, and two report what they have.  *)
Start ==
  /\ phase = "start"
  /\ problem # "valid"
  /\ GoTo("loop")
  /\ UNCHANGED <<vars, val, printed, result>>

Report ==
  /\ Finished("valid") \/ Finished("preorder")
  /\ GoTo("done")
  /\ UNCHANGED <<vars, val, printed, result>>

ScanNext ==
  \/ Operand \/ OpenBracket \/ CloseBracket \/ InfixOperator \/ PrintRest \/ HandOver
  \/ PushValue \/ PopNode2 \/ PopNode1 \/ PushResult \/ ReportValue
  \/ PairOpen \/ PairClose \/ ReportPairs
  \/ ValidStart \/ ValidOpen \/ ValidClose \/ ValidMeasure
  \/ PreorderSmaller \/ PreorderPop \/ PreorderRight
  \/ Start \/ Report

ScanSpec == ScanInit /\ [][ScanNext]_<<vars, scan>>

-----------------------------------------------------------------------------
(* Reference definitions, by the structure of the input.                   *)

(* Parentheses match if taking out neighbours that do leaves nothing.      *)
RECURSIVE Matching(_)
Matching(s) ==
  \/ s = <<>>
  \/ \E k \in 1 .. Len(s) - 1 :
       /\ IsPair(s[k], s[k + 1])
       /\ Matching(SubSeq(s, 1, k - 1) \o SubSeq(s, k + 2, Len(s)))

Unclosed(s, k) ==
  Cardinality({j \in 1 .. k : Open(s[j])}) - Cardinality({j \in 1 .. k : ~Open(s[j])})

LongestValid(s) ==
  Max({0} \cup {n - m + 1 : <<m, n>> \in
                 {w \in (DOMAIN s) \X (DOMAIN s) : w[1] < w[2] /\ Matching(SubSeq(s, w[1], w[2]))}})

(* An expression is a digit, has an operator outside parentheses, of which *)
(* the last of the lowest precedence is applied last, or is in parentheses.*)
RECURSIVE Value(_)
Value(s) ==
  LET Depth(k) == Cardinality({j \in 1 .. k : s[j] = 40}) - Cardinality({j \in 1 .. k : s[j] = 41})
      outside == {k \in DOMAIN s : Precedence(s[k]) > 0 /\ Depth(k) = 0}
      least == {k \in outside : \A j \in outside : Precedence(s[k]) <= Precedence(s[j])}
      k == Max(least)
  IN  IF Len(s) = 1 THEN s[1] - 48
      ELSE IF outside = {} THEN Value(SubSeq(s, 2, Len(s) - 1))
      ELSE Evaluated(Value(SubSeq(s, 1, k - 1)), Value(SubSeq(s, k + 1, Len(s))), s[k])

RECURSIVE IsExpression(_)
IsExpression(s) ==
  \/ Len(s) = 1 /\ Digit(s[1])
  \/ Len(s) > 2 /\ s[1] = 40 /\ s[Len(s)] = 41 /\ IsExpression(SubSeq(s, 2, Len(s) - 1))
  \/ \E k \in DOMAIN s : /\ Precedence(s[k]) > 0
                        /\ IsExpression(SubSeq(s, 1, k - 1))
                        /\ IsExpression(SubSeq(s, k + 1, Len(s)))

(* A root, the items of its left subtree, those of its right subtree.      *)
RECURSIVE IsPreorder(_)
IsPreorder(s) ==
  \/ s = <<>>
  \/ \E k \in 1 .. Len(s) :
       /\ \A j \in 2 .. Len(s) : IF j <= k THEN s[j] <= s[1] ELSE s[1] <= s[j]
       /\ IsPreorder(SubSeq(s, 2, k))
       /\ IsPreorder(SubSeq(s, k + 1, Len(s)))

-----------------------------------------------------------------------------
(* Properties                                                              *)

(* What is reported is what the problem asks for.  The postfix form has    *)
(* the value of the infix expression.  Parentheses match if both the text  *)
(* and the return code say so (the text alone does not tell of one that is *)
(* not closed, the code not of one that was not open).  Where return codes *)
(* of stack_push are ignored, the answer is right as long as the stack had *)
(* room; where they are asserted, a full stack aborts, and nothing else    *)
(* does but a wrong pair, or what is no expression.                        *)
AnswersRight ==
  /\ phase = "done" =>
       CASE problem = "value" -> IsExpression(asked) => result = Value(asked)
         [] problem = "pairs" -> result = 1 /\ rc = "EOK" <=> Matching(input)
         [] problem = "valid" ->
              (\A m, n \in DOMAIN input :
                 m <= n => Unclosed(SubSeq(input, m, n), n - m + 1) < STACK_MAX_ITEMS) =>
                result = LongestValid(input)
         [] problem = "preorder" ->
              Len(input) <= STACK_MAX_ITEMS => (result = 0 <=> IsPreorder(input))
  /\ phase = "aborted" => rc = "EOVERFLOW" \/ (IF problem = "pairs" THEN ~Matching(input)
                                                 ELSE ~IsExpression(asked))
=============================================================================
