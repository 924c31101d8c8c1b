------------------------- MODULE StackClientsProofs -------------------------
(***************************************************************************)
(* Theorems about Stack, the programs on it and the stack of two queues,   *)
(* for every size and every set of payloads.  Stack: its type invariant is *)
(* inductive, and with it every step is a step of BoundedStack.            *)
(* StackRecursion: the pointers that the frames hold lead to the items     *)
(* they were taken from for as long as they are needed; stack_prob_6_rev   *)
(* reverses the stack, and stack_prob_7_sort sorts one of integers.        *)
(* MinStack: the minimum is right after any calls, although the return     *)
(* codes of the two stacks are ignored.  StackOfQueues: it implements the  *)
(* list that Stack implements.                                             *)
(***************************************************************************)
EXTENDS StackRecursion, MinStack, SequenceTheorems, TLAPS

LEMMA NextTypeOK == TypeOK /\ [Next]_vars => TypeOK'
<1> SUFFICES ASSUME TypeOK, [Next]_vars PROVE TypeOK'
  OBVIOUS
<1> USE StackAssumption DEF TypeOK, STACK_MIN_ITEMS, Slots
<1>1. ASSUME NEW d \in Data, Push(d) PROVE TypeOK'
  BY <1>1 DEF Push, StackFull
<1>2. CASE Pop
  BY <1>2 DEF Pop, StackEmpty
<1>3. CASE Peek
  <2>1. out' \in Data \cup {NoData}
    BY <1>3 DEF Peek, StackEmpty
  <2> QED
    BY <1>3, <2>1 DEF Peek
<1>4. CASE Dealloc
  BY <1>4 DEF Dealloc
<1>5. CASE MakeEmpty
  <2>1. st_top' \in STACK_MIN_ITEMS .. STACK_MAX_ITEMS - 1
    BY <1>5 DEF MakeEmpty
  <2> QED
    BY <1>5, <2>1 DEF MakeEmpty
<1>6. CASE UNCHANGED vars
  BY <1>6 DEF vars
<1> QED
  BY <1>1, <1>2, <1>3, <1>4, <1>5, <1>6 DEF Next

(* st_top is always -1 or the index of a slot.                             *)
THEOREM StackTypeCorrect == Spec => []TypeOK
<1>1. Init => TypeOK
  BY StackAssumption DEF Init, TypeOK, STACK_MIN_ITEMS, Slots
<1> QED
  BY <1>1, NextTypeOK, PTL DEF Spec

(* The sequence in the slots below st_top.                                 *)
ItemsOK ==
  /\ Items \in Seq(Data \cup {NoData})
  /\ Len(Items) = st_top + 1
  /\ \A k \in 1 .. st_top + 1 : Items[k] = st_node[k - 1]
  /\ Items = <<>> <=> StackEmpty

LEMMA ItemsSeq == TypeOK => ItemsOK
<1> SUFFICES ASSUME TypeOK PROVE ItemsOK
  OBVIOUS
<1> USE StackAssumption DEF TypeOK, STACK_MIN_ITEMS, Slots
<1>1. st_top + 1 \in Nat
  OBVIOUS
<1>2. Items \in Seq(Data \cup {NoData}) /\ Len(Items) = st_top + 1
  BY <1>1 DEF Items
<1>3. Items = <<>> <=> StackEmpty
  BY <1>2, EmptySeq DEF StackEmpty
<1> QED
  BY <1>2, <1>3 DEF ItemsOK, Items

LEMMA ItemsSeqNext == TypeOK' => ItemsOK'
BY ItemsSeq, PTL

(* An accepted stack_push appends to the items.                            *)
LEMMA PushAppends ==
  ASSUME TypeOK, NEW d \in Data, Push(d), ~StackFull, TypeOK'
  PROVE  Len(Items) < STACK_MAX_ITEMS /\ Items' = Append(Items, d)
<1> DEFINE S == Data \cup {NoData}
<1>0. ItemsOK /\ ItemsOK'
  BY ItemsSeq, ItemsSeqNext
<1>1. /\ st_top' = st_top + 1
      /\ st_node' = [st_node EXCEPT ![st_top + 1] = d]
      /\ st_top \in Int
  BY DEF Push, TypeOK, STACK_MIN_ITEMS
<1>2. Len(Items) < STACK_MAX_ITEMS
  BY <1>0, StackAssumption DEF ItemsOK, TypeOK, StackFull, STACK_MIN_ITEMS
<1>3. Items \in Seq(S) /\ Items' \in Seq(S) /\ Append(Items, d) \in Seq(S)
  BY <1>0 DEF ItemsOK
<1>4. Len(Items') = st_top + 2 /\ Len(Append(Items, d)) = st_top + 2
  BY <1>0, <1>1, <1>3 DEF ItemsOK
<1>5. ASSUME NEW k \in 1 .. st_top + 2
      PROVE  Items'[k] = Append(Items, d)[k]
  <2>1. Items'[k] = st_node'[k - 1]
    BY <1>0, <1>1 DEF ItemsOK
  <2>2. Append(Items, d)[k] = IF k = st_top + 2 THEN d ELSE st_node[k - 1]
    BY <1>0, <1>1, <1>3 DEF ItemsOK
  <2> QED
    BY <1>1, <1>2, <2>1, <2>2, StackAssumption
    DEF TypeOK, Slots, STACK_MIN_ITEMS, StackFull
<1> QED
  BY <1>2, <1>3, <1>4, <1>5, SeqEqual

(* An answered stack_pop removes the last of the items.                    *)
LEMMA PopRemovesLast ==
  ASSUME TypeOK, Pop, ~StackEmpty, TypeOK'
  PROVE  out' = BS!Top /\ Items # <<>> /\ Items' = BS!Rest
<1> DEFINE S == Data \cup {NoData}
<1>0. ItemsOK /\ ItemsOK'
  BY ItemsSeq, ItemsSeqNext
<1>1. st_top \in Nat /\ st_top' = st_top - 1 /\ UNCHANGED st_node
  BY DEF Pop, TypeOK, StackEmpty, STACK_MIN_ITEMS
<1>2. Items \in Seq(S) /\ Items' \in Seq(S) /\ Items # <<>>
  BY <1>0 DEF ItemsOK
<1>3. out' = BS!Top
  BY <1>0, <1>1, <1>2 DEF ItemsOK, Pop, BS!Top
<1>4. /\ BS!Rest \in Seq(S)
      /\ Len(BS!Rest) = st_top
      /\ \A k \in 1 .. st_top : BS!Rest[k] = Items[k]
  BY <1>0, <1>1, <1>2 DEF ItemsOK, BS!Rest
<1>5. Len(Items') = st_top /\ \A k \in 1 .. st_top : Items'[k] = Items[k]
  BY <1>0, <1>1 DEF ItemsOK
<1> QED
  BY <1>2, <1>3, <1>4, <1>5, SeqEqual

(* Every step of the array stack is a step of the abstract stack.          *)
LEMMA StepRefines ==
  TypeOK /\ TypeOK' /\ [Next]_vars => [BS!Next]_(BS!vars)
<1> SUFFICES ASSUME TypeOK, TypeOK', [Next]_vars
             PROVE  [BS!Next]_(BS!vars)
  OBVIOUS
<1>0. ItemsOK /\ ItemsOK'
  BY ItemsSeq, ItemsSeqNext
<1>1. ASSUME NEW d \in Data, Push(d) PROVE BS!Push(d)
  <2>1. CASE StackFull
    <3>1. Len(Items) = STACK_MAX_ITEMS /\ Items' = Items
      BY <1>0, <1>1, <2>1, StackAssumption
      DEF ItemsOK, Items, Push, StackFull
    <3> QED
      BY <1>1, <2>1, <3>1 DEF Push, BS!Push
  <2>2. CASE ~StackFull
    BY <1>1, <2>2, PushAppends DEF Push, BS!Push
  <2> QED
    BY <2>1, <2>2
<1>2. CASE Pop
  <2>1. CASE StackEmpty
    <3>1. Items = <<>> /\ Items' = Items
      BY <1>0, <1>2, <2>1 DEF ItemsOK, Items, Pop
    <3> QED
      BY <1>2, <2>1, <3>1 DEF Pop, BS!Pop, BS!Top, BS!Next
  <2>2. CASE ~StackEmpty
    BY <1>2, <2>2, PopRemovesLast DEF Pop, BS!Pop, BS!Next
  <2> QED
    BY <2>1, <2>2
<1>3. CASE Peek
  <2>1. Items' = Items
    BY <1>3 DEF Items, Peek
  <2>2. BS!Top = IF StackEmpty THEN NoData ELSE st_node[st_top]
    BY <1>0 DEF ItemsOK, BS!Top, StackEmpty, TypeOK, STACK_MIN_ITEMS
  <2> QED
    BY <1>3, <2>1, <2>2 DEF Peek, BS!Peek, BS!Next
<1>4. CASE Dealloc
  <2>1. Items' = Items
    BY <1>4 DEF Items, Dealloc
  <2> QED
    BY <1>0, <1>4, <2>1 DEF ItemsOK, Dealloc, BS!Dealloc, BS!Next
<1>5. CASE MakeEmpty
  <2>1. Items' = <<>>
    BY <1>0, <1>5 DEF ItemsOK, MakeEmpty, StackEmpty
  <2> QED
    BY <1>5, <2>1 DEF MakeEmpty, BS!MakeEmpty, BS!Next
<1>6. CASE UNCHANGED vars
  BY <1>6 DEF vars, BS!vars, Items
<1> QED
  BY <1>1, <1>2, <1>3, <1>4, <1>5, <1>6 DEF Next, BS!Next

(* The array stack implements the bounded last-in first-out stack.         *)
THEOREM StackRefinesBoundedStack == Spec => ImplementsBoundedStack
<1>1. Init => BS!Init
  <2>1. Init => Items = <<>>
    BY DEF Init, Items, STACK_MIN_ITEMS
  <2> QED
    BY <2>1 DEF Init, BS!Init
<1> QED
  BY <1>1, StepRefines, StackTypeCorrect, PTL
  DEF Spec, BS!Spec, ImplementsBoundedStack

-----------------------------------------------------------------------------

(* How many of the items the running call has put back, or is to put back. *)
Back == Len(before) - Len(nodes) + (IF pc = "unwind" THEN 1 ELSE 0)

(* Every item is in the stack, in a copy, or in a slot that a frame points *)
(* at, and the slots of the frames follow one another downwards from the   *)
(* last one that was used when the call was made.                          *)
Frames ==
  /\ TypeOK
  /\ pc \in {"caller", "pop", "insert", "unwind"}
  /\ nodes \in Seq(Slots) /\ temps \in Seq(Data) /\ before \in Seq(Data)
  /\ Len(before) <= STACK_MAX_ITEMS
  /\ \A j \in 0 .. st_top : st_node[j] \in Data
  /\ pc = "caller" => nodes = <<>> /\ temps = <<>>
  /\ pc # "caller" => st_top + 1 + Len(temps) = Back
  /\ pc = "pop" => temps = <<>> /\ \A j \in 0 .. st_top : st_node[j] = before[j + 1]
  /\ pc = "unwind" \/ temps # <<>> => nodes # <<>>
  /\ \A k \in 1 .. Len(nodes) :
       /\ nodes[k] = Len(before) - k
       /\ k < Len(nodes) \/ pc # "unwind" => st_node[nodes[k]] = before[Len(before) + 1 - k]

(* A reversal has put back the items from the first one on, each at the    *)
(* bottom: the one put back last is there, or will be, below the others.   *)
Reversing ==
  call = "rev" =>
    /\ pc \in {"insert", "unwind"} =>
         /\ \A j \in 0 .. st_top : st_node[j] = before[Back - j]
         /\ \A k \in 1 .. Len(temps) : temps[k] = before[k]
    /\ pc = "caller" => Items = Reverse(before)

Inv == Frames /\ Reversing

-----------------------------------------------------------------------------
LEMMA FrontLast ==
  ASSUME NEW S, NEW s \in Seq(S), s # <<>>
  PROVE  /\ Len(s) \in Nat \ {0}
         /\ Last(s) = s[Len(s)] /\ Last(s) \in S
         /\ Front(s) \in Seq(S) /\ Len(Front(s)) = Len(s) - 1
         /\ \A k \in 1 .. Len(s) - 1 : Front(s)[k] = s[k]
<1>1. Len(s) \in Nat \ {0}
  BY EmptySeq
<1>2. \A k \in 1 .. Len(s) - 1 : s[k] \in S
  BY <1>1, ElementOfSeq
<1>3. /\ SubSeq(s, 1, Len(s) - 1) \in Seq(S)
      /\ Len(SubSeq(s, 1, Len(s) - 1)) = Len(s) - 1
      /\ \A k \in 1 .. Len(s) - 1 : SubSeq(s, 1, Len(s) - 1)[k] = s[k]
  <2> DEFINE n == Len(s) - 1
             t == SubSeq(s, 1, n)
  <2>1. n \in Nat /\ \A k \in 1 .. n : s[k] \in S
    BY <1>1, <1>2
  <2> HIDE DEF n
  <2>2. /\ t \in Seq(S)
        /\ Len(t) = IF 1 <= n THEN n - 1 + 1 ELSE 0
        /\ \A k \in 1 .. n - 1 + 1 : t[k] = s[1 + k - 1]
    BY <2>1, SubSeqProperties
  <2>3. Len(t) = n /\ \A k \in 1 .. n : t[k] = s[k]
    BY <2>1, <2>2
  <2> QED
    BY <2>2, <2>3 DEF n
<1>4. s[Len(s)] \in S
  BY <1>1, ElementOfSeq
<1> QED
  BY <1>1, <1>3, <1>4 DEF Front, Last

(* The items as a sequence of payloads.                                    *)
LEMMA ItemsOfData ==
  ASSUME Frames
  PROVE  /\ Items \in Seq(Data)
         /\ Len(Items) = st_top + 1 /\ st_top \in Int /\ st_top + 1 \in Nat
         /\ st_top + 1 <= STACK_MAX_ITEMS
         /\ \A k \in 1 .. st_top + 1 : Items[k] = st_node[k - 1]
<1>1. st_top \in Int /\ st_top + 1 \in Nat /\ st_top + 1 <= STACK_MAX_ITEMS
  BY StackAssumption DEF Frames, TypeOK, STACK_MIN_ITEMS
<1>2. ASSUME NEW k \in 1 .. st_top + 1 PROVE st_node[k - 1] \in Data
  <2>1. k - 1 \in 0 .. st_top
    BY <1>1
  <2> QED
    BY <2>1 DEF Frames
<1> QED
  BY <1>1, <1>2 DEF Items

LEMMA InitInv == RecursionInit => Inv
<1> SUFFICES ASSUME RecursionInit PROVE Inv
  OBVIOUS
<1>1. TypeOK /\ st_top = -1
  BY StackAssumption DEF RecursionInit, Init, TypeOK, STACK_MIN_ITEMS, Slots
<1> QED
  BY <1>1, StackAssumption DEF RecursionInit, Inv, Frames, Reversing

(* Each step is an operation of the stack, or leaves it as it is.          *)
LEMMA TypeKept ==
  ASSUME TypeOK, Pop \/ (\E d \in Data : Push(d)) \/ UNCHANGED vars
  PROVE  TypeOK'
BY NextTypeOK DEF Next

-----------------------------------------------------------------------------
LEMMA CallerUsesKeeps == Inv /\ CallerUses => Inv'
<1> SUFFICES ASSUME Inv, CallerUses PROVE Inv'
  OBVIOUS
<1>1. TypeOK'
  BY TypeKept DEF CallerUses, Inv, Frames
<1>2. \A j \in 0 .. st_top' : st_node'[j] \in Data
  <2>1. CASE Pop
    BY <2>1, StackAssumption DEF Pop, Inv, Frames, TypeOK, STACK_MIN_ITEMS
  <2>2. ASSUME NEW d \in Data, Push(d) PROVE \A j \in 0 .. st_top' : st_node'[j] \in Data
    BY <2>2, StackAssumption DEF Push, StackFull, Inv, Frames, TypeOK, Slots, STACK_MIN_ITEMS
  <2> QED
    BY <2>1, <2>2 DEF CallerUses
<1>3. Frames'
  BY <1>1, <1>2, StackAssumption DEF CallerUses, Inv, Frames
<1> QED
  BY <1>3 DEF Inv, Reversing, CallerUses

LEMMA CallKeeps == \A c \in {"rev", "sort"} : Inv /\ Call(c) => Inv'
<1> SUFFICES ASSUME NEW c \in {"rev", "sort"}, Inv, Call(c) PROVE Inv'
  OBVIOUS
<1>1. /\ before' \in Seq(Data) /\ Len(before') = st_top + 1 /\ st_top + 1 \in Nat
      /\ Len(before') <= STACK_MAX_ITEMS
      /\ \A j \in 0 .. st_top : st_node[j] = before'[j + 1]
  <2>1. before' = Items
    BY DEF Call
  <2>2. /\ Items \in Seq(Data)
        /\ Len(Items) = st_top + 1 /\ st_top \in Int /\ st_top + 1 \in Nat
        /\ st_top + 1 <= STACK_MAX_ITEMS
        /\ \A k \in 1 .. st_top + 1 : Items[k] = st_node[k - 1]
    BY ItemsOfData DEF Inv
  <2>3. ASSUME NEW j \in 0 .. st_top PROVE st_node[j] = Items[j + 1]
    <3>1. j + 1 \in 1 .. st_top + 1 /\ (j + 1) - 1 = j
      BY <2>2
    <3> QED
      BY <2>2, <3>1
  <2> QED
    BY <2>1, <2>2, <2>3
<1>2. TypeOK'
  BY TypeKept DEF Inv, Frames, Call
<1>3. UNCHANGED <<st_top, st_node, nodes, temps>> /\ pc' = "pop"
  BY DEF Call, vars
<1>4. nodes = <<>> /\ temps = <<>> /\ nodes \in Seq(Slots) /\ temps \in Seq(Data)
  BY DEF Call, Inv, Frames
<1>5. Frames'
  BY <1>1, <1>2, <1>3, <1>4 DEF Inv, Frames, Back
<1> QED
  BY <1>3, <1>5 DEF Inv, Reversing

(* What a running call knows, as numbers.                                  *)
LEMMA Sizes ==
  ASSUME Frames
  PROVE  /\ st_top \in Int /\ -1 <= st_top /\ st_top < STACK_MAX_ITEMS
         /\ Len(before) \in Nat /\ Len(nodes) \in Nat /\ Len(temps) \in Nat
         /\ STACK_MAX_ITEMS \in Nat \ {0} /\ Len(before) <= STACK_MAX_ITEMS
         /\ st_node \in [0 .. STACK_MAX_ITEMS - 1 -> Data \cup {NoData}]
         /\ pc # "caller" => st_top + 1 + Len(temps) = Back
BY StackAssumption DEF Frames, TypeOK, STACK_MIN_ITEMS, Slots

LEMMA PopAllKeeps == Inv /\ PopAll => Inv'
<1> SUFFICES ASSUME Inv, PopAll PROVE Inv'
  OBVIOUS
<1>1. Frames
  BY DEF Inv
<1>2. TypeOK'
  BY <1>1, TypeKept DEF PopAll, Frames
<1>3. /\ st_top \in 0 .. STACK_MAX_ITEMS - 1
      /\ st_top' = st_top - 1 /\ UNCHANGED <<st_node, pc, call, temps, before>>
      /\ nodes' = Append(nodes, st_top) /\ pc = "pop"
  BY <1>1, Sizes DEF PopAll, Pop, StackEmpty, STACK_MIN_ITEMS
<1>4. /\ nodes' \in Seq(Slots) /\ Len(nodes') = Len(nodes) + 1
      /\ nodes'[Len(nodes) + 1] = st_top
      /\ \A k \in 1 .. Len(nodes) : nodes'[k] = nodes[k]
  BY <1>1, <1>3, AppendProperties DEF Frames, Slots
<1>5. st_top = Len(before) - (Len(nodes) + 1) /\ st_node[st_top] = before[st_top + 1]
  BY <1>1, <1>3, Sizes DEF Frames, Back
<1>6. ASSUME NEW k \in 1 .. Len(nodes')
      PROVE  nodes'[k] = Len(before) - k /\ st_node[nodes'[k]] = before[Len(before) + 1 - k]
  <2>1. CASE k = Len(nodes) + 1
    BY <1>1, <1>4, <1>5, <2>1, Sizes
  <2>2. CASE k \in 1 .. Len(nodes)
    BY <1>1, <1>3, <1>4, <2>2 DEF Frames
  <2> QED
    BY <1>1, <1>4, <2>1, <2>2, Sizes
<1>7. Frames'
  BY <1>1, <1>2, <1>3, <1>4, <1>5, <1>6, Sizes DEF Frames, Back
<1> QED
  BY <1>3, <1>7 DEF Inv, Reversing

LEMMA BottomKeeps == Inv /\ Bottom => Inv'
<1> SUFFICES ASSUME Inv, Bottom PROVE Inv'
  OBVIOUS
<1>1. Frames
  BY DEF Inv
<1>2. TypeOK'
  BY <1>1, TypeKept DEF Bottom, Frames
<1>3. /\ st_top = -1 /\ UNCHANGED <<st_top, st_node, call, nodes, temps, before>>
      /\ pc = "pop" /\ pc' = "insert" /\ temps = <<>>
  BY <1>1 DEF Bottom, StackEmpty, STACK_MIN_ITEMS, vars, Frames
<1>4. Frames'
  BY <1>1, <1>2, <1>3 DEF Frames, Back
<1> QED
  BY <1>3, <1>4 DEF Inv, Reversing

LEMMA InsertDownKeeps == Inv /\ InsertDown => Inv'
<1> SUFFICES ASSUME Inv, InsertDown PROVE Inv'
  OBVIOUS
<1>1. Frames
  BY DEF Inv
<1>2. TypeOK'
  BY <1>1, TypeKept DEF InsertDown, Frames
<1>3. /\ st_top \in 0 .. STACK_MAX_ITEMS - 1 /\ st_node[st_top] \in Data
      /\ st_top' = st_top - 1 /\ UNCHANGED <<st_node, pc, call, nodes, before>>
      /\ temps' = Append(temps, st_node[st_top]) /\ pc = "insert"
  BY <1>1, Sizes DEF InsertDown, Place, Pop, StackEmpty, STACK_MIN_ITEMS, Frames
<1>4. /\ temps' \in Seq(Data) /\ Len(temps') = Len(temps) + 1
      /\ temps'[Len(temps) + 1] = st_node[st_top]
      /\ \A k \in 1 .. Len(temps) : temps'[k] = temps[k]
  BY <1>1, <1>3, AppendProperties DEF Frames
<1>5. Frames'
  <2>1. Back' = Back /\ st_top + 1 + Len(temps) = Back
    BY <1>1, <1>3, Sizes DEF Back
  <2>2. st_top' + 1 + Len(temps') = Back'
    BY <1>1, <1>3, <1>4, <2>1, Sizes
  <2>3. \A j \in 0 .. st_top' : st_node[j] \in Data
    BY <1>1, <1>3 DEF Frames
  <2>4. nodes # <<>>
    BY DEF InsertDown
  <2> QED
    BY <1>1, <1>2, <1>3, <1>4, <2>2, <2>3, <2>4 DEF Frames
<1>6. ASSUME call = "rev"
      PROVE  /\ \A j \in 0 .. st_top' : st_node[j] = before[Back - j]
             /\ \A k \in 1 .. Len(temps') : temps'[k] = before[k]
  <2>1. /\ \A j \in 0 .. st_top : st_node[j] = before[Back - j]
        /\ \A k \in 1 .. Len(temps) : temps[k] = before[k]
    BY <1>3, <1>6 DEF Inv, Reversing
  <2>2. st_node[st_top] = before[Back - st_top] /\ Back - st_top = Len(temps) + 1
    BY <1>1, <1>3, <2>1, Sizes DEF Back
  <2> QED
    BY <1>1, <1>3, <1>4, <2>1, <2>2, Sizes
<1>7. Back' = Back
  BY <1>3 DEF Back
<1> QED
  BY <1>3, <1>5, <1>6, <1>7 DEF Inv, Reversing

LEMMA InsertNodeKeeps == Inv /\ InsertNode => Inv'
<1> SUFFICES ASSUME Inv, InsertNode PROVE Inv'
  OBVIOUS
<1> DEFINE m == Len(nodes)
           d == st_node[Last(nodes)]
<1>1. Frames
  BY DEF Inv
<1>2. m \in Nat \ {0} /\ Last(nodes) = nodes[m] /\ m \in 1 .. Len(nodes)
  <2>1. nodes \in Seq(Slots) /\ nodes # <<>>
    BY <1>1 DEF Frames, InsertNode
  <2>2. Len(nodes) \in Nat \ {0} /\ Last(nodes) = nodes[Len(nodes)]
    BY <2>1, FrontLast
  <2> QED
    BY <2>2
<1>3. nodes[m] = Len(before) - m /\ d = before[Len(before) + 1 - m]
  BY <1>1, <1>2 DEF Frames, InsertNode
<1>4. st_top + 1 + Len(temps) = Len(before) - m /\ pc = "insert"
  BY <1>1, Sizes DEF Back, InsertNode
<1>5. d \in Data
  <2>1. Len(before) + 1 - m \in 1 .. Len(before)
    BY <1>1, <1>2, <1>4, Sizes
  <2> QED
    BY <1>1, <1>3, <2>1, ElementOfSeq DEF Frames
<1>6. /\ st_top' = st_top + 1 /\ st_node' = [st_node EXCEPT ![st_top + 1] = d]
      /\ pc' = "unwind" /\ UNCHANGED <<call, nodes, temps, before>>
  BY <1>1, <1>2, <1>4, Sizes DEF InsertNode, Push, StackFull
<1>7. TypeOK'
  BY <1>1, <1>5, TypeKept DEF InsertNode, Frames
<1>8. /\ st_node'[st_top + 1] = d
      /\ \A j \in 0 .. STACK_MAX_ITEMS - 1 : j # st_top + 1 => st_node'[j] = st_node[j]
  BY <1>1, <1>2, <1>4, <1>6, Sizes
<1>9. ASSUME NEW k \in 1 .. Len(nodes), k < Len(nodes)
      PROVE  st_node'[nodes[k]] = before[Len(before) + 1 - k]
  <2>1. nodes[k] = Len(before) - k /\ st_node[nodes[k]] = before[Len(before) + 1 - k]
    BY <1>1, <1>4 DEF Frames
  <2>2. nodes[k] \in 0 .. STACK_MAX_ITEMS - 1 /\ nodes[k] # st_top + 1
    BY <1>1, <1>2, <1>4, <1>9, <2>1, Sizes
  <2> QED
    BY <1>8, <2>1, <2>2
<1>10. \A j \in 0 .. st_top' : st_node'[j] \in Data
  BY <1>1, <1>5, <1>6, <1>8, Sizes DEF Frames
<1>11. Frames'
  <2>1. st_top' + 1 + Len(temps) = Back' /\ pc' = "unwind" /\ nodes # <<>>
    <3>1. Back' = Len(before) - m + 1
      BY <1>6 DEF Back
    <3>2. st_top + 1 + Len(temps) = Len(before) - m /\ st_top' = st_top + 1
      BY <1>4, <1>6
    <3>3. st_top \in Int /\ Len(temps) \in Nat /\ Len(before) \in Nat /\ m \in Nat
      BY <1>1, Sizes
    <3> QED
      BY <1>6, <3>1, <3>2, <3>3 DEF InsertNode
  <2>2. \A k \in 1 .. Len(nodes) : nodes[k] = Len(before) - k
    BY <1>1 DEF Frames
  <2> QED
    BY <1>1, <1>6, <1>7, <1>9, <1>10, <2>1, <2>2 DEF Frames
<1>12. ASSUME call = "rev"
       PROVE  /\ \A j \in 0 .. st_top' : st_node'[j] = before[Back' - j]
              /\ \A k \in 1 .. Len(temps) : temps[k] = before[k]
  <2>1. st_top = -1
    BY <1>12 DEF InsertNode, Place, StackEmpty, STACK_MIN_ITEMS
  <2>2. Back' = Len(before) + 1 - m
    BY <1>1, <1>6, Sizes DEF Back
  <2>3. \A j \in 0 .. st_top' : j = 0
    BY <1>6, <2>1
  <2> QED
    BY <1>1, <1>2, <1>3, <1>4, <1>6, <1>8, <1>12, <2>1, <2>2, <2>3, Sizes DEF Inv, Reversing
<1> QED
  BY <1>6, <1>11, <1>12 DEF Inv, Reversing

LEMMA InsertUpKeeps == Inv /\ InsertUp => Inv'
<1> SUFFICES ASSUME Inv, InsertUp PROVE Inv'
  OBVIOUS
<1> DEFINE n == Len(temps)
           d == Last(temps)
<1>1. Frames
  BY DEF Inv
<1>2. /\ n \in Nat \ {0} /\ d = temps[n] /\ d \in Data
      /\ Front(temps) \in Seq(Data) /\ Len(Front(temps)) = n - 1
      /\ \A k \in 1 .. n - 1 : Front(temps)[k] = temps[k]
  <2>1. temps \in Seq(Data) /\ temps # <<>>
    BY <1>1 DEF Frames, InsertUp
  <2> QED
    BY <2>1, FrontLast
<1>3. st_top + 1 + n = Len(before) - Len(nodes) + 1 /\ pc = "unwind" /\ nodes # <<>>
  BY <1>1, Sizes DEF Back, InsertUp, Frames
<1>4. Len(nodes) \in Nat \ {0}
  BY <1>1, <1>3, EmptySeq, Sizes DEF Frames
<1>5. /\ st_top' = st_top + 1 /\ st_node' = [st_node EXCEPT ![st_top + 1] = d]
      /\ temps' = Front(temps) /\ UNCHANGED <<pc, call, nodes, before>>
  BY <1>1, <1>2, <1>3, <1>4, Sizes DEF InsertUp, Push, StackFull
<1>6. TypeOK'
  BY <1>1, <1>2, TypeKept DEF InsertUp, Frames
<1>7. /\ st_node'[st_top + 1] = d
      /\ \A j \in 0 .. STACK_MAX_ITEMS - 1 : j # st_top + 1 => st_node'[j] = st_node[j]
  BY <1>1, <1>2, <1>3, <1>4, <1>5, Sizes
<1>8. ASSUME NEW k \in 1 .. Len(nodes), k < Len(nodes)
      PROVE  st_node'[nodes[k]] = before[Len(before) + 1 - k]
  <2>1. nodes[k] = Len(before) - k /\ st_node[nodes[k]] = before[Len(before) + 1 - k]
    BY <1>1, <1>8 DEF Frames
  <2>2. nodes[k] \in 0 .. STACK_MAX_ITEMS - 1 /\ nodes[k] # st_top + 1
    BY <1>1, <1>2, <1>3, <1>4, <1>8, <2>1, Sizes
  <2> QED
    BY <1>7, <2>1, <2>2
<1>9. \A j \in 0 .. st_top' : st_node'[j] \in Data
  BY <1>1, <1>2, <1>5, <1>7, Sizes DEF Frames
<1>10. Back' = Back /\ Back = Len(before) - Len(nodes) + 1
  BY <1>1, <1>3, <1>5, Sizes DEF Back
<1>11. Frames'
  <2>1. st_top' + 1 + Len(temps') = Back'
    <3>1. Len(temps') = n - 1 /\ st_top' = st_top + 1
      BY <1>2, <1>5
    <3>2. st_top + 1 + n = Back' /\ st_top \in Int /\ n \in Nat
      BY <1>1, <1>3, <1>10, Sizes
    <3> QED
      BY <3>1, <3>2
  <2>2. \A k \in 1 .. Len(nodes) : nodes[k] = Len(before) - k
    BY <1>1 DEF Frames
  <2> QED
    BY <1>1, <1>2, <1>3, <1>5, <1>6, <1>8, <1>9, <2>1, <2>2 DEF Frames
<1>12. ASSUME call = "rev"
       PROVE  /\ \A j \in 0 .. st_top' : st_node'[j] = before[Back' - j]
              /\ \A k \in 1 .. Len(temps') : temps'[k] = before[k]
  <2>1. /\ \A j \in 0 .. st_top : st_node[j] = before[Back - j]
        /\ \A k \in 1 .. n : temps[k] = before[k]
    BY <1>3, <1>12 DEF Inv, Reversing
  <2>2. d = before[n] /\ Back - (st_top + 1) = n
    BY <1>1, <1>2, <1>3, <1>10, <2>1, Sizes
  <2>3. ASSUME NEW j \in 0 .. st_top' PROVE st_node'[j] = before[Back - j]
    <3>1. CASE j = st_top + 1
      BY <1>7, <2>2, <3>1
    <3>2. CASE j \in 0 .. st_top
      BY <1>1, <1>7, <2>1, <3>2, Sizes
    <3> QED
      BY <1>1, <1>5, <3>1, <3>2, Sizes
  <2>4. \A k \in 1 .. Len(temps') : temps'[k] = before[k]
    BY <1>2, <1>5, <2>1
  <2> QED
    BY <1>10, <2>3, <2>4
<1> QED
  BY <1>3, <1>5, <1>11, <1>12 DEF Inv, Reversing

LEMMA FrameReturnsKeeps == Inv /\ FrameReturns => Inv'
<1> SUFFICES ASSUME Inv, FrameReturns PROVE Inv'
  OBVIOUS
<1>1. Frames
  BY DEF Inv
<1>2. /\ UNCHANGED <<st_top, st_node, call, temps, before>> /\ nodes' = Front(nodes)
      /\ pc = "unwind" /\ pc' = "insert" /\ temps = <<>>
  BY DEF FrameReturns, vars
<1>3. TypeOK'
  BY <1>1, TypeKept DEF FrameReturns, Frames
<1>4. /\ Len(nodes) \in Nat \ {0} /\ nodes' \in Seq(Slots)
      /\ Len(nodes') = Len(nodes) - 1
      /\ \A k \in 1 .. Len(nodes) - 1 : nodes'[k] = nodes[k]
  <2>1. nodes \in Seq(Slots) /\ nodes # <<>>
    BY <1>1, <1>2 DEF Frames
  <2> QED
    BY <1>2, <2>1, FrontLast
<1>5. Back' = Back
  BY <1>1, <1>2, <1>4, Sizes DEF Back
<1>6. ASSUME NEW k \in 1 .. Len(nodes')
      PROVE  nodes'[k] = Len(before) - k /\ st_node[nodes'[k]] = before[Len(before) + 1 - k]
  <2>1. k \in 1 .. Len(nodes) /\ k < Len(nodes) /\ nodes'[k] = nodes[k]
    BY <1>4
  <2> QED
    BY <1>1, <2>1 DEF Frames
<1>7. Frames'
  BY <1>1, <1>2, <1>3, <1>4, <1>5, <1>6 DEF Frames
<1> QED
  BY <1>2, <1>5, <1>7 DEF Inv, Reversing

LEMMA CallReturnsKeeps == Inv /\ CallReturns => Inv'
<1> SUFFICES ASSUME Inv, CallReturns PROVE Inv'
  OBVIOUS
<1>1. Frames
  BY DEF Inv
<1>2. /\ UNCHANGED <<st_top, st_node, call, nodes, temps, before>>
      /\ pc = "insert" /\ pc' = "caller" /\ nodes = <<>>
  BY DEF CallReturns, vars
<1>3. TypeOK'
  BY <1>1, TypeKept DEF CallReturns, Frames
<1>4. temps = <<>> /\ Len(nodes) = 0 /\ Len(temps) = 0
  BY <1>1, <1>2 DEF Frames
<1>5. st_top + 1 = Len(before) /\ Back = Len(before)
  BY <1>1, <1>2, <1>4, Sizes DEF Back
<1>6. Frames'
  BY <1>1, <1>2, <1>3, <1>4 DEF Frames
<1>7. ASSUME call = "rev" PROVE Items = Reverse(before)
  <2>1. ASSUME NEW k \in 1 .. Len(before)
        PROVE  st_node[k - 1] = before[Len(before) - k + 1]
    <3>1. k - 1 \in 0 .. st_top /\ Len(before) - (k - 1) = Len(before) - k + 1
      BY <1>1, <1>5, Sizes
    <3>2. st_node[k - 1] = before[Back - (k - 1)]
      BY <1>2, <1>7, <3>1 DEF Inv, Reversing
    <3> QED
      BY <1>5, <3>1, <3>2
  <2> QED
    BY <1>5, <2>1 DEF Items, Reverse
<1>8. Items' = Items
  BY <1>2 DEF Items
<1> QED
  BY <1>2, <1>6, <1>7, <1>8 DEF Inv, Reversing

-----------------------------------------------------------------------------
LEMMA StepKeepsInv == Inv /\ [RecursionNext]_<<vars, locals>> => Inv'
<1>1. ASSUME Inv, UNCHANGED <<vars, locals>> PROVE Inv'
  BY <1>1 DEF vars, locals, Inv, Frames, Reversing, Back, TypeOK, Items
<1> QED
  BY <1>1, CallerUsesKeeps, CallKeeps, PopAllKeeps, BottomKeeps, InsertDownKeeps,
     InsertNodeKeeps, InsertUpKeeps, FrameReturnsKeeps, CallReturnsKeeps
  DEF RecursionNext, Running

LEMMA InvKept == RecursionSpec => []Inv
BY InitInv, StepKeepsInv, PTL DEF RecursionSpec

LEMMA FramesKeepNodes == Frames => NodesKept
<1> SUFFICES ASSUME Frames, NEW k \in 1 .. Len(nodes), k < Len(nodes) \/ pc # "unwind"
             PROVE  nodes[k] > st_top /\ st_node[nodes[k]] = before[Len(before) + 1 - k]
  <2>1. Frames => DOMAIN nodes = 1 .. Len(nodes)
    BY DEF Frames
  <2> QED
    BY <2>1 DEF NodesKept
<1>1. /\ nodes[k] = Len(before) - k
      /\ st_node[nodes[k]] = before[Len(before) + 1 - k]
  BY DEF Frames
<1>2. pc # "caller"
  BY Sizes DEF Frames
<1> QED
  BY <1>1, <1>2, Sizes DEF Back

(* The pointer that stack_pop gave to a frame of stack_prob_6_rev or       *)
(* stack_prob_7_sort leads to the item that was popped until the frame has *)
(* put it back, although the slot belongs to the stack again.              *)
THEOREM RecursionKeepsNodes == RecursionSpec => []NodesKept
BY InvKept, FramesKeepNodes, PTL DEF Inv

(* stack_prob_6_rev returns with the stack reversed.                       *)
THEOREM RecursionReverses ==
  RecursionSpec => [](pc = "caller" /\ call = "rev" => Items = Reverse(before))
<1>1. Inv => (pc = "caller" /\ call = "rev" => Items = Reverse(before))
  BY DEF Inv, Reversing
<1> QED
  BY <1>1, InvKept, PTL
-----------------------------------------------------------------------------
(* The items that the running insertions have put back, the copies above   *)
(* the others in the order in which they go back.                          *)
Merged ==
  [j \in 1 .. Back |-> IF j <= st_top + 1 THEN st_node[j - 1] ELSE temps[Back + 1 - j]]

(* A sort keeps them in order, and has them all.  What the running         *)
(* insertion has taken from the stack is not less than what it inserts.    *)
Sorting ==
  call = "sort" =>
    /\ pc \in {"insert", "unwind"} =>
         /\ \A j, k \in 1 .. Back : j < k => Merged[j] <= Merged[k]
         /\ \E p \in Bijection(1 .. Back, 1 .. Back) :
              \A k \in 1 .. Back : Merged[k] = before[p[k]]
    /\ pc = "insert" /\ nodes # <<>> =>
         \A k \in 1 .. Len(temps) : st_node[Last(nodes)] <= temps[k]
    /\ pc = "caller" => SortedFrom(Items, before)

LEMMA MergedKept ==
  ASSUME Merged' = Merged, Back' = Back, before' = before,
         call = "sort", pc \in {"insert", "unwind"}, Sorting
  PROVE  /\ \A j, k \in 1 .. Back' : j < k => Merged'[j] <= Merged'[k]
         /\ \E p \in Bijection(1 .. Back', 1 .. Back') :
              \A k \in 1 .. Back' : Merged'[k] = before'[p[k]]
<1>1. /\ \A j, k \in 1 .. Back : j < k => Merged[j] <= Merged[k]
      /\ \E p \in Bijection(1 .. Back, 1 .. Back) :
           \A k \in 1 .. Back : Merged[k] = before[p[k]]
  BY DEF Sorting
<1> HIDE DEF Merged, Back
<1> QED
  BY <1>1

LEMMA BottomSorts == Inv /\ Sorting /\ Bottom => Sorting'
<1> SUFFICES ASSUME Inv, Sorting, Bottom PROVE Sorting'
  OBVIOUS
<1>1. Frames
  BY DEF Inv
<1>2. Inv'
  BY BottomKeeps
<1>3. /\ st_top' = -1 /\ temps' = <<>> /\ pc' = "insert"
      /\ st_top' + 1 + Len(temps') = Back'
  BY <1>1, <1>2 DEF Bottom, StackEmpty, STACK_MIN_ITEMS, vars, Frames, Inv
<1>4. Back' = 0 /\ 1 .. Back' = {} /\ 1 .. Len(temps') = {}
  BY <1>3
<1>5. \E p \in Bijection(1 .. Back', 1 .. Back') : TRUE
  <2> DEFINE p == [k \in {} |-> 0]
  <2>1. p \in Bijection({}, {})
    BY DEF Bijection, Injection, Surjection, IsInjective
  <2> QED
    BY <1>4, <2>1
<1> QED
  BY <1>3, <1>4, <1>5 DEF Sorting

LEMMA InsertDownSorts ==
  ASSUME Data \subseteq Int, Inv, Sorting, InsertDown
  PROVE  Sorting'
<1> SUFFICES ASSUME call = "sort" PROVE Sorting'
  BY DEF Sorting, InsertDown
<1>1. Frames
  BY DEF Inv
<1>2. Frames'
  BY InsertDownKeeps DEF Inv
<1>3. /\ st_top \in 0 .. STACK_MAX_ITEMS - 1 /\ st_node[st_top] \in Data
      /\ st_top' = st_top - 1 /\ UNCHANGED <<st_node, pc, call, nodes, before>>
      /\ temps' = Append(temps, st_node[st_top]) /\ pc = "insert" /\ nodes # <<>>
  BY <1>1, Sizes DEF InsertDown, Place, Pop, StackEmpty, STACK_MIN_ITEMS, Frames
<1>4. /\ Len(temps') = Len(temps) + 1
      /\ temps'[Len(temps) + 1] = st_node[st_top]
      /\ \A k \in 1 .. Len(temps) : temps'[k] = temps[k]
  BY <1>1, <1>3, AppendProperties DEF Frames
<1>5. Back' = Back /\ Back = st_top + 1 + Len(temps) /\ Back \in Nat
  BY <1>1, <1>3, Sizes DEF Back
<1>6. Merged' = Merged
  <2>1. ASSUME NEW j \in 1 .. Back
        PROVE  (IF j <= st_top' + 1 THEN st_node[j - 1] ELSE temps'[Back + 1 - j])
                 = (IF j <= st_top + 1 THEN st_node[j - 1] ELSE temps[Back + 1 - j])
    <3>1. CASE j = st_top + 1
      BY <1>1, <1>3, <1>4, <1>5, <3>1, Sizes
    <3>2. CASE j <= st_top
      BY <1>3, <3>2
    <3>3. CASE j > st_top + 1
      <4>1. Back + 1 - j \in 1 .. Len(temps)
        BY <1>1, <1>3, <1>5, <3>3, Sizes
      <4> QED
        BY <1>3, <1>4, <3>3, <4>1
    <3> QED
      BY <1>3, <1>5, <3>1, <3>2, <3>3
  <2> QED
    BY <1>3, <1>5, <2>1 DEF Merged
<1>7. \A k \in 1 .. Len(temps') : st_node[Last(nodes)] <= temps'[k]
  <2>1. nodes \in Seq(Slots) /\ Last(nodes) = nodes[Len(nodes)] /\ Len(nodes) \in Nat \ {0}
    BY <1>1, <1>3, FrontLast DEF Frames
  <2>2. st_node[Last(nodes)] <= st_node[st_top]
    <3>1. ~(st_node[Last(nodes)] > st_node[st_top])
      BY <1>3 DEF InsertDown, Place, StackEmpty, STACK_MIN_ITEMS
    <3>2. st_node[Last(nodes)] \in Int
      <4>1. /\ nodes[Len(nodes)] = Len(before) - Len(nodes)
            /\ st_node[nodes[Len(nodes)]] = before[Len(before) + 1 - Len(nodes)]
        BY <1>1, <1>3, <2>1 DEF Frames
      <4>2. Len(before) + 1 - Len(nodes) \in 1 .. Len(before)
        BY <1>1, <1>3, <1>5, <2>1, Sizes DEF Back
      <4> QED
        BY <1>1, <2>1, <4>1, <4>2, ElementOfSeq DEF Frames
    <3> DEFINE x == st_node[Last(nodes)]
               y == st_node[st_top]
    <3>3. ~(x > y) /\ x \in Int /\ y \in Int
      BY <1>3, <3>1, <3>2
    <3> HIDE DEF x, y
    <3>4. x <= y
      BY <3>3
    <3> QED
      BY <3>4 DEF x, y
  <2>3. \A k \in 1 .. Len(temps) : st_node[Last(nodes)] <= temps[k]
    BY <1>3 DEF Sorting
  <2> QED
    BY <1>1, <1>4, <2>2, <2>3, Sizes
<1> QED
  BY <1>3, <1>5, <1>6, <1>7, MergedKept DEF Sorting

LEMMA InsertNodeSorts ==
  ASSUME Data \subseteq Int, Inv, Sorting, InsertNode
  PROVE  Sorting'
<1> SUFFICES ASSUME call = "sort" PROVE Sorting'
  BY DEF Sorting, InsertNode
<1> DEFINE m == Len(nodes)
           d == st_node[Last(nodes)]
           t == st_top + 1
           b == Len(before) - m
<1>1. Frames
  BY DEF Inv
<1>2. m \in Nat \ {0} /\ Last(nodes) = nodes[m] /\ m \in 1 .. Len(nodes)
  <2>1. nodes \in Seq(Slots) /\ nodes # <<>>
    BY <1>1 DEF Frames, InsertNode
  <2>2. Len(nodes) \in Nat \ {0} /\ Last(nodes) = nodes[Len(nodes)]
    BY <2>1, FrontLast
  <2> QED
    BY <2>2
<1>3. d = before[b + 1]
  <2>1. nodes[m] = Len(before) - m /\ d = before[Len(before) + 1 - m]
    BY <1>1, <1>2 DEF Frames, InsertNode
  <2>2. Len(before) + 1 - m = b + 1
    BY <1>1, <1>2, Sizes
  <2> QED
    BY <2>1, <2>2
<1>4. /\ pc = "insert" /\ st_top \in Int /\ t \in Nat /\ b \in Nat /\ b + 1 \in 1 .. Len(before)
      /\ b = t + Len(temps) /\ Back = b /\ Len(temps) \in Nat
  BY <1>1, <1>2, Sizes DEF Back, InsertNode
<1>5. d \in Int
  BY <1>1, <1>3, <1>4, ElementOfSeq DEF Frames
<1>6. /\ st_top' = t /\ st_node' = [st_node EXCEPT ![t] = d]
      /\ pc' = "unwind" /\ UNCHANGED <<call, nodes, temps, before>>
  BY <1>1, <1>2, <1>4, Sizes DEF InsertNode, Push, StackFull
<1>7. Back' = b + 1
  BY <1>1, <1>4, <1>6, Sizes DEF Back
<1>8. /\ st_node'[t] = d
      /\ \A j \in 0 .. t - 1 : st_node'[j] = st_node[j]
  BY <1>1, <1>2, <1>4, <1>6, Sizes
<1>9. ASSUME NEW j \in 1 .. b + 1
      PROVE  Merged'[j] = IF j <= t THEN Merged[j] ELSE IF j = t + 1 THEN d ELSE Merged[j - 1]
  <2>1. Merged'[j] = IF j <= t + 1 THEN st_node'[j - 1] ELSE temps[b + 2 - j]
    <3>1. Merged'[j] = IF j <= st_top' + 1 THEN st_node'[j - 1] ELSE temps'[Back' + 1 - j]
      BY <1>7 DEF Merged
    <3> QED
      BY <1>4, <1>6, <1>7, <3>1
  <2>2. ASSUME NEW k \in 1 .. b
        PROVE  Merged[k] = IF k <= t THEN st_node[k - 1] ELSE temps[b + 1 - k]
    BY <1>4 DEF Merged
  <2> HIDE DEF b, d
  <2>3. CASE j <= t
    BY <1>4, <1>8, <2>1, <2>2, <2>3
  <2>4. CASE j = t + 1
    BY <1>4, <1>8, <2>1, <2>4
  <2>5. CASE j > t + 1
    BY <1>4, <2>1, <2>2, <2>5
  <2> QED
    BY <1>4, <2>3, <2>4, <2>5
<1>10. /\ \A j \in 1 .. t : Merged[j] <= d /\ Merged[j] \in Int
       /\ \A j \in t + 1 .. b : d <= Merged[j] /\ Merged[j] \in Int
       /\ \A j, k \in 1 .. b : j < k => Merged[j] <= Merged[k]
  <2>1. \A j, k \in 1 .. b : j < k => Merged[j] <= Merged[k]
    BY <1>4 DEF Sorting
  <2>2. ASSUME NEW k \in 1 .. b
        PROVE  Merged[k] = IF k <= t THEN st_node[k - 1] ELSE temps[b + 1 - k]
    BY <1>4 DEF Merged
  <2>3. ASSUME NEW k \in 1 .. b PROVE Merged[k] \in Int
    <3>1. CASE k <= t
      <4>1. k - 1 \in 0 .. st_top
        BY <1>4, <3>1
      <4> QED
        BY <1>1, <2>2, <3>1, <4>1 DEF Frames
    <3>2. CASE ~(k <= t)
      <4>1. b + 1 - k \in 1 .. Len(temps)
        BY <1>4, <3>2
      <4> QED
        BY <1>1, <2>2, <3>2, <4>1, ElementOfSeq DEF Frames
    <3> QED
      BY <3>1, <3>2
  <2>4. ASSUME NEW k \in t + 1 .. b PROVE d <= Merged[k]
    <3>1. b + 1 - k \in 1 .. Len(temps) /\ k \in 1 .. b /\ ~(k <= t)
      BY <1>4
    <3>2. Merged[k] = temps[b + 1 - k]
      BY <2>2, <3>1
    <3>3. d <= temps[b + 1 - k]
      BY <1>4, <3>1 DEF Sorting, InsertNode
    <3> QED
      BY <3>2, <3>3
  <2>5. ASSUME NEW k \in 1 .. t PROVE Merged[k] <= d
    <3>1. ~StackEmpty /\ t \in 1 .. b
      BY <1>1, <1>4, Sizes DEF StackEmpty, STACK_MIN_ITEMS
    <3>2. d > st_node[st_top]
      BY <3>1 DEF InsertNode, Place
    <3>3. Merged[t] = st_node[st_top]
      BY <1>1, <2>2, <3>1, Sizes
    <3>4. k = t \/ Merged[k] <= Merged[t]
      BY <1>4, <2>1, <3>1
    <3>5. Merged[k] \in Int /\ Merged[t] \in Int
      BY <1>4, <2>3, <3>1
    <3> HIDE DEF d
    <3> QED
      BY <1>5, <3>2, <3>3, <3>4, <3>5
  <2> QED
    BY <1>4, <2>1, <2>3, <2>4, <2>5
<1> HIDE DEF b, d, t, m
<1>11. ASSUME NEW j \in 1 .. b + 1, NEW k \in 1 .. b + 1, j < k
       PROVE  Merged'[j] <= Merged'[k]
  <2>1. CASE k <= t
    BY <1>4, <1>9, <1>10, <1>11, <2>1
  <2>2. CASE k = t + 1
    BY <1>4, <1>9, <1>10, <1>11, <2>2
  <2>3. CASE k > t + 1
    <3>1. k - 1 \in t + 1 .. b /\ k - 1 \in 1 .. b /\ Merged'[k] = Merged[k - 1]
      BY <1>4, <1>9, <2>3
    <3>2. CASE j <= t
      <4>1. j \in 1 .. t /\ Merged'[j] = Merged[j]
        BY <1>4, <1>9, <3>2
      <4> QED
        BY <1>5, <1>10, <3>1, <4>1
    <3>3. CASE j = t + 1
      <4>1. Merged'[j] = d
        BY <1>4, <1>9, <3>3
      <4> QED
        BY <1>10, <3>1, <4>1
    <3>4. CASE j > t + 1
      <4>1. j - 1 \in 1 .. b /\ j - 1 < k - 1 /\ Merged'[j] = Merged[j - 1]
        BY <1>4, <1>9, <1>11, <3>4
      <4> QED
        BY <1>10, <3>1, <4>1
    <3> QED
      BY <1>4, <3>2, <3>3, <3>4
  <2> QED
    BY <1>4, <2>1, <2>2, <2>3
<1>12. \E p \in Bijection(1 .. b + 1, 1 .. b + 1) :
         \A k \in 1 .. b + 1 : Merged'[k] = before[p[k]]
  <2>1. PICK p \in Bijection(1 .. b, 1 .. b) : \A k \in 1 .. b : Merged[k] = before[p[k]]
    BY <1>4 DEF Sorting
  <2> DEFINE q == [k \in 1 .. b + 1 |->
                     IF k <= t THEN p[k] ELSE IF k = t + 1 THEN b + 1 ELSE p[k - 1]]
  <2>2. /\ \A k \in 1 .. b : p[k] \in 1 .. b
        /\ \A j, k \in 1 .. b : p[j] = p[k] => j = k
        /\ \A n \in 1 .. b : \E k \in 1 .. b : p[k] = n
    BY <2>1 DEF Bijection, Injection, Surjection, IsInjective
  <2>3. ASSUME NEW k \in 1 .. b + 1
        PROVE  q[k] = IF k <= t THEN p[k] ELSE IF k = t + 1 THEN b + 1 ELSE p[k - 1]
    OBVIOUS
  <2>4. q \in [1 .. b + 1 -> 1 .. b + 1]
    <3>1. ASSUME NEW k \in 1 .. b + 1
          PROVE  (IF k <= t THEN p[k] ELSE IF k = t + 1 THEN b + 1 ELSE p[k - 1]) \in 1 .. b + 1
      <4>1. CASE k <= t
        BY <1>4, <2>2, <4>1
      <4>2. CASE k = t + 1
        BY <1>4, <4>2
      <4>3. CASE k > t + 1
        <5>1. k - 1 \in 1 .. b
          BY <1>4, <4>3
        <5>2. p[k - 1] \in 1 .. b
          BY <2>2, <5>1
        <5> QED
          BY <1>4, <4>3, <5>2
      <4> QED
        BY <1>4, <4>1, <4>2, <4>3
    <3> QED
      BY <3>1
  <2> HIDE DEF q
  <2>5. ASSUME NEW j \in 1 .. b + 1, NEW k \in 1 .. b + 1, q[j] = q[k] PROVE j = k
    <3> DEFINE x(n) == IF n <= t THEN n ELSE n - 1
    <3>1. ASSUME NEW n \in 1 .. b + 1
          PROVE  \/ n = t + 1 /\ q[n] = b + 1
                 \/ n # t + 1 /\ x(n) \in 1 .. b /\ q[n] = p[x(n)] /\ p[x(n)] \in 1 .. b
      <4>1. n # t + 1 => x(n) \in 1 .. b
        BY <1>4
      <4>2. n # t + 1 => p[x(n)] \in 1 .. b
        BY <2>2, <4>1
      <4> QED
        BY <1>4, <2>3, <4>1, <4>2
    <3>2. j # t + 1 /\ k # t + 1 => x(j) = x(k)
      <4> SUFFICES ASSUME j # t + 1, k # t + 1 PROVE x(j) = x(k)
        OBVIOUS
      <4>1. x(j) \in 1 .. b /\ x(k) \in 1 .. b /\ p[x(j)] = p[x(k)]
        <5> HIDE DEF x
        <5> QED
          BY <2>5, <3>1
      <4> HIDE DEF x
      <4> QED
        BY <2>2, <4>1
    <3>3. j = t + 1 <=> k = t + 1
      <4>1. b + 1 \notin 1 .. b
        BY <1>4
      <4> HIDE DEF x
      <4> QED
        BY <2>5, <3>1, <4>1
    <3> QED
      BY <1>4, <3>2, <3>3
  <2>6. ASSUME NEW n \in 1 .. b + 1 PROVE \E k \in 1 .. b + 1 : q[k] = n
    <3>1. CASE n = b + 1
      <4>1. t + 1 \in 1 .. b + 1 /\ q[t + 1] = n
        BY <1>4, <2>3, <3>1
      <4> QED
        BY <4>1
    <3>2. CASE n \in 1 .. b
      <4>1. PICK k \in 1 .. b : p[k] = n
        BY <2>2, <3>2
      <4>2. CASE k <= t
        <5>1. k \in 1 .. b + 1 /\ q[k] = n
          BY <1>4, <2>3, <4>1, <4>2
        <5> QED
          BY <5>1
      <4>3. CASE k > t
        <5>1. k + 1 \in 1 .. b + 1 /\ ~(k + 1 <= t) /\ k + 1 # t + 1 /\ (k + 1) - 1 = k
          BY <1>4, <4>3
        <5>2. q[k + 1] = n
          BY <2>3, <4>1, <5>1
        <5> QED
          BY <5>1, <5>2
      <4> QED
        BY <1>4, <4>2, <4>3
    <3> QED
      BY <1>4, <3>1, <3>2
  <2>7. q \in Bijection(1 .. b + 1, 1 .. b + 1)
    BY <2>4, <2>5, <2>6 DEF Bijection, Injection, Surjection, IsInjective
  <2>8. ASSUME NEW k \in 1 .. b + 1 PROVE Merged'[k] = before[q[k]]
    <3>1. CASE k <= t
      <4>1. k \in 1 .. b
        BY <1>4, <3>1
      <4> QED
        BY <1>9, <2>1, <2>3, <3>1, <4>1
    <3>2. CASE k = t + 1
      BY <1>3, <1>4, <1>9, <2>3, <3>2
    <3>3. CASE k > t + 1
      <4>1. k - 1 \in 1 .. b /\ ~(k <= t) /\ k # t + 1
        BY <1>4, <3>3
      <4>2. Merged[k - 1] = before[p[k - 1]]
        BY <2>1, <4>1
      <4> QED
        BY <1>9, <2>3, <4>1, <4>2
    <3> QED
      BY <1>4, <3>1, <3>2, <3>3
  <2> QED
    BY <2>7, <2>8
<1> QED
  BY <1>6, <1>7, <1>11, <1>12 DEF Sorting

LEMMA InsertUpSorts ==
  ASSUME Inv, Sorting, InsertUp
  PROVE  Sorting'
<1> SUFFICES ASSUME call = "sort" PROVE Sorting'
  BY DEF Sorting, InsertUp
<1> DEFINE n == Len(temps)
           d == Last(temps)
<1>1. Frames
  BY DEF Inv
<1>2. /\ n \in Nat \ {0} /\ d = temps[n] /\ Len(Front(temps)) = n - 1
      /\ \A k \in 1 .. n - 1 : Front(temps)[k] = temps[k]
  <2>1. temps \in Seq(Data) /\ temps # <<>>
    BY <1>1 DEF Frames, InsertUp
  <2> QED
    BY <2>1, FrontLast
<1>3. /\ st_top \in Int /\ -1 <= st_top /\ Back \in Nat /\ Back <= Len(before)
      /\ st_top + 1 + n = Back /\ pc = "unwind"
  <2>1. nodes # <<>>
    BY <1>1 DEF Frames, InsertUp
  <2>2. Len(nodes) \in Nat \ {0}
    BY <1>1, <2>1, EmptySeq, Sizes DEF Frames
  <2> QED
    BY <1>1, <1>2, <2>2, Sizes DEF Back, InsertUp
<1>4. /\ st_top' = st_top + 1 /\ st_node' = [st_node EXCEPT ![st_top + 1] = d]
      /\ temps' = Front(temps) /\ UNCHANGED <<pc, call, nodes, before>>
  BY <1>1, <1>2, <1>3, Sizes DEF InsertUp, Push, StackFull
<1>5. /\ st_node'[st_top + 1] = d
      /\ \A j \in 0 .. st_top : st_node'[j] = st_node[j]
  BY <1>1, <1>2, <1>3, <1>4, Sizes
<1>6. Back' = Back
  BY <1>4 DEF Back
<1>7. Merged' = Merged
  <2>1. ASSUME NEW j \in 1 .. Back
        PROVE  (IF j <= st_top' + 1 THEN st_node'[j - 1] ELSE temps'[Back + 1 - j])
                 = (IF j <= st_top + 1 THEN st_node[j - 1] ELSE temps[Back + 1 - j])
    <3> HIDE DEF n, d
    <3>1. CASE j = st_top + 2
      <4>1. j <= st_top' + 1 /\ ~(j <= st_top + 1) /\ j - 1 = st_top + 1 /\ Back + 1 - j = n
        BY <1>2, <1>3, <1>4, <3>1
      <4> QED
        BY <1>2, <1>5, <4>1
    <3>2. CASE j <= st_top + 1
      BY <1>3, <1>4, <1>5, <3>2
    <3>3. CASE j > st_top + 2
      <4>1. Back + 1 - j \in 1 .. n - 1
        BY <1>2, <1>3, <3>3
      <4>2. ~(j <= st_top' + 1) /\ ~(j <= st_top + 1)
        BY <1>3, <1>4, <3>3
      <4>3. temps'[Back + 1 - j] = temps[Back + 1 - j]
        BY <1>2, <1>4, <4>1
      <4> QED
        BY <4>2, <4>3
    <3> QED
      BY <1>2, <1>3, <3>1, <3>2, <3>3
  <2> QED
    BY <1>6, <2>1 DEF Merged
<1> QED
  BY <1>3, <1>4, <1>6, <1>7, MergedKept DEF Sorting

LEMMA FrameReturnsSorts ==
  ASSUME Inv, Sorting, FrameReturns
  PROVE  Sorting'
<1> SUFFICES ASSUME call = "sort" PROVE Sorting'
  BY DEF Sorting, FrameReturns
<1>1. Frames
  BY DEF Inv
<1>2. /\ UNCHANGED <<st_top, st_node, call, temps, before>> /\ nodes' = Front(nodes)
      /\ pc = "unwind" /\ pc' = "insert" /\ temps = <<>>
  BY DEF FrameReturns, vars
<1>3. Back' = Back
  <2>1. nodes \in Seq(Slots) /\ nodes # <<>>
    BY <1>1, <1>2 DEF Frames
  <2>2. Len(nodes) \in Nat \ {0} /\ Len(nodes') = Len(nodes) - 1
    BY <1>2, <2>1, FrontLast
  <2> QED
    BY <1>1, <1>2, <2>2, Sizes DEF Back
<1>4. Merged' = Merged
  BY <1>2, <1>3 DEF Merged
<1>5. \A k \in 1 .. Len(temps') : st_node'[Last(nodes')] <= temps'[k]
  <2>1. 1 .. Len(temps') = {}
    BY <1>2
  <2> QED
    BY <2>1
<1> QED
  BY <1>2, <1>3, <1>4, <1>5, MergedKept DEF Sorting

LEMMA CallReturnsSorts ==
  ASSUME Inv, Sorting, CallReturns
  PROVE  Sorting'
<1> SUFFICES ASSUME call = "sort" PROVE Sorting'
  BY DEF Sorting, CallReturns
<1>1. Frames
  BY DEF Inv
<1>2. /\ UNCHANGED <<st_top, st_node, call, nodes, temps, before>>
      /\ pc = "insert" /\ pc' = "caller" /\ nodes = <<>>
  BY DEF CallReturns, vars
<1>3. Len(nodes) = 0 /\ Len(temps) = 0
  BY <1>1, <1>2 DEF Frames
<1>4. st_top + 1 = Len(before) /\ Back = Len(before)
  BY <1>1, <1>2, <1>3, Sizes DEF Back
<1>5. Items = Merged
  BY <1>1, <1>4, Sizes DEF Items, Merged
<1>6. DOMAIN Items = 1 .. Back /\ DOMAIN before = 1 .. Back
  BY <1>1, <1>4, <1>5 DEF Merged, Frames
<1>7. SortedFrom(Items, before)
  <2>1. /\ \A j, k \in 1 .. Back : j < k => Merged[j] <= Merged[k]
        /\ \E p \in Bijection(1 .. Back, 1 .. Back) :
             \A k \in 1 .. Back : Merged[k] = before[p[k]]
    BY <1>2 DEF Sorting
  <2> HIDE DEF Merged, Items, Back
  <2> QED
    BY <1>5, <1>6, <2>1 DEF SortedFrom
<1>8. Items' = Items
  BY <1>2 DEF Items
<1> QED
  BY <1>2, <1>7, <1>8 DEF Sorting, SortedFrom

LEMMA InitSorting == RecursionInit => Sorting
BY DEF RecursionInit, Sorting

LEMMA StepKeepsSorting ==
  ASSUME Data \subseteq Int, Inv, Sorting, [RecursionNext]_<<vars, locals>>
  PROVE  Sorting'
<1>1. ASSUME CallerUses PROVE Sorting'
  BY <1>1 DEF CallerUses, Sorting
<1>2. ASSUME NEW c \in {"rev", "sort"}, Call(c) PROVE Sorting'
  BY <1>2 DEF Call, Sorting
<1>3. ASSUME PopAll PROVE Sorting'
  BY <1>3 DEF PopAll, Sorting
<1>4. ASSUME UNCHANGED <<vars, locals>> PROVE Sorting'
  <2>1. UNCHANGED <<st_top, st_node, call, pc, nodes, temps, before>>
    BY <1>4 DEF vars, locals
  <2>2. Back' = Back
    BY <2>1 DEF Back
  <2>3. Merged' = Merged /\ Items' = Items
    BY <2>1, <2>2 DEF Merged, Items
  <2> QED
    BY <2>1, <2>2, <2>3 DEF Sorting, SortedFrom
<1> QED
  BY <1>1, <1>2, <1>3, <1>4, BottomSorts, InsertDownSorts, InsertNodeSorts,
     InsertUpSorts, FrameReturnsSorts, CallReturnsSorts
  DEF RecursionNext, Running

(* stack_prob_6_rev returns with the stack reversed, and stack_prob_7_sort *)
(* with the same items in ascending order.                                 *)
THEOREM RecursionReversesAndSorts ==
  ASSUME Data \subseteq Int
  PROVE  RecursionSpec => []ReversesAndSorts
<1>1. Inv /\ Sorting /\ [RecursionNext]_<<vars, locals>> => Sorting'
  BY StepKeepsSorting
<1>2. Inv /\ Sorting => ReversesAndSorts
  BY DEF Inv, Reversing, Sorting, ReversesAndSorts
<1> QED
  BY <1>1, <1>2, InitSorting, InvKept, PTL DEF RecursionSpec

-----------------------------------------------------------------------------
(* MinStack.                                                               *)

(* The two stacks move together, and what st_temp holds next to an item is *)
(* one of the items up to it, and not more than any of them.               *)
Lockstep ==
  /\ st_top \in -1 .. STACK_MAX_ITEMS - 1
  /\ temp_top = st_top /\ temp_live = live
  /\ st_node \in [Slots -> Data \cup {NoData}]
  /\ temp_node \in [Slots -> Data \cup {NoData}]
  /\ \A k \in 0 .. st_top : st_node[k] \in Data /\ temp_node[k] \in Data
  /\ \A k \in 0 .. st_top : \E j \in 0 .. k : temp_node[k] = st_node[j]
  /\ \A k \in 0 .. st_top : \A j \in 0 .. k : temp_node[k] <= st_node[j]

LEMMA MinIs ==
  ASSUME NEW S \in SUBSET Int, NEW x \in S, \A y \in S : x <= y
  PROVE  Min(S) = x
<1>1. Min(S) \in S /\ \A y \in S : Min(S) <= y
  BY DEF Min
<1>2. Min(S) \in Int /\ x \in Int /\ Min(S) <= x /\ x <= Min(S)
  BY <1>1
<1> HIDE DEF Min
<1> QED
  BY <1>2

LEMMA LockstepMin ==
  ASSUME Data \subseteq Int, Lockstep
  PROVE  MinOnTop
<1> SUFFICES ASSUME NEW k \in 0 .. st_top
             PROVE  temp_node[k] = Min({st_node[j] : j \in 0 .. k})
  BY DEF MinOnTop, Lockstep
<1> DEFINE S == {st_node[j] : j \in 0 .. k}
<1>1. S \in SUBSET Int
  <2>1. \A j \in 0 .. k : j \in 0 .. st_top
    BY DEF Lockstep
  <2> QED
    BY <2>1 DEF Lockstep
<1>2. temp_node[k] \in S /\ \A y \in S : temp_node[k] <= y
  BY DEF Lockstep
<1> QED
  BY <1>1, <1>2, MinIs

LEMMA InitLockstep == MinInit => Lockstep
BY StackAssumption
DEF MinInit, Init, Temp!Init, Lockstep, Slots, Temp!Slots, STACK_MIN_ITEMS,
    Temp!STACK_MIN_ITEMS

(* stack_prob_9_push: both stacks take their item, or both refuse it.      *)
LEMMA PushLockstep ==
  ASSUME Data \subseteq Int, Lockstep, NEW i \in Data, MinPush(i)
  PROVE  Lockstep'
<1> USE StackAssumption DEF Slots, STACK_MIN_ITEMS, Temp!STACK_MIN_ITEMS
<1>1. CASE StackFull
  BY <1>1 DEF MinPush, Push, StackFull, Temp!Push, Temp!StackFull, Lockstep
<1>2. CASE ~StackFull
  <2> DEFINE t == st_top + 1
             less == Less(i)
  <2>1. t \in 0 .. STACK_MAX_ITEMS - 1 /\ st_top \in Int
    BY <1>2 DEF Lockstep, StackFull
  <2>2. /\ st_top' = t /\ temp_top' = t /\ temp_live' = live'
        /\ st_node' = [st_node EXCEPT ![t] = i]
        /\ temp_node' = [temp_node EXCEPT ![t] = less]
    BY <1>2 DEF MinPush, Push, StackFull, Temp!Push, Temp!StackFull, Lockstep
  <2>3. CASE st_top = -1
    <3>1. less = i
      BY <2>3 DEF Less, Temp!StackEmpty, Lockstep
    <3> QED
      BY <2>1, <2>2, <2>3, <3>1 DEF Lockstep
  <2>4. CASE st_top # -1
    <3>1. /\ st_top \in 0 .. STACK_MAX_ITEMS - 1 /\ temp_node[st_top] \in Data
          /\ less = IF i < temp_node[st_top] THEN i ELSE temp_node[st_top]
      BY <2>4 DEF Less, Temp!StackEmpty, Lockstep
    <3>2. less \in Data /\ less <= i /\ less <= temp_node[st_top]
      <4>1. i \in Int /\ temp_node[st_top] \in Int
        BY <3>1
      <4> QED
        BY <3>1, <4>1
    <3>3. /\ st_node'[t] = i /\ temp_node'[t] = less
          /\ \A k \in 0 .. st_top : st_node'[k] = st_node[k] /\ temp_node'[k] = temp_node[k]
      BY <2>1, <2>2, <3>1 DEF Lockstep
    <3>4. \A k \in 0 .. t : k = t \/ k \in 0 .. st_top
      BY <2>1
    <3>5. ASSUME NEW j \in 0 .. st_top PROVE less <= st_node[j]
      <4>1. temp_node[st_top] <= st_node[j] /\ st_node[j] \in Data
        BY <3>1 DEF Lockstep
      <4>2. less \in Int /\ temp_node[st_top] \in Int /\ st_node[j] \in Int
        BY <3>1, <3>2, <4>1
      <4> HIDE DEF less
      <4> QED
        BY <3>2, <4>1, <4>2
    <3>6. \E j \in 0 .. t : less = st_node'[j]
      <4>1. CASE less = i
        BY <2>1, <3>3, <4>1
      <4>2. CASE less = temp_node[st_top]
        <5>1. PICK j \in 0 .. st_top : temp_node[st_top] = st_node[j]
          BY <3>1 DEF Lockstep
        <5> QED
          BY <2>1, <3>3, <4>2, <5>1
      <4> QED
        BY <3>1, <4>1, <4>2
    <3>7. \A k \in 0 .. t : st_node'[k] \in Data /\ temp_node'[k] \in Data
      BY <3>2, <3>3, <3>4 DEF Lockstep
    <3>8. ASSUME NEW k \in 0 .. t PROVE \E j \in 0 .. k : temp_node'[k] = st_node'[j]
      <4>1. CASE k = t
        BY <3>3, <3>6, <4>1
      <4>2. CASE k \in 0 .. st_top
        <5>1. PICK j \in 0 .. k : temp_node[k] = st_node[j]
          BY <4>2 DEF Lockstep
        <5> QED
          BY <2>1, <3>3, <4>2, <5>1
      <4> QED
        BY <3>4, <4>1, <4>2
    <3>9. ASSUME NEW k \in 0 .. t, NEW j \in 0 .. k PROVE temp_node'[k] <= st_node'[j]
      <4>1. CASE k = t
        BY <2>1, <3>2, <3>3, <3>4, <3>5, <4>1
      <4>2. CASE k \in 0 .. st_top
        <5>1. j \in 0 .. st_top
          BY <2>1, <4>2
        <5> QED
          BY <3>3, <4>2, <5>1 DEF Lockstep
      <4> QED
        BY <3>4, <4>1, <4>2
    <3>10. /\ st_node' \in [Slots -> Data \cup {NoData}]
           /\ temp_node' \in [Slots -> Data \cup {NoData}]
      BY <2>2, <3>2 DEF Lockstep
    <3> QED
      BY <2>1, <2>2, <3>7, <3>8, <3>9, <3>10 DEF Lockstep
  <2> QED
    BY <2>3, <2>4
<1> QED
  BY <1>1, <1>2

LEMMA StepLockstep ==
  ASSUME Data \subseteq Int, Lockstep, [MinNext]_<<vars, temp>>
  PROVE  Lockstep'
<1> USE StackAssumption DEF STACK_MIN_ITEMS, Temp!STACK_MIN_ITEMS
<1>1. ASSUME NEW i \in Data, MinPush(i) PROVE Lockstep'
  BY <1>1, PushLockstep
<1>2. CASE MinPop
  BY <1>2 DEF MinPop, Pop, StackEmpty, Temp!Pop, Temp!StackEmpty, Lockstep
<1>3. CASE MinMakeEmpty
  <2>1. /\ st_top' = -1 /\ temp_top' = -1 /\ temp_live' = live'
        /\ UNCHANGED <<st_node, temp_node>>
    BY <1>3 DEF MinMakeEmpty, MakeEmpty, Temp!MakeEmpty
  <2>2. 0 .. st_top' = {}
    BY <2>1
  <2> QED
    BY <2>1, <2>2 DEF Lockstep
<1>4. CASE UNCHANGED <<vars, temp>>
  BY <1>4 DEF vars, temp, Lockstep
<1> QED
  BY <1>1, <1>2, <1>3, <1>4 DEF MinNext

(* The least item of st_main is on top of st_temp, after any number of     *)
(* calls of stack_prob_9_push and stack_prob_9_pop, refused ones too.      *)
THEOREM MinAlwaysOnTop ==
  ASSUME Data \subseteq Int
  PROVE  MinSpec => []MinOnTop
<1>1. Lockstep /\ [MinNext]_<<vars, temp>> => Lockstep'
  BY StepLockstep
<1>2. Lockstep => MinOnTop
  BY LockstepMin
<1> QED
  BY <1>1, <1>2, InitLockstep, PTL DEF MinSpec

-----------------------------------------------------------------------------
(* StackOfQueues.  What a queue does to its items is taken from            *)
(* QueueProofs, once for each queue; the rest speaks of sequences only.    *)

CONSTANT QUEUE_MAX_ITEMS
VARIABLES frontA, rearA, nodeA, frontB, rearB, nodeB, q1, status, data

SQ == INSTANCE StackOfQueues

(* The assumption of Queue on its constants.                               *)
QueueSizes == QUEUE_MAX_ITEMS \in Nat \ {0} /\ NoData \notin Data

AP == INSTANCE QueueProofs WITH q_front <- frontA, q_rear <- rearA, q_node <- nodeA,
                                rc <- status, out <- data
BP == INSTANCE QueueProofs WITH q_front <- frontB, q_rear <- rearB, q_node <- nodeB,
                                rc <- status, out <- data

(***************************************************************************)
(* The two queues.                                                         *)
(***************************************************************************)

(* The two names for each queue.                                           *)
LEMMA SameA ==
  /\ AP!TypeOK <=> SQ!A!TypeOK
  /\ AP!QueueEmpty <=> SQ!A!QueueEmpty
  /\ AP!Items = SQ!A!Items
  /\ AP!Dequeue <=> SQ!A!Dequeue
  /\ \A d : AP!Enqueue(d) <=> SQ!A!Enqueue(d)
<1> USE DEF AP!QUEUE_MIN_ITEMS, SQ!A!QUEUE_MIN_ITEMS, AP!Slots, SQ!A!Slots,
            AP!NumNodes, SQ!A!NumNodes, AP!QueueEmpty, SQ!A!QueueEmpty
<1>1. AP!TypeOK <=> SQ!A!TypeOK
  BY DEF AP!TypeOK, SQ!A!TypeOK
<1>2. AP!Items = SQ!A!Items
  BY DEF AP!Items, SQ!A!Items
<1>3. AP!Dequeue <=> SQ!A!Dequeue
  BY DEF AP!Dequeue, SQ!A!Dequeue
<1>4. ASSUME NEW d PROVE AP!Enqueue(d) <=> SQ!A!Enqueue(d)
  BY DEF AP!Enqueue, SQ!A!Enqueue, AP!EnqueueOverflow, SQ!A!EnqueueOverflow,
         AP!EnqueueCompacting, SQ!A!EnqueueCompacting, AP!EnqueueAtRear, SQ!A!EnqueueAtRear,
         AP!QueueFull, SQ!A!QueueFull, AP!CompactAsserts, SQ!A!CompactAsserts,
         AP!CompactedNodes, SQ!A!CompactedNodes
<1> QED
  BY <1>1, <1>2, <1>3, <1>4

LEMMA SameANext == (AP!TypeOK <=> SQ!A!TypeOK)' /\ (AP!Items = SQ!A!Items)'
BY SameA, PTL

LEMMA SameB ==
  /\ BP!TypeOK <=> SQ!B!TypeOK
  /\ BP!QueueEmpty <=> SQ!B!QueueEmpty
  /\ BP!Items = SQ!B!Items
  /\ BP!Dequeue <=> SQ!B!Dequeue
  /\ \A d : BP!Enqueue(d) <=> SQ!B!Enqueue(d)
<1> USE DEF BP!QUEUE_MIN_ITEMS, SQ!B!QUEUE_MIN_ITEMS, BP!Slots, SQ!B!Slots,
            BP!NumNodes, SQ!B!NumNodes, BP!QueueEmpty, SQ!B!QueueEmpty
<1>1. BP!TypeOK <=> SQ!B!TypeOK
  BY DEF BP!TypeOK, SQ!B!TypeOK
<1>2. BP!Items = SQ!B!Items
  BY DEF BP!Items, SQ!B!Items
<1>3. BP!Dequeue <=> SQ!B!Dequeue
  BY DEF BP!Dequeue, SQ!B!Dequeue
<1>4. ASSUME NEW d PROVE BP!Enqueue(d) <=> SQ!B!Enqueue(d)
  BY DEF BP!Enqueue, SQ!B!Enqueue, BP!EnqueueOverflow, SQ!B!EnqueueOverflow,
         BP!EnqueueCompacting, SQ!B!EnqueueCompacting, BP!EnqueueAtRear, SQ!B!EnqueueAtRear,
         BP!QueueFull, SQ!B!QueueFull, BP!CompactAsserts, SQ!B!CompactAsserts,
         BP!CompactedNodes, SQ!B!CompactedNodes
<1> QED
  BY <1>1, <1>2, <1>3, <1>4

LEMMA SameBNext == (BP!TypeOK <=> SQ!B!TypeOK)' /\ (BP!Items = SQ!B!Items)'
BY SameB, PTL

LEMMA EnqueueA ==
  ASSUME QueueSizes, SQ!A!TypeOK, NEW d \in Data, SQ!A!Enqueue(d)
  PROVE  /\ SQ!A!TypeOK'
         /\ \/ /\ status' = "EOVERFLOW" /\ Len(SQ!A!Items) = QUEUE_MAX_ITEMS
               /\ SQ!A!Items' = SQ!A!Items
            \/ /\ status' = "EOK" /\ Len(SQ!A!Items) < QUEUE_MAX_ITEMS
               /\ SQ!A!Items' = Append(SQ!A!Items, d)
BY SameA, SameANext, AP!EnqueueItems DEF QueueSizes

LEMMA EnqueueB ==
  ASSUME QueueSizes, SQ!B!TypeOK, NEW d \in Data, SQ!B!Enqueue(d)
  PROVE  /\ SQ!B!TypeOK'
         /\ \/ /\ status' = "EOVERFLOW" /\ Len(SQ!B!Items) = QUEUE_MAX_ITEMS
               /\ SQ!B!Items' = SQ!B!Items
            \/ /\ status' = "EOK" /\ Len(SQ!B!Items) < QUEUE_MAX_ITEMS
               /\ SQ!B!Items' = Append(SQ!B!Items, d)
BY SameB, SameBNext, BP!EnqueueItems DEF QueueSizes

LEMMA DequeueA ==
  ASSUME QueueSizes, SQ!A!TypeOK, SQ!A!Dequeue, SQ!A!Items # <<>>
  PROVE  /\ SQ!A!TypeOK' /\ status' = "EOK"
         /\ data' = Head(SQ!A!Items) /\ SQ!A!Items' = Tail(SQ!A!Items)
BY SameA, SameANext, AP!DequeueItems DEF QueueSizes

LEMMA DequeueB ==
  ASSUME QueueSizes, SQ!B!TypeOK, SQ!B!Dequeue, SQ!B!Items # <<>>
  PROVE  /\ SQ!B!TypeOK' /\ status' = "EOK"
         /\ data' = Head(SQ!B!Items) /\ SQ!B!Items' = Tail(SQ!B!Items)
BY SameB, SameBNext, BP!DequeueItems DEF QueueSizes

LEMMA CountedA ==
  ASSUME QueueSizes, SQ!A!TypeOK
  PROVE  /\ SQ!A!Items \in Seq(Data \cup {NoData})
         /\ SQ!A!QueueEmpty <=> SQ!A!Items = <<>>
         /\ ~SQ!A!QueueEmpty => (frontA = rearA <=> Len(SQ!A!Items) = 1)
BY SameA, AP!ItemsCounted DEF QueueSizes

LEMMA CountedB ==
  ASSUME QueueSizes, SQ!B!TypeOK
  PROVE  /\ SQ!B!Items \in Seq(Data \cup {NoData})
         /\ SQ!B!QueueEmpty <=> SQ!B!Items = <<>>
         /\ ~SQ!B!QueueEmpty => (frontB = rearB <=> Len(SQ!B!Items) = 1)
BY SameB, BP!ItemsCounted DEF QueueSizes

(***************************************************************************)
(* The two queues as q1 and q2.                                            *)
(***************************************************************************)

Queues == SQ!A!TypeOK /\ SQ!B!TypeOK /\ q1 \in {"A", "B"}

LEMMA EnequeQ1Appends ==
  ASSUME QueueSizes, Queues, NEW d \in Data, SQ!EnequeQ1(d), q1' = q1
  PROVE  /\ Queues' /\ live /\ live' = live
         /\ SQ!Q2Items' = SQ!Q2Items
         /\ \/ /\ status' = "EOVERFLOW" /\ Len(SQ!Q1Items) = QUEUE_MAX_ITEMS
               /\ SQ!Q1Items' = SQ!Q1Items
            \/ /\ status' = "EOK" /\ Len(SQ!Q1Items) < QUEUE_MAX_ITEMS
               /\ SQ!Q1Items' = Append(SQ!Q1Items, d)
<1>1. CASE q1 = "A"
  <2>1. SQ!A!Enqueue(d) /\ UNCHANGED SQ!queueB
    BY <1>1 DEF SQ!EnequeQ1
  <2>2. SQ!A!TypeOK'
    BY <2>1, EnqueueA DEF Queues
  <2>3. SQ!B!TypeOK' /\ SQ!B!Items' = SQ!B!Items
    BY <2>1, <2>2 DEF Queues, SQ!A!TypeOK, SQ!B!TypeOK, SQ!B!Items, SQ!B!NumNodes, SQ!queueB,
                      SQ!B!Slots, SQ!B!QUEUE_MIN_ITEMS
  <2>4. live /\ live' = live
    BY <2>1 DEF SQ!A!Enqueue
  <2> QED
    BY <1>1, <2>1, <2>2, <2>3, <2>4, EnqueueA DEF Queues, SQ!Q1Items, SQ!Q2Items
<1>2. CASE q1 = "B"
  <2>1. SQ!B!Enqueue(d) /\ UNCHANGED SQ!queueA
    BY <1>2 DEF SQ!EnequeQ1
  <2>2. SQ!B!TypeOK'
    BY <2>1, EnqueueB DEF Queues
  <2>3. SQ!A!TypeOK' /\ SQ!A!Items' = SQ!A!Items
    BY <2>1, <2>2 DEF Queues, SQ!A!TypeOK, SQ!B!TypeOK, SQ!A!Items, SQ!A!NumNodes, SQ!queueA,
                      SQ!A!Slots, SQ!A!QUEUE_MIN_ITEMS
  <2>4. live /\ live' = live
    BY <2>1 DEF SQ!B!Enqueue
  <2> QED
    BY <1>2, <2>1, <2>2, <2>3, <2>4, EnqueueB DEF Queues, SQ!Q1Items, SQ!Q2Items
<1> QED
  BY <1>1, <1>2 DEF Queues

LEMMA EnequeQ2Appends ==
  ASSUME QueueSizes, Queues, NEW d \in Data, SQ!EnequeQ2(d), q1' = q1, status' = "EOK"
  PROVE  /\ Queues' /\ live' = live
         /\ SQ!Q1Items' = SQ!Q1Items
         /\ SQ!Q2Items' = Append(SQ!Q2Items, d)
<1>1. CASE q1 = "A"
  <2>1. SQ!B!Enqueue(d) /\ UNCHANGED SQ!queueA
    BY <1>1 DEF SQ!EnequeQ2
  <2>2. SQ!B!TypeOK' /\ SQ!B!Items' = Append(SQ!B!Items, d)
    BY <2>1, EnqueueB DEF Queues
  <2>3. SQ!A!TypeOK' /\ SQ!A!Items' = SQ!A!Items
    BY <2>1, <2>2 DEF Queues, SQ!A!TypeOK, SQ!B!TypeOK, SQ!A!Items, SQ!A!NumNodes, SQ!queueA,
                      SQ!A!Slots, SQ!A!QUEUE_MIN_ITEMS
  <2> QED
    BY <1>1, <2>1, <2>2, <2>3 DEF Queues, SQ!Q1Items, SQ!Q2Items, SQ!B!Enqueue
<1>2. CASE q1 = "B"
  <2>1. SQ!A!Enqueue(d) /\ UNCHANGED SQ!queueB
    BY <1>2 DEF SQ!EnequeQ2
  <2>2. SQ!A!TypeOK' /\ SQ!A!Items' = Append(SQ!A!Items, d)
    BY <2>1, EnqueueA DEF Queues
  <2>3. SQ!B!TypeOK' /\ SQ!B!Items' = SQ!B!Items
    BY <2>1, <2>2 DEF Queues, SQ!A!TypeOK, SQ!B!TypeOK, SQ!B!Items, SQ!B!NumNodes, SQ!queueB,
                      SQ!B!Slots, SQ!B!QUEUE_MIN_ITEMS
  <2> QED
    BY <1>2, <2>1, <2>2, <2>3 DEF Queues, SQ!Q1Items, SQ!Q2Items, SQ!A!Enqueue
<1> QED
  BY <1>1, <1>2 DEF Queues

(* A queue_deque from q1, before or after the two are swapped.             *)
LEMMA DequeQ1TakesHead ==
  ASSUME QueueSizes, Queues, SQ!Q1Items # <<>>, SQ!DequeQ1, q1' \in {q1, SQ!Other(q1)}
  PROVE  /\ Queues' /\ live /\ live' = live
         /\ data' = Head(SQ!Q1Items)
         /\ q1' = q1 => SQ!Q1Items' = Tail(SQ!Q1Items) /\ SQ!Q2Items' = SQ!Q2Items
         /\ q1' # q1 => SQ!Q2Items' = Tail(SQ!Q1Items) /\ SQ!Q1Items' = SQ!Q2Items
<1>1. CASE q1 = "A"
  <2>1. SQ!A!Dequeue /\ UNCHANGED SQ!queueB
    BY <1>1 DEF SQ!DequeQ1
  <2>2. SQ!A!TypeOK' /\ data' = Head(SQ!A!Items) /\ SQ!A!Items' = Tail(SQ!A!Items)
    BY <1>1, <2>1, DequeueA DEF Queues, SQ!Q1Items
  <2>3. SQ!B!TypeOK' /\ SQ!B!Items' = SQ!B!Items
    BY <2>1, <2>2 DEF Queues, SQ!A!TypeOK, SQ!B!TypeOK, SQ!B!Items, SQ!B!NumNodes, SQ!queueB,
                      SQ!B!Slots, SQ!B!QUEUE_MIN_ITEMS
  <2>4. live /\ live' = live
    BY <2>1 DEF SQ!A!Dequeue
  <2> QED
    BY <1>1, <2>2, <2>3, <2>4 DEF Queues, SQ!Q1Items, SQ!Q2Items, SQ!Other
<1>2. CASE q1 = "B"
  <2>1. SQ!B!Dequeue /\ UNCHANGED SQ!queueA
    BY <1>2 DEF SQ!DequeQ1
  <2>2. SQ!B!TypeOK' /\ data' = Head(SQ!B!Items) /\ SQ!B!Items' = Tail(SQ!B!Items)
    BY <1>2, <2>1, DequeueB DEF Queues, SQ!Q1Items
  <2>3. SQ!A!TypeOK' /\ SQ!A!Items' = SQ!A!Items
    BY <2>1, <2>2 DEF Queues, SQ!A!TypeOK, SQ!B!TypeOK, SQ!A!Items, SQ!A!NumNodes, SQ!queueA,
                      SQ!A!Slots, SQ!A!QUEUE_MIN_ITEMS
  <2>4. live /\ live' = live
    BY <2>1 DEF SQ!B!Dequeue
  <2> QED
    BY <1>2, <2>2, <2>3, <2>4 DEF Queues, SQ!Q1Items, SQ!Q2Items, SQ!Other
<1> QED
  BY <1>1, <1>2 DEF Queues

LEMMA TestsOfQ1 ==
  ASSUME QueueSizes, Queues
  PROVE  /\ SQ!Q1Empty <=> SQ!Q1Items = <<>>
         /\ ~SQ!Q1Empty => (SQ!Q1OneItem <=> Len(SQ!Q1Items) = 1)
BY CountedA, CountedB DEF Queues, SQ!Q1Empty, SQ!Q1OneItem, SQ!Q1Items

(***************************************************************************)
(* The refinement.                                                         *)
(***************************************************************************)

(* Between operations q2 is empty; inside a pop q1 is not, for the loop    *)
(* stops at its last item.  Only payloads are in the queues and in hand.   *)
InQueues ==
  /\ Queues
  /\ pc \in {"caller", "loop", "eneque"}
  /\ SQ!Q1Items \in Seq(Data) /\ SQ!Q2Items \in Seq(Data)
  /\ pc = "caller" => SQ!Q2Items = <<>>
  /\ pc # "caller" => SQ!Q1Items # <<>>
  /\ pc = "eneque" => data \in Data

LEMMA HeadAndTail ==
  ASSUME NEW S, NEW s \in Seq(S), s # <<>>
  PROVE  /\ Head(s) \in S /\ Head(s) = s[1]
         /\ Tail(s) \in Seq(S) /\ Len(Tail(s)) = Len(s) - 1
         /\ Tail(s) = <<>> <=> Len(s) = 1
         /\ s = <<Head(s)>> \o Tail(s)
<1>1. /\ Head(s) \in S /\ Head(s) = s[1]
      /\ Tail(s) \in Seq(S) /\ Len(Tail(s)) = Len(s) - 1
      /\ \A i \in 1 .. Len(s) - 1 : Tail(s)[i] = s[i + 1]
  BY HeadTailProperties, EmptySeq, LenProperties
<1>2. Tail(s) = <<>> <=> Len(s) = 1
  BY <1>1, EmptySeq, LenProperties
<1>3. /\ <<Head(s)>> \in Seq(S) /\ Len(<<Head(s)>>) = 1 /\ <<Head(s)>>[1] = s[1]
  BY <1>1
<1>4. /\ <<Head(s)>> \o Tail(s) \in Seq(S)
      /\ Len(<<Head(s)>> \o Tail(s)) = Len(s)
      /\ \A i \in 1 .. Len(s) : (<<Head(s)>> \o Tail(s))[i] = s[i]
  BY <1>1, <1>3, ConcatProperties, LenProperties
<1> QED
  BY <1>1, <1>2, <1>4, SeqEqual

(* StackItems as a sequence, with an item in hand and without.             *)
ItemsAre ==
  /\ pc = "eneque" => SQ!StackItems = SQ!Q2Items \o (<<data>> \o SQ!Q1Items)
  /\ pc = "loop" => SQ!StackItems = SQ!Q2Items \o SQ!Q1Items
  /\ pc = "caller" => SQ!StackItems = SQ!Q1Items

LEMMA StackItemsAre == InQueues => ItemsAre
<1> SUFFICES ASSUME InQueues PROVE ItemsAre
  OBVIOUS
<1>1. ASSUME pc = "eneque" PROVE <<data>> \in Seq(Data)
  BY <1>1 DEF InQueues
<1>2. CASE pc = "eneque"
  BY <1>1, <1>2, ConcatAssociative DEF InQueues, ItemsAre, SQ!StackItems
<1>3. CASE pc # "eneque"
  <2>1. SQ!StackItems = SQ!Q2Items \o SQ!Q1Items
    BY <1>3, ConcatEmptySeq DEF InQueues, SQ!StackItems
  <2> QED
    BY <1>3, <2>1, ConcatEmptySeq DEF InQueues, ItemsAre
<1> QED
  BY <1>2, <1>3

LEMMA StackItemsNext == InQueues' => ItemsAre'
BY StackItemsAre, PTL

LEMMA InitInQueues == QueueSizes /\ SQ!Init => InQueues /\ SQ!BS!Init
<1> SUFFICES ASSUME QueueSizes, SQ!Init PROVE InQueues /\ SQ!BS!Init
  OBVIOUS
<1>1. SQ!A!TypeOK /\ SQ!A!Items = <<>>
  BY DEF SQ!Init, SQ!A!Init, SQ!A!TypeOK, SQ!A!Items, SQ!A!QUEUE_MIN_ITEMS, SQ!A!Slots,
         QueueSizes
<1>2. SQ!B!TypeOK /\ SQ!B!Items = <<>>
  BY DEF SQ!Init, SQ!B!Init, SQ!B!TypeOK, SQ!B!Items, SQ!B!QUEUE_MIN_ITEMS, SQ!B!Slots,
         QueueSizes
<1>3. InQueues
  BY <1>1, <1>2 DEF SQ!Init, InQueues, Queues, SQ!Q1Items, SQ!Q2Items
<1>4. SQ!StackItems = <<>>
  BY <1>1, <1>3, StackItemsAre DEF ItemsAre, SQ!Init, SQ!Q1Items
<1> QED
  BY <1>3, <1>4 DEF SQ!Init, SQ!A!Init, SQ!BS!Init

LEMMA PushRefines ==
  ASSUME QueueSizes, InQueues, NEW d \in Data, SQ!Push(d)
  PROVE  InQueues' /\ SQ!BS!Push(d)
<1>1. /\ Queues' /\ live /\ live' = live
      /\ SQ!Q2Items' = SQ!Q2Items
      /\ \/ /\ status' = "EOVERFLOW" /\ Len(SQ!Q1Items) = QUEUE_MAX_ITEMS
            /\ SQ!Q1Items' = SQ!Q1Items
         \/ /\ status' = "EOK" /\ Len(SQ!Q1Items) < QUEUE_MAX_ITEMS
            /\ SQ!Q1Items' = Append(SQ!Q1Items, d)
  BY EnequeQ1Appends DEF InQueues, SQ!Push
<1>2. InQueues'
  BY <1>1 DEF InQueues, SQ!Push
<1>3. SQ!StackItems = SQ!Q1Items /\ SQ!StackItems' = SQ!Q1Items'
  BY <1>2, StackItemsAre, StackItemsNext DEF ItemsAre, SQ!Push
<1> QED
  BY <1>1, <1>2, <1>3 DEF SQ!Push, SQ!BS!Push

LEMMA PopEmptyRefines ==
  ASSUME QueueSizes, InQueues, SQ!PopEmpty, live
  PROVE  InQueues' /\ SQ!BS!Pop
<1>1. SQ!Q1Items = <<>>
  BY TestsOfQ1 DEF SQ!PopEmpty, InQueues
<1>2. Queues' /\ SQ!Q1Items' = SQ!Q1Items /\ SQ!Q2Items' = SQ!Q2Items
  BY DEF SQ!PopEmpty, SQ!queueA, SQ!queueB, InQueues, Queues, SQ!Q1Items, SQ!Q2Items,
         SQ!A!TypeOK, SQ!B!TypeOK,
         SQ!A!Items, SQ!B!Items, SQ!A!NumNodes, SQ!B!NumNodes, SQ!A!Slots, SQ!B!Slots,
         SQ!A!QUEUE_MIN_ITEMS, SQ!B!QUEUE_MIN_ITEMS
<1>3. InQueues'
  BY <1>2 DEF SQ!PopEmpty, InQueues
<1>4. SQ!StackItems = SQ!Q1Items /\ SQ!StackItems' = SQ!Q1Items
  BY <1>2, <1>3, StackItemsAre, StackItemsNext DEF ItemsAre, SQ!PopEmpty
<1> QED
  BY <1>1, <1>3, <1>4 DEF SQ!PopEmpty, SQ!BS!Pop, SQ!BS!Top

(* The item taken from q1 goes in hand: the stack stays the same.          *)
LEMMA MoveOutRefines ==
  ASSUME QueueSizes, InQueues, SQ!MoveOut
  PROVE  InQueues' /\ UNCHANGED SQ!BS!vars
<1>1. SQ!Q1Items # <<>> /\ Len(SQ!Q1Items) # 1
  BY TestsOfQ1 DEF SQ!MoveOut, InQueues
<1>2. /\ Queues' /\ live' = live
      /\ data' = Head(SQ!Q1Items)
      /\ SQ!Q1Items' = Tail(SQ!Q1Items) /\ SQ!Q2Items' = SQ!Q2Items
  BY <1>1, DequeQ1TakesHead DEF SQ!MoveOut, InQueues
<1>3. /\ Head(SQ!Q1Items) \in Data
      /\ Tail(SQ!Q1Items) \in Seq(Data) /\ Tail(SQ!Q1Items) # <<>>
      /\ SQ!Q1Items = <<Head(SQ!Q1Items)>> \o Tail(SQ!Q1Items)
  BY <1>1, HeadAndTail DEF InQueues
<1>4. InQueues'
  BY <1>2, <1>3 DEF InQueues, SQ!MoveOut
<1>5. SQ!StackItems = SQ!Q2Items \o SQ!Q1Items
  BY StackItemsAre, ConcatEmptySeq DEF ItemsAre, InQueues, SQ!MoveOut
<1>6. SQ!StackItems' = SQ!Q2Items \o SQ!Q1Items
  BY <1>2, <1>3, <1>4, StackItemsNext DEF ItemsAre, SQ!MoveOut
<1> QED
  BY <1>2, <1>4, <1>5, <1>6 DEF SQ!MoveOut, SQ!BS!vars

(* The item in hand goes to the end of q2: the stack stays the same.       *)
LEMMA MoveInRefines ==
  ASSUME QueueSizes, InQueues, SQ!MoveIn
  PROVE  InQueues' /\ UNCHANGED SQ!BS!vars
<1>1. /\ Queues' /\ live' = live
      /\ SQ!Q1Items' = SQ!Q1Items
      /\ SQ!Q2Items' = Append(SQ!Q2Items, data)
  BY EnequeQ2Appends DEF SQ!MoveIn, InQueues
<1>2. /\ Append(SQ!Q2Items, data) \in Seq(Data)
      /\ Append(SQ!Q2Items, data) = SQ!Q2Items \o <<data>>
  BY AppendIsConcat DEF SQ!MoveIn, InQueues
<1>3. InQueues'
  BY <1>1, <1>2 DEF InQueues, SQ!MoveIn
<1>4. SQ!StackItems' = (SQ!Q2Items \o <<data>>) \o SQ!Q1Items
  BY <1>1, <1>2, <1>3, StackItemsNext DEF ItemsAre, SQ!MoveIn
<1>5. SQ!StackItems = SQ!Q2Items \o (<<data>> \o SQ!Q1Items)
  BY StackItemsAre DEF ItemsAre, SQ!MoveIn
<1>6. <<data>> \in Seq(Data)
  BY DEF InQueues, SQ!MoveIn
<1>7. SQ!StackItems' = SQ!StackItems
  BY <1>4, <1>5, <1>6, ConcatAssociative DEF InQueues
<1> QED
  BY <1>1, <1>3, <1>7 DEF SQ!MoveIn, SQ!BS!vars

(* The last item of q1 is the top of the stack, q2 what remains.           *)
LEMMA PopLastRefines ==
  ASSUME QueueSizes, InQueues, SQ!PopLast
  PROVE  InQueues' /\ SQ!BS!Pop
<1>1. SQ!Q1Items # <<>>
  BY TestsOfQ1 DEF SQ!PopLast, InQueues
<1>2. Len(SQ!Q1Items) = 1
  BY <1>1, TestsOfQ1 DEF SQ!PopLast, InQueues
<1>3. q1' # q1 /\ q1' = SQ!Other(q1)
  BY DEF SQ!PopLast, InQueues, Queues, SQ!Other
<1>4. /\ Queues' /\ live /\ live' = live
      /\ data' = Head(SQ!Q1Items)
      /\ SQ!Q2Items' = Tail(SQ!Q1Items) /\ SQ!Q1Items' = SQ!Q2Items
  BY <1>1, <1>3, DequeQ1TakesHead DEF SQ!PopLast, InQueues
<1>5. Tail(SQ!Q1Items) = <<>> /\ Head(SQ!Q1Items) = SQ!Q1Items[1]
  BY <1>1, <1>2, HeadAndTail DEF InQueues
<1>6. InQueues'
  <2>1. Queues' /\ pc' = "caller" /\ SQ!Q1Items' \in Seq(Data) /\ SQ!Q2Items' = <<>>
    BY <1>4, <1>5 DEF InQueues, SQ!PopLast
  <2> QED
    BY <2>1 DEF InQueues
<1>7. SQ!StackItems' = SQ!Q2Items
  BY <1>4, <1>6, StackItemsNext DEF ItemsAre, SQ!PopLast
<1>8. SQ!StackItems = SQ!Q2Items \o SQ!Q1Items
  BY StackItemsAre, ConcatEmptySeq DEF ItemsAre, InQueues, SQ!PopLast
<1>9. /\ SQ!StackItems \in Seq(Data)
      /\ Len(SQ!StackItems) = Len(SQ!Q2Items) + 1
      /\ \A k \in 1 .. Len(SQ!Q2Items) + 1 :
           SQ!StackItems[k] = IF k <= Len(SQ!Q2Items) THEN SQ!Q2Items[k] ELSE SQ!Q1Items[1]
  <2>1. /\ SQ!Q2Items \o SQ!Q1Items \in Seq(Data)
        /\ Len(SQ!Q2Items \o SQ!Q1Items) = Len(SQ!Q2Items) + 1
        /\ \A k \in 1 .. Len(SQ!Q2Items) + 1 :
             (SQ!Q2Items \o SQ!Q1Items)[k] = IF k <= Len(SQ!Q2Items) THEN SQ!Q2Items[k]
                                             ELSE SQ!Q1Items[k - Len(SQ!Q2Items)]
    <3>1. SQ!Q2Items \in Seq(Data) /\ SQ!Q1Items \in Seq(Data) /\ Len(SQ!Q1Items) = 1
      BY <1>2 DEF InQueues
    <3> QED
      BY <3>1, ConcatProperties
  <2> QED
    BY <1>8, <2>1, LenProperties DEF InQueues
<1>10. SQ!BS!Rest = SQ!Q2Items
  <2>1. /\ SubSeq(SQ!StackItems, 1, Len(SQ!Q2Items)) \in Seq(Data)
        /\ Len(SubSeq(SQ!StackItems, 1, Len(SQ!Q2Items))) = Len(SQ!Q2Items)
        /\ \A k \in 1 .. Len(SQ!Q2Items) :
             SubSeq(SQ!StackItems, 1, Len(SQ!Q2Items))[k] = SQ!Q2Items[k]
    BY <1>9, LenProperties DEF InQueues
  <2>2. SubSeq(SQ!StackItems, 1, Len(SQ!Q2Items)) = SQ!Q2Items
    BY <2>1, SeqEqual DEF InQueues
  <2> QED
    BY <1>9, <2>2, LenProperties DEF SQ!BS!Rest, InQueues
<1>11. SQ!StackItems # <<>> /\ SQ!BS!Top = Head(SQ!Q1Items)
  BY <1>5, <1>9, LenProperties DEF SQ!BS!Top, InQueues
<1> QED
  BY <1>4, <1>6, <1>7, <1>10, <1>11 DEF SQ!PopLast, SQ!BS!Pop

LEMMA NextRefines ==
  QueueSizes /\ InQueues /\ live /\ [SQ!Next]_(SQ!vars) =>
    InQueues' /\ [SQ!BS!Next]_(SQ!BS!vars) /\ live'
<1> SUFFICES ASSUME QueueSizes, InQueues, live, [SQ!Next]_(SQ!vars)
             PROVE  InQueues' /\ [SQ!BS!Next]_(SQ!BS!vars) /\ live'
  OBVIOUS
<1>0. live'
  BY DEF SQ!Next, SQ!vars, SQ!Push, SQ!EnequeQ1, SQ!PopEmpty, SQ!MoveOut, SQ!MoveIn,
         SQ!PopLast, SQ!DequeQ1, SQ!EnequeQ2,
         SQ!A!Enqueue, SQ!B!Enqueue, SQ!A!Dequeue, SQ!B!Dequeue
<1>1. ASSUME NEW d \in Data, SQ!Push(d) PROVE InQueues' /\ SQ!BS!Next
  BY <1>1, PushRefines DEF SQ!BS!Next
<1>2. CASE SQ!PopEmpty
  BY <1>0, <1>2, PopEmptyRefines DEF SQ!BS!Next
<1>3. CASE SQ!MoveOut
  BY <1>0, <1>3, MoveOutRefines
<1>4. CASE SQ!MoveIn
  BY <1>0, <1>4, MoveInRefines
<1>5. CASE SQ!PopLast
  BY <1>0, <1>5, PopLastRefines DEF SQ!BS!Next
<1>6. CASE UNCHANGED SQ!vars
  <2>1. Queues' /\ SQ!Q1Items' = SQ!Q1Items /\ SQ!Q2Items' = SQ!Q2Items
    BY <1>6
    DEF SQ!vars, SQ!queueA, SQ!queueB, InQueues, Queues, SQ!Q1Items, SQ!Q2Items,
           SQ!A!TypeOK, SQ!B!TypeOK,
        SQ!A!Items, SQ!B!Items, SQ!A!NumNodes, SQ!B!NumNodes, SQ!A!Slots, SQ!B!Slots,
        SQ!A!QUEUE_MIN_ITEMS, SQ!B!QUEUE_MIN_ITEMS
  <2> QED
    BY <1>0, <1>6, <2>1 DEF SQ!vars, InQueues, SQ!BS!vars, SQ!StackItems
<1> QED
  BY <1>0, <1>1, <1>2, <1>3, <1>4, <1>5, <1>6 DEF SQ!Next

(* Two queues whose windows are anywhere in their arrays are a last-in     *)
(* first-out list of QUEUE_MAX_ITEMS items, for every size.                *)
THEOREM StackOfQueuesRefinesBoundedStack ==
  ASSUME QueueSizes
  PROVE  SQ!Spec => SQ!ImplementsBoundedStack
<1>1. SQ!Init => InQueues /\ SQ!BS!Init /\ live
  BY InitInQueues DEF SQ!Init, SQ!A!Init
<1>2. InQueues /\ live /\ [SQ!Next]_(SQ!vars) => InQueues' /\ [SQ!BS!Next]_(SQ!BS!vars) /\ live'
  BY NextRefines
<1> QED
  BY <1>1, <1>2, PTL DEF SQ!Spec, SQ!BS!Spec, SQ!ImplementsBoundedStack
=============================================================================
