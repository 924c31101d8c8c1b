# Specifications of cp_ds_lib

TLA+ modules for the data structures of this library, the TLC configurations
that model-check them, and TLAPS proofs about them. `PROJECT.json` lists
components, runs, mutants, the source lines of every definition, findings,
hazards and theorems in machine-readable form.

    tlc -config MCQueue.cfg MCQueue     # one run
    tlapm QueueProofs.tla               # the proofs of one module

Source paths below are relative to `src/src/`.

## 1. The system

cp_ds_lib is a single-threaded C library of data structures with a test
driver per structure (`main.c` calls them one after the other). Nothing runs
concurrently and nothing blocks; what is hard is long sequences of legal calls,
limits of fixed-size arrays, pointers handed out into live memory, data cached in
nodes (heights, colours, parent and back pointers), assertions that end the
program (`CHECK_RC_ASSERT`, `include/header.h`), and, in the B+ tree, state kept
in files across calls and runs.

| component | state | operations | what makes it correct | modelled by |
|---|---|---|---|---|
| `queue/` | array of `QUEUE_MAX_ITEMS` nodes, `q_front`, `q_rear` | eneque (compacts when the end of the array is reached), deque, dealloc | first-in first-out, uses all slots, compaction never asserts, pointers handed out stay valid until a compaction | `Queue`, `BoundedQueue` |
| `stack/stack.c` | array of `STACK_MAX_ITEMS` nodes, `st_top` | push, pop, peek, dealloc, make empty | last-in first-out, uses all slots | `Stack`, `BoundedStack` |
| `stack/stack_prob_10.c` | two queues that swap roles | push, pop (moves all items) | a stack; the second queue always has room | `StackOfQueues` on two instances of `Queue` |
| `heap/` | array of `HEAP_MAX_SIZE` nodes, `heap_size`, `heap_type` | insert and remove, min and max; sift loops | a priority queue, ordered between operations, loops end | `Heap`, `PriorityQueue` |
| `b_plus_tree/` | one file per node in `.meta`, the root's inode number in a root file; in memory the path of an operation and its neighbours | init, search, insert (splits leaves, a full parent and the root), delete (borrows, merges, gives up roots), write-back | holds the keys inserted and not deleted, all can be found, depth is equal, no node file is lost; after a crash between two writes the next start finds a tree | `BPlusNode`, `BPlusTree`, `BPlusCrash`, `OrderedSet` |
| `b_plus_tree/b_plus_tree_tc.c` | the keys inserted and deleted so far | the test of the tree, a client of it | every key inserted is found, every key deleted was there | `BPlusClient` |
| `common/` | none | comparison, file routines | first of three | inside `Heap`, `BPlusTree` |
| `bst/` | nodes linked by pointers, the global `bst_root` | insert, delete (three cases), destroy | search order; a deletion takes one key; no link to freed memory | `BinaryTree`, `BST` |
| `avl_tree/` | the same with cached heights, the global `avl_root` | insert, delete, rotations, destroy | search order; exact heights; balance | `BinaryTree`, `AVL` |
| `rb_tree/` | the same with colours and parent pointers, the global `rb_tree_root` | insert with its three violations, delete, rotations, destroy | search order; exact parent pointers; no red pair; equal black heights | `BinaryTree`, `RBTree` |
| `sll/`, `dll/`, `scll/` | nodes linked by pointers, the caller's head | insert and remove at a position, remove all | the sequence a position addresses; back pointers; the circle; no node lost | `Lists`, `PositionList` |
| `graph/` | adjacency matrix; marks, and a queue or stack, during a traversal | insert edge, bfs, dfs | the reachable vertices once each, in the right order; no overflow; traversals return | `Graph` on `Queue` and `Stack`, `GraphSearch` |
| `trie/` | nodes of 26 pointers | insert, search, delete | prefix search; no dangling pointer | not modelled, see 7 |
| `stack/stack_prob_6.c`, `_7.c` | a stack, and pointers into popped slots of it in the frames of a recursion | reverse, sort | reversed, sorted; no push reaches a slot that a frame still reads | `StackRecursion` on `Stack` |
| `stack/stack_prob_9.c` | two stacks | push, pop, minimum | the minimum of the items left, also after a refused push | `MinStack` on two instances of `Stack` |
| `stack/stack_prob_2.c`, `_3.c`, `_4.c`, `_12.c`, `_13.c` | a stack during one pass over a string or array | postfix value, infix to postfix, matching parentheses, longest valid substring, preorder | the answer, and which overflows are noticed | `StackScans` on `Stack` |
| `stack/stack_prob_11.c` | a dll with a pointer to its middle and a count | push, pop | the pointer is at the middle | `MiddleStack` on `Lists` |
| `sll/sll_prob_1.c`, `sll_prob_2.c` | an sll | reverse, merge sort | the same items, reversed or sorted, in the same nodes | `ListProblems` on `Lists` |
| `stack/stack_prob_1.c`, `_5.c`, `_8.c`, `dll/dll_prob_1.c` | local | one loop over one literal each | - | not modelled, see 7 |
| `miscellaneous/`, `test_cases/`, `writeups`, other `*_tc.c`, text files | none | examples, build script, drivers | - | not modelled: no state, or a fixed sequence of calls that a model covers by any sequence |

Interactions: `stack_prob_10` calls `queue`; `graph` calls `queue` and `stack`;
the other stack problems call `stack`, `stack_prob_11` calls `dll`, and
`stack_prob_3` prints what `stack_prob_2` reads;
the heap calls `find_smallest_from_three` and `find_greatest_from_three` of
`common`, and the B+ tree its file routines; everything else is called by test
drivers only.

## 2. Modules

**Queue** (`queue/queue.c`). The array is a function from slots to payloads and
`q_front`, `q_rear` are the two indices, which only a compaction moves back.
`Enqueue` has one alternative per outcome of `queue_is_queue_full`;
`EnqueueCompacting` is `queue_compact_queue` and the insertion after it in one
step. The assertions of `queue_compact_queue` are its guard, and
`CompactionNeverAsserts` says the guard never stops it. `Dequeue` leaves the
node in its slot: `out` is what the returned pointer points at when it is
returned. **BoundedQueue** is the sequence a caller sees.

**Stack** (`stack/stack.c`) and **BoundedStack** likewise.

**StackOfQueues** (`stack/stack_prob_10.c`) instantiates `Queue` twice and takes
one step per queue operation, so a pop of n items takes 2n - 1 steps. `q1` says
which of the two queues `q1_ptr` leads to. The assertion in the loop is a guard
(`status' = "EOK"`), and `PopReturns` says it never stops the loop. It implements
the same `BoundedStack`: in the middle of a pop the stack is the content of q2,
the item in hand and what is left of q1.

**StackRecursion** (`stack/stack_prob_6.c`, `stack_prob_7.c`; the two differ in where
an item is put back). The frames of the recursion are sequences: `nodes` the
slots that the frames of the outer function point at, `temps` the copies held by
those of the insertion. One step per stack operation, the caller's included,
which fills the stack with anything. **MinStack** (`stack_prob_9.c`) is two
instances of `Stack` in one step per call. **StackScans** solves one of five
problems for one input, one step per pass of the loop or stack operation;
`pc` is the place inside a pass, `result` and `printed` what the user sees. The
postfix form printed by `stack_prob_3` is given to `stack_prob_2` (`HandOver`), so
that the two together must have the value of the expression; letters as operands
and the operators `/` and `^` (an exclusive or in C) are left out. The reference
definitions go by structure: matching by taking out neighbours, the value by the
last operator outside parentheses, a preorder by its two subtrees.

**Heap** (`heap/heap.c`). Minimum and maximum code differ in the comparison
only and are one set of actions with the order as a parameter. A call starts in
`pc = "idle"`; the loop of `heap_insert_*` is `SiftUp`, the recursion of
`heap_*_heapify` is `SiftDown`, one step per exchange. `heap_remove` of an empty
heap reads the word in front of the node array: the program ends there
(`RemoveFromEmpty`). **PriorityQueue** is a bag of keys; it includes the two
surprises that the code has and that are listed as findings, so that the
refinement says that there are no others.

**BPlusNode** has the routines that work inside nodes, without state. A leaf's
items are a sequence. An internal node's keys and disk children are one array
of words, because the code keeps no index within its part of the block: key
`MAX_KEYS` is disk child 0. **BPlusTree** is the tree on disk; a step is a whole
`bplus_tree_search_key`, `bplus_tree_insert` or `bplus_tree_delete`, the search,
the neighbours read by `bplus_tree_init_tb`, the rebalancing and the writing
back. Inside a step a *memory* record `m` passes from one routine to the next,
named after the C functions (table in `PROJECT.json`, "map"). An operation that
fails an assertion, uses a NULL pointer or does not return takes the system to
`status = "ended"`. `errno` left over from an earlier call decides what a missing
neighbour leads to, and is a choice. **OrderedSet** is what insertions and searches
promise about the keys held: a set, to which an insertion that returns `EOK` adds the
key of the call; any other call leaves it as it is. `ImplementsOrderedSet` says so of
each step by the key it was called with.

**BPlusCrash** adds crashes. An insertion or deletion that is interrupted leaves
the files as they are after some of its writes (`Interrupted`): new node files
are created first, then the root file is written if the root changes, then the
nodes, neighbours before the path and the path from the leaf up (`Elements`,
`Written`); a node that has become empty is written and then deleted. Because
nothing but the files survives and `bplus_tree_init` without `force_init` returns
at once when the directory exists, a crash and the next start are one step from
one state of the files to another. Each file is written by one `write`, taken
to happen as a whole.

**BPlusClient** is the test driver as an environment: it inserts all keys and then
deletes them, in any order, because inode numbers come in the order that the file system
likes. (The test's descending order starts with a file that was never created,
`b_plus_tree_tc.c:121`, and ends there in an assertion of the test; that call is left out.)

**BinaryTree** is what the three binary trees share: a *heap* maps the address of
each allocated node to its record, a link is an address or `NULL`, and a link to
an address that the heap does not map dangles. `Descent` is the recursion of a
search: its frames from the outermost one in, and where it stops; `Walk` is the
loop that does the same. **BST**
(`bst/bst.c`) has an action for each case of `bst_insert` and `bst_delete_node`;
`malloc` returns any free address, also one that a dangling link still names,
and a call that uses memory that is not allocated ends the program. **AVL**
(`avl_tree/avl.c`): a call descends and then works its frames from the
innermost one up (`Return`), each linking the pointer returned from below,
updating the height and balancing; the rotations set `avl_root`, as in the code.
The special left rotation is only reached for a node without a right child,
whose right child it starts from, so that it is modelled by the failure
alone.

**RBTree** (`rb_tree/`). `rb_tree_insert` descends, allocates a red node and, in
the frame that linked it, repairs: `HandleViolation1` recolours and climbs two
levels for as long as the uncle is red, `HandleViolation2` and `HandleViolation3`
rotate. A rotation at the root does not move the pointers of the root's parent
but exchanges data (`SplRightRotate`). Sides are found by comparing data, as in
`rb_tree_find_parent_rel`. `rb_tree_delete_node` unlinks and repairs nothing.

**Lists** (`sll/sll.c`, `dll/dll.c`, `scll/scll.c`). The three lists have the same
interface and differ in their pointers and in how far they walk; `kind` says which
one a behaviour uses. `WayTo` is the walk to the node before a position,
`WithoutHead`, `WithoutNext` and `WithoutTail` are the three removals.
**PositionList** is the sequence a caller addresses by positions.
**ListProblems** adds the iterative reversal and the merge sort of an sll, which
relink its nodes and must be the sequence's reversal and sort to
`PositionList`; **MiddleStack** is the stack of `stack_prob_11` on a dll, with its
pointer to the middle.

**Graph** (`graph/graph.c`) composes `Queue` and `Stack`: a traversal is a call,
then one step per operation on the queue or stack, and a return. A vertex is
marked when it is taken, not when it is put, so that the queue and the stack hold
vertices more than once. An operation of theirs that fails is an assertion that
aborts. **GraphSearch** is the textbook's breadth-first and depth-first search as
a rule for the next vertex to be printed, without queue, stack or marks.

The modules `MC...` give TLC a root module for the `.cfg` files. Most of them
choose between models that share a run: `MCQueue` the queue or the stack of
queues, `MCStacks` the array stack or one of its clients, `MCLists` a list
addressed by positions or the stack on one, `MCBalancedTrees` the AVL or the
red-black tree, `MCBPlusClient` the library's test or a client that does
anything. Operators
with `Slip` in their name are not part of any specification: each is a plausible
mistake in the definition that follows or precedes it, and is used to confirm
that a property notices it (`PROJECT.json`, "mutants").

## 3. Runs

| run | instance | shows |
|---|---|---|
| `queue` | 4 slots, 2 payloads; two queues of 3 slots as a stack | `CompactionNeverAsserts`, `DequeuedNodesKept`, `ImplementsBoundedQueue`; `QueuesImplementBoundedStack`, `PopReturns` |
| `stacks` | 4 slots, 3 payloads; inputs of up to 5 brackets, 8 parentheses, 5 of 4 numbers, expressions of up to 6 digits | `ImplementsBoundedStack`, `NodesKept`, `ReversesAndSorts`, `MinOnTop`, `AnswersRight`, `CallsReturn` |
| `heap` | 7 nodes, 3 keys | `HeapOrder`, `ImplementsPriorityQueue`, `OperationsReturn` |
| `btree_insert` | 8 keys, leaves of 2, internal nodes of 3 keys, 1 crash | `SearchFindsItems`, `TreeWhole` (`Balanced` and `NoNodeLost`), `LinksWritten`, `ImplementsOrderedSet` when keys are only inserted, in any order |
| `btree` | 7 keys, leaves of 6, 3 nodes, 1 crash; and the test with 16 keys and 10 nodes | `BalanceKept`, `OneKeyAtATime` with deletions in any order (leaves and internal nodes merge), and from a tree of three levels down |
| `btree_inserted` | 7 keys, otherwise as `btree_insert`, no crash | violation of `InsertedKeysFound` |
| `bst` | 4 keys, 4 addresses | `OneKeyAtATime` (deletions at the positions `LinkedRight` describes) |
| `bst_delete` | same | violation of `DeletionKeepsOtherKeys` |
| `balanced_trees` | 7 keys and addresses; 8 when keys are only inserted into `rb_tree` | `AvlSound`; `WellLinked` and `ValidColors` of `rb_tree`; `AvlKeepsBalance`, `OneKeyAtATime` |
| `avl_insert` | 3 keys | violation of `InsertReturnsSane` |
| `graph` | 4 vertices, queue and stack of 4 slots | `PrintsReachable`, `ImplementsGraphSearch`, `TraversalReturns` |
| `lists` | 5 nodes, 3 data, positions -1 to 6 | `WellLinked`, `ImplementsPositionList`, `MiddleKept` |

Each passing run but `btree_insert` (whose model `btree` shares) also checks
`TypeOK`. Deadlock is not an error anywhere:
a structure may be freed, the program may have ended, and a client finishes.

**Bounds.** Four queue slots let a compaction find one, several and no items in
the window, at every offset; three are enough for each of the two queues of the
stack. Four stack slots give the recursion frames at four depths, and payloads of
three integers every pattern of equal, rising and falling neighbours; inputs
are longer than the stack, so that every scan also meets a full one. Seven heap nodes (the code never uses the last) give three levels, a node
with an only child, and three keys give every pattern of equal and different
keys among a node and its children.

In the B+ tree, internal nodes hold three
keys, the least for which a split leaves a key in both halves (the code asserts
that); leaves hold two items where keys are only inserted, so that seven keys
fill a parent and split it and eight split an internal node again. Where keys are
deleted leaves hold six: a leaf is rebalanced when it holds fewer than half of them
*before* the deletion (`b_plus_tree_delete.c:30`), so that with four it would always be
empty by the time it is merged. With six a leaf merged into its left sibling brings an
item (`b_plus_tree_delete.c:110`), and a right sibling gives up to two and is marked for
deletion (`b_plus_tree_delete.c:175`). The real sizes are 128, 63 and 64. `NodeIds` bounds the node files: an insertion that needs more
nodes than there are free inode numbers is not taken (the guard marked *bound*
in `Insert`), standing for a disk that is large enough. In `btree` three node
files and seven keys allow one split and every state of two leaves under a root: merging
in both directions, with and without items, a sibling too full to merge into, giving up
the root. Sixteen keys are the fewest that grow three levels of such leaves. The test's
files get ascending or descending inode numbers, which puts the third leaf below the right
or the left internal node and so has the two merge from either side; deletions come in every
order, three keys in different leaves (`Kept`) excepted. With eight
inserted keys one can split an internal node a second time, which puts a fourth
level straight above the second (see findings): the properties name that step
(`UpToThreeLevels`), and the run goes beyond it. One crash, in an insertion or a
deletion, at any of its writes; the proofs have no bound. States that differ only in return
codes or in the contents of files that no node leads to are one (`View`).

Four nodes are the least for every case of a deletion from a search tree, the
successor two levels down included. Seven keys in the balanced trees give
four levels of AVL tree and every case of balancing at the root and below it;
eight are the least for which a repair of `rb_tree` recolours twice and then
rotates. Addresses are interchangeable: `bst` and `lists` use symmetry, and
`balanced_trees` a view that names nodes by their data; none of them checks
liveness.

A traversal of n vertices has at most (n-1)(n-2)/2 + 1 of them waiting, four
for four vertices: queue and stack of four slots are the least that are always
enough, so that `TraversalReturns` would notice one vertex too many. `MCGraph`
offers edges to and from vertices outside the matrix, an edge to itself at
vertex 0 only, and starts at vertices 0 and 2. Five list nodes have a head, a tail
and places between for every position; 6 lies beyond the end in any case, and
-1 is also what `MAX_INT` is as an int.

**Fairness.** `Heap`, `StackOfQueues`, `StackRecursion`, `StackScans` and `Graph`
assume weak fairness of the running operation's next step (stated in `FairSpec`
or `Spec` of the module, or in the `MCSpec` of its run): there is one thread, it does not block, and it does
nothing else until the operation returns. No fairness is assumed of callers.

## 4. Findings

Each with a run that ends in a counterexample:

* *Keys lost at the first split of an internal node.* The new
  leaf's key is compared with the first key of the upper half, not with the key
  that goes up (`b_plus_tree_internal.c:1509`): a new leaf that belongs between
  the two goes to the lower half, two leaves change places and their keys are not
  found, which the test asserts they are (run `btree_inserted`).
* *Deletion from the binary search tree loses keys in each of its cases*: a leaf's
  sibling, because both links of the parent are cleared (`bst.c:243`); the
  parent's other subtree, because the link is chosen by the wrong node
  (`bst.c:287`); the left subtree, because it is overwritten in place of the link
  of the successor's parent (`bst.c:340`). In the last two a link to freed memory
  stays. The tests delete from chains and from one tree whose successor is the
  right child (run `bst_delete`, which shows the first).
* *The right left case of the AVL tree* rotates the right child to the left, which
  uses a NULL pointer when that child has no right child: inserting 1, 3, 2 does
  not return (`avl.c:360`, run `avl_insert`), nor does deleting 1 from
  2(1, 4(3, -)) (`avl.c:540`).

Part of the models, and of what the passing runs' properties make an exception
for:

* *A full heap cannot be emptied.* `heap_validate_input` returns `EXFULL` when
  the heap is full and `heap_remove` calls it too (`heap.c:137`, `heap.c:489`);
  its comment speaks of "inserting data into heap" (`PriorityQueue` allows
  it).
* *An emptied heap takes the other order once.* The order is compared only while
  the heap holds keys and `heap_type` is never changed, so the call after that
  one aborts, although it has the same order (`heap.c:126-135`; allowed by
  `PriorityQueue`).
* *Keys lost by a deletion from the B+ tree.* `bplus_tree_delete_item_pos0` stores
  the new first item at the leaf's position among the keys instead of the one
  before it (`b_plus_tree_internal.c:2416`). The separator of the next leaf
  becomes too small, and at the last leaf of a full parent the key overwrites disk
  child 0 (the exception `ParentFull` in `OneKeyAtATime`).
* *A second split of an internal node makes an invalid tree.*
  `bplus_tree_flow_item_case2` gives a new root two children, the halves of the node
  that was split, whether or not that node was the root: the other children of the
  old root leave the tree, the new root's level is not one more than its children's
  (`b_plus_tree_internal.c:1110`), and from then on each insertion into a full leaf
  ends in an assertion (`UpToThreeLevels` in `NoNodeLost` and
  `ImplementsOrderedSet`; the path has no element at the level left out).
* *A link to a deleted node comes back to life.* A leaf emptied item by item (next to
  a full sibling) is deleted and its parent still leads to it. The file system hands
  out its inode number again, and the node that gets it, at whatever level, hangs
  at the old link as well (`LinkReused` in `BalanceKept` and `OneKeyAtATime`).
* *A crash can lose keys of the B+ tree* that were inserted long before: with
  the root file unchanged at most those of one leaf, which is written before the
  node that leads to its new half; once the root file names a new root that is not
  yet written (`b_plus_tree_internal.c:1113`), all of them, until the next
  insertion starts a new tree. Nothing in the repository says that the tree survives a
  crash, only that an existing one is reused (`b_plus_tree_internal.c:27`), so the
  properties say what does hold: no link to an unwritten node (`LinksWritten`), and
  operations after a crash that work on what is there
  (`SearchFindsItems`, `TreeWhole`, `ImplementsOrderedSet`, `OneKeyAtATime`).
* *Inserting a key again cuts off its subtree*, in `bst` and `avl_tree`: the `NULL`
  returned is stored as the subtree, and the assertion meant to stop it tests for
  the value it has (`bst.c:134`, `avl.c:429`; `InsertFound`, and the properties of
  insertion speak of new keys). In `rb_tree` it ends in an assertion.
* *Deletion from the red-black tree repairs no colours*; `rb_tree_fix_delete_case1`
  to `5` have no caller. Black heights differ afterwards, and from such a tree a
  deletion may take more than its key, because it drops both links of a node
  whose only child is not a leaf then (`DeleteTakesOneKey` of `RBTree` speaks of
  trees of equal black heights). The colours that `rb_tree_validate_node` asserts hold
  all the same (`ValidColors`).
* *Position 1 is position 2 in `dll` and `scll`*, whose walk tests the position
  after the step (`dll.c:272`; `exact` in `PositionList`). Removing the only node of
  a `dll` at another position than 0 frees it and returns the pointer to it
  (`dll.c:222`; the exception in `NothingLost`, a part of `WellLinked`).
* *A traversal can overflow its queue or stack of 100*: a complete graph of 16
  vertices has up to 106 waiting, and the assertion ends the program
  (`graph.c:236`, `graph.c:320`).
* *The text of `stack_prob_4` says SUCCESS for parentheses that are never closed*
  (`stack_prob_4.c:135`), and its return code is `EOK` for one closed without
  being open: only the two together tell (`AnswersRight`). `stack_prob_9`, `_12` and
  `_13` ignore overflow: the minimum stays right (`MinOnTop`), the other two
  answer right as long as the stack had room.

The data-structure findings above were reproduced by running the C code, except
for the crash; those of the last item follow from the model.

What the runs show beside them: up to the first internal split insertion into
the B+ tree is correct in every order (`SearchFindsItems`, `ImplementsOrderedSet`),
and whatever a deletion does to the keys of the parents, it never takes another key
out of the leaves (`OneKeyAtATime`) except below a full parent, and the tree
stays balanced (`BalanceKept`), also when leaves were emptied and their files
removed, as long as their inode numbers do not come back (no property covers what
happens after that). The AVL tree is a search tree with exact heights after any sequence of
calls, and stays balanced as long as no call meets the right left case;
from a balanced tree a deletion that returns takes exactly its key. Insertion of a
new key into the red-black tree returns and adds its key in any tree it can get
to, and keeps equal black heights equal. The recursions on the stack reverse and
sort although their frames point into memory that has been given back
(`NodesKept`). The binary
search tree's insertion is correct in any search tree, and its deletion at the
positions `LinkedRight` lists, which are those that the tests use.

## 5. Proofs

The proofs hold for every array size, every number of vertices and every set of
payloads or integer keys, under the assumptions named in the modules
(`QueueAssumption`, `StackAssumption`, `HeapAssumption`, `GraphAssumption`,
`ListsAssumption`, `BinaryTreeAssumption`, `BPlusNodeAssumption`,
`BPlusTreeAssumption`; TLC evaluates them in the runs).

* **QueueProofs**: `TypeOK`, which is inductive because it says more than types:
  the two indices are both -1 or delimit a window. `CompactionNeverAsserts`
  follows from it; `DequeuedNodesKept` step by step; and `ImplementsBoundedQueue`
  by showing that each action maps to one of `BoundedQueue`, with one lemma per
  action about what happens to the window's contents.
* **StackClientsProofs**, about `Stack`: the same, with `TypeOK` as the invariant.
* **HeapProofs**: `TypeOK`, and `HeapOrder`, which is not inductive: while a loop
  runs, one node is out of order. The invariant says which: during `SiftUp` only
  the pair of `index` and its parent may be out of order, and the children of
  `index` are in order with that parent; during `SiftDown` only `index` and its
  children, and these are in order with the parent of `index`. The order is
  transitive, which is all the proof uses of integers, apart from the arithmetic
  of parent and child positions (lemmas at the head of the module). And
  `ImplementsPriorityQueue` (`HeapRefinesPriorityQueue`): a step of a loop exchanges
  two nodes, a bijection of the positions that hold a key, so that the bag of keys
  stays as it is (`ExchangeKeepsBag`); insertion and removal change one count by
  one; and no key is before the root's, because the least position with such a
  key would have a parent with one.
* **GraphProofs**: `TypeOK`, and `PrintsReachable`: a traversal that returns has
  printed exactly the vertices that can be reached. The property is about the
  end of a loop, so the invariant (`Searching`) describes its middle: the start
  has been met (is printed or waits), what has been met lies in every set that
  is closed under edges and contains the start, and every edge from a visited
  vertex leads to a vertex that has been met or to a neighbour that the loop over
  the neighbours still has to put. When nothing waits, the visited vertices are
  closed themselves. Only the set of waiting vertices matters, not their order
  or number, so that one argument covers queue and stack; two lemmas per
  structure say what putting and taking do to that set, from the structure's own
  type invariant. And `ImplementsGraphSearch` (`GraphRefinesGraphSearch`), where the
  order does matter. The invariant `Orderly` is about the sequence of the waiting
  vertices: each is a neighbour of a printed one (`Parents`), each neighbour of a
  printed vertex that is not printed yet waits or is still to be put (`Complete`),
  and if the textbook prints u before w, then u waits in front of each w that waits,
  breadth first (`BreadthOrder`), or behind it, depth first (`DepthOrder`). So the vertex taken, if it has not been visited before, is the one
  the textbook prints next; that there is a least or greatest position to speak of
  needs the bound by the number of vertices.
* **StackClientsProofs**, about `StackRecursion`: `NodesKept` (`RecursionKeepsNodes`), and that
  `stack_prob_6_rev` reverses the stack (`RecursionReverses`). Neither is inductive.
  The invariant counts: items in the stack and copies held by the frames of the
  insertion are as many as the frames of the outer function have put back, so
  that the next slot to be pushed to is always below those that the outer frames
  still point at (`Frames`); and it says where each item of the original stack
  is while a reversal runs (`Reversing`). The same count shows that no push is
  refused. `RecursionReversesAndSorts` adds the sorting, for integer payloads:
  the items of the stack, followed by the copies that the frames of the insertion
  hold (`Merged`), are in order and are the first of the items the call began with,
  rearranged; and the node to be put back is not greater than any copy (`Sorting`).
  About `MinStack`: `MinOnTop` (`MinAlwaysOnTop`, for integer payloads). The
  invariant says that the two stacks have the same height, so that both take an
  item or both refuse it, and that next to each item is one that is among those
  up to it and not more than any of them. About `StackOfQueues`: it implements
  `BoundedStack` (`StackOfQueuesRefinesBoundedStack`). The lemmas of `QueueProofs`
  are used twice, once per queue. The invariant says that q2 is empty between
  operations, and that q1 is not empty within a pop, because the loop stops at its
  last item; the hypothesis `QueueSizes` is the assumption of `Queue`. That a move
  finds room in the other queue is what `PopReturns` needs, and is model-checked.
* **ListsProofs**: `TypeOK`, `WellLinked` and `ImplementsPositionList`
  (`ListsRefinePositionList`), for all three lists, whatever positions are passed
  and however many nodes there are. The model keeps pointers, not sequences. The
  invariant is that the sequence of nodes which the walk from `head` passes
  (`All`) is *linked* (`Linked`): it has every allocated node once, each leads to
  the next, the last leads to NULL or, in `scll`, to the first, and in `dll` the
  prev pointers go the other way. From it follows where a walk ends, although
  the walk is a recursive function and the circle of `scll` has no end: a walk
  passes as many nodes as it has steps, and one more, or all (`WayPasses`; the
  walk is shown to exist and to be unique by the least number of steps for which
  it would not). An operation is then what its assignments do to the fields of a
  few nodes (`SetNext`, `SetPrev`, `Allocating`, `Freeing`), and two lemmas say
  what remains to be shown of a list with one node more or less (`InsertedLinks`,
  `DeletedLinks`). `MiddleStackKnowsMiddle` adds the stack of `MiddleStack`: since it
  removes at position 0 only, `head` never dangles, and a step of the pointer along
  the linked sequence each second time is the step of half its length.
* **BSTProofs**: `TypeOK` (`BSTTypeCorrect`) and `OneKeyAtATime`
  (`BSTOneKeyAtATime`), for trees of any size and shape. The tree is nowhere in the
  state: there are addresses, and what the links reach. `Reachable` is shown to be the least
  set of allocated nodes that has the start and that no link leaves (`ReachableLeast`;
  a layer that is not closed has one node for each step, so that as many steps as
  there are nodes are enough), and everything after that argues with sets that no link
  leaves, not with paths. The invariant of the search (`Seeks`) says of the node it is at
  that all nodes above it send the key there (`Fits`), that the key is below it if it
  is anywhere, and that one node more than before is not below it, so that the bound
  on the frames is never what ends it in a search tree (`DescentFinds`). The calls are then
  three operations on search trees: a leaf is added (`LeafKeepsTree`), a node with one
  child at most is taken out (`SplicedTree`: what was reached from x is still reached,
  without that node), the data of a node are replaced (`RelabelledTree`); a
  deletion with two children is the second on the successor, then the third.
* **BalancedTreesProofs**, about `RBTree`: `TypeOK` (`RBTreeTypeCorrect`), `WellLinked`
  (`RBTreeAlwaysSound`) and `ValidColors` (`RBTreeColorsValid`), for trees of any size.
  The three together are the inductive invariant (`Safe`, `GoodIs`); none is inductive
  alone: a rotation finds the side of a node by comparing data, so that it needs the
  search order to keep the links right, and the repair finds uncle and grandparent by
  the parent pointers. What holds of every linked tree is taken from `BSTProofs`
  (`T`, an instance). A rotation moves three nodes, but changes what is reached from
  each node above; so the proof turns to a form in which only neighbours speak of each
  other (`Linked`, `Ranged`): next to each node stands the range of data its subtree
  may have, and a link halves it. That such ranges exist is the same as being a search
  tree with exact parents (`SoundRanged`, `RangedSound`), and a rotation changes the
  ranges of two nodes. In the middle of an insertion the colours are right but for one
  node; each Violation 1 moves that node up two levels and leaves fewer red nodes than
  before, so that the bound on its repetitions is never what ends the repair, and the
  last rotation leaves no red pair. Deletion takes nodes out of a tree without changing
  colours, links of others or parents, and a part of a valid tree below its root is one.
  About `AVL`: `AvlSound` (`AvlAlwaysSound`), that `avl_root` leads to a search tree with
  exact heights, and that it does in a program that uses either tree
  (`TreesAlwaysSound`). Between calls the invariant is `Whole`; `TypeOK`
  bounds a height by the number of nodes, which follows from the heights being exact
  (`HeightCounts`). Within a call the heap is not a tree yet: a rotation has moved its node
  down and only the frame above knows. So the proof follows the frames back. With
  the pointer that was returned put where frame j will store it (`Hung`), the heap is a
  search tree whose heights are exact but for the nodes of the first j frames
  (`Pending`), and these frames are still a way down from the root (`Chain`). A frame
  that stores the pointer and updates its height makes its own node exact (`LinkedStands`),
  balancing leaves the same for the frame above or fails (`Rebalanced`, whichever
  rotations are chosen, so that it does not matter that the right left case takes the
  wrong one), and a call ends with no frame left (`ReturnSettles`). That a rotation keeps
  the tree is taken from `rb_tree`: with the parents that its links determine
  (`Origin`), a tree of `AVL` is one of `RBTree` (`Shadow`). What starts the way back is a new node
  (`NewNodeReturns`), the `NULL` of a key that is there or is not (`NullReturns`), or a
  deletion (`DeleteHereSettles`), with the data of the successor above its node or not (`Doubled`).

* **BPlusProofs**, about insertion into the B+ tree with crashes (`InsertCrashSpec`):
  `TypeOK` (`InsertTypeOK`), `LinksWritten` (`InsertLinksWritten`), `TreeWhole`
  (`InsertTreeWhole`), `SearchFindsItems` (`InsertSearchFindsItems`) and
  `ImplementsOrderedSet` (`InsertImplementsOrderedSet`), for any
  number of keys, node files and crashes, and nodes of any size that the code allows
  (`BPlusNodeAssumption`: halves of a leaf are equal, a full internal node has a key
  in the middle). The inductive invariant (`TreeSound`) is about every node file, in the
  tree or not, because a path or neighbour may come from what a crash left: each is a node
  that the code can read (`NodeOK`: an internal node has one disk child more than keys, keys
  and disk children stay in their parts of the block and nothing is behind the last) and
  leads to written nodes of the level below, with the one level skipped that the second
  split of an internal node skips (`Below`); no node is lost, `NoNodeLost`; and a tree of up to
  two levels is in order (`Sorted`). A step is a
  whole insertion, so the proof follows it. A search ends in a leaf, after
  one node per level, and what it has kept are the nodes on disk, each hanging at the one
  above (`SearchLands`, `PathOK`; that the loop of `bin_search` stays in the node is
  `BinSearchIn`); neighbours are nodes on disk at their level (`TbRead`). Then four cases, a
  leaf with room (`KeyTaken`), a leaf that is the root (`RootSplits`), a parent with room
  (`ParentTakes`) and a full one (`ParentSplits`, with the two loops of
  `bplus_tree_flow_item_case2` as runs of moves: `KeysFlowTo`, `DcsFlowTo`). Each shows
  three things of what is in memory before it is written. It can be written (`Ready`): each
  element leads to nodes on disk or to elements written before it. The tree gets
  the new nodes and loses none (`IsReach`: the least set with the root that links do not
  leave). And one leaf and the new ones hold the old items and the key (`GrowsAt`). From
  `Ready` follows what crashes need: after each single write the files are sound, since a
  node's children are written before it and a node overwritten keeps its level (`Midway`,
  `MidwayStep`), and after the last they are the intended ones (`ReadyFlushed`). Why the
  split of a full parent is sound although it may put the new leaf into the wrong half: it loses no
  disk child and no level, only the order of keys. `ImplementsOrderedSet` is about the key of
  the call, so it follows from what an insertion of that key does (`InsertIs`): it answers, ends,
  or leaves `Items \cup {key}` in the tree.

  `SearchFindsItems` needs the order as well. `Sorted` says of the root that the items of a
  leaf ascend, and of an internal root that its keys do and that each leaf's items
  lie between the keys on both sides of it (`InOrder`, `Within`). That it holds after each
  case is part of what the four cases prove (`Orders`), as long as the tree has two levels:
  a leaf's new item belongs between its keys because the search descended there
  (`SearchAims`, `Belongs`, `LeafTakes`), the two halves of a leaf lie on both sides of the key that goes
  up, and shifting keys and disk children by one keeps every other leaf between its keys
  (`ParentTakes`). It holds after each single write, too (`WritesInOrder`, `OrdersFrom`): before the
  parent is written, half of a full leaf's items may be gone, but none is out of order. In such a
  tree at most one leaf can hold a key, and it is the one `bin_search` leads to (`SearchFinds`).
  With three levels the order is lost by the wrong half (run `btree_inserted`), so that
  `Sorted` says nothing about them.

Induction over positions, where a proof needs one, takes the least natural number
of a set (`LeastNatural`): the library's induction theorems take an operator as a
parameter, which the provers cannot instantiate.

Model-checked only: liveness (out of the prover's reach); deletion from the B+ tree
(`BalanceKept`, `OneKeyAtATime`);
that `avl_tree` stays balanced where it does (`AvlKeepsBalance`), and `OneKeyAtATime` of
the two balanced trees, which is about heights and black heights; the reversal and the
merge sort in `ListProblems`, and the scans, which are recursive operators.

## 6. Plan

1. Proofs: that `rb_tree_insert` and `avl_insert` add their key; that `avl_insert` keeps
   the balance; that deletion from the B+ tree keeps `TypeOK`.
2. A crash within the first `bplus_tree_init`, which writes the root file before
   the root node.
3. `trie` without deletion: insertion and prefix search as a set of strings.

## 7. Not modelled

* `queue_list`, `stack_list`, `heap_print_heap`, the traversals of the trees and
  other printing.
* Memory exhaustion: `malloc` is not checked by most structures and asserted by the B+ tree.
* Contents of payloads beyond equality and order; block-head `free_space`, which
  follows from the number of items; paths and names of node files, which an inode
  number stands for.
* In the B+ tree: `bplus_tree_deinit` (removes the directory), a crash within the
  first `bplus_tree_init`, a write that is torn.
* `trie`: `trie_delete`, called with the key's `strlen` as its test does, indexes the
  array of children with `'\0' - 'a'`, 97 pointers in front of it, for every key. What
  it does is undefined, and insertion and search alone are one loop each over an
  array of pointers.
* `stack_prob_1` (reverses one string), `stack_prob_5` and `_8` (the next greater
  item and the spans of one literal array); `sll_prob_1_rev_recur`, whose recursive
  case has no return statement, so that what its caller gets is undefined;
  `dll_prob_1`, which flattens one search tree with literal keys.
* The test programs, whose fixed sequences of calls the models cover by any
  sequence, the stand-alone examples in `miscellaneous/` and the build script.
