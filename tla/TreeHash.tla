------------------------------ MODULE TreeHash ------------------------------
(* The stack-based tree hash of SLH-DSA, xmssNodeIter and forsNodeIter, and *)
(* the three callers that run it: key generation (one root), xmssSign (an   *)
(* authentication path) and forsSign (an authentication path in each of k   *)
(* trees). Both functions have the same loop; what a leaf is made of and the *)
(* other fields of the address are in SlhDsa.                               *)
(*                                                                          *)
(* In the code a node is not a value but a slice of the output buffer of the *)
(* hash that made it: T or F for a leaf, H for an inner node. The buffers are *)
(* overwritten by the next call; the stack keeps copies, in memory that is  *)
(* as large as NewStack made it.                                            *)
EXTENDS Integers, Sequences

CONSTANTS Height,          \* hPrime, or a: the height of a tree
          Trees,           \* 1, or k: the number of trees
          Leaf(_),         \* the leaf with a given index
          Parent(_, _, _, _), \* H under a given height, index and children
          Node(_, _)       \* the node of a given height and index

\* Two to the power of n, a function for the sake of SchemesProofs.
two[n \in Nat] == IF n = 0 THEN 1 ELSE 2 * two[n - 1]

(* What a node is: Algorithms 9 and 15 of FIPS 205, as in the recursive     *)
(* functions of xmss_test.go and fors_test.go.                              *)
NodeAssumption ==
  /\ Height \in Nat \ {0, 1} /\ Trees \in Nat \ {0}
  /\ \A i \in 0 .. Trees * two[Height] - 1 : Node(0, i) = Leaf(i)
  /\ \A z \in 1 .. Height : \A i \in 0 .. Trees * two[Height - z] - 1 :
       Node(z, i) = Parent(z, i, Node(z - 1, 2 * i), Node(z - 1, 2 * i + 1))

VARIABLES todo,     \* the calls of the tree hash that the caller still makes
          call,     \* [i, z] of the call in progress, or None
          leaves,   \* k: leaves done so far in this call
          node,     \* the buffer that node refers to, "leaf", "H" or "none"
          li, lz,   \* index and height of node
          out,      \* the output buffers of T or F, and of H
          stack,    \* [node, z] with copied nodes
          cap,      \* the capacity of stack
          root      \* the last call finished and what it copied to root, or None

vars == <<todo, call, leaves, node, li, lz, out, stack, cap, root>>

None == [none |-> TRUE]

Init ==
  /\ todo = <<>> /\ call = None /\ leaves = 0 /\ node = "none" /\ li = 0 /\ lz = 0
  /\ out = [leaf |-> None, H |-> None] /\ stack = <<>> /\ cap = 0 /\ root = None

Idle == call = None /\ todo = <<>>

\* slhKeyGenInternal: the root of the one tree, with a stack of hPrime.
KeyGen ==
  /\ Idle
  /\ todo' = <<[i |-> 0, z |-> Height]>> /\ cap' = Height
  /\ UNCHANGED <<call, leaves, node, li, lz, out, stack, root>>

Sibling(x) == IF x % 2 = 0 THEN x + 1 ELSE x - 1   \* x ^ 1

(* xmssSign and forsSign: for each level j, the sibling of the node above   *)
(* leaf idx of tree t, with one stack of Height - 1 for all of them.        *)
SignPath(t, idx) ==
  /\ Idle
  /\ todo' = [j \in 1 .. Height |->
                [i |-> t * two[Height - (j - 1)] + Sibling(idx \div two[j - 1]),
                 z |-> j - 1]]
  /\ cap' = Height - 1
  /\ UNCHANGED <<call, leaves, node, li, lz, out, stack, root>>

\* xmssNodeIter and forsNodeIter are entered.
Enter ==
  /\ call = None /\ todo # <<>>
  /\ call' = Head(todo) /\ todo' = Tail(todo) /\ leaves' = 0 /\ node' = "none"
  /\ UNCHANGED <<li, lz, out, stack, cap, root>>

\* The next leaf is computed: node refers to the output of T or F.
NextLeaf ==
  /\ call # None /\ node = "none" /\ leaves < two[call.z]
  /\ li' = call.i * two[call.z] + leaves /\ lz' = 0
  /\ out' = [out EXCEPT !.leaf = Leaf(li')] /\ node' = "leaf"
  /\ UNCHANGED <<todo, call, leaves, stack, cap, root>>

Top == stack[Len(stack)]
BugMayMerge == stack # <<>> /\ Top.z > lz   \* slip: unequal nodes
MayMerge == stack # <<>> /\ Top.z = lz

BugMerge ==   \* slip: the node that was pushed is taken for the right child
  /\ node # "none" /\ MayMerge
  /\ li' = (li - 1) \div 2 /\ lz' = lz + 1
  /\ out' = [out EXCEPT !.H = Parent(lz', li', out[node], Top.node)]
  /\ node' = "H" /\ stack' = SubSeq(stack, 1, Len(stack) - 1)
  /\ UNCHANGED <<todo, call, leaves, cap, root>>

(* One turn of the inner loop: the top of the stack and node, copied to the *)
(* input of H, become their parent in the output of H.                      *)
Merge ==
  /\ node # "none" /\ MayMerge
  /\ li' = (li - 1) \div 2 /\ lz' = lz + 1
  /\ out' = [out EXCEPT !.H = Parent(lz', li', Top.node, out[node])]
  /\ node' = "H" /\ stack' = SubSeq(stack, 1, Len(stack) - 1)
  /\ UNCHANGED <<todo, call, leaves, cap, root>>

\* The end of the inner loop: push copies node.
Push ==
  /\ node # "none" /\ ~MayMerge
  /\ stack' = Append(stack, [node |-> out[node], z |-> lz])
  /\ node' = "none" /\ leaves' = leaves + 1
  /\ UNCHANGED <<todo, call, li, lz, out, cap, root>>

\* The end of the outer loop: the last node is copied to root.
Return ==
  /\ call # None /\ node = "none" /\ leaves = two[call.z]
  /\ root' = [i |-> call.i, z |-> call.z, node |-> Top.node]
  /\ stack' = SubSeq(stack, 1, Len(stack) - 1) /\ call' = None
  /\ UNCHANGED <<todo, leaves, node, li, lz, out, cap>>

Next ==
  \/ KeyGen
  \/ \E t \in 0 .. Trees - 1, idx \in 0 .. two[Height] - 1 : SignPath(t, idx)
  \/ Enter \/ NextLeaf \/ Merge \/ Push \/ Return

Spec == Init /\ [][Next]_vars

-----------------------------------------------------------------------------
(* No call panics: the tree exists (the check at the head of both functions) *)
(* and the stack never holds more than it was made for, though NewStack     *)
(* allows one node less than the height when signing, and the stack is      *)
(* empty when a call returns, for the next call is made with it.            *)
NoPanic ==
  /\ call # None => call.z <= Height /\ call.i < Trees * two[Height - call.z]
  /\ call # None => Len(stack) <= cap
  /\ call = None => stack = <<>>

(* What the tree hash returns is the node of the tree: the order of the      *)
(* leaves, the indices under which nodes are hashed, and the buffers that   *)
(* all calls share never mix two nodes up.                                  *)
RootIsNode == root # None => root.node = Node(root.z, root.i)

\* Both, what the runs check and SchemesProofs proves.
TreeHashExact == NoPanic /\ RootIsNode
=============================================================================
