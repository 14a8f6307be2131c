---------------------------- MODULE SchemesProofs ----------------------------
(* Of seven parts that one run checks, for every value of their constants:  *)
(* the tree hash of SLH-DSA and its signatures, the signatures of ML-DSA,   *)
(* the key objects of ML-KEM, the simplest oblivious transfer, secret       *)
(* sharing, and oblivious functions.                                        *)
EXTENDS SlhDsa, MlDsa, MlKem, SimOt, SecretSharing, Oprf, NumberLemmas, FiniteSetTheorems

-----------------------------------------------------------------------------
(***************************************************************************)
(* TreeHash. The nodes on the stack cover, one after the other, the leaves *)
(* that were done, and their heights decrease strictly. So two nodes of    *)
(* one height at the top are siblings, the left one with an even index,    *)
(* and when the leaves of the call are all done one node is left.          *)
(***************************************************************************)

(* Powers of two *)

LEMMA TwoRecursion == /\ two \in [Nat -> Nat] /\ two[0] = 1
                      /\ \A n \in Nat : two[n + 1] = 2 * two[n]
<1> DEFINE Double == [x \in Nat \X Nat |-> 2 * x[2]]
           Body(f) == [n \in Nat |-> IF n = 0 THEN 1 ELSE 2 * f[n - 1]]
<1>1. Double \in [Nat \X Nat -> Nat]
  OBVIOUS
<1>2. PICK f \in [Nat -> Nat] : IsRecursive(f, 1, Double)
  <2> HIDE DEF Double
  <2>1. QED
    BY <1>1, Recursion
<1>3. f[0] = 1 /\ \A k \in Nat : f[k + 1] = 2 * f[k]
  BY <1>2 DEF IsRecursive
<1>4. ASSUME NEW n \in Nat PROVE f[n] = (IF n = 0 THEN 1 ELSE 2 * f[n - 1])
  <2>1. CASE n = 0
    BY <1>3, <2>1
  <2>2. CASE n # 0
    <3>1. n - 1 \in Nat /\ (n - 1) + 1 = n
      BY <2>2
    <3>2. QED
      BY <1>3, <2>2, <3>1
  <2>3. QED
    BY <2>1, <2>2
<1>5. f = Body(f)
  BY <1>4
<1>6. two = CHOOSE g : g = Body(g)
  BY DEF two
<1> HIDE DEF Body
<1>7. two = Body(two)
  BY <1>5, <1>6
<1>8. \A n \in Nat : two[n] = IF n = 0 THEN 1 ELSE 2 * two[n - 1]
  BY <1>7 DEF Body
<1>9. two[0] = 1
  BY <1>8
<1>10. ASSUME NEW n \in Nat PROVE two[n + 1] = 2 * two[n]
  <2>1. n + 1 \in Nat /\ n + 1 # 0 /\ (n + 1) - 1 = n
    OBVIOUS
  <2>2. QED
    BY <1>8, <2>1
<1>11. two \in [Nat -> Nat]
  <2> DEFINE S == {n \in Nat : two[n] \in Nat}
  <2>1. 0 \in S
    BY <1>9
  <2>2. \A n \in Nat : n \in S => n + 1 \in S
    BY <1>10
  <2> HIDE DEF S
  <2>3. Nat \subseteq S
    BY <2>1, <2>2, Induction
  <2>4. \A n \in Nat : two[n] \in Nat
    BY <2>3 DEF S
  <2>5. two = [n \in Nat |-> two[n]]
    BY <1>7 DEF Body
  <2>6. QED
    BY <2>4, <2>5
<1>12. QED
  BY <1>9, <1>10, <1>11

LEMMA TwoPositive == ASSUME NEW n \in Nat PROVE two[n] \in Nat /\ two[n] >= 1
<1> DEFINE S == {k \in Nat : two[k] \in Nat /\ two[k] >= 1}
<1>1. 0 \in S
  BY TwoRecursion
<1>2. ASSUME NEW k \in Nat, k \in S PROVE k + 1 \in S
  <2>1. two[k + 1] = 2 * two[k]
    BY TwoRecursion
  <2>2. QED
    BY <1>2, <2>1
<1> HIDE DEF S
<1>3. n \in S
  BY <1>1, <1>2, Induction
<1>4. QED
  BY <1>3 DEF S

\* The law of exponents.
LEMMA TwoSum == ASSUME NEW a \in Nat, NEW b \in Nat PROVE two[a + b] = two[a] * two[b]
<1> DEFINE S == {k \in Nat : two[a + k] = two[a] * two[k]}
<1>1. 0 \in S
  BY TwoRecursion, TwoPositive
<1>2. ASSUME NEW k \in Nat, k \in S PROVE k + 1 \in S
  <2>1. two[k + 1] = 2 * two[k] /\ two[(a + k) + 1] = 2 * two[a + k] /\ a + (k + 1) = (a + k) + 1
    BY TwoRecursion
  <2>2. two[a] \in Nat /\ two[k] \in Nat
    BY TwoPositive
  <2>3. two[a] * (2 * two[k]) = 2 * (two[a] * two[k])
    BY <2>2
  <2>4. QED
    BY <1>2, <2>1, <2>3
<1> HIDE DEF S
<1>3. b \in S
  BY <1>1, <1>2, Induction
<1>4. QED
  BY <1>3 DEF S

\* A greater power is an even multiple of a smaller one.
LEMMA TwoMultiple ==
  ASSUME NEW a \in Nat, NEW b \in Nat, a < b
  PROVE  \E d \in Nat : d >= 1 /\ two[b] = 2 * d * two[a]
<1>1. b - a - 1 \in Nat /\ a + ((b - a - 1) + 1) = b
  OBVIOUS
<1> DEFINE d == two[b - a - 1]
<1>2. d \in Nat /\ d >= 1 /\ two[a] \in Nat
  BY <1>1, TwoPositive
<1>3. two[(b - a - 1) + 1] = 2 * d
  BY <1>1, TwoRecursion
<1>4. two[b] = two[a] * (2 * d)
  BY <1>1, <1>3, TwoSum
<1> HIDE DEF d
<1>5. two[b] = 2 * d * two[a]
  BY <1>2, <1>4
<1>6. QED
  BY <1>2, <1>5

LEMMA TwoMonotone ==
  ASSUME NEW a \in Nat, NEW b \in Nat, two[a] <= two[b]
  PROVE  a <= b
<1> SUFFICES ASSUME b < a PROVE FALSE
  OBVIOUS
<1>1. PICK d \in Nat : d >= 1 /\ two[a] = 2 * d * two[b]
  BY TwoMultiple
<1>2. two[b] \in Nat /\ two[b] >= 1
  BY TwoPositive
<1>3. d * two[b] >= two[b]
  BY <1>1, <1>2
<1>4. QED
  BY <1>1, <1>2, <1>3

\* A product with a power of two is cancelled.
LEMMA TwoCancel ==
  ASSUME NEW a \in Nat, NEW x \in Int, NEW y \in Int
  PROVE  /\ x * two[a] = y * two[a] => x = y
         /\ x * two[a] <= y * two[a] => x <= y
<1> DEFINE p == two[a]
<1>1. p \in Nat /\ p >= 1
  BY TwoPositive
<1> HIDE DEF p
<1>2. x * p <= y * p => x <= y
  <2> SUFFICES ASSUME x > y PROVE x * p > y * p
    BY <1>1
  <2>1. (x - y) * p >= p
    BY <1>1
  <2>2. QED
    BY <1>1, <2>1
<1>3. x * p = y * p => x = y
  <2> SUFFICES ASSUME x * p = y * p PROVE x = y
    OBVIOUS
  <2>1. (x - y) * p = 0
    BY <1>1
  <2>2. x - y = 0
    BY <1>1, <2>1
  <2>3. QED
    BY <2>2
<1>4. QED
  BY <1>2, <1>3 DEF p
-----------------------------------------------------------------------------
(* The inductive invariant *)

\* A call for a node of the tree, with a stack of a capacity that is enough.
Task == [i : Nat, z : Nat]
Valid(c, room) ==
  /\ c \in Task /\ c.z <= Height /\ c.i + 1 <= Trees * two[Height - c.z]
  /\ c.z <= room /\ 1 <= room

StackNode == {[node |-> Node(z, i), z |-> z] : z \in Nat, i \in Nat}

\* The first leaf of the call, and the leaf after node n of the stack.
Base == call.i * two[call.z]
End(ix, n) == IF n = 0 THEN Base ELSE (ix[n] + 1) * two[stack[n].z]

\* The nodes on the stack have the indices ix, and cover the leaves from Base on.
Covers(ix) ==
  /\ ix \in [1 .. Len(stack) -> Nat]
  /\ \A n \in 1 .. Len(stack) : /\ stack[n].node = Node(stack[n].z, ix[n])
                                /\ ix[n] * two[stack[n].z] = End(ix, n - 1)
  /\ \A n \in 1 .. Len(stack) : \A m \in 1 .. n - 1 : stack[n].z < stack[m].z

\* Each node of the stack leaves room for as many below it as its height.
Short == \A n \in 1 .. Len(stack) : stack[n].z + n <= call.z

\* Between two leaves.
Between(ix) ==
  /\ node = "none"
  /\ End(ix, Len(stack)) = Base + leaves
  /\ leaves < two[call.z] => Short
  /\ leaves = two[call.z] => Len(stack) = 1 /\ stack[1].z = call.z

\* While a leaf is worked in: the node goes on where the stack ends.
Within(ix) ==
  /\ node \in {"leaf", "H"} /\ out[node] = Node(lz, li)
  /\ lz \in Nat /\ li \in Nat /\ leaves < two[call.z]
  /\ li * two[lz] = End(ix, Len(stack))
  /\ (li + 1) * two[lz] = Base + leaves + 1
  /\ Short /\ \A n \in 1 .. Len(stack) : lz <= stack[n].z

InCall ==
  call # None => /\ Valid(call, cap) /\ leaves \in Nat /\ leaves <= two[call.z]
                 /\ \E ix : Covers(ix) /\ (Between(ix) \/ Within(ix))

Shape ==
  /\ todo \in Seq(Task) /\ cap \in Nat
  /\ \A n \in 1 .. Len(todo) : Valid(todo[n], cap)
  /\ stack \in Seq(StackNode)
  /\ \E a, b : out = [leaf |-> a, H |-> b]
  /\ call = None => stack = <<>> /\ node = "none"

TreeInv == Shape /\ InCall /\ RootIsNode

\* What the proofs use of the constants.
LEMMA Constants ==
  ASSUME NodeAssumption
  PROVE  /\ Height \in Nat /\ Height >= 2 /\ Trees \in Nat /\ Trees >= 1
         /\ \A i \in Nat : i + 1 <= Trees * two[Height] => Node(0, i) = Leaf(i)
         /\ \A z \in Nat, i \in Nat :
              z + 1 <= Height /\ i + 1 <= Trees * two[Height - (z + 1)] =>
                Node(z + 1, i) = Parent(z + 1, i, Node(z, 2 * i), Node(z, 2 * i + 1))
<1>1. Height \in Nat /\ Height >= 2 /\ Trees \in Nat /\ Trees >= 1
  BY DEF NodeAssumption
<1>2. ASSUME NEW i \in Nat, i + 1 <= Trees * two[Height] PROVE Node(0, i) = Leaf(i)
  <2>1. two[Height] \in Nat
    BY <1>1, TwoPositive
  <2>2. Trees * two[Height] \in Nat
    BY <1>1, <2>1
  <2>3. i \in 0 .. Trees * two[Height] - 1
    BY <1>2, <2>2
  <2>4. QED
    BY <2>3 DEF NodeAssumption
<1>3. ASSUME NEW z \in Nat, NEW i \in Nat, z + 1 <= Height, i + 1 <= Trees * two[Height - (z + 1)]
      PROVE  Node(z + 1, i) = Parent(z + 1, i, Node(z, 2 * i), Node(z, 2 * i + 1))
  <2> DEFINE y == z + 1
  <2>1. y \in 1 .. Height /\ Height - y \in Nat /\ y - 1 = z
    BY <1>1, <1>3
  <2> HIDE DEF y
  <2>2. two[Height - y] \in Nat
    BY <2>1, TwoPositive
  <2>3. Trees * two[Height - y] \in Nat
    BY <1>1, <2>2
  <2>4. i \in 0 .. Trees * two[Height - y] - 1
    BY <1>3, <2>3 DEF y
  <2>5. Node(y, i) = Parent(y, i, Node(y - 1, 2 * i), Node(y - 1, 2 * i + 1))
    BY <2>1, <2>4, Zenon DEF NodeAssumption
  <2>6. QED
    BY <2>1, <2>5 DEF y
<1>4. QED
  BY <1>1, <1>2, <1>3

\* A position up to the end of a valid call lies in the trees: the node of height
\* z that ends there is one of the nodes of that height.
LEMMA InTrees ==
  ASSUME NodeAssumption, NEW c, NEW room, Valid(c, room), NEW z \in Nat, NEW i \in Nat,
         (i + 1) * two[z] <= (c.i + 1) * two[c.z], z <= c.z
  PROVE  i + 1 <= Trees * two[Height - z]
<1>1. /\ c.i \in Nat /\ c.z \in Nat /\ c.z <= Height /\ c.i + 1 <= Trees * two[Height - c.z]
      /\ Height \in Nat /\ Trees \in Nat
  BY Constants DEF Valid, Task
<1>2. Height - z \in Nat /\ Height - c.z \in Nat /\ (Height - c.z) + c.z = Height /\ (Height - z) + z = Height
  BY <1>1
<1> DEFINE H == two[Height]
           p == two[c.z]
           q == two[Height - c.z]
           u == two[Height - z]
           v == two[z]
<1>3. H \in Nat /\ p \in Nat /\ q \in Nat /\ u \in Nat /\ v \in Nat
  BY <1>1, <1>2, TwoPositive
<1>4. H = q * p /\ H = u * v
  <2>1. two[(Height - c.z) + c.z] = q * p
    BY <1>1, <1>2, TwoSum
  <2>2. two[(Height - z) + z] = u * v
    BY <1>2, TwoSum
  <2>3. QED
    BY <1>2, <2>1, <2>2
<1> HIDE DEF H, p, q, u
<1>5. (c.i + 1) * p <= (Trees * q) * p
  <2> DEFINE a == c.i + 1
             b == Trees * q
  <2>1. a \in Nat /\ b \in Nat /\ a <= b
    BY <1>1, <1>3 DEF q
  <2> HIDE DEF a, b
  <2>2. a * p <= b * p
    BY <1>3, <2>1
  <2>3. QED
    BY <2>2 DEF a, b
<1>6. (Trees * q) * p = (Trees * u) * v
  <2>1. (Trees * q) * p = Trees * (q * p) /\ (Trees * u) * v = Trees * (u * v)
    BY <1>1, <1>3
  <2>2. QED
    BY <1>4, <2>1
<1>7. (i + 1) * v <= (Trees * u) * v
  <2>1. (i + 1) * v \in Nat /\ (c.i + 1) * p \in Nat /\ (Trees * q) * p \in Nat
    BY <1>1, <1>3
  <2>2. QED
    BY <1>5, <1>6, <2>1 DEF p, v
<1>8. Trees * u \in Int /\ i + 1 \in Int
  BY <1>1, <1>3
<1>9. QED
  BY <1>7, <1>8, TwoCancel DEF u, v

\* Both children of an inner node end where it ends, in the trees.
LEMMA Ends ==
  ASSUME NEW c, NEW room, Valid(c, room), NEW k \in Nat, k + 1 <= two[c.z],
         NEW e, e = c.i * two[c.z] + k + 1
  PROVE  e <= (c.i + 1) * two[c.z]
<1>1. c.i \in Nat /\ c.z \in Nat
  BY DEF Valid, Task
<1> DEFINE p == two[c.z]
           j == c.i
<1>2. p \in Nat /\ j \in Nat
  BY <1>1, TwoPositive
<1> HIDE DEF p, j
<1>3. (j + 1) * p = j * p + p
  BY <1>2
<1>4. j * p \in Nat
  BY <1>2
<1>5. e = j * p + k + 1 /\ k + 1 <= p
  BY DEF p, j
<1>6. e <= (j + 1) * p
  BY <1>2, <1>3, <1>4, <1>5
<1>7. QED
  BY <1>6 DEF p, j

LEMMA Stack ==
  ASSUME Shape
  PROVE  Len(stack) \in Nat /\ \A n \in 1 .. Len(stack) : stack[n].z \in Nat
BY DEF Shape, StackNode

-----------------------------------------------------------------------------
(* The steps *)

LEMMA TreeInit == Init => TreeInv
<1> SUFFICES ASSUME Init PROVE TreeInv
  OBVIOUS
<1>1. Shape
  <2>1. \E a, b : out = [leaf |-> a, H |-> b]
    BY Zenon DEF Init
  <2>2. todo = <<>> /\ stack = <<>> /\ cap \in Nat /\ node = "none"
    BY DEF Init
  <2>3. todo \in Seq(Task) /\ stack \in Seq(StackNode) /\ \A n \in 1 .. Len(todo) : Valid(todo[n], cap)
    BY <2>2
  <2>4. QED
    BY <2>1, <2>2, <2>3, Zenon DEF Shape
<1>2. InCall /\ RootIsNode
  BY DEF Init, InCall, RootIsNode
<1>3. QED
  BY <1>1, <1>2 DEF TreeInv

LEMMA TreeKeyGen == ASSUME NodeAssumption, TreeInv, KeyGen PROVE TreeInv'
<1>1. Height \in Nat /\ Height >= 2 /\ Trees \in Nat /\ Trees >= 1
  BY Constants
<1>2. Valid([i |-> 0, z |-> Height], Height)
  <2>1. Trees * two[Height - Height] = Trees
    BY <1>1, TwoRecursion
  <2>2. QED
    BY <1>1, <2>1 DEF Valid, Task
<1>3. Shape'
  <2>1. todo' = <<[i |-> 0, z |-> Height]>> /\ cap' = Height
    BY DEF KeyGen
  <2>2. todo' \in Seq(Task) /\ cap' \in Nat /\ \A n \in 1 .. Len(todo') : Valid(todo'[n], cap')
    BY <1>1, <1>2, <2>1 DEF Task
  <2>3. QED
    BY <2>2 DEF KeyGen, TreeInv, Shape
<1>4. InCall' /\ RootIsNode'
  BY DEF KeyGen, Idle, InCall, TreeInv, RootIsNode
<1>5. QED
  BY <1>3, <1>4 DEF TreeInv

\* The sibling of one of an even number of nodes is one of them.
LEMMA SiblingInside ==
  ASSUME NEW w \in Nat, NEW x \in Nat, x < 2 * w
  PROVE  Sibling(x) \in Nat /\ Sibling(x) + 1 <= 2 * w
BY DEF Sibling

\* Each call for a node of the authentication path is valid.
LEMMA PathValid ==
  ASSUME NodeAssumption, NEW t \in 0 .. Trees - 1, NEW idx \in 0 .. two[Height] - 1,
         NEW z \in Nat, z < Height
  PROVE  Valid([i |-> t * two[Height - z] + Sibling(idx \div two[z]), z |-> z], Height - 1)
<1>1. Height \in Nat /\ Height >= 2 /\ Trees \in Nat /\ Trees >= 1
  BY Constants
<1>2. Height - z - 1 \in Nat /\ Height - z \in Nat /\ (Height - z - 1) + 1 = Height - z
      /\ z + (Height - z) = Height
  BY <1>1
<1> DEFINE w == two[Height - z - 1]
           u == two[Height - z]
           v == two[z]
           H == two[Height]
           x == idx \div v
           s == Sibling(x)
<1>3. w \in Nat /\ u \in Nat /\ v \in Nat /\ v >= 1 /\ H \in Nat /\ t \in Nat /\ t + 1 <= Trees
  BY <1>1, <1>2, TwoPositive
<1>4. u = 2 * w
  BY <1>2, TwoRecursion
<1>5. H = v * u
  BY <1>2, TwoSum
<1>6. idx \in Nat /\ idx < H
  BY <1>3
<1> HIDE DEF w, u, v, H
<1>7. x \in Nat /\ x * v <= idx
  BY <1>3, <1>6
<1>8. x < u
  <2> SUFFICES ASSUME x >= u PROVE FALSE
    BY <1>3, <1>7
  <2> HIDE DEF x
  <2>1. x * v >= u * v
    BY <1>3, <1>7
  <2>2. QED
    BY <1>3, <1>5, <1>6, <1>7, <2>1
<1> HIDE DEF x
<1>9. s \in Nat /\ s + 1 <= u
  BY <1>3, <1>4, <1>7, <1>8, SiblingInside
<1> HIDE DEF s
<1>10. t * u + s + 1 <= Trees * u /\ t * u \in Nat
  <2>1. t * u + u = (t + 1) * u /\ (t + 1) * u <= Trees * u /\ t * u \in Nat /\ Trees * u \in Nat
    BY <1>1, <1>3
  <2>2. QED
    BY <1>3, <1>9, <2>1
<1>11. Valid([i |-> t * u + s, z |-> z], Height - 1)
  BY <1>1, <1>9, <1>10 DEF Valid, Task, u
<1>12. QED
  BY <1>11 DEF u, s, x, v

LEMMA TreeSignPath ==
  ASSUME NodeAssumption, TreeInv, NEW t \in 0 .. Trees - 1, NEW idx \in 0 .. two[Height] - 1,
         SignPath(t, idx)
  PROVE  TreeInv'
<1>1. Height \in Nat /\ Height >= 2
  BY Constants
<1> DEFINE C(z) == [i |-> t * two[Height - z] + Sibling(idx \div two[z]), z |-> z]
<1>2. \A j \in 1 .. Height : Valid(C(j - 1), Height - 1)
  <2> TAKE j \in 1 .. Height
  <2>1. j - 1 \in Nat /\ j - 1 < Height
    BY <1>1
  <2>2. QED
    BY <2>1, PathValid
<1>3. todo' = [j \in 1 .. Height |-> C(j - 1)] /\ cap' = Height - 1
  BY DEF SignPath
<1>4. todo' \in Seq(Task) /\ \A n \in 1 .. Len(todo') : Valid(todo'[n], cap')
  <2>1. \A j \in 1 .. Height : C(j - 1) \in Task
    BY <1>2 DEF Valid
  <2> HIDE DEF C
  <2>2. todo' \in [1 .. Height -> Task]
    BY <1>3, <2>1
  <2>3. todo' \in Seq(Task) /\ Len(todo') = Height
    BY <1>1, <2>2
  <2>4. QED
    BY <1>2, <1>3, <2>3
<1>5. Shape'
  <2>1. cap' \in Nat
    BY <1>1, <1>3
  <2> HIDE DEF C
  <2>2. QED
    BY <1>4, <2>1 DEF SignPath, TreeInv, Shape
<1>6. InCall' /\ RootIsNode'
  BY DEF SignPath, Idle, InCall, TreeInv, RootIsNode
<1>7. QED
  BY <1>5, <1>6 DEF TreeInv

LEMMA TreeEnter == ASSUME NodeAssumption, TreeInv, Enter PROVE TreeInv'
<1>1. todo \in Seq(Task) /\ todo # <<>> /\ cap \in Nat /\ \A n \in 1 .. Len(todo) : Valid(todo[n], cap)
  BY DEF Enter, TreeInv, Shape
<1>2. Len(todo) \in Nat /\ Len(todo) >= 1
  BY <1>1
<1>3. call' = todo[1] /\ stack' = <<>> /\ node' = "none" /\ leaves' = 0 /\ cap' = cap
  BY <1>1 DEF Enter, TreeInv, Shape
<1>4. Valid(call', cap') /\ call'.z \in Nat /\ call'.i \in Nat
  BY <1>1, <1>2, <1>3 DEF Valid, Task
<1>5. Tail(todo) \in Seq(Task) /\ \A n \in 1 .. Len(Tail(todo)) : Valid(Tail(todo)[n], cap)
  BY <1>1
<1>6. call' # None
  <2>1. call'.z \in Nat /\ DOMAIN call' = {"i", "z"}
    BY <1>4 DEF Valid, Task
  <2>2. QED
    BY <2>1 DEF None
<1>7. Shape'
  BY <1>1, <1>3, <1>5, <1>6 DEF Enter, TreeInv, Shape
<1>8. two[call'.z] \in Nat /\ two[call'.z] >= 1
  BY <1>4, TwoPositive
<1> DEFINE ix == [n \in 1 .. 0 |-> 0]
<1>9. Covers(ix)'
  <2>1. Len(stack') = 0
    BY <1>3
  <2>2. QED
    BY <2>1 DEF Covers
<1>10. Between(ix)'
  <2>1. Len(stack') = 0
    BY <1>3
  <2>2. End(ix, Len(stack))' = Base' /\ Base' \in Int
    BY <1>4, <1>8, <2>1 DEF End, Base
  <2>3. Short'
    BY <2>1 DEF Short
  <2>4. QED
    BY <1>3, <1>8, <2>2, <2>3 DEF Between
<1>11. InCall'
  <2>1. leaves' \in Nat /\ leaves' <= two[call'.z]
    BY <1>3, <1>8
  <2> HIDE DEF ix
  <2>2. QED
    BY <1>4, <1>9, <1>10, <2>1 DEF InCall
<1>12. RootIsNode'
  BY DEF Enter, TreeInv, RootIsNode
<1>13. QED
  BY <1>7, <1>11, <1>12 DEF TreeInv

LEMMA TreeNextLeaf == ASSUME NodeAssumption, TreeInv, NextLeaf PROVE TreeInv'
<1>1. /\ Valid(call, cap) /\ leaves \in Nat /\ leaves < two[call.z] /\ node = "none"
      /\ call # None /\ call.i \in Nat /\ call.z \in Nat /\ call.z <= Height
  BY DEF NextLeaf, TreeInv, InCall, Valid, Task
<1>2. PICK ix : Covers(ix) /\ Between(ix)
  <2>1. PICK ix : Covers(ix) /\ (Between(ix) \/ Within(ix))
    BY <1>1 DEF TreeInv, InCall
  <2>2. ~Within(ix)
    BY <1>1 DEF Within
  <2>3. QED
    BY <2>1, <2>2
<1>3. /\ li' = call.i * two[call.z] + leaves /\ lz' = 0 /\ node' = "leaf"
      /\ out' = [out EXCEPT !.leaf = Leaf(li')]
      /\ UNCHANGED <<todo, call, leaves, stack, cap, root>>
  BY DEF NextLeaf
<1>4. two[call.z] \in Nat /\ two[0] = 1
  BY <1>1, TwoPositive, TwoRecursion
<1>5. call.i * two[call.z] \in Nat
  BY <1>1, <1>4
<1>6. li' \in Nat
  BY <1>1, <1>3, <1>5
<1>7. Leaf(li') = Node(0, li')
  <2>1. (li' + 1) * two[0] = call.i * two[call.z] + leaves + 1
    BY <1>1, <1>3, <1>4, <1>5
  <2>2. leaves + 1 <= two[call.z]
    BY <1>1, <1>4
  <2>3. (li' + 1) * two[0] <= (call.i + 1) * two[call.z]
    BY <1>1, <2>1, <2>2, Ends
  <2>4. li' + 1 <= Trees * two[Height - 0]
    BY <1>1, <1>6, <2>3, InTrees
  <2>5. Height - 0 = Height
    BY Constants
  <2>6. QED
    BY <1>6, <2>4, <2>5, Constants
<1>8. PICK a, b : out = [leaf |-> a, H |-> b]
  BY DEF TreeInv, Shape
<1>9. out' = [leaf |-> Leaf(li'), H |-> b]
  BY <1>3, <1>8
<1>10. Within(ix)'
  <2>1. out'[node'] = Node(lz', li')
    BY <1>3, <1>7, <1>9
  <2>2. End(ix, Len(stack))' = call.i * two[call.z] + leaves
    <3>1. End(ix, Len(stack))' = End(ix, Len(stack))
      BY <1>3 DEF End, Base
    <3>2. QED
      BY <1>2, <3>1 DEF Between, Base
  <2>3. li' * two[lz'] = End(ix, Len(stack))'
    BY <1>3, <1>4, <1>6, <2>2
  <2>4. (li' + 1) * two[lz'] = Base' + leaves' + 1
    BY <1>1, <1>3, <1>4, <1>5, <1>6 DEF Base
  <2>5. Short' /\ \A n \in 1 .. Len(stack') : lz' <= stack'[n].z
    <3>1. Short
      BY <1>1, <1>2 DEF Between
    <3>2. \A n \in 1 .. Len(stack) : 0 <= stack[n].z
      BY Stack DEF TreeInv
    <3>3. QED
      BY <1>3, <3>1, <3>2 DEF Short
  <2>6. lz' \in Nat /\ leaves' < two[call'.z] /\ node' \in {"leaf", "H"}
    BY <1>1, <1>3
  <2>7. QED
    BY <1>6, <2>1, <2>3, <2>4, <2>5, <2>6 DEF Within
<1>11. Covers(ix)'
  BY <1>2, <1>3 DEF Covers, End, Base
<1>12. InCall'
  BY <1>1, <1>3, <1>4, <1>10, <1>11 DEF InCall
<1>13. Shape'
  <2>1. \E c, d : out' = [leaf |-> c, H |-> d]
    BY <1>9
  <2>2. call' # None
    BY <1>1, <1>3
  <2>3. QED
    BY <1>3, <2>1, <2>2 DEF TreeInv, Shape
<1>14. RootIsNode'
  BY <1>3 DEF TreeInv, RootIsNode
<1>15. QED
  BY <1>12, <1>13, <1>14 DEF TreeInv

\* What is needed of the stack while a leaf is worked in.
LEMMA Working ==
  ASSUME TreeInv, node # "none"
  PROVE  /\ call # None /\ Valid(call, cap) /\ call.i \in Nat /\ call.z \in Nat /\ call.z <= Height
         /\ leaves \in Nat /\ leaves < two[call.z] /\ two[call.z] \in Nat
         /\ li \in Nat /\ lz \in Nat /\ two[lz] \in Nat
         /\ \E ix : Covers(ix) /\ Within(ix)
<1>1. call # None
  BY DEF TreeInv, Shape
<1>2. Valid(call, cap) /\ leaves \in Nat /\ call.i \in Nat /\ call.z \in Nat /\ call.z <= Height
  BY <1>1 DEF TreeInv, InCall, Valid, Task
<1>3. PICK ix : Covers(ix) /\ (Between(ix) \/ Within(ix))
  BY <1>1 DEF TreeInv, InCall
<1>4. Within(ix)
  BY <1>3 DEF Between
<1>5. li \in Nat /\ lz \in Nat /\ leaves < two[call.z]
  BY <1>4 DEF Within
<1>6. two[call.z] \in Nat /\ two[lz] \in Nat
  BY <1>2, <1>5, TwoPositive
<1>7. QED
  BY <1>1, <1>2, <1>3, <1>4, <1>5, <1>6

Starts(x, a, y, b) == a < b /\ x * two[a] = y * two[b]

\* A node that starts where a higher one starts or ends has an even index.
LEMMA EvenIndex ==
  ASSUME NEW x \in Nat, NEW a \in Nat, NEW y \in Nat, NEW b \in Nat, Starts(x, a, y, b)
  PROVE  \E e \in Nat : x = 2 * e
<1> USE DEF Starts
<1>1. PICK d \in Nat : d >= 1 /\ two[b] = 2 * d * two[a]
  BY TwoMultiple
<1> DEFINE p == two[a]
<1>2. p \in Nat
  BY TwoPositive
<1> HIDE DEF p
<1>3. y * (2 * d * p) = (2 * (y * d)) * p
  BY <1>1, <1>2
<1>4. x * p = (2 * (y * d)) * p
  BY <1>1, <1>3 DEF p
<1> DEFINE e == y * d
<1>5. e \in Nat /\ 2 * e \in Int
  BY <1>1
<1> HIDE DEF e
<1>6. x * p = (2 * e) * p
  BY <1>4 DEF e
<1>7. x = 2 * e
  BY <1>5, <1>6, TwoCancel DEF p
<1>8. QED
  BY <1>5, <1>7

LEMMA TreeMerge == ASSUME NodeAssumption, TreeInv, Merge PROVE TreeInv'
<1>1. /\ call # None /\ Valid(call, cap) /\ call.i \in Nat /\ call.z \in Nat /\ call.z <= Height
      /\ leaves \in Nat /\ leaves < two[call.z] /\ two[call.z] \in Nat
      /\ li \in Nat /\ lz \in Nat /\ two[lz] \in Nat /\ node # "none"
  BY Working DEF Merge
<1>2. PICK ix : Covers(ix) /\ Within(ix)
  BY Working DEF Merge
<1>3. PICK n \in Nat : n = Len(stack) /\ n >= 1 /\ Top = stack[n] /\ stack[n].z = lz
  BY Stack DEF Merge, MayMerge, Top, TreeInv, Shape
<1>4. stack \in Seq(StackNode) /\ \A m \in 1 .. n : stack[m].z \in Nat
  BY <1>3, Stack DEF TreeInv, Shape
<1>5. PICK t \in Nat : /\ ix \in [1 .. n -> Nat] /\ t = ix[n] /\ stack[n].node = Node(lz, t)
                       /\ t * two[lz] = End(ix, n - 1)
  BY <1>2, <1>3 DEF Covers
<1>6. li = t + 1
  <2>1. li * two[lz] = (t + 1) * two[lz]
    BY <1>2, <1>3, <1>5 DEF Within, End
  <2>2. t + 1 \in Int /\ li \in Int
    BY <1>1, <1>5
  <2>3. QED
    BY <1>1, <2>1, <2>2, TwoCancel
<1>7. PICK e \in Nat : t = 2 * e
  <2>1. ASSUME n = 1 PROVE \E b \in Nat, y \in Nat : Starts(t, lz, y, b)
    <3>1. lz < call.z
      <4>1. Short /\ 1 \in 1 .. n
        BY <1>2, <2>1 DEF Within
      <4>2. stack[1].z + 1 <= call.z
        BY <1>3, <4>1, <2>1 DEF Short
      <4>3. QED
        BY <1>1, <1>3, <2>1, <4>2
    <3>2. t * two[lz] = call.i * two[call.z]
      BY <1>5, <2>1 DEF End, Base
    <3>3. QED
      BY <1>1, <3>1, <3>2 DEF Starts
  <2>2. ASSUME n # 1 PROVE \E b \in Nat, y \in Nat : Starts(t, lz, y, b)
    <3>1. n - 1 \in 1 .. n /\ n - 1 # 0 /\ n \in 1 .. n
      BY <1>3, <2>2
    <3>2. stack[n - 1].z \in Nat /\ ix[n - 1] + 1 \in Nat
      BY <1>4, <1>5, <3>1
    <3>3. lz < stack[n - 1].z
      BY <1>2, <1>3, <3>1 DEF Covers
    <3>4. t * two[lz] = (ix[n - 1] + 1) * two[stack[n - 1].z]
      BY <1>5, <3>1 DEF End
    <3>5. QED
      BY <3>2, <3>3, <3>4 DEF Starts
  <2>3. \E b \in Nat, y \in Nat : Starts(t, lz, y, b)
    BY <2>1, <2>2
  <2>4. QED
    BY <1>1, <2>3, EvenIndex
<1>8. li' = e /\ lz' = lz + 1
  <2>1. li' = (li - 1) \div 2 /\ lz' = lz + 1
    BY DEF Merge
  <2>2. QED
    BY <1>6, <1>7, <2>1
<1>9. two[lz'] = 2 * two[lz] /\ lz' \in Nat
  BY <1>1, <1>8, TwoRecursion
<1>10. (li' + 1) * two[lz'] = Base + leaves + 1 /\ li' * two[lz'] = End(ix, n - 1)
  <2> DEFINE p == two[lz]
  <2>1. p \in Nat /\ e \in Nat
    BY <1>1
  <2> HIDE DEF p
  <2>2. e * (2 * p) = (2 * e) * p /\ (e + 1) * (2 * p) = (2 * e + 2) * p
    BY <2>1
  <2>3. (li + 1) * p = Base + leaves + 1 /\ (2 * e) * p = End(ix, n - 1)
    BY <1>2, <1>5, <1>7 DEF Within, p
  <2>4. li + 1 = 2 * e + 2
    BY <1>6, <1>7
  <2>5. QED
    BY <1>8, <1>9, <2>2, <2>3, <2>4 DEF p
<1>11. Short /\ \A m \in 1 .. n : lz <= stack[m].z
  BY <1>2, <1>3 DEF Within
<1>12. lz' <= call.z
  <2>1. stack[n].z + n <= call.z
    BY <1>3, <1>11 DEF Short
  <2>2. QED
    BY <1>1, <1>3, <1>8, <2>1
<1>13. Node(lz', li') = Parent(lz', li', Node(lz, 2 * e), Node(lz, 2 * e + 1))
  <2>1. (li' + 1) * two[lz'] <= (call.i + 1) * two[call.z]
    <3>1. (li' + 1) * two[lz'] = call.i * two[call.z] + leaves + 1
      BY <1>10 DEF Base
    <3>2. leaves + 1 <= two[call.z]
      BY <1>1
    <3>3. QED
      BY <1>1, <3>1, <3>2, Ends
  <2>2. li' + 1 <= Trees * two[Height - lz']
    BY <1>1, <1>7, <1>8, <1>9, <1>12, <2>1, InTrees
  <2>3. lz + 1 <= Height
    <3>1. Height \in Nat
      BY Constants
    <3>2. QED
      BY <1>1, <1>8, <1>12, <3>1
  <2>4. QED
    BY <1>1, <1>7, <1>8, <2>2, <2>3, Constants
<1>14. /\ out' = [out EXCEPT !.H = Parent(lz', li', Top.node, out[node])]
       /\ node' = "H" /\ stack' = SubSeq(stack, 1, n - 1)
       /\ UNCHANGED <<todo, call, leaves, cap, root>>
  BY <1>3 DEF Merge
<1>15. PICK a, b : out = [leaf |-> a, H |-> b]
  BY DEF TreeInv, Shape
<1>16. out' = [leaf |-> a, H |-> Node(lz', li')]
  <2>1. Top.node = Node(lz, 2 * e)
    BY <1>3, <1>5, <1>7
  <2>2. out[node] = Node(lz, 2 * e + 1)
    BY <1>2, <1>6, <1>7 DEF Within
  <2>3. out' = [out EXCEPT !.H = Node(lz', li')]
    BY <1>13, <1>14, <2>1, <2>2
  <2>4. QED
    BY <1>15, <2>3
<1>17. stack' \in Seq(StackNode) /\ Len(stack') = n - 1 /\ \A m \in 1 .. n - 1 : stack'[m] = stack[m]
  BY <1>3, <1>4, <1>14
<1> PICK jx : jx = [m \in 1 .. n - 1 |-> ix[m]]
  OBVIOUS
<1>18. \A m \in 0 .. n - 1 : End(jx, m)' = End(ix, m)
  <2> TAKE m \in 0 .. n - 1
  <2>1. CASE m = 0
    BY <1>14, <2>1 DEF End, Base
  <2>2. CASE m # 0
    <3>1. m \in 1 .. n - 1
      BY <1>3, <2>2
    <3>2. jx[m] = ix[m] /\ stack'[m] = stack[m]
      BY <1>17, <3>1
    <3>3. QED
      BY <2>2, <3>2 DEF End
  <2>3. QED
    BY <2>1, <2>2
<1>19. jx \in [1 .. n - 1 -> Nat] /\ \A m \in 1 .. n - 1 : m \in 1 .. n /\ m - 1 \in 0 .. n - 1 /\ jx[m] = ix[m]
  BY <1>3, <1>5
<1>20. Covers(jx)'
  <2>1. Len(stack') = n - 1
    BY <1>17
  <2>2. \A m \in 1 .. n : /\ stack[m].node = Node(stack[m].z, ix[m])
                          /\ ix[m] * two[stack[m].z] = End(ix, m - 1)
                          /\ \A k \in 1 .. m - 1 : stack[m].z < stack[k].z
    BY <1>2, <1>3 DEF Covers
  <2>3. \A m \in 1 .. n - 1 : /\ stack'[m].node = Node(stack'[m].z, jx[m])
                              /\ jx[m] * two[stack'[m].z] = End(jx, m - 1)'
    BY <1>17, <1>18, <1>19, <2>2
  <2>4. \A m \in 1 .. n - 1 : \A k \in 1 .. m - 1 : stack'[m].z < stack'[k].z
    <3> TAKE m \in 1 .. n - 1
    <3> TAKE k \in 1 .. m - 1
    <3>1. k \in 1 .. n - 1
      BY <1>3
    <3>2. QED
      BY <1>17, <1>19, <2>2, <3>1
  <2>5. QED
    BY <1>19, <2>1, <2>3, <2>4 DEF Covers
<1>21. Within(jx)'
  <2>1. out'[node'] = Node(lz', li') /\ node' \in {"leaf", "H"}
    BY <1>14, <1>16
  <2>2. li' * two[lz'] = End(jx, Len(stack))'
    BY <1>3, <1>10, <1>17, <1>18
  <2>3. (li' + 1) * two[lz'] = Base' + leaves' + 1
    BY <1>10, <1>14 DEF Base
  <2>4. Short'
    <3>1. \A m \in 1 .. n : stack[m].z + m <= call.z
      BY <1>3, <1>11 DEF Short
    <3>2. QED
      BY <1>14, <1>17, <1>19, <3>1 DEF Short
  <2>5. \A m \in 1 .. Len(stack') : lz' <= stack'[m].z
    <3>1. \A m \in 1 .. n - 1 : lz < stack[m].z
      BY <1>2, <1>3 DEF Covers
    <3>2. \A m \in 1 .. n - 1 : stack[m].z \in Nat
      BY <1>4, <1>19
    <3>3. \A m \in 1 .. n - 1 : lz + 1 <= stack[m].z
      BY <1>1, <3>1, <3>2
    <3>4. QED
      BY <1>8, <1>17, <3>3
  <2>6. leaves' < two[call'.z] /\ lz' \in Nat /\ li' \in Nat
    BY <1>1, <1>7, <1>8, <1>9, <1>14
  <2>7. QED
    BY <2>1, <2>2, <2>3, <2>4, <2>5, <2>6 DEF Within
<1>22. InCall'
  <2>1. Valid(call', cap') /\ leaves' \in Nat /\ leaves' <= two[call'.z]
    BY <1>1, <1>14
  <2>2. QED
    BY <1>20, <1>21, <2>1 DEF InCall
<1>23. Shape'
  <2>1. \E c, d : out' = [leaf |-> c, H |-> d]
    BY <1>16
  <2>2. call' # None
    BY <1>1, <1>14
  <2>3. QED
    BY <1>14, <1>17, <2>1, <2>2 DEF TreeInv, Shape
<1>24. RootIsNode'
  BY <1>14 DEF TreeInv, RootIsNode
<1>25. QED
  BY <1>22, <1>23, <1>24 DEF TreeInv

\* A node that ends with the last leaf of the call is the node of the call.
LEMMA LastNode ==
  ASSUME TreeInv, node # "none", ~MayMerge, leaves + 1 = two[call.z],
         NEW ix, Covers(ix), Within(ix)
  PROVE  stack = <<>> /\ lz = call.z
<1>1. /\ call.i \in Nat /\ call.z \in Nat /\ leaves \in Nat /\ two[call.z] \in Nat
      /\ li \in Nat /\ lz \in Nat /\ two[lz] \in Nat
  BY Working
<1>2. stack \in Seq(StackNode) /\ Len(stack) \in Nat
  BY Stack DEF TreeInv, Shape
<1>3. (li + 1) * two[lz] = (call.i + 1) * two[call.z]
  <2> DEFINE p == two[call.z]
             j == call.i
  <2>1. p \in Nat /\ j \in Nat
    BY <1>1
  <2>2. (li + 1) * two[lz] = j * p + leaves + 1 /\ leaves + 1 = p
    BY DEF Within, Base
  <2> HIDE DEF p, j
  <2>3. j * p \in Nat /\ (j + 1) * p = j * p + p
    BY <2>1
  <2>4. (li + 1) * two[lz] = (j + 1) * p
    BY <1>1, <2>1, <2>2, <2>3
  <2>5. QED
    BY <2>4 DEF p, j
<1>4. stack = <<>>
  <2> SUFFICES ASSUME stack # <<>> PROVE FALSE
    OBVIOUS
  <2>1. PICK n \in Nat : n = Len(stack) /\ n >= 1 /\ n \in 1 .. n /\ n # 0
    BY <1>2
  <2>2. lz < stack[n].z /\ stack[n].z \in Nat
    <3>1. lz <= stack[n].z /\ stack[n].z \in Nat
      BY <2>1, Stack DEF Within, TreeInv
    <3>2. lz # stack[n].z
      BY <2>1 DEF MayMerge, Top
    <3>3. QED
      BY <1>1, <3>1, <3>2
  <2>3. lz < call.z
    <3>1. stack[n].z + n <= call.z
      BY <2>1 DEF Within, Short
    <3>2. QED
      BY <1>1, <2>1, <2>2, <3>1
  <2>4. ix[n] + 1 \in Nat /\ li * two[lz] = (ix[n] + 1) * two[stack[n].z]
    BY <2>1 DEF Covers, Within, End
  <2>5. PICK e \in Nat : li = 2 * e
    <3>1. Starts(li, lz, ix[n] + 1, stack[n].z)
      BY <2>2, <2>4 DEF Starts
    <3>2. QED
      BY <1>1, <2>2, <2>4, <3>1, EvenIndex
  <2>6. PICK f \in Nat : li + 1 = 2 * f
    <3>1. Starts(li + 1, lz, call.i + 1, call.z)
      BY <1>3, <2>3 DEF Starts
    <3>2. li + 1 \in Nat /\ call.i + 1 \in Nat
      BY <1>1
    <3>3. QED
      BY <1>1, <3>1, <3>2, EvenIndex
  <2>7. QED
    BY <2>5, <2>6
<1>5. two[lz] = two[call.z]
  <2>1. li * two[lz] = call.i * two[call.z]
    BY <1>4 DEF Within, End, Base
  <2> DEFINE p == two[call.z]
             q == two[lz]
             j == call.i
  <2>2. p \in Nat /\ q \in Nat /\ j \in Nat /\ li * q = j * p /\ (li + 1) * q = (j + 1) * p
    BY <1>1, <1>3, <2>1
  <2> HIDE DEF p, q, j
  <2>3. (li + 1) * q = li * q + q /\ (j + 1) * p = j * p + p /\ li * q \in Nat /\ j * p \in Nat
    BY <1>1, <2>2
  <2>4. p = q
    BY <2>2, <2>3
  <2>5. QED
    BY <2>4 DEF p, q
<1>6. lz <= call.z /\ call.z <= lz
  BY <1>1, <1>5, TwoMonotone
<1>7. QED
  BY <1>1, <1>4, <1>6

\* A node alone on the stack that leaves out the end of the call is below its height.
LEMMA LowerNode ==
  ASSUME TreeInv, node # "none", stack = <<>>, leaves + 1 < two[call.z],
         NEW ix, Covers(ix), Within(ix)
  PROVE  lz < call.z
<1>1. /\ call.i \in Nat /\ call.z \in Nat /\ leaves \in Nat /\ two[call.z] \in Nat
      /\ li \in Nat /\ lz \in Nat /\ two[lz] \in Nat
  BY Working
<1>2. two[lz] = leaves + 1
  <2> DEFINE q == two[lz]
  <2>1. li * q = Base /\ (li + 1) * q = Base + leaves + 1
    BY DEF Within, End
  <2>2. q \in Nat
    BY <1>1
  <2> HIDE DEF q
  <2>3. (li + 1) * q = li * q + q /\ li * q \in Nat
    BY <1>1, <2>2
  <2>4. PICK a \in Nat : a = li * q
    BY <2>3
  <2>5. a + q = a + leaves + 1
    BY <2>1, <2>3, <2>4
  <2>6. q = leaves + 1
    BY <1>1, <2>2, <2>5
  <2>7. QED
    BY <2>6 DEF q
<1>3. lz <= call.z
  <2>1. two[lz] <= two[call.z]
    BY <1>1, <1>2
  <2>2. QED
    BY <1>1, <2>1, TwoMonotone
<1>4. lz # call.z
  BY <1>1, <1>2
<1>5. QED
  BY <1>1, <1>3, <1>4

LEMMA TreePush == ASSUME NodeAssumption, TreeInv, Push PROVE TreeInv'
<1>1. /\ call # None /\ Valid(call, cap) /\ call.i \in Nat /\ call.z \in Nat
      /\ leaves \in Nat /\ leaves < two[call.z] /\ two[call.z] \in Nat
      /\ li \in Nat /\ lz \in Nat /\ node # "none" /\ ~MayMerge
  BY Working DEF Push
<1>2. PICK ix : Covers(ix) /\ Within(ix)
  BY Working DEF Push
<1>3. PICK n \in Nat : /\ n = Len(stack) /\ stack \in Seq(StackNode) /\ (n = 0 => stack = <<>>)
                       /\ \A m \in 1 .. n : stack[m].z \in Nat
  <2>1. stack \in Seq(StackNode) /\ Len(stack) \in Nat
        /\ \A m \in 1 .. Len(stack) : stack[m].z \in Nat
    BY Stack DEF TreeInv, Shape
  <2>2. Len(stack) = 0 => stack = <<>>
    BY <2>1
  <2>3. QED
    BY <2>1, <2>2
<1> DEFINE new == [node |-> Node(lz, li), z |-> lz]
<1>4. /\ stack' = Append(stack, new) /\ node' = "none" /\ leaves' = leaves + 1
      /\ UNCHANGED <<todo, call, li, lz, out, cap, root>>
  BY <1>2 DEF Push, Within
<1>5. /\ stack' \in Seq(StackNode) /\ Len(stack') = n + 1 /\ stack'[n + 1] = new
      /\ \A m \in 1 .. n : stack'[m] = stack[m]
  <2>1. new \in StackNode
    BY <1>1 DEF StackNode
  <2> HIDE DEF new
  <2>2. QED
    BY <1>3, <1>4, <2>1
<1>6. ix \in [1 .. n -> Nat] /\ Short /\ \A m \in 1 .. n : lz <= stack[m].z
  BY <1>2, <1>3 DEF Covers, Within
<1>7. \A m \in 1 .. n : lz < stack[m].z
  <2> TAKE m \in 1 .. n
  <2>1. lz < stack[n].z
    <3>1. n \in 1 .. n /\ stack # <<>>
      BY <1>3
    <3>2. stack[n].z # lz
      BY <1>1, <1>3, <3>1 DEF MayMerge, Top
    <3>3. QED
      BY <1>1, <1>3, <1>6, <3>1, <3>2
  <2>2. m # n => stack[n].z < stack[m].z
    BY <1>2, <1>3 DEF Covers
  <2>3. QED
    BY <1>1, <1>3, <2>1, <2>2
<1> PICK jx : jx = [m \in 1 .. n + 1 |-> IF m = n + 1 THEN li ELSE ix[m]]
  OBVIOUS
<1>8. /\ jx \in [1 .. n + 1 -> Nat] /\ jx[n + 1] = li
      /\ \A m \in 1 .. n : m \in 1 .. n + 1 /\ m # n + 1 /\ jx[m] = ix[m] /\ m - 1 \in 0 .. n
      /\ \A m \in 1 .. n + 1 : m \in 1 .. n \/ m = n + 1
  BY <1>1, <1>6
<1>9. \A m \in 0 .. n : End(jx, m)' = End(ix, m)
  <2> TAKE m \in 0 .. n
  <2>1. CASE m = 0
    BY <1>4, <2>1 DEF End, Base
  <2>2. CASE m # 0
    <3>1. m \in 1 .. n
      BY <2>2
    <3>2. jx[m] = ix[m] /\ stack'[m] = stack[m]
      BY <1>5, <1>8, <3>1
    <3>3. QED
      BY <2>2, <3>2 DEF End
  <2>3. QED
    BY <2>1, <2>2
<1>10. Covers(jx)'
  <2>1. \A m \in 1 .. n : /\ stack[m].node = Node(stack[m].z, ix[m])
                          /\ ix[m] * two[stack[m].z] = End(ix, m - 1)
                          /\ \A k \in 1 .. m - 1 : stack[m].z < stack[k].z
    BY <1>2, <1>3 DEF Covers
  <2>2. \A m \in 1 .. n : /\ stack'[m].node = Node(stack'[m].z, jx[m])
                          /\ jx[m] * two[stack'[m].z] = End(jx, m - 1)'
    BY <1>5, <1>8, <1>9, <2>1
  <2>3. /\ stack'[n + 1].node = Node(stack'[n + 1].z, jx[n + 1])
        /\ jx[n + 1] * two[stack'[n + 1].z] = End(jx, (n + 1) - 1)'
    <3>1. li * two[lz] = End(ix, n) /\ n \in 0 .. n /\ (n + 1) - 1 = n
      BY <1>2, <1>3 DEF Within
    <3>2. QED
      BY <1>5, <1>8, <1>9, <3>1
  <2>4. \A m \in 1 .. n + 1 : \A k \in 1 .. m - 1 : stack'[m].z < stack'[k].z
    <3> TAKE m \in 1 .. n + 1
    <3> TAKE k \in 1 .. m - 1
    <3>1. k \in 1 .. n
      BY <1>3
    <3>2. CASE m \in 1 .. n
      BY <1>5, <2>1, <3>1, <3>2
    <3>3. CASE m = n + 1
      BY <1>5, <1>7, <3>1, <3>3
    <3>4. QED
      BY <1>8, <3>2, <3>3
  <2>5. Len(stack') = n + 1
    BY <1>5
  <2>6. \A m \in 1 .. n + 1 : /\ stack'[m].node = Node(stack'[m].z, jx[m])
                              /\ jx[m] * two[stack'[m].z] = End(jx, m - 1)'
    BY <1>8, <2>2, <2>3
  <2>7. QED
    BY <1>8, <2>4, <2>5, <2>6 DEF Covers
<1>11. Between(jx)'
  <2>1. End(jx, Len(stack))' = Base' + leaves'
    <3>1. End(jx, Len(stack))' = (li + 1) * two[lz]
      <4>1. n + 1 # 0
        BY <1>3
      <4>2. QED
        BY <1>5, <1>8, <4>1 DEF End
    <3>2. (li + 1) * two[lz] = Base + leaves + 1
      BY <1>2 DEF Within
    <3>3. Base' = Base /\ Base \in Int
      <4>1. Base' = Base
        BY <1>4 DEF Base
      <4>2. Base \in Int
        BY <1>1 DEF Base
      <4>3. QED
        BY <4>1, <4>2
    <3>4. QED
      BY <1>1, <1>4, <3>1, <3>2, <3>3
  <2>2. ASSUME leaves' < two[call'.z] PROVE Short'
    <3>1. lz + n + 1 <= call.z
      <4>1. CASE n = 0
        <5>1. stack = <<>> /\ leaves + 1 < two[call.z]
          <6>1. stack = <<>>
            BY <1>3, <4>1
          <6>2. leaves + 1 < two[call.z]
            BY <1>4, <2>2
          <6>3. QED
            BY <6>1, <6>2
        <5>2. lz < call.z
          BY <1>1, <1>2, <5>1, LowerNode
        <5>3. QED
          BY <1>1, <4>1, <5>2
      <4>2. CASE n # 0
        <5>1. n \in 1 .. n
          BY <4>2
        <5>2. stack[n].z + n <= call.z
          BY <1>3, <1>6, <5>1 DEF Short
        <5>3. QED
          BY <1>1, <1>3, <1>7, <5>1, <5>2
      <4>3. QED
        BY <4>1, <4>2
    <3>2. \A m \in 1 .. n : stack'[m].z + m <= call'.z
      BY <1>3, <1>4, <1>5, <1>6 DEF Short
    <3>3. stack'[n + 1].z + (n + 1) <= call'.z
      <4>1. stack'[n + 1].z = lz /\ call' = call
        BY <1>4, <1>5
      <4>2. QED
        BY <1>1, <3>1, <4>1
    <3>4. QED
      BY <1>5, <1>8, <3>2, <3>3 DEF Short
  <2>3. ASSUME leaves' = two[call'.z] PROVE Len(stack') = 1 /\ stack'[1].z = call'.z
    <3>1. leaves + 1 = two[call.z]
      BY <1>4, <2>3
    <3>2. stack = <<>> /\ lz = call.z
      BY <1>1, <1>2, <3>1, LastNode
    <3>3. n = 0
      BY <1>3, <3>2
    <3>4. QED
      BY <1>4, <1>5, <3>2, <3>3
  <2>4. QED
    BY <1>4, <2>1, <2>2, <2>3 DEF Between
<1>12. InCall'
  <2>1. Valid(call', cap') /\ leaves' \in Nat /\ leaves' <= two[call'.z]
    BY <1>1, <1>4
  <2>2. QED
    BY <1>10, <1>11, <2>1 DEF InCall
<1>13. Shape'
  <2>1. call' # None
    BY <1>1, <1>4
  <2>2. QED
    BY <1>4, <1>5, <2>1 DEF TreeInv, Shape
<1>14. RootIsNode'
  BY <1>4 DEF TreeInv, RootIsNode
<1>15. QED
  BY <1>12, <1>13, <1>14 DEF TreeInv

LEMMA TreeReturn == ASSUME NodeAssumption, TreeInv, Return PROVE TreeInv'
<1>1. /\ call # None /\ node = "none" /\ leaves = two[call.z] /\ leaves \in Nat
      /\ call.i \in Nat /\ call.z \in Nat
  BY DEF Return, TreeInv, InCall, Valid, Task
<1>2. PICK ix : Covers(ix) /\ Between(ix)
  <2>1. PICK ix : Covers(ix) /\ (Between(ix) \/ Within(ix))
    BY <1>1 DEF TreeInv, InCall
  <2>2. ~Within(ix)
    BY <1>1 DEF Within
  <2>3. QED
    BY <2>1, <2>2
<1>3. Len(stack) = 1 /\ stack[1].z = call.z /\ stack \in Seq(StackNode)
  BY <1>1, <1>2 DEF Between, TreeInv, Shape
<1>4. stack[1].node = Node(call.z, ix[1]) /\ ix[1] \in Nat /\ ix[1] * two[call.z] = call.i * two[call.z]
  <2>1. 1 \in 1 .. 1 /\ 1 - 1 = 0
    OBVIOUS
  <2>2. QED
    BY <1>2, <1>3, <2>1 DEF Covers, End, Base
<1>5. ix[1] = call.i
  <2>1. ix[1] \in Int /\ call.i \in Int
    BY <1>1, <1>4
  <2>2. QED
    BY <1>1, <1>4, <2>1, TwoCancel
<1>6. /\ root' = [i |-> call.i, z |-> call.z, node |-> stack[1].node] /\ call' = None
      /\ stack' = SubSeq(stack, 1, 0) /\ UNCHANGED <<todo, leaves, node, li, lz, out, cap>>
  BY <1>3 DEF Return, Top
<1>7. stack' = <<>>
  BY <1>3, <1>6
<1>8. RootIsNode'
  BY <1>4, <1>5, <1>6 DEF RootIsNode
<1>9. InCall'
  BY <1>6 DEF InCall
<1>10. Shape'
  <2>1. stack' \in Seq(StackNode)
    BY <1>7
  <2>2. QED
    BY <1>1, <1>6, <1>7, <2>1 DEF TreeInv, Shape
<1>11. QED
  BY <1>8, <1>9, <1>10 DEF TreeInv

LEMMA TreeStep == ASSUME NodeAssumption, TreeInv, [Next]_vars PROVE TreeInv'
<1>1. CASE KeyGen
  BY <1>1, TreeKeyGen
<1>2. ASSUME NEW t \in 0 .. Trees - 1, NEW idx \in 0 .. two[Height] - 1, SignPath(t, idx)
      PROVE  TreeInv'
  BY <1>2, TreeSignPath
<1>3. CASE Enter
  BY <1>3, TreeEnter
<1>4. CASE NextLeaf
  BY <1>4, TreeNextLeaf
<1>5. CASE Merge
  BY <1>5, TreeMerge
<1>6. CASE Push
  BY <1>6, TreePush
<1>7. CASE Return
  BY <1>7, TreeReturn
<1>8. CASE UNCHANGED vars
  <2>1. Shape'
    BY <1>8 DEF vars, TreeInv, Shape
  <2>2. InCall'
    <3>1. \A ix : (Covers(ix)' <=> Covers(ix)) /\ (Between(ix)' <=> Between(ix)) /\ (Within(ix)' <=> Within(ix))
      BY <1>8 DEF vars, Covers, Between, Within, Base, End, Short
    <3>2. QED
      BY <1>8, <3>1 DEF vars, TreeInv, InCall
  <2>3. RootIsNode'
    BY <1>8 DEF vars, TreeInv, RootIsNode
  <2>4. QED
    BY <2>1, <2>2, <2>3 DEF TreeInv
<1>9. QED
  BY <1>1, <1>2, <1>3, <1>4, <1>5, <1>6, <1>7, <1>8 DEF Next

\* The strict decrease bounds the stack by the height of the call, and that is
\* within the capacity: signing calls for heights below the height of the tree.
LEMMA TreeNoPanic == ASSUME NodeAssumption, TreeInv PROVE NoPanic
<1>1. CASE call = None
  BY <1>1 DEF TreeInv, Shape, NoPanic
<1>2. CASE call # None
  <2>1. Valid(call, cap) /\ cap \in Nat /\ leaves <= two[call.z] /\ leaves \in Nat
    BY <1>2 DEF TreeInv, InCall, Shape
  <2>2. call.z \in Nat /\ call.i \in Nat /\ call.z <= Height /\ call.z <= cap /\ 1 <= cap
    BY <2>1 DEF Valid, Task
  <2>3. call.i < Trees * two[Height - call.z]
    <3>1. Height \in Nat /\ Trees \in Nat /\ Height - call.z \in Nat
      BY <2>2, Constants
    <3>2. two[Height - call.z] \in Nat
      BY <3>1, TwoPositive
    <3>3. Trees * two[Height - call.z] \in Nat /\ call.i + 1 <= Trees * two[Height - call.z]
      BY <2>1, <3>1, <3>2 DEF Valid
    <3>4. QED
      BY <2>2, <3>3
  <2>4. Len(stack) <= cap
    <3>1. PICK ix : Between(ix) \/ Within(ix)
      BY <1>2 DEF TreeInv, InCall
    <3>2. CASE Short
      <4>1. PICK n \in Nat : n = Len(stack) /\ \A m \in 1 .. n : stack[m].z \in Nat
        BY Stack DEF TreeInv
      <4>2. n # 0 => n \in 1 .. n
        OBVIOUS
      <4>3. n # 0 => stack[n].z + n <= call.z
        BY <3>2, <4>1, <4>2 DEF Short
      <4>4. QED
        BY <2>1, <2>2, <4>1, <4>2, <4>3
    <3>3. CASE Len(stack) = 1
      BY <2>2, <3>3
    <3>4. leaves < two[call.z] \/ leaves = two[call.z]
      <4>1. two[call.z] \in Nat
        BY <2>2, TwoPositive
      <4>2. QED
        BY <2>1, <4>1
    <3>5. QED
      BY <3>1, <3>2, <3>3, <3>4 DEF Between, Within
  <2>5. QED
    BY <1>2, <2>2, <2>3, <2>4 DEF NoPanic
<1>3. QED
  BY <1>1, <1>2

(* No call of xmssNodeIter or forsNodeIter panics on its stack, and each     *)
(* returns the node of the tree that it was asked for, for trees of every   *)
(* height and every hash.                                                   *)
THEOREM TreesHashed == ASSUME NodeAssumption PROVE Spec => []TreeHashExact
<1>1. TreeInv => TreeHashExact
  BY TreeNoPanic DEF TreeInv, TreeHashExact
<1>2. TreeInv /\ [Next]_vars => TreeInv'
  BY TreeStep
<1>3. QED
  BY <1>1, <1>2, TreeInit, PTL DEF Spec

-----------------------------------------------------------------------------
(***************************************************************************)
(* SlhDsa. A signer stops each chain at a digit and the verifier goes on   *)
(* from there to the end, so the verifier gets the leaf, a leaf and the    *)
(* siblings on the way up give the root, whose layer the signer signed     *)
(* with the same indices; and those end in the one tree of the highest     *)
(* layer, for the words of the index are shifted as one number.            *)
(*                                                                         *)
(* The functions that are defined by recursion have hashes for values, and *)
(* hashes are no set: where there is one, Recursion of NumberLemmas gives  *)
(* the function, here each lemma starts by showing that it exists.         *)
(***************************************************************************)

\* A chain of m steps from x on.
LEMMA ChainSteps ==
  ASSUME NEW x, NEW index, NEW addr, NEW m \in Nat
  PROVE  \E f : /\ f[0] = x /\ chain(x, index, m, addr) = f[m]
                /\ \A j \in 1 .. m :
                     f[j] = Final("F", [addr EXCEPT !.index = index + (j - 1)], <<f[j - 1]>>)
<1> DEFINE First == x
           Step(j, v) == Final("F", [addr EXCEPT !.index = index + (j - 1)], <<v>>)
           Body(f, k) == [j \in 0 .. k |-> IF j = 0 THEN First ELSE Step(j, f[j - 1])]
           E == {k \in Nat : \E f : f = Body(f, k)}
           F == CHOOSE f : f = Body(f, m)
<1> HIDE DEF First, Step
<1>1. 0 \in E
  <2> DEFINE g == [j \in 0 .. 0 |-> First]
  <2>1. g = Body(g, 0)
    OBVIOUS
  <2>2. QED
    BY <2>1
<1>2. ASSUME NEW k \in Nat, k \in E PROVE k + 1 \in E
  <2>1. PICK f : f = Body(f, k)
    BY <1>2
  <2> DEFINE g == [j \in 0 .. k + 1 |-> IF j = k + 1 THEN Step(k + 1, f[k]) ELSE f[j]]
  <2>2. ASSUME NEW j \in 0 .. k + 1 PROVE g[j] = IF j = 0 THEN First ELSE Step(j, g[j - 1])
    <3>1. CASE j = k + 1
      <4>1. j - 1 = k /\ k \in 0 .. k + 1 /\ k # k + 1 /\ j # 0
        BY <3>1
      <4>2. g[j] = Step(k + 1, f[k]) /\ g[k] = f[k]
        BY <3>1, <4>1
      <4>3. QED
        BY <3>1, <4>1, <4>2
    <3>2. CASE j # k + 1
      <4>1. j \in 0 .. k /\ g[j] = f[j]
        BY <3>2
      <4>2. f[j] = IF j = 0 THEN First ELSE Step(j, f[j - 1])
        BY <2>1, <4>1
      <4>3. j # 0 => j - 1 \in 0 .. k + 1 /\ j - 1 # k + 1
        BY <4>1
      <4>4. j # 0 => g[j - 1] = f[j - 1]
        BY <4>3
      <4>5. QED
        BY <4>1, <4>2, <4>4
    <3>3. QED
      BY <3>1, <3>2
  <2>3. g = Body(g, k + 1)
    BY <2>2
  <2> HIDE DEF g, Body
  <2>4. QED
    BY <2>3
<1> HIDE DEF E
<1>3. m \in E
  BY <1>1, <1>2, Induction
<1>4. F = Body(F, m)
  <2>1. \E f : f = Body(f, m)
    BY <1>3 DEF E
  <2> HIDE DEF Body
  <2>2. QED
    BY <2>1
<1>5. F[0] = First
  <2> HIDE DEF F
  <2>1. QED
    BY <1>4
<1>6. ASSUME NEW j \in 1 .. m PROVE F[j] = Step(j, F[j - 1])
  <2> HIDE DEF F
  <2>1. j \in 0 .. m /\ j # 0
    OBVIOUS
  <2>2. QED
    BY <1>4, <2>1
<1>7. chain(x, index, m, addr) = F[m]
  BY DEF chain, First, Step
<1> HIDE DEF F
<1>8. QED
  BY <1>5, <1>6, <1>7 DEF First, Step

\* Two chains, the second where the first ends, are one.
LEMMA ChainComposes ==
  ASSUME NEW x, NEW index \in Int, NEW addr, NEW m \in Nat, NEW n \in Nat
  PROVE  chain(chain(x, index, m, addr), index + m, n, addr) = chain(x, index, m + n, addr)
<1> DEFINE Step(i, v) == Final("F", [addr EXCEPT !.index = i], <<v>>)
           Is(f, y, i, k) == f[0] = y /\ \A j \in 1 .. k : f[j] = Step(i + (j - 1), f[j - 1])
<1>1. ASSUME NEW y, NEW i, NEW k \in Nat
      PROVE  \E f : Is(f, y, i, k) /\ chain(y, i, k, addr) = f[k]
  BY ChainSteps
<1> HIDE DEF Step
<1>2. m + n \in Nat
  OBVIOUS
<1>3. PICK f : Is(f, x, index, m + n) /\ chain(x, index, m + n, addr) = f[m + n]
  <2> HIDE DEF Is
  <2>1. QED
    BY <1>1, <1>2
<1>4. PICK g : Is(g, x, index, m) /\ chain(x, index, m, addr) = g[m]
  <2> HIDE DEF Is
  <2>1. QED
    BY <1>1
<1>5. PICK h : Is(h, g[m], index + m, n) /\ chain(g[m], index + m, n, addr) = h[n]
  <2> HIDE DEF Is
  <2>1. QED
    BY <1>1
<1>6. g[m] = f[m]
  <2> DEFINE S == {j \in Nat : j <= m => g[j] = f[j]}
  <2>1. 0 \in S
    BY <1>3, <1>4
  <2>2. ASSUME NEW j \in Nat, j \in S PROVE j + 1 \in S
    <3> SUFFICES ASSUME j + 1 <= m PROVE g[j + 1] = f[j + 1]
      OBVIOUS
    <3>1. j + 1 \in 1 .. m /\ j + 1 \in 1 .. m + n /\ j <= m /\ (j + 1) - 1 = j
      OBVIOUS
    <3>2. g[j] = f[j]
      BY <2>2, <3>1
    <3>3. g[j + 1] = Step(index + j, g[j]) /\ f[j + 1] = Step(index + j, f[j])
      BY <1>3, <1>4, <3>1
    <3>4. QED
      BY <3>2, <3>3
  <2> HIDE DEF S
  <2>3. m \in S
    BY <2>1, <2>2, Induction
  <2>4. QED
    BY <2>3 DEF S
<1>7. h[n] = f[m + n]
  <2> DEFINE S == {j \in Nat : j <= n => h[j] = f[m + j]}
  <2>1. 0 \in S
    BY <1>5, <1>6
  <2>2. ASSUME NEW j \in Nat, j \in S PROVE j + 1 \in S
    <3> SUFFICES ASSUME j + 1 <= n PROVE h[j + 1] = f[m + (j + 1)]
      OBVIOUS
    <3>1. /\ j + 1 \in 1 .. n /\ m + (j + 1) \in 1 .. m + n /\ j <= n /\ (j + 1) - 1 = j
          /\ (m + (j + 1)) - 1 = m + j /\ (index + m) + j = index + (m + j)
      OBVIOUS
    <3>2. h[j] = f[m + j]
      BY <2>2, <3>1
    <3>3. h[j + 1] = Step((index + m) + j, h[j]) /\ f[m + (j + 1)] = Step(index + (m + j), f[m + j])
      BY <1>3, <1>5, <3>1
    <3>4. QED
      BY <3>1, <3>2, <3>3
  <2> HIDE DEF S
  <2>3. n \in S
    BY <2>1, <2>2, Induction
  <2>4. QED
    BY <2>3 DEF S
<1>8. QED
  BY <1>3, <1>4, <1>5, <1>7

\* The nodes over the leaves.
LEMMA NodesAre ==
  ASSUME NEW leaf, NEW height \in Nat, NEW addr
  PROVE  /\ Nodes(leaf, height, addr)[0] = leaf
         /\ \A z \in 1 .. height : \A i \in Nat :
              Nodes(leaf, height, addr)[z][i]
                = Combine(addr, z, i, Nodes(leaf, height, addr)[z - 1][2 * i],
                          Nodes(leaf, height, addr)[z - 1][2 * i + 1])
<1> DEFINE First == leaf
           Step(j, v) == [i \in Nat |-> Combine(addr, j, i, v[2 * i], v[2 * i + 1])]
           Body(f, k) == [j \in 0 .. k |-> IF j = 0 THEN First ELSE Step(j, f[j - 1])]
           E == {k \in Nat : \E f : f = Body(f, k)}
           F == CHOOSE f : f = Body(f, height)
<1> HIDE DEF First, Step
<1>1. 0 \in E
  <2> DEFINE g == [j \in 0 .. 0 |-> First]
  <2>1. g = Body(g, 0)
    OBVIOUS
  <2>2. QED
    BY <2>1
<1>2. ASSUME NEW k \in Nat, k \in E PROVE k + 1 \in E
  <2>1. PICK f : f = Body(f, k)
    BY <1>2
  <2> DEFINE g == [j \in 0 .. k + 1 |-> IF j = k + 1 THEN Step(k + 1, f[k]) ELSE f[j]]
  <2>2. ASSUME NEW j \in 0 .. k + 1 PROVE g[j] = IF j = 0 THEN First ELSE Step(j, g[j - 1])
    <3>1. CASE j = k + 1
      <4>1. j - 1 = k /\ k \in 0 .. k + 1 /\ k # k + 1 /\ j # 0
        BY <3>1
      <4>2. g[j] = Step(k + 1, f[k]) /\ g[k] = f[k]
        BY <3>1, <4>1
      <4>3. QED
        BY <3>1, <4>1, <4>2
    <3>2. CASE j # k + 1
      <4>1. j \in 0 .. k /\ g[j] = f[j]
        BY <3>2
      <4>2. f[j] = IF j = 0 THEN First ELSE Step(j, f[j - 1])
        BY <2>1, <4>1
      <4>3. j # 0 => j - 1 \in 0 .. k + 1 /\ j - 1 # k + 1
        BY <4>1
      <4>4. j # 0 => g[j - 1] = f[j - 1]
        BY <4>3
      <4>5. QED
        BY <4>1, <4>2, <4>4
    <3>3. QED
      BY <3>1, <3>2
  <2>3. g = Body(g, k + 1)
    BY <2>2
  <2> HIDE DEF g, Body
  <2>4. QED
    BY <2>3
<1> HIDE DEF E
<1>3. height \in E
  BY <1>1, <1>2, Induction
<1>4. F = Body(F, height)
  <2>1. \E f : f = Body(f, height)
    BY <1>3 DEF E
  <2> HIDE DEF Body
  <2>2. QED
    BY <2>1
<1>5. F[0] = First
  <2> HIDE DEF F
  <2>1. QED
    BY <1>4
<1>6. ASSUME NEW j \in 1 .. height PROVE F[j] = Step(j, F[j - 1])
  <2> HIDE DEF F
  <2>1. j \in 0 .. height /\ j # 0
    OBVIOUS
  <2>2. QED
    BY <1>4, <2>1
<1>7. Nodes(leaf, height, addr) = F
  BY DEF Nodes, First, Step
<1> HIDE DEF F
<1>8. ASSUME NEW z \in 1 .. height, NEW i \in Nat
      PROVE  F[z][i] = Combine(addr, z, i, F[z - 1][2 * i], F[z - 1][2 * i + 1])
  BY <1>6 DEF Step
<1>9. QED
  BY <1>5, <1>7, <1>8 DEF First

\* The way up from a leaf.
LEMMA ClimbSteps ==
  ASSUME NEW leaf, NEW first, NEW idx, NEW auth, NEW addr, NEW n \in Nat
  PROVE  \E f : /\ f[0] = [node |-> leaf, treeIdx |-> first]
                /\ Climb(leaf, first, idx, auth, n, addr) = f[n].node
                /\ \A j \in 1 .. n :
                     LET up == (f[j - 1].treeIdx - Bit(idx, j - 1)) \div 2
                     IN  f[j] = [treeIdx |-> up,
                                 node |-> IF Bit(idx, j - 1) = 0
                                          THEN Combine(addr, j, up, f[j - 1].node, auth[j])
                                          ELSE Combine(addr, j, up, auth[j], f[j - 1].node)]
<1> DEFINE First == [node |-> leaf, treeIdx |-> first]
           Step(j, v) == 
             [treeIdx |-> (v.treeIdx - Bit(idx, j - 1)) \div 2,
              node |-> IF Bit(idx, j - 1) = 0
                       THEN Combine(addr, j, (v.treeIdx - Bit(idx, j - 1)) \div 2, v.node, auth[j])
                       ELSE Combine(addr, j, (v.treeIdx - Bit(idx, j - 1)) \div 2, auth[j], v.node)]
           Body(f, k) == [j \in 0 .. k |-> IF j = 0 THEN First ELSE Step(j, f[j - 1])]
           E == {k \in Nat : \E f : f = Body(f, k)}
           F == CHOOSE f : f = Body(f, n)
<1> HIDE DEF First, Step
<1>1. 0 \in E
  <2> DEFINE g == [j \in 0 .. 0 |-> First]
  <2>1. g = Body(g, 0)
    OBVIOUS
  <2>2. QED
    BY <2>1
<1>2. ASSUME NEW k \in Nat, k \in E PROVE k + 1 \in E
  <2>1. PICK f : f = Body(f, k)
    BY <1>2
  <2> DEFINE g == [j \in 0 .. k + 1 |-> IF j = k + 1 THEN Step(k + 1, f[k]) ELSE f[j]]
  <2>2. ASSUME NEW j \in 0 .. k + 1 PROVE g[j] = IF j = 0 THEN First ELSE Step(j, g[j - 1])
    <3>1. CASE j = k + 1
      <4>1. j - 1 = k /\ k \in 0 .. k + 1 /\ k # k + 1 /\ j # 0
        BY <3>1
      <4>2. g[j] = Step(k + 1, f[k]) /\ g[k] = f[k]
        BY <3>1, <4>1
      <4>3. QED
        BY <3>1, <4>1, <4>2
    <3>2. CASE j # k + 1
      <4>1. j \in 0 .. k /\ g[j] = f[j]
        BY <3>2
      <4>2. f[j] = IF j = 0 THEN First ELSE Step(j, f[j - 1])
        BY <2>1, <4>1
      <4>3. j # 0 => j - 1 \in 0 .. k + 1 /\ j - 1 # k + 1
        BY <4>1
      <4>4. j # 0 => g[j - 1] = f[j - 1]
        BY <4>3
      <4>5. QED
        BY <4>1, <4>2, <4>4
    <3>3. QED
      BY <3>1, <3>2
  <2>3. g = Body(g, k + 1)
    BY <2>2
  <2> HIDE DEF g, Body
  <2>4. QED
    BY <2>3
<1> HIDE DEF E
<1>3. n \in E
  BY <1>1, <1>2, Induction
<1>4. F = Body(F, n)
  <2>1. \E f : f = Body(f, n)
    BY <1>3 DEF E
  <2> HIDE DEF Body
  <2>2. QED
    BY <2>1
<1>5. F[0] = First
  <2> HIDE DEF F
  <2>1. QED
    BY <1>4
<1>6. ASSUME NEW j \in 1 .. n PROVE F[j] = Step(j, F[j - 1])
  <2> HIDE DEF F
  <2>1. j \in 0 .. n /\ j # 0
    OBVIOUS
  <2>2. QED
    BY <1>4, <2>1
<1>7. Climb(leaf, first, idx, auth, n, addr) = F[n].node
  BY DEF Climb, First, Step
<1> HIDE DEF F
<1>8. QED
  BY <1>5, <1>6, <1>7 DEF First, Step

\* Division.
LEMMA DivNat == ASSUME NEW x \in Nat, NEW y \in Nat, y >= 1 PROVE x \div y \in Nat
OBVIOUS

LEMMA DivZero == ASSUME NEW x \in Nat, NEW y \in Nat, x < y PROVE x \div y = 0
OBVIOUS

LEMMA NatTimes == ASSUME NEW x \in Nat, NEW y \in Nat PROVE x * y \in Nat
OBVIOUS

LEMMA QuotientIs ==
  ASSUME NEW n \in Nat \ {0}, NEW r \in 0 .. n - 1, NEW k \in Int
  PROVE  (k * n + r) \div n = k
OBVIOUS

LEMMA DivTwice ==
  ASSUME NEW x \in Nat, NEW p \in Nat, p >= 1 PROVE x \div (2 * p) = (x \div p) \div 2
<1> DEFINE q == x \div p
           r == x % p
<1>1. q \in Nat /\ r \in Nat /\ r < p /\ x = q * p + r
  OBVIOUS
<1> HIDE DEF q, r
<1> DEFINE c == q \div 2
           b == q % 2
<1>2. c \in Nat /\ b \in 0 .. 1 /\ q = 2 * c + b
  BY <1>1
<1> HIDE DEF c, b
<1> DEFINE w == b * p + r
<1>3. x = c * (2 * p) + w
  BY <1>1, <1>2
<1>4. w \in Nat /\ w < 2 * p
  BY <1>1, <1>2
<1> HIDE DEF w
<1>5. x \div (2 * p) = c
  <2>1. 2 * p \in Nat \ {0} /\ w \in 0 .. (2 * p) - 1 /\ c \in Int
    BY <1>2, <1>4
  <2>2. QED
    BY <1>3, <2>1, QuotientIs
<1>6. QED
  BY <1>2, <1>5 DEF c, q

\* auth are the siblings on the way from the leaf idx of tree number o to the root of this tree.
IsPath(auth, leaf, n, addr, o, idx) ==
  \A j \in 1 .. n :
    auth[j] = Nodes(leaf, n, addr)[j - 1][o * two[n - (j - 1)] + Sibling(idx \div two[j - 1])]

\* They lead to this root.
LEMMA ClimbIs ==
  ASSUME NEW leaf, NEW n \in Nat, NEW addr, NEW o \in Nat, NEW idx \in Nat, NEW auth,
         IsPath(auth, leaf, n, addr, o, idx)
  PROVE  Climb(leaf[o * two[n] + idx], o * two[n] + idx, idx, auth, n, addr)
           = Nodes(leaf, n, addr)[n][o + idx \div two[n]]
<1> DEFINE N == Nodes(leaf, n, addr)
           Up(t, j) == (t - Bit(idx, j)) \div 2
           Step(j, s) ==
             [treeIdx |-> Up(s.treeIdx, j - 1),
              node |-> IF Bit(idx, j - 1) = 0
                       THEN Combine(addr, j, Up(s.treeIdx, j - 1), s.node, auth[j])
                       ELSE Combine(addr, j, Up(s.treeIdx, j - 1), auth[j], s.node)]
           First == [node |-> leaf[o * two[n] + idx], treeIdx |-> o * two[n] + idx]
           At(j) == o * two[n - j] + idx \div two[j]
<1>1. PICK F : /\ F[0] = First
               /\ Climb(leaf[o * two[n] + idx], o * two[n] + idx, idx, auth, n, addr) = F[n].node
               /\ \A j \in 1 .. n : F[j] = Step(j, F[j - 1])
  BY ClimbSteps
<1>4. /\ N[0] = leaf
      /\ \A z \in 1 .. n : \A i \in Nat : N[z][i] = Combine(addr, z, i, N[z - 1][2 * i], N[z - 1][2 * i + 1])
  <2> HIDE DEF Up, Step, First, At
  <2>1. N[0] = leaf
    BY NodesAre
  <2>2. ASSUME NEW z \in 1 .. n, NEW i \in Nat
        PROVE  N[z][i] = Combine(addr, z, i, N[z - 1][2 * i], N[z - 1][2 * i + 1])
    BY NodesAre
  <2>3. QED
    BY <2>1, <2>2
<1>5. ASSUME NEW j \in 1 .. n PROVE auth[j] = N[j - 1][o * two[n - (j - 1)] + Sibling(idx \div two[j - 1])]
  BY DEF IsPath
<1> HIDE DEF N
<1> DEFINE S == {j \in Nat : j <= n => F[j] = [node |-> N[j][At(j)], treeIdx |-> At(j)]}
<1>6. 0 \in S
  <2>1. two[0] = 1 /\ idx \div 1 = idx
    BY TwoRecursion
  <2>2. At(0) = o * two[n] + idx
    BY <2>1, TwoPositive
  <2>3. F[0] = First
    BY <1>1
  <2> HIDE DEF At
  <2>4. QED
    BY <1>4, <2>2, <2>3
<1>7. ASSUME NEW j \in Nat, j \in S PROVE j + 1 \in S
  <2> SUFFICES ASSUME j + 1 <= n
               PROVE  F[j + 1] = [node |-> N[j + 1][At(j + 1)], treeIdx |-> At(j + 1)]
    OBVIOUS
  <2>1. F[j] = [node |-> N[j][At(j)], treeIdx |-> At(j)]
    BY <1>7
  <2>2. j + 1 \in 0 .. n /\ j + 1 # 0 /\ (j + 1) - 1 = j /\ j + 1 \in 1 .. n
    OBVIOUS
  <2>3. F[j + 1] = Step(j + 1, F[j])
    <3> HIDE DEF Step, First
    <3>1. QED
      BY <1>1, <2>2
  <2> DEFINE y == idx \div two[j]
             t == o * two[n - (j + 1)]
  <2>4. y \in Nat
    BY TwoPositive, DivNat
  <2>5. t \in Nat
    BY TwoPositive, NatTimes
  <2>6. two[n - j] = 2 * two[n - (j + 1)]
    <3>1. n - (j + 1) \in Nat /\ (n - (j + 1)) + 1 = n - j
      OBVIOUS
    <3>2. QED
      BY <3>1, TwoRecursion
  <2>7. o * two[n - j] = 2 * t
    <3>1. two[n - (j + 1)] \in Nat
      BY TwoPositive
    <3>2. QED
      BY <2>6, <3>1
  <2>8. idx \div two[j + 1] = y \div 2
    <3>1. two[j + 1] = 2 * two[j]
      BY TwoRecursion
    <3>2. two[j] \in Nat /\ two[j] >= 1
      BY TwoPositive
    <3>3. idx \div (2 * two[j]) = (idx \div two[j]) \div 2
      BY <3>2, DivTwice
    <3>4. QED
      BY <3>1, <3>3
  <2>9. At(j) = 2 * t + y /\ At(j + 1) = t + y \div 2
    BY <2>7, <2>8
  <2>10. auth[j + 1] = N[j][2 * t + Sibling(y)]
    BY <1>5, <2>2, <2>7
  <2>11. Bit(idx, j) = y % 2
    BY DEF Bit
  <2> HIDE DEF t, y, At
  <2>12. Up(2 * t + y, j) = t + y \div 2 /\ t + y \div 2 \in Nat
    BY <2>4, <2>5, <2>11
  <2>13. N[j + 1][t + y \div 2] = Combine(addr, j + 1, t + y \div 2, N[j][2 * (t + y \div 2)], N[j][2 * (t + y \div 2) + 1])
    BY <1>4, <2>2, <2>12
  <2> HIDE DEF Up
  <2>14. CASE y % 2 = 0
    <3>1. 2 * (t + y \div 2) = 2 * t + y /\ 2 * (t + y \div 2) + 1 = 2 * t + Sibling(y)
      BY <2>4, <2>5, <2>14 DEF Sibling
    <3>2. QED
      BY <2>1, <2>2, <2>3, <2>9, <2>10, <2>11, <2>12, <2>13, <2>14, <3>1
  <2>15. CASE y % 2 # 0
    <3>1. 2 * (t + y \div 2) = 2 * t + Sibling(y) /\ 2 * (t + y \div 2) + 1 = 2 * t + y
      BY <2>4, <2>5, <2>15 DEF Sibling
    <3>2. QED
      BY <2>1, <2>2, <2>3, <2>9, <2>10, <2>11, <2>12, <2>13, <2>15, <3>1
  <2>16. QED
    BY <2>14, <2>15
<1> HIDE DEF S
<1>8. n \in S
  BY <1>6, <1>7, Induction
<1>9. F[n].node = N[n][At(n)]
  <2> HIDE DEF At
  <2>1. QED
    BY <1>8 DEF S
<1>10. At(n) = o + idx \div two[n]
  <2>1. two[n - n] = 1
    BY TwoRecursion
  <2>2. QED
    BY <2>1
<1>11. QED
  BY <1>1, <1>9, <1>10 DEF N

\* The numbers that are given.
LEMMA SlhConstants ==
  ASSUME SlhDsaAssumption
  PROVE  /\ hPrime \in Nat /\ SlhA \in Nat /\ WotsLgW \in Nat /\ wotsLen1 \in Nat /\ wotsLen2 \in Nat
         /\ SlhD \in Nat /\ SlhD >= 1 /\ SlhD - 1 \in Nat /\ SlhK \in Nat /\ SlhWord \in Nat
         /\ hPrime < SlhWord /\ (SlhD - 1) * hPrime \in SlhWord .. 2 * SlhWord
         /\ wotsW \in Nat /\ wotsW >= 1 /\ wotsLen \in Nat
<1>1. /\ hPrime \in Nat /\ SlhA \in Nat /\ WotsLgW \in Nat /\ wotsLen1 \in Nat /\ wotsLen2 \in Nat
      /\ SlhD \in Nat /\ SlhD # 0 /\ SlhK \in Nat /\ SlhWord \in Nat
      /\ hPrime < SlhWord /\ (SlhD - 1) * hPrime \in SlhWord .. 2 * SlhWord
  BY DEF SlhDsaAssumption
<1>2. wotsW \in Nat /\ wotsW >= 1
  BY <1>1, TwoPositive DEF wotsW
<1>3. wotsLen \in Nat
  BY <1>1 DEF wotsLen
<1>4. SlhD >= 1 /\ SlhD - 1 \in Nat
  BY <1>1
<1>5. QED
  BY <1>1, <1>2, <1>3, <1>4
-----------------------------------------------------------------------------
(* One-time signatures *)

HasDigits(msg) == Nibbles(msg) \in [1 .. wotsLen1 -> 0 .. wotsW - 1]

\* What is left for the checksum is a number.
LEMMA CsumNumber ==
  ASSUME SlhDsaAssumption, NEW msg, Nibbles(msg) \in [1 .. wotsLen1 -> 0 .. wotsW - 1]
  PROVE  Csum(msg)[wotsLen1] \in Int
<1> DEFINE First == wotsLen1 * (wotsW - 1)
           Step(j, v) == v - Nibbles(msg)[j]
           Body(f, k) == [j \in 0 .. k |-> IF j = 0 THEN First ELSE Step(j, f[j - 1])]
           E == {k \in Nat : \E f : f = Body(f, k)}
           F == CHOOSE f : f = Body(f, wotsLen1)
<1> HIDE DEF First, Step
<1> wotsLen1 \in Nat
  BY SlhConstants
<1>1. 0 \in E
  <2> DEFINE g == [j \in 0 .. 0 |-> First]
  <2>1. g = Body(g, 0)
    OBVIOUS
  <2>2. QED
    BY <2>1
<1>2. ASSUME NEW k \in Nat, k \in E PROVE k + 1 \in E
  <2>1. PICK f : f = Body(f, k)
    BY <1>2
  <2> DEFINE g == [j \in 0 .. k + 1 |-> IF j = k + 1 THEN Step(k + 1, f[k]) ELSE f[j]]
  <2>2. ASSUME NEW j \in 0 .. k + 1 PROVE g[j] = IF j = 0 THEN First ELSE Step(j, g[j - 1])
    <3>1. CASE j = k + 1
      <4>1. j - 1 = k /\ k \in 0 .. k + 1 /\ k # k + 1 /\ j # 0
        BY <3>1
      <4>2. g[j] = Step(k + 1, f[k]) /\ g[k] = f[k]
        BY <3>1, <4>1
      <4>3. QED
        BY <3>1, <4>1, <4>2
    <3>2. CASE j # k + 1
      <4>1. j \in 0 .. k /\ g[j] = f[j]
        BY <3>2
      <4>2. f[j] = IF j = 0 THEN First ELSE Step(j, f[j - 1])
        BY <2>1, <4>1
      <4>3. j # 0 => j - 1 \in 0 .. k + 1 /\ j - 1 # k + 1
        BY <4>1
      <4>4. j # 0 => g[j - 1] = f[j - 1]
        BY <4>3
      <4>5. QED
        BY <4>1, <4>2, <4>4
    <3>3. QED
      BY <3>1, <3>2
  <2>3. g = Body(g, k + 1)
    BY <2>2
  <2> HIDE DEF g, Body
  <2>4. QED
    BY <2>3
<1> HIDE DEF E
<1>3. wotsLen1 \in E
  BY <1>1, <1>2, Induction
<1>4. F = Body(F, wotsLen1)
  <2>1. \E f : f = Body(f, wotsLen1)
    BY <1>3 DEF E
  <2> HIDE DEF Body
  <2>2. QED
    BY <2>1
<1>5. F[0] = First
  <2> HIDE DEF F
  <2>1. QED
    BY <1>4
<1>6. ASSUME NEW j \in 1 .. wotsLen1 PROVE F[j] = Step(j, F[j - 1])
  <2> HIDE DEF F
  <2>1. j \in 0 .. wotsLen1 /\ j # 0
    OBVIOUS
  <2>2. QED
    BY <1>4, <2>1
<1>7. Csum(msg) = F
  BY DEF Csum, First, Step
<1> HIDE DEF F
<1>8. wotsW \in Nat
  BY SlhConstants
<1> DEFINE S == {k \in Nat : k <= wotsLen1 => F[k] \in Int}
<1>9. 0 \in S
  BY <1>5, <1>8 DEF First
<1>10. ASSUME NEW k \in Nat, k \in S PROVE k + 1 \in S
  <2> SUFFICES ASSUME k + 1 <= wotsLen1 PROVE F[k + 1] \in Int
    OBVIOUS
  <2>1. k + 1 \in 1 .. wotsLen1 /\ (k + 1) - 1 = k /\ k <= wotsLen1
    OBVIOUS
  <2>2. F[k] \in Int
    BY <1>10, <2>1
  <2>3. Nibbles(msg)[k + 1] \in Int
    BY <1>8, <2>1
  <2>4. F[k + 1] = F[k] - Nibbles(msg)[k + 1]
    BY <1>6, <2>1 DEF Step
  <2>5. QED
    BY <2>2, <2>3, <2>4
<1> HIDE DEF S
<1>11. wotsLen1 \in S
  BY <1>9, <1>10, Induction
<1>12. QED
  BY <1>7, <1>11 DEF S

\* All digits are shorter than a chain.
LEMMA DigitsShort ==
  ASSUME SlhDsaAssumption, NEW msg, HasDigits(msg), NEW i \in 1 .. wotsLen
  PROVE  Digits(msg)[i] \in 0 .. wotsW - 1
<1> USE DEF HasDigits
<1>1. wotsLen1 \in Nat /\ wotsW \in Nat /\ wotsW >= 1 /\ WotsLgW \in Nat /\ wotsLen \in Nat
  BY SlhConstants
<1>2. CASE i <= wotsLen1
  <2>1. Digits(msg)[i] = Nibbles(msg)[i] /\ i \in 1 .. wotsLen1
    BY <1>1, <1>2 DEF Digits
  <2>2. QED
    BY <2>1
<1>3. CASE ~(i <= wotsLen1)
  <2> DEFINE c == Csum(msg)[wotsLen1]
             t == two[WotsLgW * (wotsLen - i)]
  <2>1. c \in Int
    BY CsumNumber
  <2>2. t \in Nat /\ t >= 1
    <3>1. WotsLgW * (wotsLen - i) \in Nat
      BY <1>1, NatTimes
    <3>2. QED
      BY <3>1, TwoPositive
  <2>3. Digits(msg)[i] = (c \div t) % wotsW
    BY <1>3 DEF Digits
  <2> HIDE DEF c, t
  <2>4. c \div t \in Int
    BY <2>1, <2>2
  <2>5. wotsW \in Nat \ {0}
    BY <1>1
  <2>6. (c \div t) % wotsW \in 0 .. wotsW - 1
    BY <2>4, <2>5, Remainder
  <2>7. QED
    BY <2>3, <2>6
<1>4. QED
  BY <1>2, <1>3

\* The key that a signature gives is the key it was made with.
LEMMA WotsVerifies ==
  ASSUME SlhDsaAssumption, NEW msg, HasDigits(msg), NEW addr
  PROVE  wotsPkFromSig(wotsSign(msg, addr), msg, addr) = wotsPkGen(addr)
<1>1. ASSUME NEW i \in 1 .. wotsLen
      PROVE  chain(wotsSign(msg, addr)[i], Digits(msg)[i], wotsW - 1 - Digits(msg)[i], ChainOf(addr, i))
               = chain(SecretOf(addr, i), 0, wotsW - 1, ChainOf(addr, i))
  <2> DEFINE m == Digits(msg)[i]
             n == wotsW - 1 - m
  <2>1. m \in 0 .. wotsW - 1 /\ wotsW \in Nat
    BY DigitsShort, SlhConstants
  <2>2. wotsSign(msg, addr)[i] = chain(SecretOf(addr, i), 0, m, ChainOf(addr, i))
    BY DEF wotsSign
  <2> HIDE DEF m
  <2>3. m \in Nat /\ n \in Nat /\ 0 + m = m /\ m + n = wotsW - 1 /\ 0 \in Int
    BY <2>1
  <2> HIDE DEF n
  <2>4. chain(chain(SecretOf(addr, i), 0, m, ChainOf(addr, i)), 0 + m, n, ChainOf(addr, i))
          = chain(SecretOf(addr, i), 0, m + n, ChainOf(addr, i))
    BY <2>3, ChainComposes
  <2>5. chain(chain(SecretOf(addr, i), 0, m, ChainOf(addr, i)), m, n, ChainOf(addr, i))
          = chain(SecretOf(addr, i), 0, wotsW - 1, ChainOf(addr, i))
    BY <2>3, <2>4
  <2>6. QED
    BY <2>2, <2>5 DEF m, n
<1>2. [i \in 1 .. wotsLen |->
         chain(wotsSign(msg, addr)[i], Digits(msg)[i], wotsW - 1 - Digits(msg)[i], ChainOf(addr, i))]
        = [i \in 1 .. wotsLen |-> chain(SecretOf(addr, i), 0, wotsW - 1, ChainOf(addr, i))]
  BY <1>1
<1>3. QED
  BY <1>2 DEF wotsPkFromSig, wotsPkGen
-----------------------------------------------------------------------------
(* Trees *)

LEMMA SiblingNat == ASSUME NEW x \in Nat PROVE Sibling(x) \in Nat
BY DEF Sibling

\* A layer's signature gives the root of the tree of idx.
LEMMA XmssVerifies ==
  ASSUME SlhDsaAssumption, NEW msg, HasDigits(msg), NEW idx \in Nat, idx < two[hPrime], NEW addr
  PROVE  xmssPkFromSig(msg, xmssSign(msg, idx, addr), idx, addr) = xmssNode(0, hPrime, addr)
<1> DEFINE leaf == [y \in Nat |-> wotsPkGen(WotsOf(addr, y))]
           tree == SetTypeAndClear(addr, "Tree")
           auth == xmssSign(msg, idx, addr).authPath
           N == Nodes(leaf, hPrime, tree)
<1>1. hPrime \in Nat
  BY SlhConstants
<1> PICK o \in Nat : o = 0
  OBVIOUS
<1>2. two[hPrime] \in Nat /\ o * two[hPrime] + idx = idx /\ o + idx \div two[hPrime] = 0
  BY <1>1, TwoPositive
<1>3. ASSUME NEW j \in 1 .. hPrime
      PROVE  auth[j] = N[j - 1][o * two[hPrime - (j - 1)] + Sibling(idx \div two[j - 1])]
  <2>1. two[j - 1] \in Nat /\ two[j - 1] >= 1 /\ two[hPrime - (j - 1)] \in Nat
    BY <1>1, TwoPositive
  <2>2. Sibling(idx \div two[j - 1]) \in Nat
    BY <2>1, DivNat, SiblingNat
  <2>3. o * two[hPrime - (j - 1)] + Sibling(idx \div two[j - 1]) = Sibling(idx \div two[j - 1])
    BY <2>1, <2>2
  <2>4. auth[j] = xmssNode(Sibling(idx \div two[j - 1]), j - 1, addr)
    BY DEF xmssSign
  <2>5. xmssNode(Sibling(idx \div two[j - 1]), j - 1, addr) = N[j - 1][Sibling(idx \div two[j - 1])]
    BY DEF xmssNode
  <2>6. QED
    BY <2>3, <2>4, <2>5
<1>4. xmssPkFromSig(msg, xmssSign(msg, idx, addr), idx, addr)
        = Climb(wotsPkFromSig(wotsSign(msg, WotsOf(addr, idx)), msg, WotsOf(addr, idx)),
                idx, idx, auth, hPrime, tree)
  BY DEF xmssPkFromSig, xmssSign
<1>5. wotsPkFromSig(wotsSign(msg, WotsOf(addr, idx)), msg, WotsOf(addr, idx)) = leaf[idx]
  BY WotsVerifies
<1>6. xmssNode(0, hPrime, addr) = N[hPrime][0]
  BY DEF xmssNode
<1> HIDE DEF leaf, tree, auth
<1>7. Climb(leaf[o * two[hPrime] + idx], o * two[hPrime] + idx, idx, auth, hPrime, tree)
        = N[hPrime][o + idx \div two[hPrime]]
  <2>1. IsPath(auth, leaf, hPrime, tree, o, idx)
    BY <1>3 DEF IsPath
  <2> HIDE DEF N
  <2>2. Climb(leaf[o * two[hPrime] + idx], o * two[hPrime] + idx, idx, auth, hPrime, tree)
          = Nodes(leaf, hPrime, tree)[hPrime][o + idx \div two[hPrime]]
    BY <1>1, <2>1, ClimbIs
  <2>3. QED
    BY <2>2 DEF N
<1>8. QED
  BY <1>2, <1>4, <1>5, <1>6, <1>7

\* The key of the few-time signature is that of the roots of the trees.
LEMMA ForsVerifies ==
  ASSUME SlhDsaAssumption, NEW md \in [1 .. SlhK -> 0 .. two[SlhA] - 1], NEW addr
  PROVE  forsPkFromSig(forsSign(md, addr), md, addr)
           = Final("T", Retyped(addr, "ForsRoots"), [i \in 1 .. SlhK |-> forsNode(i - 1, SlhA, addr)])
<1> DEFINE leaf == [y \in Nat |-> forsLeaf(forsSkGen(addr, y), addr, y)]
           N == Nodes(leaf, SlhA, addr)
           at(i) == (i - 1) * two[SlhA] + md[i]
           s == forsSign(md, addr)
<1>1. SlhA \in Nat /\ SlhK \in Nat /\ two[SlhA] \in Nat
  BY SlhConstants, TwoPositive
<1>2. ASSUME NEW i \in 1 .. SlhK
      PROVE  Climb(forsLeaf(s[i].sk, addr, at(i)), at(i), md[i], s[i].auth, SlhA, addr)
               = forsNode(i - 1, SlhA, addr)
  <2> PICK o \in Nat : o = i - 1
    BY <1>1
  <2>1. md[i] \in Nat /\ md[i] < two[SlhA]
    BY <1>1
  <2>2. o * two[SlhA] \in Nat
    BY <1>1, NatTimes
  <2>3. at(i) = o * two[SlhA] + md[i] /\ at(i) \in Nat
    BY <2>1, <2>2
  <2>4. /\ s[i].sk = forsSkGen(addr, at(i))
        /\ s[i].auth = [j \in 1 .. SlhA |->
                  forsNode((i - 1) * two[SlhA - (j - 1)] + Sibling(md[i] \div two[j - 1]), j - 1, addr)]
    BY DEF forsSign
  <2>5. forsLeaf(s[i].sk, addr, at(i)) = leaf[at(i)]
    BY <2>3, <2>4
  <2>6. ASSUME NEW j \in 1 .. SlhA
        PROVE  s[i].auth[j] = N[j - 1][o * two[SlhA - (j - 1)] + Sibling(md[i] \div two[j - 1])]
    BY <2>4 DEF forsNode
  <2>7. forsNode(i - 1, SlhA, addr) = N[SlhA][o]
    BY DEF forsNode
  <2>8. o + md[i] \div two[SlhA] = o
    <3>1. md[i] \div two[SlhA] = 0
      BY <1>1, <2>1, DivZero
    <3>2. QED
      BY <3>1
  <2> HIDE DEF leaf, s, at
  <2>9. Climb(leaf[o * two[SlhA] + md[i]], o * two[SlhA] + md[i], md[i], s[i].auth, SlhA, addr)
          = N[SlhA][o + md[i] \div two[SlhA]]
    <3>1. IsPath(s[i].auth, leaf, SlhA, addr, o, md[i])
      BY <2>6 DEF IsPath
    <3> HIDE DEF N
    <3> PICK x \in Nat : x = md[i]
      BY <2>1
    <3> PICK auth : auth = s[i].auth
      OBVIOUS
    <3>2. IsPath(auth, leaf, SlhA, addr, o, x)
      BY <3>1
    <3>3. Climb(leaf[o * two[SlhA] + x], o * two[SlhA] + x, x, auth, SlhA, addr)
            = Nodes(leaf, SlhA, addr)[SlhA][o + x \div two[SlhA]]
      BY <1>1, <3>2, ClimbIs
    <3>4. QED
      BY <3>3 DEF N
  <2>10. QED
    BY <2>3, <2>5, <2>7, <2>8, <2>9
<1>3. [i \in 1 .. SlhK |-> Climb(forsLeaf(s[i].sk, addr, at(i)), at(i), md[i], s[i].auth, SlhA, addr)]
        = [i \in 1 .. SlhK |-> forsNode(i - 1, SlhA, addr)]
  <2> HIDE DEF at, s
  <2>1. QED
    BY <1>2
<1>4. QED
  BY <1>3 DEF forsPkFromSig
-----------------------------------------------------------------------------
(* The index of the tree, in words *)

\* t is the index of a tree of n bits, in two words.
HasBits(t, n) ==
  \E x, y \in Nat : /\ t = <<x, y, 0>> /\ x < two[SlhWord] /\ y < two[SlhWord]
                    /\ x + y * two[SlhWord] < two[n]

\* The leaf of the layer above and its tree: the bits of the words, shifted as one number.
Shifted(x, y, above, l, s, q, r) ==
  LET g == two[hPrime]
      f == two[SlhWord - hPrime]
  IN  /\ l < g /\ s < f /\ r < g
      /\ x = s * g + l /\ y = q * g + r
      /\ above.idxLeaf = l /\ above.idxTree = <<s + r * f, q, 0>>

LEMMA NextIndexWords ==
  ASSUME SlhDsaAssumption, NEW x \in Nat, NEW y \in Nat, x < two[SlhWord], y < two[SlhWord]
  PROVE  \E l, s, q, r \in Nat : Shifted(x, y, nextIndex(<<x, y, 0>>), l, s, q, r)
<1> DEFINE t == <<x, y, 0>>
           g == two[hPrime]
           f == two[SlhWord - hPrime]
           M == two[SlhWord]
<1>1. hPrime \in Nat /\ SlhWord - hPrime \in Nat /\ SlhWord = hPrime + (SlhWord - hPrime)
  BY SlhConstants
<1>2. g \in Nat \ {0} /\ f \in Nat \ {0} /\ M \in Nat \ {0}
  <2>1. SlhWord \in Nat
    BY SlhConstants
  <2>2. QED
    BY <1>1, <2>1, TwoPositive
<1>3. M = g * f
  BY <1>1, TwoSum
<1>4. nextIndex(t) = [idxLeaf |-> x % g,
                      idxTree |-> <<x \div g + ((y * f) % M), y \div g + ((0 * f) % M), 0 \div g>>]
  BY DEF nextIndex
<1>5. x < M /\ y < M
  OBVIOUS
<1> HIDE DEF g, f, M, t
<1> DEFINE q == y \div g
           r == y % g
           s == x \div g
           l == x % g
<1>6. q \in Nat /\ r \in Nat /\ r < g /\ y = q * g + r
  BY <1>2
<1>7. s \in Nat /\ l \in Nat /\ l < g /\ x = s * g + l
  BY <1>2
<1> HIDE DEF q, r, s, l
<1>8. (0 * f) % M = 0 /\ 0 \div g = 0
  BY <1>2
<1>9. (y * f) % M = r * f
  <2>1. y * f = r * f + q * M
    BY <1>2, <1>3, <1>6
  <2>2. r * f \in Nat /\ r * f < M
    <3>1. r * f \in Nat /\ (g - r) * f >= f
      BY <1>2, <1>6
    <3>2. (g - r) * f = M - r * f
      BY <1>2, <1>3, <1>6
    <3>3. QED
      BY <1>2, <3>1, <3>2
  <2> DEFINE e == r * f
  <2>3. e \in 0 .. M - 1
    BY <1>2, <2>2
  <2> HIDE DEF e
  <2>4. (e + q * M) % M = e
    BY <1>2, <1>6, <2>3, RemainderIs
  <2>5. QED
    BY <2>1, <2>4 DEF e
<1>10. nextIndex(t).idxLeaf = l /\ nextIndex(t).idxTree = <<s + r * f, q, 0>>
  <2>1. q + 0 = q
    BY <1>6
  <2>2. nextIndex(t).idxTree = <<x \div g + ((y * f) % M), y \div g + ((0 * f) % M), 0 \div g>>
    BY <1>4
  <2>3. QED
    BY <1>4, <1>8, <1>9, <2>1, <2>2 DEF q, s, l
<1>11. s * g < M
  BY <1>2, <1>5, <1>7
<1>12. s < f
  <2> SUFFICES ASSUME f <= s PROVE FALSE
    BY <1>2, <1>7
  <2>1. f * g <= s * g
    BY <1>2, <1>7
  <2>2. QED
    BY <1>2, <1>3, <1>7, <1>11, <2>1
<1>13. Shifted(x, y, nextIndex(t), l, s, q, r)
  BY <1>6, <1>7, <1>10, <1>12 DEF Shifted, f, g
<1>14. QED
  BY <1>6, <1>7, <1>13 DEF t

\* The index of the layer above is shorter by the height of a layer.
LEMMA NextIndexIs ==
  ASSUME SlhDsaAssumption, NEW t, NEW n \in Nat, HasBits(t, hPrime + n)
  PROVE  /\ nextIndex(t).idxLeaf \in Nat /\ nextIndex(t).idxLeaf < two[hPrime]
         /\ HasBits(nextIndex(t).idxTree, n)
<1>1. PICK x, y \in Nat : /\ t = <<x, y, 0>> /\ x < two[SlhWord] /\ y < two[SlhWord]
                          /\ x + y * two[SlhWord] < two[hPrime + n]
  BY DEF HasBits
<1> DEFINE g == two[hPrime]
           f == two[SlhWord - hPrime]
           M == two[SlhWord]
           N == two[n]
<1>2. hPrime \in Nat /\ SlhWord - hPrime \in Nat /\ SlhWord = hPrime + (SlhWord - hPrime)
  BY SlhConstants
<1>3. g \in Nat \ {0} /\ f \in Nat \ {0} /\ M \in Nat \ {0} /\ N \in Nat
  <2>1. SlhWord \in Nat
    BY SlhConstants
  <2>2. QED
    BY <1>2, <2>1, TwoPositive
<1>4. M = g * f /\ two[hPrime + n] = g * N
  BY <1>2, TwoSum
<1>5. PICK l, s, q, r \in Nat :
        /\ l < g /\ s < f /\ r < g
        /\ x = s * g + l /\ y = q * g + r
        /\ nextIndex(t).idxLeaf = l
        /\ nextIndex(t).idxTree = <<s + r * f, q, 0>>
  <2>1. \E l0, s0, q0, r0 \in Nat : Shifted(x, y, nextIndex(t), l0, s0, q0, r0)
    BY <1>1, NextIndexWords
  <2>2. QED
    BY <2>1 DEF Shifted
<1>6. x < M /\ y < M /\ x + y * M < g * N
  BY <1>1, <1>4
<1> HIDE DEF g, f, M, N
<1> DEFINE x2 == s + r * f
           y2 == q
<1>7. x2 \in Nat /\ y2 \in Nat
  BY <1>3, <1>5
<1>8. x2 < M
  <2>1. (r + 1) * f <= g * f
    BY <1>3, <1>5
  <2>2. (r + 1) * f = r * f + f
    BY <1>3, <1>5
  <2>3. QED
    BY <1>3, <1>4, <1>5, <2>1, <2>2
<1>9. y2 < M
  <2>1. q <= q * g
    BY <1>3, <1>5
  <2>2. QED
    BY <1>3, <1>5, <1>6, <2>1
<1>10. x2 + y2 * M < N
  <2> DEFINE v == x2 + y2 * M
  <2>1. v \in Nat
    BY <1>3, <1>7
  <2>2. v * g = s * g + r * (g * f) + (q * g) * M
    BY <1>3, <1>5
  <2>3. y * M = (q * g) * M + r * M
    BY <1>3, <1>5
  <2>4. v * g <= x + y * M
    BY <1>3, <1>4, <1>5, <2>1, <2>2, <2>3
  <2>5. v * g < N * g
    BY <1>3, <1>6, <2>1, <2>4
  <2> HIDE DEF v
  <2>6. v < N
    <3> SUFFICES ASSUME N <= v PROVE FALSE
      BY <1>3, <2>1
    <3>1. N * g <= v * g
      BY <1>3, <2>1
    <3>2. QED
      BY <1>3, <2>1, <2>5, <3>1
  <2>7. QED
    BY <2>6 DEF v
<1>11. nextIndex(t).idxTree = <<x2, y2, 0>>
  BY <1>5
<1> HIDE DEF x2, y2
<1>12. HasBits(<<x2, y2, 0>>, n)
  BY <1>7, <1>8, <1>9, <1>10 DEF HasBits, M, N
<1>13. QED
  BY <1>5, <1>11, <1>12 DEF g

\* The tree below is known from the tree and the leaf above.
LEMMA NextIndexInjective ==
  ASSUME SlhDsaAssumption, NEW n \in Nat, NEW m \in Nat, NEW t, NEW u, HasBits(t, n), HasBits(u, m),
         nextIndex(t).idxLeaf = nextIndex(u).idxLeaf, nextIndex(t).idxTree = nextIndex(u).idxTree
  PROVE  t = u
<1> DEFINE g == two[hPrime]
           f == two[SlhWord - hPrime]
<1>1. g \in Nat \ {0} /\ f \in Nat \ {0}
  BY SlhConstants, TwoPositive
<1>2. PICK x, y \in Nat : t = <<x, y, 0>> /\ x < two[SlhWord] /\ y < two[SlhWord]
  BY DEF HasBits
<1>3. PICK l, s, q, r \in Nat :
        /\ l < g /\ s < f /\ r < g /\ x = s * g + l /\ y = q * g + r
        /\ nextIndex(t).idxLeaf = l /\ nextIndex(t).idxTree = <<s + r * f, q, 0>>
  <2>1. \E l0, s0, q0, r0 \in Nat : Shifted(x, y, nextIndex(t), l0, s0, q0, r0)
    BY <1>2, NextIndexWords
  <2>2. QED
    BY <2>1 DEF Shifted
<1>4. PICK x1, y1 \in Nat : u = <<x1, y1, 0>> /\ x1 < two[SlhWord] /\ y1 < two[SlhWord]
  BY DEF HasBits
<1>5. PICK l1, s1, q1, r1 \in Nat :
        /\ l1 < g /\ s1 < f /\ r1 < g /\ x1 = s1 * g + l1 /\ y1 = q1 * g + r1
        /\ nextIndex(u).idxLeaf = l1 /\ nextIndex(u).idxTree = <<s1 + r1 * f, q1, 0>>
  <2>1. \E l0, s0, q0, r0 \in Nat : Shifted(x1, y1, nextIndex(u), l0, s0, q0, r0)
    BY <1>4, NextIndexWords
  <2>2. QED
    BY <2>1 DEF Shifted
<1> HIDE DEF g, f
<1>6. l = l1 /\ q = q1 /\ s + r * f = s1 + r1 * f
  <2>1. <<s + r * f, q, 0>> = <<s1 + r1 * f, q1, 0>>
    BY <1>3, <1>5
  <2>2. QED
    BY <1>3, <1>5, <2>1
<1>7. s = (s + r * f) % f /\ s1 = (s1 + r1 * f) % f
  <2>1. s \in 0 .. f - 1 /\ s1 \in 0 .. f - 1
    BY <1>1, <1>3, <1>5
  <2>2. QED
    BY <1>1, <2>1, RemainderIs
<1>8. s = s1
  BY <1>6, <1>7
<1>9. r = r1
  <2>1. r * f = r1 * f
    <3>1. r * f \in Nat /\ r1 * f \in Nat
      BY <1>1, NatTimes
    <3>2. QED
      BY <1>6, <1>8, <3>1
  <2>2. (r - r1) * f = 0
    BY <1>1, <2>1
  <2>3. QED
    BY <1>1, <2>2
<1>10. QED
  BY <1>2, <1>3, <1>4, <1>5, <1>6, <1>8, <1>9

\* The index that is parsed has a layer's bits for all layers but the lowest.
LEMMA ParsedIs ==
  ASSUME SlhDsaAssumption, NEW digest \in Digest
  PROVE  LET p == parseMsg(digest)
         IN  /\ p.md \in [1 .. SlhK -> 0 .. two[SlhA] - 1]
             /\ p.idxLeaf \in Nat /\ p.idxLeaf < two[hPrime]
             /\ HasBits(p.idxTree, (SlhD - 1) * hPrime)
<1> DEFINE p == parseMsg(digest)
           n2 == (SlhD - 1) * hPrime
           M == two[SlhWord]
           T == digest.tree
<1>1. /\ SlhWord \in Nat /\ hPrime \in Nat /\ n2 \in Nat /\ SlhWord <= n2 /\ n2 <= 2 * SlhWord
      /\ n2 - SlhWord \in Nat
  BY SlhConstants
<1>2. /\ digest.md \in [1 .. SlhK -> 0 .. two[SlhA] - 1] /\ T \in Nat /\ T < two[2 * SlhWord]
      /\ digest.leaf \in Nat
  BY DEF SlhDsaAssumption
<1>3. M \in Nat \ {0} /\ two[hPrime] \in Nat \ {0}
  BY <1>1, TwoPositive
<1>4. two[2 * SlhWord] = M * M /\ two[SlhWord * 2] = M * M /\ two[SlhWord * 1] = M /\ two[SlhWord * 0] = 1
  <2>1. 2 * SlhWord = SlhWord + SlhWord /\ SlhWord * 2 = SlhWord + SlhWord /\ SlhWord * 1 = SlhWord /\ SlhWord * 0 = 0
    BY <1>1
  <2>2. QED
    BY <1>1, <2>1, TwoSum, TwoRecursion
<1> DEFINE word(i) == (T \div two[SlhWord * i]) % M
<1>5. p = [md |-> digest.md, idxLeaf |-> digest.leaf % two[hPrime],
           idxTree |-> <<Masked(word(0), n2),
                         IF n2 >= SlhWord THEN Masked(word(1), n2 - SlhWord) ELSE word(1),
                         word(2)>>]
  BY DEF parseMsg
<1> HIDE DEF p, n2, M, T
<1> DEFINE y == T \div M
           x == T % M
<1>6. y \in Nat /\ x \in Nat /\ x < M /\ T = y * M + x
  BY <1>2, <1>3
<1> HIDE DEF y
<1>7. y < M
  <2> SUFFICES ASSUME M <= y PROVE FALSE
    BY <1>3, <1>6
  <2>1. M * M <= y * M
    BY <1>3, <1>6
  <2>2. M * M \in Nat /\ y * M \in Nat
    BY <1>3, <1>6, NatTimes
  <2>3. QED
    BY <1>2, <1>4, <1>6, <2>1, <2>2
<1>8. word(0) = x /\ word(1) = y /\ word(2) = 0
  <2>1. T \div 1 = T
    BY <1>2
  <2>2. y % M = y
    BY <1>3, <1>6, <1>7
  <2>3. T \div (M * M) = 0
    <3>1. M * M \in Nat
      BY <1>3, NatTimes
    <3>2. QED
      BY <1>2, <1>4, <3>1, DivZero
  <2>4. 0 % M = 0
    BY <1>3
  <2>5. QED
    BY <1>4, <2>1, <2>2, <2>3, <2>4 DEF y
<1> HIDE DEF x, word
<1>9. Masked(x, n2) = x
  <2>1. ~(n2 < SlhWord)
    BY <1>1
  <2>2. QED
    BY <2>1 DEF Masked
<1> DEFINE k == n2 - SlhWord
           z == Masked(y, k)
<1>10. k \in Nat /\ two[k] \in Nat \ {0} /\ two[n2] = two[k] * M
  <2>1. k \in Nat /\ n2 = k + SlhWord
    BY <1>1
  <2> HIDE DEF k
  <2>2. two[k + SlhWord] = two[k] * M
    BY <1>1, <2>1, TwoSum DEF M
  <2>3. two[k] \in Nat \ {0}
    BY <2>1, TwoPositive
  <2>4. QED
    BY <2>1, <2>2, <2>3
<1>11. z \in Nat /\ z < two[k] /\ z < M
  <2>1. CASE k < SlhWord
    <3>1. z = y % two[k]
      BY <2>1 DEF Masked
    <3>2. y % two[k] \in Nat /\ y % two[k] < two[k] /\ y % two[k] <= y
      BY <1>6, <1>10
    <3>3. QED
      BY <1>3, <1>6, <1>7, <3>1, <3>2
  <2>2. CASE ~(k < SlhWord)
    <3>1. z = y
      BY <2>2 DEF Masked
    <3>2. k = SlhWord
      BY <1>1, <2>2
    <3>3. two[k] = M
      BY <3>2 DEF M
    <3>4. QED
      BY <1>6, <1>7, <3>1, <3>3
  <2>3. QED
    BY <2>1, <2>2
<1>12. p.idxTree = <<x, z, 0>>
  BY <1>1, <1>5, <1>8, <1>9
<1> HIDE DEF z, k
<1>13. x + z * M < two[n2]
  <2>1. (two[k] - z) * M >= M
    BY <1>3, <1>10, <1>11
  <2>2. (two[k] - z) * M = two[k] * M - z * M
    BY <1>3, <1>10, <1>11
  <2>3. z * M \in Nat /\ two[k] * M \in Nat
    BY <1>3, <1>10, <1>11, NatTimes
  <2>4. QED
    BY <1>3, <1>6, <1>10, <2>1, <2>2, <2>3
<1>14. HasBits(p.idxTree, n2)
  BY <1>6, <1>11, <1>12, <1>13 DEF HasBits, M
<1>15. p.md = digest.md /\ p.idxLeaf = digest.leaf % two[hPrime]
  BY <1>5
<1>16. digest.leaf % two[hPrime] \in Nat /\ digest.leaf % two[hPrime] < two[hPrime]
  BY <1>2, <1>3
<1>17. QED
  BY <1>2, <1>14, <1>15, <1>16 DEF p, n2
-----------------------------------------------------------------------------
(* The layers *)

\* The indices of the layers.
LEMMA IndicesAre ==
  ASSUME SlhDsaAssumption, NEW p
  PROVE  /\ Indices(p)[0] = [idxLeaf |-> p.idxLeaf, idxTree |-> p.idxTree]
         /\ \A j \in 1 .. SlhD - 1 : Indices(p)[j] = nextIndex(Indices(p)[j - 1].idxTree)
<1> DEFINE First == [idxLeaf |-> p.idxLeaf, idxTree |-> p.idxTree]
           Step(j, v) == nextIndex(v.idxTree)
           Body(f, k) == [j \in 0 .. k |-> IF j = 0 THEN First ELSE Step(j, f[j - 1])]
           E == {k \in Nat : \E f : f = Body(f, k)}
           F == CHOOSE f : f = Body(f, (SlhD - 1))
<1> HIDE DEF First, Step
<1> SlhD - 1 \in Nat
  BY SlhConstants
<1>1. 0 \in E
  <2> DEFINE g == [j \in 0 .. 0 |-> First]
  <2>1. g = Body(g, 0)
    OBVIOUS
  <2>2. QED
    BY <2>1
<1>2. ASSUME NEW k \in Nat, k \in E PROVE k + 1 \in E
  <2>1. PICK f : f = Body(f, k)
    BY <1>2
  <2> DEFINE g == [j \in 0 .. k + 1 |-> IF j = k + 1 THEN Step(k + 1, f[k]) ELSE f[j]]
  <2>2. ASSUME NEW j \in 0 .. k + 1 PROVE g[j] = IF j = 0 THEN First ELSE Step(j, g[j - 1])
    <3>1. CASE j = k + 1
      <4>1. j - 1 = k /\ k \in 0 .. k + 1 /\ k # k + 1 /\ j # 0
        BY <3>1
      <4>2. g[j] = Step(k + 1, f[k]) /\ g[k] = f[k]
        BY <3>1, <4>1
      <4>3. QED
        BY <3>1, <4>1, <4>2
    <3>2. CASE j # k + 1
      <4>1. j \in 0 .. k /\ g[j] = f[j]
        BY <3>2
      <4>2. f[j] = IF j = 0 THEN First ELSE Step(j, f[j - 1])
        BY <2>1, <4>1
      <4>3. j # 0 => j - 1 \in 0 .. k + 1 /\ j - 1 # k + 1
        BY <4>1
      <4>4. j # 0 => g[j - 1] = f[j - 1]
        BY <4>3
      <4>5. QED
        BY <4>1, <4>2, <4>4
    <3>3. QED
      BY <3>1, <3>2
  <2>3. g = Body(g, k + 1)
    BY <2>2
  <2> HIDE DEF g, Body
  <2>4. QED
    BY <2>3
<1> HIDE DEF E
<1>3. (SlhD - 1) \in E
  BY <1>1, <1>2, Induction
<1>4. F = Body(F, (SlhD - 1))
  <2>1. \E f : f = Body(f, (SlhD - 1))
    BY <1>3 DEF E
  <2> HIDE DEF Body
  <2>2. QED
    BY <2>1
<1>5. F[0] = First
  <2> HIDE DEF F
  <2>1. QED
    BY <1>4
<1>6. ASSUME NEW j \in 1 .. (SlhD - 1) PROVE F[j] = Step(j, F[j - 1])
  <2> HIDE DEF F
  <2>1. j \in 0 .. (SlhD - 1) /\ j # 0
    OBVIOUS
  <2>2. QED
    BY <1>4, <2>1
<1>7. Indices(p) = F
  BY DEF Indices, First, Step
<1> HIDE DEF F
<1>8. QED
  BY <1>5, <1>6, <1>7 DEF First, Step

\* What the signer signs on each layer.
LEMMA RootsAre ==
  ASSUME SlhDsaAssumption, NEW msg, NEW p
  PROVE  /\ Roots(msg, p)[0] = msg
         /\ \A j \in 1 .. SlhD - 1 :
              Roots(msg, p)[j] = RootOnLayer(Roots(msg, p)[j - 1],
                                             SignOnLayer(Roots(msg, p)[j - 1], p, j - 1), p, j - 1)
<1> DEFINE First == msg
           Step(j, v) == RootOnLayer(v, SignOnLayer(v, p, j - 1), p, j - 1)
           Body(f, k) == [j \in 0 .. k |-> IF j = 0 THEN First ELSE Step(j, f[j - 1])]
           E == {k \in Nat : \E f : f = Body(f, k)}
           F == CHOOSE f : f = Body(f, (SlhD - 1))
<1> HIDE DEF First, Step
<1> SlhD - 1 \in Nat
  BY SlhConstants
<1>1. 0 \in E
  <2> DEFINE g == [j \in 0 .. 0 |-> First]
  <2>1. g = Body(g, 0)
    OBVIOUS
  <2>2. QED
    BY <2>1
<1>2. ASSUME NEW k \in Nat, k \in E PROVE k + 1 \in E
  <2>1. PICK f : f = Body(f, k)
    BY <1>2
  <2> DEFINE g == [j \in 0 .. k + 1 |-> IF j = k + 1 THEN Step(k + 1, f[k]) ELSE f[j]]
  <2>2. ASSUME NEW j \in 0 .. k + 1 PROVE g[j] = IF j = 0 THEN First ELSE Step(j, g[j - 1])
    <3>1. CASE j = k + 1
      <4>1. j - 1 = k /\ k \in 0 .. k + 1 /\ k # k + 1 /\ j # 0
        BY <3>1
      <4>2. g[j] = Step(k + 1, f[k]) /\ g[k] = f[k]
        BY <3>1, <4>1
      <4>3. QED
        BY <3>1, <4>1, <4>2
    <3>2. CASE j # k + 1
      <4>1. j \in 0 .. k /\ g[j] = f[j]
        BY <3>2
      <4>2. f[j] = IF j = 0 THEN First ELSE Step(j, f[j - 1])
        BY <2>1, <4>1
      <4>3. j # 0 => j - 1 \in 0 .. k + 1 /\ j - 1 # k + 1
        BY <4>1
      <4>4. j # 0 => g[j - 1] = f[j - 1]
        BY <4>3
      <4>5. QED
        BY <4>1, <4>2, <4>4
    <3>3. QED
      BY <3>1, <3>2
  <2>3. g = Body(g, k + 1)
    BY <2>2
  <2> HIDE DEF g, Body
  <2>4. QED
    BY <2>3
<1> HIDE DEF E
<1>3. (SlhD - 1) \in E
  BY <1>1, <1>2, Induction
<1>4. F = Body(F, (SlhD - 1))
  <2>1. \E f : f = Body(f, (SlhD - 1))
    BY <1>3 DEF E
  <2> HIDE DEF Body
  <2>2. QED
    BY <2>1
<1>5. F[0] = First
  <2> HIDE DEF F
  <2>1. QED
    BY <1>4
<1>6. ASSUME NEW j \in 1 .. (SlhD - 1) PROVE F[j] = Step(j, F[j - 1])
  <2> HIDE DEF F
  <2>1. j \in 0 .. (SlhD - 1) /\ j # 0
    OBVIOUS
  <2>2. QED
    BY <1>4, <2>1
<1>7. Roots(msg, p) = F
  BY DEF Roots, First, Step
<1> HIDE DEF F
<1>8. QED
  BY <1>5, <1>6, <1>7 DEF First, Step

\* The nodes of the verifier.
LEMMA HtNodesAre ==
  ASSUME SlhDsaAssumption, NEW msg, NEW p, NEW htSig
  PROVE  /\ htNodes(msg, p, htSig)[0] = msg
         /\ \A j \in 1 .. SlhD :
              htNodes(msg, p, htSig)[j]
                = RootOnLayer(htNodes(msg, p, htSig)[j - 1], htSig[j], p, j - 1)
<1> DEFINE First == msg
           Step(j, v) == RootOnLayer(v, htSig[j], p, j - 1)
           Body(f, k) == [j \in 0 .. k |-> IF j = 0 THEN First ELSE Step(j, f[j - 1])]
           E == {k \in Nat : \E f : f = Body(f, k)}
           F == CHOOSE f : f = Body(f, SlhD)
<1> HIDE DEF First, Step
<1> SlhD \in Nat
  BY SlhConstants
<1>1. 0 \in E
  <2> DEFINE g == [j \in 0 .. 0 |-> First]
  <2>1. g = Body(g, 0)
    OBVIOUS
  <2>2. QED
    BY <2>1
<1>2. ASSUME NEW k \in Nat, k \in E PROVE k + 1 \in E
  <2>1. PICK f : f = Body(f, k)
    BY <1>2
  <2> DEFINE g == [j \in 0 .. k + 1 |-> IF j = k + 1 THEN Step(k + 1, f[k]) ELSE f[j]]
  <2>2. ASSUME NEW j \in 0 .. k + 1 PROVE g[j] = IF j = 0 THEN First ELSE Step(j, g[j - 1])
    <3>1. CASE j = k + 1
      <4>1. j - 1 = k /\ k \in 0 .. k + 1 /\ k # k + 1 /\ j # 0
        BY <3>1
      <4>2. g[j] = Step(k + 1, f[k]) /\ g[k] = f[k]
        BY <3>1, <4>1
      <4>3. QED
        BY <3>1, <4>1, <4>2
    <3>2. CASE j # k + 1
      <4>1. j \in 0 .. k /\ g[j] = f[j]
        BY <3>2
      <4>2. f[j] = IF j = 0 THEN First ELSE Step(j, f[j - 1])
        BY <2>1, <4>1
      <4>3. j # 0 => j - 1 \in 0 .. k + 1 /\ j - 1 # k + 1
        BY <4>1
      <4>4. j # 0 => g[j - 1] = f[j - 1]
        BY <4>3
      <4>5. QED
        BY <4>1, <4>2, <4>4
    <3>3. QED
      BY <3>1, <3>2
  <2>3. g = Body(g, k + 1)
    BY <2>2
  <2> HIDE DEF g, Body
  <2>4. QED
    BY <2>3
<1> HIDE DEF E
<1>3. SlhD \in E
  BY <1>1, <1>2, Induction
<1>4. F = Body(F, SlhD)
  <2>1. \E f : f = Body(f, SlhD)
    BY <1>3 DEF E
  <2> HIDE DEF Body
  <2>2. QED
    BY <2>1
<1>5. F[0] = First
  <2> HIDE DEF F
  <2>1. QED
    BY <1>4
<1>6. ASSUME NEW j \in 1 .. SlhD PROVE F[j] = Step(j, F[j - 1])
  <2> HIDE DEF F
  <2>1. j \in 0 .. SlhD /\ j # 0
    OBVIOUS
  <2>2. QED
    BY <1>4, <2>1
<1>7. htNodes(msg, p, htSig) = F
  BY DEF htNodes, First, Step
<1> HIDE DEF F
<1>8. QED
  BY <1>5, <1>6, <1>7 DEF First, Step

\* What parseMsg gives.
ParsedMsg(p) ==
  /\ p.md \in [1 .. SlhK -> 0 .. two[SlhA] - 1]
  /\ p.idxLeaf \in Nat /\ p.idxLeaf < two[hPrime]
  /\ HasBits(p.idxTree, (SlhD - 1) * hPrime)

\* On each layer the leaf is in a tree, and the tree's index has the bits of the layers above.
LEMMA IndicesInside ==
  ASSUME SlhDsaAssumption, NEW p, ParsedMsg(p), NEW j \in 0 .. SlhD - 1
  PROVE  /\ Indices(p)[j].idxLeaf \in Nat /\ Indices(p)[j].idxLeaf < two[hPrime]
         /\ HasBits(Indices(p)[j].idxTree, (SlhD - 1 - j) * hPrime)
<1> DEFINE Inside(i) == /\ Indices(p)[i].idxLeaf \in Nat /\ Indices(p)[i].idxLeaf < two[hPrime]
                        /\ HasBits(Indices(p)[i].idxTree, (SlhD - 1 - i) * hPrime)
           S == {i \in Nat : i <= SlhD - 1 => Inside(i)}
<1>1. SlhD - 1 \in Nat /\ hPrime \in Nat
  BY SlhConstants
<1>2. 0 \in S
  <2>1. Indices(p)[0] = [idxLeaf |-> p.idxLeaf, idxTree |-> p.idxTree] /\ SlhD - 1 - 0 = SlhD - 1
    BY <1>1, IndicesAre
  <2>2. QED
    BY <2>1 DEF ParsedMsg
<1>3. ASSUME NEW i \in Nat, i \in S PROVE i + 1 \in S
  <2> SUFFICES ASSUME i + 1 <= SlhD - 1 PROVE Inside(i + 1)
    OBVIOUS
  <2> DEFINE n == (SlhD - 1 - (i + 1)) * hPrime
             t == Indices(p)[i].idxTree
  <2>1. i + 1 \in 1 .. SlhD - 1 /\ (i + 1) - 1 = i /\ SlhD - 1 - (i + 1) \in Nat
    BY <1>1
  <2>2. n \in Nat /\ (SlhD - 1 - i) * hPrime = hPrime + n
    <3> DEFINE c == SlhD - 1 - (i + 1)
    <3>1. c \in Nat /\ SlhD - 1 - i = c + 1
      BY <1>1, <2>1
    <3> HIDE DEF c
    <3>2. c * hPrime \in Nat /\ (c + 1) * hPrime = hPrime + c * hPrime
      BY <1>1, <3>1
    <3>3. QED
      BY <3>1, <3>2 DEF c
  <2>3. HasBits(t, (SlhD - 1 - i) * hPrime)
    BY <1>1, <1>3, <2>1
  <2>4. Indices(p)[i + 1] = nextIndex(t)
    <3>1. \A k \in 1 .. SlhD - 1 : Indices(p)[k] = nextIndex(Indices(p)[k - 1].idxTree)
      BY IndicesAre
    <3> HIDE DEF n
    <3>2. Indices(p)[i + 1] = nextIndex(Indices(p)[(i + 1) - 1].idxTree)
      BY <2>1, <3>1
    <3>3. QED
      BY <2>1, <3>2
  <2> HIDE DEF n, t
  <2>5. HasBits(t, hPrime + n)
    BY <2>2, <2>3
  <2>6. /\ nextIndex(t).idxLeaf \in Nat /\ nextIndex(t).idxLeaf < two[hPrime]
        /\ HasBits(nextIndex(t).idxTree, n)
    BY <2>2, <2>5, NextIndexIs
  <2>7. QED
    BY <2>4, <2>6 DEF n
<1> HIDE DEF S
<1>4. j \in S
  BY <1>2, <1>3, Induction
<1>5. QED
  BY <1>1, <1>4 DEF S

\* The highest layer has one tree.
LEMMA TopTree ==
  ASSUME SlhDsaAssumption, NEW p, ParsedMsg(p)
  PROVE  LayerAddress(p, SlhD - 1) = [NewAddress EXCEPT !.layer = SlhD - 1]
<1> DEFINE t == Indices(p)[SlhD - 1].idxTree
<1>1. SlhD - 1 \in Nat /\ hPrime \in Nat /\ SlhD - 1 \in 0 .. SlhD - 1
  BY SlhConstants
<1>2. (SlhD - 1 - (SlhD - 1)) * hPrime = 0
  BY <1>1
<1>3. HasBits(t, 0)
  BY <1>1, <1>2, IndicesInside
<1> HIDE DEF t
<1>4. PICK x, y \in Nat : t = <<x, y, 0>> /\ x + y * two[SlhWord] < two[0]
  BY <1>3 DEF HasBits
<1>5. two[0] = 1 /\ two[SlhWord] \in Nat /\ two[SlhWord] >= 1
  BY SlhConstants, TwoRecursion, TwoPositive
<1>6. y * two[SlhWord] \in Nat
  BY <1>5, NatTimes
<1>7. x = 0 /\ y * two[SlhWord] = 0
  BY <1>4, <1>5, <1>6
<1>8. y = 0
  BY <1>5, <1>7
<1>9. t = <<0, 0, 0>>
  BY <1>4, <1>7, <1>8
<1> DEFINE z == <<0, 0, 0>>
           top == SlhD - 1
           TopOf(c) == [layer |-> c, tree |-> z, type |-> "WotsHash", keyPair |-> 0, height |-> 0, index |-> 0]
<1>10. LayerAddress(p, top) = [[TopOf(0) EXCEPT !.layer = top] EXCEPT !.tree = z]
  BY <1>9 DEF LayerAddress, NewAddress, t
<1>11. [NewAddress EXCEPT !.layer = top] = [TopOf(0) EXCEPT !.layer = top]
  BY DEF NewAddress
<1> HIDE DEF z, top
<1>12. [TopOf(0) EXCEPT !.layer = top] = TopOf(top)
  OBVIOUS
<1>13. [TopOf(top) EXCEPT !.tree = z] = TopOf(top)
  OBVIOUS
<1>14. QED
  BY <1>10, <1>11, <1>12, <1>13 DEF top

\* The nodes of the verifier are the roots that were signed, and the roots of the layers' trees.
LEMMA LayersVerify ==
  ASSUME SlhDsaAssumption, NEW p, ParsedMsg(p), NEW msg,
         \A j \in 0 .. SlhD - 1 : HasDigits(Roots(msg, p)[j])
  PROVE  /\ htNodes(msg, p, htSign(msg, p))[0] = msg
         /\ \A j \in 0 .. SlhD - 1 : htNodes(msg, p, htSign(msg, p))[j] = Roots(msg, p)[j]
         /\ \A j \in 1 .. SlhD :
              htNodes(msg, p, htSign(msg, p))[j] = xmssNode(0, hPrime, LayerAddress(p, j - 1))
<1> DEFINE R == Roots(msg, p)
           Sg == htSign(msg, p)
           N == htNodes(msg, p, Sg)
<1>1. SlhD \in Nat /\ SlhD >= 1 /\ SlhD - 1 \in Nat
  BY SlhConstants
<1>2. /\ R[0] = msg
      /\ \A j \in 1 .. SlhD - 1 : R[j] = RootOnLayer(R[j - 1], SignOnLayer(R[j - 1], p, j - 1), p, j - 1)
  BY RootsAre
<1>3. N[0] = msg /\ \A j \in 1 .. SlhD : N[j] = RootOnLayer(N[j - 1], Sg[j], p, j - 1)
  BY HtNodesAre
<1>4. \A j \in 1 .. SlhD : Sg[j] = SignOnLayer(R[j - 1], p, j - 1)
  BY DEF htSign
<1>5. \A j \in 0 .. SlhD - 1 : HasDigits(R[j])
  OBVIOUS
<1> HIDE DEF R, Sg, N
<1> DEFINE S == {j \in Nat : j <= SlhD - 1 => N[j] = R[j]}
<1>6. 0 \in S
  BY <1>2, <1>3
<1>7. ASSUME NEW j \in Nat, j \in S PROVE j + 1 \in S
  <2> SUFFICES ASSUME j + 1 <= SlhD - 1 PROVE N[j + 1] = R[j + 1]
    OBVIOUS
  <2>1. j + 1 \in 1 .. SlhD - 1 /\ j + 1 \in 1 .. SlhD /\ (j + 1) - 1 = j /\ j <= SlhD - 1
    BY <1>1
  <2>2. N[j] = R[j]
    BY <1>7, <2>1
  <2>3. Sg[j + 1] = SignOnLayer(R[j], p, j)
    BY <1>4, <2>1
  <2>4. N[j + 1] = RootOnLayer(N[j], Sg[j + 1], p, j)
    BY <1>3, <2>1
  <2>5. R[j + 1] = RootOnLayer(R[j], SignOnLayer(R[j], p, j), p, j)
    BY <1>2, <2>1
  <2>6. QED
    BY <2>2, <2>3, <2>4, <2>5
<1> HIDE DEF S
<1>8. Nat \subseteq S
  BY <1>6, <1>7, Induction
<1>9. ASSUME NEW j \in 1 .. SlhD PROVE N[j] = xmssNode(0, hPrime, LayerAddress(p, j - 1))
  <2>1. PICK i \in Nat : i = j - 1 /\ i \in 0 .. SlhD - 1 /\ i <= SlhD - 1
    BY <1>1
  <2>2. N[i] = R[i]
    BY <1>8, <2>1 DEF S
  <2>3. Sg[j] = SignOnLayer(R[i], p, i)
    BY <1>4, <2>1
  <2>4. N[j] = RootOnLayer(R[i], SignOnLayer(R[i], p, i), p, i)
    BY <1>3, <2>1, <2>2, <2>3
  <2>5. HasDigits(R[i])
    BY <1>5, <2>1
  <2> DEFINE idx == Indices(p)[i].idxLeaf
  <2>6. idx \in Nat /\ idx < two[hPrime]
    BY <2>1, IndicesInside
  <2>7. N[j] = xmssPkFromSig(R[i], xmssSign(R[i], idx, LayerAddress(p, i)), idx, LayerAddress(p, i))
    BY <2>4 DEF RootOnLayer, SignOnLayer
  <2> HIDE DEF idx
  <2>8. N[j] = xmssNode(0, hPrime, LayerAddress(p, i))
    BY <2>5, <2>6, <2>7, XmssVerifies
  <2>9. QED
    BY <2>1, <2>8
<1>10. \A j \in 0 .. SlhD - 1 : N[j] = R[j]
  BY <1>8 DEF S
<1>11. QED
  BY <1>3, <1>9, <1>10 DEF N, Sg, R
-----------------------------------------------------------------------------
(* The signature of any digest *)

LEMMA DigestVerifies ==
  ASSUME SlhDsaAssumption, NibblesAssumption, NEW digest \in Digest
  PROVE  LET p == parseMsg(digest)
             slhSig == slhSignInternal(digest)
             nodes == slhVerifyNodes(digest, slhSig)
         IN  /\ slhVerifyInternal(digest, slhSig)
             /\ nodes[0] = Final("T", Retyped(ForsAddress(p), "ForsRoots"),
                                 [i \in 1 .. SlhK |-> forsNode(i - 1, SlhA, ForsAddress(p))])
             /\ \A j \in 1 .. SlhD : nodes[j] = xmssNode(0, hPrime, LayerAddress(p, j - 1))
<1> DEFINE p == parseMsg(digest)
           pk == PkFors(p)
           nodes == htNodes(pk, p, htSign(pk, p))
<1>1. ParsedMsg(p)
  BY ParsedIs DEF ParsedMsg
<1>2. \A j \in 0 .. SlhD - 1 : HasDigits(Roots(pk, p)[j])
  BY DEF NibblesAssumption, HasDigits
<1>3. slhVerifyNodes(digest, slhSignInternal(digest)) = nodes
  BY DEF slhVerifyNodes, slhSignInternal, PkFors
<1>4. slhVerifyInternal(digest, slhSignInternal(digest)) <=> nodes[SlhD] = slhKeyGenInternal
  BY <1>3 DEF slhVerifyInternal
<1>5. pk = Final("T", Retyped(ForsAddress(p), "ForsRoots"),
                 [i \in 1 .. SlhK |-> forsNode(i - 1, SlhA, ForsAddress(p))])
  <2> HIDE DEF p
  <2>1. p.md \in [1 .. SlhK -> 0 .. two[SlhA] - 1]
    BY <1>1 DEF ParsedMsg
  <2>2. QED
    BY <2>1, ForsVerifies DEF PkFors
<1> HIDE DEF p, pk
<1>6. nodes[0] = pk /\ \A j \in 1 .. SlhD : nodes[j] = xmssNode(0, hPrime, LayerAddress(p, j - 1))
  BY <1>1, <1>2, LayersVerify
<1> HIDE DEF nodes
<1>7. nodes[SlhD] = slhKeyGenInternal
  <2>1. SlhD \in 1 .. SlhD
    BY SlhConstants
  <2>2. nodes[SlhD] = xmssNode(0, hPrime, LayerAddress(p, SlhD - 1))
    BY <1>6, <2>1
  <2>3. QED
    BY <1>1, <2>2, TopTree DEF slhKeyGenInternal
<1>8. QED
  BY <1>3, <1>4, <1>5, <1>6, <1>7 DEF p

\* What a layer signs: the FORS key, or the root of the tree below.
LEMMA SignedIs ==
  ASSUME SlhDsaAssumption, NibblesAssumption, NEW digest \in Digest
  PROVE  LET p == parseMsg(digest)
         IN  /\ SignedOn(digest, 0)
                  = Final("T", Retyped(ForsAddress(p), "ForsRoots"),
                          [i \in 1 .. SlhK |-> forsNode(i - 1, SlhA, ForsAddress(p))])
             /\ \A j \in 1 .. SlhD - 1 :
                  SignedOn(digest, j) = xmssNode(0, hPrime, LayerAddress(p, j - 1))
<1> DEFINE p == parseMsg(digest)
           pk == PkFors(p)
           nodes == htNodes(pk, p, htSign(pk, p))
<1>1. ParsedMsg(p)
  BY ParsedIs DEF ParsedMsg
<1>2. \A j \in 0 .. SlhD - 1 : HasDigits(Roots(pk, p)[j])
  BY DEF NibblesAssumption, HasDigits
<1>3. \A j \in 0 .. SlhD - 1 : SignedOn(digest, j) = Roots(pk, p)[j]
  BY DEF SignedOn
<1>4. pk = Final("T", Retyped(ForsAddress(p), "ForsRoots"),
                 [i \in 1 .. SlhK |-> forsNode(i - 1, SlhA, ForsAddress(p))])
  <2> HIDE DEF p
  <2>1. p.md \in [1 .. SlhK -> 0 .. two[SlhA] - 1]
    BY <1>1 DEF ParsedMsg
  <2>2. QED
    BY <2>1, ForsVerifies DEF PkFors
<1> HIDE DEF p, pk
<1>5. /\ nodes[0] = pk
      /\ \A j \in 0 .. SlhD - 1 : nodes[j] = Roots(pk, p)[j]
      /\ \A j \in 1 .. SlhD : nodes[j] = xmssNode(0, hPrime, LayerAddress(p, j - 1))
  BY <1>1, <1>2, LayersVerify
<1> HIDE DEF nodes
<1>6. 0 \in 0 .. SlhD - 1 /\ \A j \in 1 .. SlhD - 1 : j \in 0 .. SlhD - 1 /\ j \in 1 .. SlhD
  BY SlhConstants
<1>7. SignedOn(digest, 0) = pk
  BY <1>3, <1>5, <1>6
<1>8. \A j \in 1 .. SlhD - 1 : SignedOn(digest, j) = xmssNode(0, hPrime, LayerAddress(p, j - 1))
  BY <1>3, <1>5, <1>6
<1>9. QED
  BY <1>4, <1>7, <1>8 DEF p

\* A key belongs to one layer, one tree and one leaf.
LEMMA KeyIs ==
  ASSUME NEW digest, NEW j
  PROVE  /\ KeyOn(digest, j).layer = j
         /\ KeyOn(digest, j).tree = Indices(parseMsg(digest))[j].idxTree
         /\ KeyOn(digest, j).keyPair = Indices(parseMsg(digest))[j].idxLeaf
<1> DEFINE t == Indices(parseMsg(digest))[j].idxTree
           i == Indices(parseMsg(digest))[j].idxLeaf
<1> HIDE DEF t, i
<1>1. KeyOn(digest, j) = WotsOf([[NewAddress EXCEPT !.layer = j] EXCEPT !.tree = t], i)
  BY DEF KeyOn, LayerAddress, t, i
<1>2. [[NewAddress EXCEPT !.layer = j] EXCEPT !.tree = t]
        = [layer |-> j, tree |-> t, type |-> "WotsHash", keyPair |-> 0, height |-> 0, index |-> 0]
  <2> DEFINE z == <<0, 0, 0>>
             Address(a, b) == [layer |-> a, tree |-> b, type |-> "WotsHash",
                               keyPair |-> 0, height |-> 0, index |-> 0]
  <2>1. NewAddress = Address(0, z)
    BY DEF NewAddress
  <2> HIDE DEF z
  <2>2. [Address(0, z) EXCEPT !.layer = j] = Address(j, z)
    OBVIOUS
  <2>3. [Address(j, z) EXCEPT !.tree = t] = Address(j, t)
    OBVIOUS
  <2> HIDE DEF Address
  <2>4. [[NewAddress EXCEPT !.layer = j] EXCEPT !.tree = t] = Address(j, t)
    BY <2>1, <2>2, <2>3
  <2>5. QED
    BY <2>4 DEF Address
<1>3. KeyOn(digest, j)
        = [layer |-> j, tree |-> t, type |-> "WotsHash", keyPair |-> i, height |-> 0, index |-> 0]
  BY <1>1, <1>2 DEF WotsOf, SetTypeAndClear
<1>4. QED
  BY <1>3 DEF t, i

\* One key signs one message.
LEMMA OneMessage ==
  ASSUME SlhDsaAssumption, NibblesAssumption, NEW digest \in Digest, NEW other \in Digest,
         NEW i \in 0 .. SlhD - 1, NEW j \in 0 .. SlhD - 1, KeyOn(digest, i) = KeyOn(other, j)
  PROVE  SignedOn(digest, i) = SignedOn(other, j)
<1> DEFINE p == parseMsg(digest)
           o == parseMsg(other)
<1>1. ParsedMsg(p) /\ ParsedMsg(o)
  BY ParsedIs DEF ParsedMsg
<1>2. /\ i = j
      /\ Indices(p)[i].idxTree = Indices(o)[i].idxTree
      /\ Indices(p)[i].idxLeaf = Indices(o)[i].idxLeaf
  <2>1. i = j
    BY KeyIs
  <2>2. QED
    BY <2>1, KeyIs
<1>3. CASE i = 0
  <2>1. p.idxTree = o.idxTree /\ p.idxLeaf = o.idxLeaf
    <3> HIDE DEF p, o
    <3>1. /\ Indices(p)[0] = [idxLeaf |-> p.idxLeaf, idxTree |-> p.idxTree]
          /\ Indices(o)[0] = [idxLeaf |-> o.idxLeaf, idxTree |-> o.idxTree]
      BY IndicesAre
    <3>2. QED
      BY <1>2, <1>3, <3>1
  <2>2. ForsAddress(p) = ForsAddress(o)
    BY <2>1 DEF ForsAddress
  <2>3. /\ SignedOn(digest, 0) = Final("T", Retyped(ForsAddress(p), "ForsRoots"),
                                       [k \in 1 .. SlhK |-> forsNode(k - 1, SlhA, ForsAddress(p))])
        /\ SignedOn(other, 0) = Final("T", Retyped(ForsAddress(o), "ForsRoots"),
                                      [k \in 1 .. SlhK |-> forsNode(k - 1, SlhA, ForsAddress(o))])
    BY SignedIs
  <2>4. QED
    BY <1>2, <1>3, <2>2, <2>3
<1>4. CASE i # 0
  <2>1. PICK h \in 0 .. SlhD - 1 : h + 1 = i /\ h = i - 1 /\ i \in 1 .. SlhD - 1
    BY <1>4, SlhConstants
  <2> DEFINE t == Indices(p)[h].idxTree
             u == Indices(o)[h].idxTree
             n == (SlhD - 1 - h) * hPrime
  <2>2. HasBits(t, n) /\ HasBits(u, n)
    BY <1>1, IndicesInside
  <2>3. n \in Nat
    <3>1. SlhD - 1 - h \in Nat /\ hPrime \in Nat
      BY SlhConstants
    <3>2. QED
      BY <3>1, NatTimes
  <2>4. Indices(p)[i] = nextIndex(t) /\ Indices(o)[i] = nextIndex(u)
    <3> HIDE DEF p, o
    <3>1. /\ \A k \in 1 .. SlhD - 1 : Indices(p)[k] = nextIndex(Indices(p)[k - 1].idxTree)
          /\ \A k \in 1 .. SlhD - 1 : Indices(o)[k] = nextIndex(Indices(o)[k - 1].idxTree)
      BY IndicesAre
    <3>2. QED
      BY <2>1, <3>1
  <2>5. LayerAddress(p, h) = LayerAddress(o, h)
    <3>1. t = u
      <4> HIDE DEF t, u, n, p, o
      <4>1. QED
        BY <1>2, <2>2, <2>3, <2>4, NextIndexInjective
    <3> HIDE DEF p, o
    <3>2. QED
      BY <3>1 DEF LayerAddress
  <2>6. /\ SignedOn(digest, i) = xmssNode(0, hPrime, LayerAddress(p, h))
        /\ SignedOn(other, i) = xmssNode(0, hPrime, LayerAddress(o, h))
    BY <2>1, SignedIs
  <2>7. QED
    BY <1>2, <2>5, <2>6
<1>5. QED
  BY <1>3, <1>4

\* What was signed is a digest.
SlhInv == earlier \in Digest \cup {None} /\ last \in Digest \cup {None}

LEMMA SlhInvariant == SlhSpec => []SlhInv
<1>1. SlhInit => SlhInv
  BY DEF SlhInit, SlhInv
<1>2. SlhInv /\ [SlhSign]_slhVars => SlhInv'
  BY DEF SlhInv, SlhSign, slhVars
<1>3. QED
  BY <1>1, <1>2, PTL DEF SlhSpec

(* For all numbers of layers, of trees and of digits, and all heights: every *)
(* digest's signature is accepted, the FORS key that both sides compute is  *)
(* the one of the secret seed, and each layer's root that of its tree.      *)
THEOREM SlhVerifies ==
  ASSUME SlhDsaAssumption, NibblesAssumption
  PROVE  SlhSpec => []SlhSignatureVerifies
<1>1. SlhInv => SlhSignatureVerifies
  <2> SUFFICES ASSUME SlhInv, last # None PROVE SlhSignatureVerifies
    BY DEF SlhSignatureVerifies
  <2>1. last \in Digest
    BY DEF SlhInv
  <2>2. QED
    BY <2>1, DigestVerifies DEF SlhSignatureVerifies
<1>2. QED
  BY <1>1, SlhInvariant, PTL

(* And no WOTS+ key signs two messages: the key of a leaf on some layer      *)
(* signs the root of the one tree below it, or the key of its FORS trees.   *)
THEOREM SlhOneTime ==
  ASSUME SlhDsaAssumption, NibblesAssumption
  PROVE  SlhSpec => []SlhKeysOneTime
<1>1. SlhInv => SlhKeysOneTime
  <2> SUFFICES ASSUME SlhInv PROVE SlhKeysOneTime
    OBVIOUS
  <2>1. {earlier, last} \ {None} \subseteq Digest
    BY DEF SlhInv
  <2>2. QED
    BY <2>1, OneMessage DEF SlhKeysOneTime
<1>2. QED
  BY <1>1, SlhInvariant, PTL

-----------------------------------------------------------------------------
(***************************************************************************)
(* MlDsa. The verifier recomputes a1 * Alpha + e modulo Q, where a1 are    *)
(* the high bits that the signer hashed and |e| < Alpha, because the loop  *)
(* bounds its two parts; Q - 1 is a multiple of Alpha, so decompose finds  *)
(* a1 again or one of its two neighbours around the end, and the hint says *)
(* which. Large numbers reach only the SMT backend, never in an interval.  *)
(***************************************************************************)

\* The number of intervals of length Alpha, PolyUseHint's m.
Intervals(p) == IF Alpha(p) = 523776 THEN 16 ELSE 44

\* The two values of Gamma2.
Rounding(p) == p.Gamma2 = 261888 \/ p.Gamma2 = 95232

-----------------------------------------------------------------------------
\* A residue lies below Q and differs from its number by a multiple of Q.
LEMMA Residue ==
  ASSUME NEW x \in Int
  PROVE  /\ x % Q \in Int
         /\ 0 <= x % Q
         /\ x % Q < Q
         /\ \E k \in Int : x = (x % Q) + k * Q
<1>1. x % Q \in Int /\ 0 <= x % Q /\ x % Q < Q
  BY SMT DEF Q
<1>2. x \div Q \in Int /\ x = (x % Q) + (x \div Q) * Q
  BY SMT DEF Q
<1>3. \E k \in Int : x = (x % Q) + k * Q
  BY <1>2
<1>4. QED
  BY <1>1, <1>3

\* The representative nearest to zero: it differs from its number, and from
\* that number's residue, by a multiple of Q, and lies within half of Q.
LEMMA CenteredResidue ==
  ASSUME NEW x \in Int
  PROVE  /\ Centered(x) \in Int
         /\ \E k \in Int : x = Centered(x) + k * Q
         /\ 2 * Centered(x) < Q
         /\ -Q < 2 * Centered(x)
         /\ Centered(x % Q) = Centered(x)
<1> DEFINE r == x % Q
<1>1. r \in Int /\ 0 <= r /\ r < Q
  BY Residue
<1>2. PICK k \in Int : x = r + k * Q
  BY Residue
<1>3. Q \in Int /\ Q = 8380417
  BY SMT DEF Q
<1>4. r % Q = r
  BY <1>1, SMT DEF Q
<1>5. Centered(x) = (IF r > (Q - 1) \div 2 THEN r - Q ELSE r)
  BY DEF Centered
<1>6. Centered(r) = Centered(x)
  BY <1>4, <1>5 DEF Centered
<1> HIDE DEF r
<1>7. CASE r > (Q - 1) \div 2
  <2>1. Centered(x) = r - Q
    BY <1>5, <1>7
  <2>2. r - Q \in Int /\ 2 * (r - Q) < Q /\ -Q < 2 * (r - Q)
    BY <1>1, <1>3, <1>7, SMT
  <2>3. x = (r - Q) + (k + 1) * Q /\ k + 1 \in Int
    BY <1>1, <1>2, <1>3, SMT
  <2>4. QED
    BY <1>6, <2>1, <2>2, <2>3 DEF r
<1>8. CASE ~(r > (Q - 1) \div 2)
  <2>1. Centered(x) = r
    BY <1>5, <1>8
  <2>2. 2 * r < Q /\ -Q < 2 * r
    BY <1>1, <1>3, <1>8, SMT
  <2>3. QED
    BY <1>1, <1>2, <1>6, <2>1, <2>2 DEF r
<1>9. QED
  BY <1>7, <1>8

\* A number that does not exceed the bound has its representative inside it.
LEMMA WithinBound ==
  ASSUME NEW x \in Int, NEW bound \in Int, ~Exceeds(x, bound)
  PROVE  -bound < Centered(x) /\ Centered(x) < bound
<1>1. Centered(x) \in Int
  BY CenteredResidue
<1>2. ~(Abs(Centered(x)) >= bound)
  BY DEF Exceeds
<1>3. QED
  BY <1>1, <1>2, SMT DEF Abs
-----------------------------------------------------------------------------
\* What ModeAssumption says of one mode.
LEMMA ModeFields ==
  ASSUME ModeAssumption, NEW p \in Mode
  PROVE  /\ p.Tau \in Nat /\ p.Eta \in Nat /\ p.Omega \in Nat
         /\ Rounding(p)
         /\ Challenge[p] \subseteq -p.Tau .. p.Tau
         /\ Mask[p] \subseteq 1 - Gamma1(p) .. Gamma1(p)
         /\ Secret[p] \subseteq -p.Eta .. p.Eta
<1>1. p \in Parameters
  BY Zenon DEF ModeAssumption
<1>2. p.Tau \in Nat /\ p.Eta \in Nat /\ p.Omega \in Nat
  BY <1>1, SMT DEF Parameters
<1>3. Rounding(p)
  BY <1>1, SMT DEF Parameters, Rounding
<1>4. /\ Challenge[p] \subseteq -p.Tau .. p.Tau
      /\ Mask[p] \subseteq 1 - Gamma1(p) .. Gamma1(p)
      /\ Secret[p] \subseteq -p.Eta .. p.Eta
  BY Zenon DEF ModeAssumption
<1>5. QED
  BY <1>2, <1>3, <1>4, SMT

\* The division by 523776 with a multiplication and a shift.
LEMMA DivideLarge ==
  ASSUME NEW a \in Int, 0 <= a, a < 8380417, NEW c \in Int, NEW b \in Int,
         c = (a + 127) \div 128, b = (c * 1025 + 2 ^ 21) \div 2 ^ 22
  PROVE  0 <= b /\ b <= 16 /\ -261888 < a - b * 523776 /\ a - b * 523776 <= 261888
<1>1. 128 * c <= a + 127 /\ a + 127 < 128 * c + 128
  BY SMT
<1>2. 4194304 * b <= 1025 * c + 2097152 /\ 1025 * c + 2097152 < 4194304 * b + 4194304
  BY SMT
<1>3. QED
  BY <1>1, <1>2, SMTT(60)

\* The division by 190464, likewise.
LEMMA DivideSmall ==
  ASSUME NEW a \in Int, 0 <= a, a < 8380417, NEW c \in Int, NEW b \in Int,
         c = (a + 127) \div 128, b = (c * 11275 + 2 ^ 23) \div 2 ^ 24
  PROVE  0 <= b /\ b <= 44 /\ -95232 < a - b * 190464 /\ a - b * 190464 <= 95232
<1>1. 128 * c <= a + 127 /\ a + 127 < 128 * c + 128
  BY SMT
<1>2. 16777216 * b <= 11275 * c + 8388608 /\ 11275 * c + 8388608 < 16777216 * b + 16777216
  BY SMT
<1>3. QED
  BY <1>1, <1>2, SMTT(60)

(* What decompose returns on a residue: a = a1 * Alpha + a0 with a0 in the  *)
(* interval around zero that excludes its lower end, and the end of the     *)
(* residues goes to zero, where a0 may be the lower end.                    *)
LEMMA DecomposeExact ==
  ASSUME NEW p, Rounding(p), NEW a \in Int, 0 <= a, a < Q
  PROVE  LET r == decompose(p, a)
             low == r.a0plusQ - Q
         IN  /\ r.a1 \in Int /\ 0 <= r.a1 /\ r.a1 < Intervals(p)
             /\ r.a0plusQ \in Int
             /\ \/ a = r.a1 * Alpha(p) + low /\ -p.Gamma2 < low /\ low <= p.Gamma2
                \/ r.a1 = 0 /\ a = low + Q /\ -p.Gamma2 <= low /\ low < 0
<1> DEFINE c == (a + 127) \div 128
<1>1. c \in Int
  BY SMT
<1>2. 0 <= a /\ a < 8380417
  BY SMT DEF Q
<1>3. CASE p.Gamma2 = 261888
  <2> DEFINE b == (c * 1025 + 2 ^ 21) \div 2 ^ 22
             d == b % 16
             low == a - d * 523776
  <2>1. Alpha(p) = 523776 /\ Intervals(p) = 16
    BY <1>3, SMT DEF Alpha, Intervals
  <2>2. b \in Int
    BY <1>1, SMT
  <2>3. 0 <= b /\ b <= 16 /\ -261888 < a - b * 523776 /\ a - b * 523776 <= 261888
    BY <1>1, <1>2, <2>2, DivideLarge, SMT
  <2>4. decompose(p, a) = [a0plusQ |-> IF low < (Q - 1) \div 2 THEN low + Q ELSE low, a1 |-> d]
    BY <2>1, SMT DEF decompose
  <2>5. (b < 16 /\ d = b) \/ (b = 16 /\ d = 0)
    BY <2>2, <2>3, SMT
  <2> HIDE DEF b, c
  <2>6. CASE b < 16
    <3>1. d = b /\ low \in Int /\ low < (Q - 1) \div 2
      BY <2>2, <2>3, <2>5, <2>6, SMT DEF Q
    <3>2. QED
      BY <1>3, <2>1, <2>2, <2>3, <2>4, <2>6, <3>1, SMT DEF Q
  <2>7. CASE b = 16
    <3>1. d = 0 /\ low = a /\ ~(low < (Q - 1) \div 2)
      BY <2>3, <2>5, <2>7, SMT DEF Q
    <3>2. QED
      BY <1>3, <2>1, <2>3, <2>4, <2>7, <3>1, SMT DEF Q
  <2>8. QED
    BY <2>5, <2>6, <2>7, SMT
<1>4. CASE p.Gamma2 = 95232
  <2> DEFINE b == (c * 11275 + 2 ^ 23) \div 2 ^ 24
             d == IF b > 43 THEN 0 ELSE b
             low == a - d * 190464
  <2>1. Alpha(p) = 190464 /\ Intervals(p) = 44
    BY <1>4, SMT DEF Alpha, Intervals
  <2>2. b \in Int
    BY <1>1, SMT
  <2>3. 0 <= b /\ b <= 44 /\ -95232 < a - b * 190464 /\ a - b * 190464 <= 95232
    BY <1>1, <1>2, <2>2, DivideSmall, SMT
  <2>4. decompose(p, a) = [a0plusQ |-> IF low < (Q - 1) \div 2 THEN low + Q ELSE low, a1 |-> d]
    <3>1. Alpha(p) # 523776
      BY <2>1, SMT
    <3>2. QED
      BY <2>1, <3>1, SMT DEF decompose
  <2>5. (b < 44 /\ d = b) \/ (b = 44 /\ d = 0)
    BY <2>2, <2>3, SMT
  <2> HIDE DEF b, c
  <2>6. CASE b < 44
    <3>1. d = b /\ low \in Int /\ low < (Q - 1) \div 2
      BY <2>2, <2>3, <2>5, <2>6, SMT DEF Q
    <3>2. QED
      BY <1>4, <2>1, <2>2, <2>3, <2>4, <2>6, <3>1, SMT DEF Q
  <2>7. CASE b = 44
    <3>1. d = 0 /\ low = a /\ ~(low < (Q - 1) \div 2)
      BY <2>3, <2>5, <2>7, SMT DEF Q
    <3>2. QED
      BY <1>4, <2>1, <2>3, <2>4, <2>7, <3>1, SMT DEF Q
  <2>8. QED
    BY <2>5, <2>6, <2>7, SMT
<1>5. QED
  BY <1>3, <1>4, SMT DEF Rounding

\* q residues, in m intervals of length 2 * g and one residue left over.
Cover(q, m, g) ==
  /\ q \in Int /\ m \in Int /\ g \in Int
  /\ 0 < g /\ 1 < m /\ q = 2 * g * m + 1

\* a lies at e from the middle of interval b, modulo q; e = -g is for b = 0.
LiesAt(q, m, g, a, b, e, k) ==
  /\ a \in Int /\ b \in Int /\ e \in Int /\ k \in Int
  /\ 0 <= b /\ b < m /\ e <= g /\ (-g < e \/ (e = -g /\ b = 0))
  /\ a = b * (2 * g) + e + k * q

\* The intervals cover all residues but one: Q - 1 is a multiple of Alpha.
LEMMA IntervalsCover ==
  ASSUME NEW p, Rounding(p)
  PROVE  /\ p.Gamma2 \in Int /\ 1 < p.Gamma2
         /\ Intervals(p) \in Int /\ 1 < Intervals(p)
         /\ Alpha(p) = 2 * p.Gamma2
         /\ Cover(Q, Intervals(p), p.Gamma2)
<1>1. CASE p.Gamma2 = 261888
  BY <1>1, SMT DEF Intervals, Alpha, Q, Cover
<1>2. CASE p.Gamma2 = 95232
  BY <1>2, SMT DEF Intervals, Alpha, Q, Cover
<1>3. QED
  BY <1>1, <1>2, SMT DEF Rounding

(* Division into m intervals of length 2 * g is unique modulo q, for any    *)
(* numbers with q = 2 * g * m + 1: the intervals around b * 2 * g do not    *)
(* meet, and the one residue left over is -g, taken as the end of b = 0.    *)
LEMMA DivisionUnique ==
  ASSUME NEW q, NEW m, NEW g, Cover(q, m, g),
         NEW a, 0 <= a, a < q,
         NEW b, NEW e, NEW k, LiesAt(q, m, g, a, b, e, k),
         NEW b2, NEW e2,
         LiesAt(q, m, g, a, b2, e2, 0) \/ (b2 = 0 /\ LiesAt(q, m, g, a, b2, e2, 1) /\ e2 < 0)
  PROVE  b2 = b /\ e2 = e
<1> USE DEF Cover, LiesAt
<1> DEFINE x == b * (2 * g) + e
<1>1. x \in Int /\ -g <= x /\ x < q - g
  <2>1. 0 <= b * (2 * g) /\ b * (2 * g) <= (m - 1) * (2 * g)
    BY SMT
  <2>2. (m - 1) * (2 * g) = q - 1 - 2 * g
    BY SMT
  <2>3. QED
    BY <2>1, <2>2, SMT
<1>2. k = 0 \/ k = 1
  BY <1>1, SMTT(60)
<1>3. CASE k = 0
  <2>1. CASE LiesAt(q, m, g, a, b2, e2, 0)
    <3>1. (b - b2) * (2 * g) = e2 - e
      BY <1>3, <2>1, SMT
    <3>2. -(2 * g) < e2 - e /\ e2 - e < 2 * g
      BY <2>1, <3>1, SMT
    <3>3. b - b2 = 0
      BY <3>1, <3>2, SMT
    <3>4. (b - b2) * (2 * g) = 0
      BY <3>3, SMT
    <3>5. QED
      BY <2>1, <3>1, <3>3, <3>4, SMT
  <2>2. CASE b2 = 0 /\ LiesAt(q, m, g, a, b2, e2, 1) /\ e2 < 0
    BY <1>1, <1>3, <2>2, SMT
  <2>3. QED
    BY <2>1, <2>2, SMT
<1>4. CASE k = 1
  <2>1. b = 0 /\ e < 0
    BY <1>4, SMT
  <2>2. CASE LiesAt(q, m, g, a, b2, e2, 0)
    BY <1>4, <2>1, <2>2, SMT
  <2>3. CASE b2 = 0 /\ LiesAt(q, m, g, a, b2, e2, 1) /\ e2 < 0
    BY <1>4, <2>1, <2>3, SMT
  <2>4. QED
    BY <2>2, <2>3, SMT
<1>5. QED
  BY <1>2, <1>3, <1>4, SMT

(* decompose is that division: whatever is b * Alpha + e modulo Q, with e   *)
(* in the interval, decomposes into b and e.                                *)
LEMMA DecomposeUnique ==
  ASSUME NEW p, Rounding(p), NEW a \in Int, 0 <= a, a < Q,
         NEW b, NEW e, NEW k, LiesAt(Q, Intervals(p), p.Gamma2, a, b, e, k)
  PROVE  decompose(p, a).a1 = b /\ decompose(p, a).a0plusQ = Q + e
<1> DEFINE r == decompose(p, a)
           low == r.a0plusQ - Q
<1>1. /\ r.a1 \in Int /\ 0 <= r.a1 /\ r.a1 < Intervals(p)
      /\ r.a0plusQ \in Int
      /\ \/ a = r.a1 * Alpha(p) + low /\ -p.Gamma2 < low /\ low <= p.Gamma2
         \/ r.a1 = 0 /\ a = low + Q /\ -p.Gamma2 <= low /\ low < 0
  BY DecomposeExact, SMT
<1>2. Alpha(p) = 2 * p.Gamma2 /\ Cover(Q, Intervals(p), p.Gamma2)
  BY IntervalsCover, SMT
<1> HIDE DEF r
<1>3. low \in Int /\ r.a0plusQ = Q + low
  BY <1>1, <1>2, SMT DEF Cover
<1> HIDE DEF low
<1>4. \/ LiesAt(Q, Intervals(p), p.Gamma2, a, r.a1, low, 0)
      \/ r.a1 = 0 /\ LiesAt(Q, Intervals(p), p.Gamma2, a, r.a1, low, 1) /\ low < 0
  <2>1. r.a1 * Alpha(p) = r.a1 * (2 * p.Gamma2)
    BY <1>2
  <2>2. CASE a = r.a1 * Alpha(p) + low /\ -p.Gamma2 < low /\ low <= p.Gamma2
    <3>1. a = r.a1 * (2 * p.Gamma2) + low + 0 * Q
      BY <1>2, <2>1, <2>2, <1>1, <1>3, SMT DEF Cover
    <3>2. QED
      BY <1>1, <1>3, <2>2, <3>1, SMT DEF LiesAt
  <2>3. CASE r.a1 = 0 /\ a = low + Q /\ -p.Gamma2 <= low /\ low < 0
    <3>1. a = r.a1 * (2 * p.Gamma2) + low + 1 * Q
      BY <1>2, <2>3, <1>1, <1>3, SMT DEF Cover
    <3>2. low <= p.Gamma2 /\ (-p.Gamma2 < low \/ (low = -p.Gamma2 /\ r.a1 = 0))
      BY <1>2, <1>3, <2>3, SMT DEF Cover
    <3>3. QED
      BY <1>1, <1>3, <2>3, <3>1, <3>2, SMT DEF LiesAt
  <2>4. QED
    BY <1>1, <2>2, <2>3, SMT
<1>5. r.a1 = b /\ low = e
  BY <1>2, <1>4, DivisionUnique, SMT
<1>6. QED
  BY <1>3, <1>5, SMT DEF r

-----------------------------------------------------------------------------
\* What PolyUseHint does, by the decomposition it starts from.
LEMMA UseHintBy ==
  ASSUME NEW p, Rounding(p), NEW a \in Int, 0 <= a, a < Q,
         NEW b, NEW e, NEW k, LiesAt(Q, Intervals(p), p.Gamma2, a, b, e, k)
  PROVE  /\ PolyUseHint(p, a, 0) = b
         /\ e > 0 => PolyUseHint(p, a, 1) = (b + 1) % Intervals(p)
         /\ e <= 0 => PolyUseHint(p, a, 1) = (b + Intervals(p) - 1) % Intervals(p)
<1>1. decompose(p, a).a1 = b /\ decompose(p, a).a0plusQ = Q + e
  BY DecomposeUnique, SMT
<1>2. e \in Int /\ Q \in Int
  BY IntervalsCover, SMT DEF LiesAt, Cover
<1>3. Q + e > Q <=> e > 0
  BY <1>2, SMT
<1>4. QED
  BY <1>1, <1>2, <1>3, SMT DEF PolyUseHint, Intervals

(* The hint, made from e and the high bits b alone, is the one with which   *)
(* the verifier finds b again from a number that is b * Alpha + e modulo Q: *)
(* e is in the interval, or above it, or below it, and in the last two      *)
(* cases b may be the first or the last of the intervals.                   *)
LEMMA HintFindsHighBits ==
  ASSUME NEW p, Rounding(p), NEW a \in Int, 0 <= a, a < Q,
         NEW b \in Int, 0 <= b, b < Intervals(p),
         NEW e \in Int, -Alpha(p) < e, e < Alpha(p),
         NEW k \in Int, a = b * Alpha(p) + e + k * Q,
         NEW z0 \in Int, 0 <= z0, z0 < Q, NEW l \in Int, z0 = e + l * Q
  PROVE  PolyUseHint(p, a, makeHint(p, z0, b)) = b
<1> DEFINE g == p.Gamma2
           m == Intervals(p)
<1>1. /\ Q \in Int /\ m \in Int /\ g \in Int
      /\ 1 < g /\ 1 < m /\ Q = 2 * g * m + 1 /\ Alpha(p) = 2 * g
      /\ b < m
  BY IntervalsCover, SMT DEF Cover
<1>2. 4 * g < Q
  BY <1>1, SMT
<1>3. a = b * (2 * g) + e + k * Q
  BY <1>1, SMT
<1>4. z0 = (IF e < 0 THEN e + Q ELSE e)
  <2>1. l = 0 \/ l = 1
    BY <1>1, <1>2, SMT
  <2>2. QED
    BY <1>1, <1>2, <2>1, SMT
<1>5. makeHint(p, z0, b) = IF z0 <= g \/ z0 > Q - g \/ (z0 = Q - g /\ b = 0) THEN 0 ELSE 1
  BY DEF makeHint
<1>0. \A b1, e1, k1 :
        LiesAt(Q, m, g, a, b1, e1, k1) =>
          /\ PolyUseHint(p, a, 0) = b1
          /\ e1 > 0 => PolyUseHint(p, a, 1) = (b1 + 1) % m
          /\ e1 <= 0 => PolyUseHint(p, a, 1) = (b1 + m - 1) % m
  BY UseHintBy, Zenon
<1> HIDE DEF g, m
<1>6. CASE e <= g /\ (-g < e \/ (e = -g /\ b = 0))
  <2>1. LiesAt(Q, m, g, a, b, e, k)
    BY <1>1, <1>3, <1>6, SMT DEF LiesAt
  <2>2. makeHint(p, z0, b) = 0
    BY <1>1, <1>2, <1>4, <1>5, <1>6, SMT
  <2>3. QED
    BY <2>1, <2>2, <1>0, Zenon
<1>7. CASE e > g
  <2>1. makeHint(p, z0, b) = 1
    BY <1>1, <1>2, <1>4, <1>5, <1>7, SMT
  <2>2. CASE b + 1 < m
    <3>1. LiesAt(Q, m, g, a, b + 1, e - 2 * g, k)
      BY <1>1, <1>3, <1>7, <2>2, SMT DEF LiesAt
    <3>2. e - 2 * g <= 0
      BY <1>1, SMT
    <3>3. PolyUseHint(p, a, 1) = (b + 1 + m - 1) % m
      BY <3>1, <3>2, <1>0, Zenon
    <3>4. b + 1 + m - 1 = b + m /\ (b + m) % m = b
      BY <1>1, <2>2, SMT
    <3>5. QED
      BY <2>1, <3>3, <3>4
  <2>3. CASE b + 1 = m
    <3>1. LiesAt(Q, m, g, a, 0, e - 2 * g - 1, k + 1)
      BY <1>1, <1>3, <1>7, <2>3, SMT DEF LiesAt
    <3>2. e - 2 * g - 1 <= 0
      BY <1>1, SMT
    <3>3. PolyUseHint(p, a, 1) = (0 + m - 1) % m
      BY <3>1, <3>2, <1>0, Zenon
    <3>4. 0 + m - 1 = b /\ b % m = b
      BY <1>1, <2>3, SMT
    <3>5. QED
      BY <2>1, <3>3, <3>4
  <2>4. QED
    BY <1>1, <2>2, <2>3, SMT
<1>8. CASE e <= -g /\ ~(e = -g /\ b = 0)
  <2>1. makeHint(p, z0, b) = 1
    BY <1>1, <1>2, <1>4, <1>5, <1>8, SMT
  <2>2. CASE b > 0
    <3>1. LiesAt(Q, m, g, a, b - 1, e + 2 * g, k)
      BY <1>1, <1>3, <1>8, <2>2, SMT DEF LiesAt
    <3>2. e + 2 * g > 0
      BY <1>1, SMT
    <3>3. PolyUseHint(p, a, 1) = (b - 1 + 1) % m
      BY <3>1, <3>2, <1>0, Zenon
    <3>4. b - 1 + 1 = b /\ b % m = b
      BY <1>1, SMT
    <3>5. QED
      BY <2>1, <3>3, <3>4
  <2>3. CASE b = 0
    <3>1. LiesAt(Q, m, g, a, m - 1, e + 2 * g + 1, k - 1)
      BY <1>1, <1>3, <1>8, <2>3, SMT DEF LiesAt
    <3>2. e + 2 * g + 1 > 0
      BY <1>1, SMT
    <3>3. PolyUseHint(p, a, 1) = (m - 1 + 1) % m
      BY <3>1, <3>2, <1>0, Zenon
    <3>4. m - 1 + 1 = m /\ m % m = 0
      BY <1>1, SMT
    <3>5. QED
      BY <2>1, <2>3, <3>3, <3>4
  <2>4. QED
    BY <2>2, <2>3, SMT
<1>9. QED
  BY <1>1, <1>6, <1>7, <1>8, SMT

-----------------------------------------------------------------------------
\* power2round splits a residue at 2 ^ 13.
LEMMA Power2RoundExact ==
  ASSUME NEW a \in Int, 0 <= a, a < Q
  PROVE  LET r == power2round(a)
         IN  r.a0plusQ \in Int /\ r.a1 \in Int /\ a = r.a1 * 2 ^ D + (r.a0plusQ - Q)
<1> DEFINE low == a % 8192
           a0 == IF low < 4097 THEN low ELSE low - 8192
<1>1. low \in Int /\ 0 <= low /\ low < 8192 /\ a = (a \div 8192) * 8192 + low /\ a \div 8192 \in Int
  BY SMT
<1>2. a0 \in Int
  BY <1>1, SMT
<1>3. (a - a0) \div 8192 \in Int /\ a = ((a - a0) \div 8192) * 8192 + a0
  BY <1>1, SMT
<1>4. power2round(a) = [a0plusQ |-> Q + a0, a1 |-> (a - a0) \div 8192]
  BY <1>1, SMT DEF power2round, D
<1> HIDE DEF a0
<1>5. Q \in Int /\ Q + a0 \in Int /\ (Q + a0) - Q = a0
  BY <1>2, SMT DEF Q
<1>6. QED
  BY <1>2, <1>3, <1>4, <1>5, SMT DEF D

\* A representative nearest to zero is its own.
LEMMA CenteredTwice ==
  ASSUME NEW x \in Int
  PROVE  Centered(Centered(x)) = Centered(x)
<1> DEFINE r == x % Q
<1>1. r \in Int /\ 0 <= r /\ r < Q
  BY Residue
<1>2. Centered(x) = (IF r > (Q - 1) \div 2 THEN r - Q ELSE r)
  BY DEF Centered
<1> HIDE DEF r
<1>3. r % Q = r /\ (r - Q) % Q = r
  BY <1>1, SMT DEF Q
<1>4. Centered(x) % Q = r
  BY <1>2, <1>3
<1>5. QED
  BY <1>2, <1>4 DEF Centered

(* One row of an accepted attempt, with the names of Attempted: two of the  *)
(* bounds that Rejected checks, where bound is Gamma2 - Beta.               *)
RowMade(p, bound, A, y, c, s1, s2, t, w, w0mcs2, ct0, z) ==
  /\ Rounding(p)
  /\ bound \in Int /\ bound <= p.Gamma2
  /\ A \in Int /\ y \in Int /\ c \in Int /\ s1 \in Int /\ s2 \in Int
  /\ t = power2round((A * s1 + s2) % Q)
  /\ w = decompose(p, (A * y) % Q)
  /\ w0mcs2 = (w.a0plusQ - c * s2) % Q /\ ~Exceeds(w0mcs2, bound)
  /\ ct0 = (c * (t.a0plusQ - Q)) % Q /\ ~Exceeds(ct0, p.Gamma2)
  /\ z = (y + c * s1) % Q

\* Such a row verifies, and its high bits are those of w - c * s2.
LEMMA RowVerifies ==
  ASSUME NEW p, NEW bound, NEW A, NEW y, NEW c, NEW s1, NEW s2,
         NEW t, NEW w, NEW w0mcs2, NEW ct0, NEW z,
         RowMade(p, bound, A, y, c, s1, s2, t, w, w0mcs2, ct0, z)
  PROVE  /\ PolyUseHint(p, (A * Centered(z) - 2 ^ D * c * t.a1) % Q,
                         makeHint(p, (w0mcs2 + ct0) % Q, w.a1)) = w.a1
         /\ LET r == decompose(p, (A * Centered(z) - c * (t.a1 * 2 ^ D + t.a0plusQ - Q)) % Q)
            IN  r.a1 = w.a1 /\ ~Exceeds(r.a0plusQ - Q, bound)
<1>1. /\ Rounding(p) /\ bound \in Int /\ bound <= p.Gamma2
      /\ A \in Int /\ y \in Int /\ c \in Int /\ s1 \in Int /\ s2 \in Int
  BY DEF RowMade
<1>2. /\ t = power2round((A * s1 + s2) % Q)
      /\ w = decompose(p, (A * y) % Q)
      /\ w0mcs2 = (w.a0plusQ - c * s2) % Q /\ ~Exceeds(w0mcs2, bound)
      /\ ct0 = (c * (t.a0plusQ - Q)) % Q /\ ~Exceeds(ct0, p.Gamma2)
      /\ z = (y + c * s1) % Q
  BY DEF RowMade
<1> DEFINE b == w.a1
           a0 == w.a0plusQ - Q
           t1 == t.a1
           t0 == t.a0plusQ - Q
           m == Intervals(p)
           g == p.Gamma2
           cw == Centered(w0mcs2)
           cc == Centered(ct0)
           cz == Centered(z)
<1>3. Cover(Q, m, g) /\ Alpha(p) = 2 * g /\ 1 < g
  BY <1>1, IntervalsCover, Zenon
<1>4. Q \in Int /\ m \in Int /\ g \in Int /\ bound <= g
  BY <1>1, <1>3, SMT DEF Cover
\* w, the commitment of the signer.
<1>5. /\ b \in Int /\ 0 <= b /\ b < m /\ a0 \in Int /\ w.a0plusQ = Q + a0
      /\ \E k \in Int : A * y = b * (2 * g) + a0 + k * Q
  <2> DEFINE a == (A * y) % Q
  <2>1. A * y \in Int
    BY <1>1, SMT
  <2>2. a \in Int /\ 0 <= a /\ a < Q
    BY <2>1, Residue
  <2>3. PICK k \in Int : A * y = a + k * Q
    BY <2>1, Residue
  <2> HIDE DEF a
  <2>4. /\ b \in Int /\ 0 <= b /\ b < m /\ w.a0plusQ \in Int
        /\ \/ a = b * Alpha(p) + a0 /\ -g < a0 /\ a0 <= g
           \/ b = 0 /\ a = a0 + Q /\ -g <= a0 /\ a0 < 0
    BY <1>1, <1>2, <2>2, DecomposeExact, Zenon DEF a
  <2> HIDE DEF b
  <2>5. a0 \in Int /\ w.a0plusQ = Q + a0
    BY <1>4, <2>4, SMT
  <2> HIDE DEF a0
  <2>6. CASE a = b * Alpha(p) + a0
    BY <1>3, <1>4, <2>3, <2>4, <2>5, <2>6
  <2>7. CASE b = 0 /\ a = a0 + Q
    <3>1. A * y = b * (2 * g) + a0 + (k + 1) * Q /\ k + 1 \in Int
      BY <1>4, <2>3, <2>5, <2>7, SMT
    <3>2. QED
      BY <2>4, <2>5, <3>1
  <2>8. QED
    BY <2>4, <2>6, <2>7
<1>6. PICK k1 \in Int : A * y = b * (2 * g) + a0 + k1 * Q
  BY <1>5
\* t, the public key and what the signer keeps of it.
<1>7. t1 \in Int /\ t0 \in Int /\ \E k \in Int : A * s1 + s2 = t1 * 2 ^ D + t0 + k * Q
  <2> DEFINE a == (A * s1 + s2) % Q
  <2>1. A * s1 + s2 \in Int
    BY <1>1, SMT
  <2>2. a \in Int /\ 0 <= a /\ a < Q
    BY <2>1, Residue
  <2>3. PICK k \in Int : A * s1 + s2 = a + k * Q
    BY <2>1, Residue
  <2> HIDE DEF a
  <2>4. t.a0plusQ \in Int /\ t1 \in Int /\ a = t1 * 2 ^ D + t0
    BY <1>2, <2>2, Power2RoundExact, SMT DEF a
  <2>5. t0 \in Int
    BY <1>4, <2>4, SMT
  <2> HIDE DEF t0, t1
  <2>6. QED
    BY <2>3, <2>4, <2>5, SMT
<1>8. PICK k5 \in Int : A * s1 + s2 = t1 * 2 ^ D + t0 + k5 * Q
  BY <1>7
\* What the loop bounds.
<1>9. cw \in Int /\ w0mcs2 \in Int /\ -bound < cw /\ cw < bound /\ \E k \in Int : Q + a0 - c * s2 = cw + k * Q
  <2>1. w.a0plusQ - c * s2 = Q + a0 - c * s2 /\ Q + a0 - c * s2 \in Int
    BY <1>1, <1>4, <1>5, SMT
  <2>2. cw = Centered(Q + a0 - c * s2) /\ w0mcs2 \in Int
    BY <1>2, <2>1, CenteredResidue, Residue
  <2>3. QED
    BY <1>1, <1>2, <2>1, <2>2, CenteredResidue, WithinBound
<1>10. PICK k2 \in Int : Q + a0 - c * s2 = cw + k2 * Q
  BY <1>9
<1>11. cc \in Int /\ ct0 \in Int /\ -g < cc /\ cc < g /\ \E k \in Int : c * t0 = cc + k * Q
  <2>1. c * t0 \in Int
    BY <1>1, <1>7, SMT
  <2>2. cc = Centered(c * t0) /\ ct0 \in Int
    BY <1>2, <2>1, CenteredResidue, Residue
  <2>3. -g < cc /\ cc < g
    BY <1>1, <1>2, <1>4, <2>2, WithinBound
  <2>4. QED
    BY <2>1, <2>2, <2>3, CenteredResidue
<1>12. PICK k3 \in Int : c * t0 = cc + k3 * Q
  BY <1>11
<1>13. cz \in Int /\ \E k \in Int : y + c * s1 = cz + k * Q
  <2>1. y + c * s1 \in Int
    BY <1>1, SMT
  <2>2. QED
    BY <1>2, <2>1, CenteredResidue
<1>14. PICK k4 \in Int : y + c * s1 = cz + k4 * Q
  BY <1>13
<1>15. t.a0plusQ - Q = t0 /\ t.a1 = t1 /\ w.a1 = b
  OBVIOUS
<1> HIDE DEF b, a0, t0, t1, m, g, cw, cc, cz
\* What the verifier recomputes, and what the comment on Lemma 3 speaks of.
<1>16. 2 ^ D \in Int
  BY SMT DEF D
<1>17. A * cz = A * y + c * (A * s1) - (A * k4) * Q
  <2>1. cz = y + c * s1 - k4 * Q
    BY <1>1, <1>4, <1>13, <1>14, SMT
  <2>2. QED
    BY <1>1, <1>4, <2>1, SMT
<1>18. c * (t1 * 2 ^ D) = c * (A * s1) + c * s2 - c * t0 - (c * k5) * Q
  <2> DEFINE u == t1 * 2 ^ D
             v == A * s1
  <2>1. u \in Int /\ v \in Int
    BY <1>1, <1>7, <1>16, SMT
  <2>2. v + s2 = u + t0 + k5 * Q
    BY <1>8
  <2> HIDE DEF u, v
  <2>3. u = v + s2 - t0 - k5 * Q
    BY <1>1, <1>4, <1>7, <2>1, <2>2, SMT
  <2>4. c * u = c * v + c * s2 - c * t0 - (c * k5) * Q
    BY <1>1, <1>4, <1>7, <2>1, <2>3, SMT
  <2>5. QED
    BY <2>4 DEF u, v
<1>19. 2 ^ D * c * t1 = c * (t1 * 2 ^ D) /\ c * (t1 * 2 ^ D + t0) = c * (t1 * 2 ^ D) + c * t0
  BY <1>1, <1>7, <1>16, SMT
<1>20. /\ A * cz \in Int /\ A * y \in Int /\ c * (A * s1) \in Int /\ c * s2 \in Int
       /\ c * t0 \in Int /\ c * (t1 * 2 ^ D) \in Int /\ b * (2 * g) \in Int
       /\ A * k4 \in Int /\ c * k5 \in Int
  BY <1>1, <1>4, <1>5, <1>7, <1>13, <1>16, SMT
<1>21. /\ k1 + k2 - 1 + k3 + c * k5 - A * k4 \in Int
       /\ A * cz - 2 ^ D * c * t1 = b * (2 * g) + (cw + cc) + (k1 + k2 - 1 + k3 + c * k5 - A * k4) * Q
  <2> DEFINE az == A * cz
             ay == A * y
             cas == c * (A * s1)
             cs2 == c * s2
             ct == c * t0
             ct1 == c * (t1 * 2 ^ D)
             bg == b * (2 * g)
             ak == A * k4
             ck == c * k5
  <2>1. /\ az \in Int /\ ay \in Int /\ cas \in Int /\ cs2 \in Int /\ ct \in Int
        /\ ct1 \in Int /\ bg \in Int /\ ak \in Int /\ ck \in Int
    BY <1>20
  <2>2. /\ az = ay + cas - ak * Q /\ ct1 = cas + cs2 - ct - ck * Q
        /\ ay = bg + a0 + k1 * Q /\ Q + a0 - cs2 = cw + k2 * Q
    BY <1>6, <1>10, <1>17, <1>18
  <2>3. ct = cc + k3 * Q
    BY <1>12
  <2>4. 2 ^ D * c * t1 = ct1
    BY <1>19
  <2> HIDE DEF az, ay, cas, cs2, ct, ct1, bg, ak, ck
  <2>5. az - ct1 = bg + (cw + cc) + (k1 + k2 - 1 + k3 + ck - ak) * Q
    BY <1>5, <1>9, <1>11, <2>1, <2>2, <2>3, SMT DEF Q
  <2>6. k1 + k2 - 1 + k3 + ck - ak \in Int
    BY <2>1, SMT
  <2>7. QED
    BY <2>4, <2>5, <2>6 DEF az, ct1, bg, ak, ck
<1>22. /\ k1 + k2 - 1 + c * k5 - A * k4 \in Int
       /\ A * cz - c * (t1 * 2 ^ D + t0) = b * (2 * g) + cw + (k1 + k2 - 1 + c * k5 - A * k4) * Q
  <2> DEFINE az == A * cz
             ay == A * y
             cas == c * (A * s1)
             cs2 == c * s2
             ct == c * t0
             ct1 == c * (t1 * 2 ^ D)
             bg == b * (2 * g)
             ak == A * k4
             ck == c * k5
  <2>1. /\ az \in Int /\ ay \in Int /\ cas \in Int /\ cs2 \in Int /\ ct \in Int
        /\ ct1 \in Int /\ bg \in Int /\ ak \in Int /\ ck \in Int
    BY <1>20
  <2>2. /\ az = ay + cas - ak * Q /\ ct1 = cas + cs2 - ct - ck * Q
        /\ ay = bg + a0 + k1 * Q /\ Q + a0 - cs2 = cw + k2 * Q
    BY <1>6, <1>10, <1>17, <1>18
  <2>3. c * (t1 * 2 ^ D + t0) = ct1 + ct
    BY <1>19
  <2> HIDE DEF az, ay, cas, cs2, ct, ct1, bg, ak, ck
  <2>4. az - (ct1 + ct) = bg + cw + (k1 + k2 - 1 + ck - ak) * Q
    BY <1>5, <1>9, <2>1, <2>2, SMT DEF Q
  <2>5. k1 + k2 - 1 + ck - ak \in Int
    BY <2>1, SMT
  <2>6. QED
    BY <2>3, <2>4, <2>5 DEF az, bg, ak, ck
<1>23. \A x \in Int, e \in Int : (\E k \in Int : x = b * (2 * g) + e + k * Q) =>
         \E k \in Int : x % Q = b * Alpha(p) + e + k * Q
  <2> SUFFICES ASSUME NEW x \in Int, NEW e \in Int, NEW k \in Int, x = b * (2 * g) + e + k * Q
               PROVE  \E j \in Int : x % Q = b * Alpha(p) + e + j * Q
    OBVIOUS
  <2>1. PICK l \in Int : x = (x % Q) + l * Q
    BY Residue
  <2>2. x % Q \in Int
    BY Residue
  <2> DEFINE bg == b * (2 * g)
             r == x % Q
  <2>3. bg \in Int /\ r \in Int /\ bg + e + k * Q = r + l * Q
    BY <1>20, <2>1, <2>2
  <2> HIDE DEF bg, r
  <2>4. r = bg + e + (k - l) * Q /\ k - l \in Int
    BY <2>3, SMT DEF Q
  <2>5. QED
    BY <1>3, <2>4 DEF bg, r
<1>24. PICK l \in Int : (w0mcs2 + ct0) % Q = cw + cc + l * Q
  <2>1. PICK l1 \in Int : w0mcs2 = cw + l1 * Q
    BY <1>9, CenteredResidue DEF cw
  <2>2. PICK l2 \in Int : ct0 = cc + l2 * Q
    BY <1>11, CenteredResidue DEF cc
  <2>3. w0mcs2 + ct0 \in Int
    BY <1>9, <1>11, SMT
  <2>4. PICK l3 \in Int : w0mcs2 + ct0 = ((w0mcs2 + ct0) % Q) + l3 * Q
    BY <2>3, Residue
  <2>5. (w0mcs2 + ct0) % Q \in Int
    BY <2>3, Residue
  <2>6. (w0mcs2 + ct0) % Q = cw + cc + (l1 + l2 - l3) * Q /\ l1 + l2 - l3 \in Int
    BY <1>4, <1>9, <1>11, <2>1, <2>2, <2>4, <2>5, SMT DEF Q
  <2>7. QED
    BY <2>6
<1>25. PolyUseHint(p, (A * cz - 2 ^ D * c * t1) % Q, makeHint(p, (w0mcs2 + ct0) % Q, b)) = b
  <2> DEFINE x == A * cz - 2 ^ D * c * t1
             e == cw + cc
             z0 == (w0mcs2 + ct0) % Q
  <2>1. x \in Int
    BY <1>19, <1>20, SMT
  <2>2. e \in Int /\ -Alpha(p) < e /\ e < Alpha(p)
    BY <1>1, <1>3, <1>4, <1>9, <1>11, SMT
  <2>3. z0 \in Int /\ 0 <= z0 /\ z0 < Q
    <3>1. w0mcs2 + ct0 \in Int
      BY <1>9, <1>11, SMT
    <3>2. QED
      BY <3>1, Residue
  <2>4. z0 = e + l * Q
    BY <1>24
  <2>5. PICK k \in Int : x % Q = b * Alpha(p) + e + k * Q
    BY <1>21, <1>23, <2>1, <2>2
  <2>6. x % Q \in Int /\ 0 <= x % Q /\ x % Q < Q
    BY <2>1, Residue
  <2> DEFINE a == x % Q
  <2>7. a = b * Alpha(p) + e + k * Q /\ a \in Int /\ 0 <= a /\ a < Q
    BY <2>5, <2>6
  <2>8. b \in Int /\ 0 <= b /\ b < Intervals(p)
    BY <1>5 DEF m
  <2> HIDE DEF x, e, z0, a, b
  <2>9. PolyUseHint(p, a, makeHint(p, z0, b)) = b
    BY <1>1, <2>2, <2>3, <2>4, <2>7, <2>8, HintFindsHighBits
  <2>10. QED
    BY <2>9 DEF a, x, z0
<1>26. LET r == decompose(p, (A * cz - c * (t1 * 2 ^ D + t0)) % Q)
       IN  r.a1 = b /\ ~Exceeds(r.a0plusQ - Q, bound)
  <2> DEFINE x == A * cz - c * (t1 * 2 ^ D + t0)
  <2>1. x \in Int
    BY <1>19, <1>20, SMT
  <2>2. PICK k \in Int : x % Q = b * Alpha(p) + cw + k * Q
    BY <1>9, <1>22, <1>23, <2>1
  <2>3. x % Q \in Int /\ 0 <= x % Q /\ x % Q < Q
    BY <2>1, Residue
  <2> HIDE DEF x
  <2>4. LiesAt(Q, m, g, x % Q, b, cw, k)
    BY <1>1, <1>3, <1>4, <1>5, <1>9, <2>2, <2>3, SMT DEF LiesAt
  <2>5. decompose(p, x % Q).a1 = b /\ decompose(p, x % Q).a0plusQ = Q + cw
    BY <1>1, <2>3, <2>4, DecomposeUnique, Zenon DEF m, g
  <2>6. (Q + cw) - Q = cw
    BY <1>4, <1>9, SMT
  <2>7. Centered(cw) = cw
    BY <1>9, CenteredTwice DEF cw
  <2>8. ~Exceeds(cw, bound)
    BY <1>1, <1>9, <2>7, SMT DEF Exceeds, Abs
  <2>9. QED
    BY <2>5, <2>6, <2>8 DEF x
<1>27. t.a1 * 2 ^ D + t.a0plusQ - Q = t1 * 2 ^ D + t0
  <2>1. t.a0plusQ = Q + t0 /\ t.a0plusQ \in Int
    <3>1. A * s1 + s2 \in Int
      BY <1>1, SMT
    <3>2. t.a0plusQ \in Int
      BY <1>2, <3>1, Power2RoundExact, Residue
    <3>3. QED
      BY <1>4, <1>15, <3>2, SMT
  <2>2. QED
    BY <1>4, <1>7, <1>15, <1>16, <2>1, SMT
<1>28. QED
  BY <1>15, <1>25, <1>26, <1>27 DEF cz

-----------------------------------------------------------------------------
\* The inductive invariant: the key is one that NewKeyFromSeed makes, and a
\* signature is what an attempt with that key made of some mask and challenge.
KeyMade ==
  sk # MlNone => \E A \in Matrix, s1 \in Secret[mode], s2 \in [Row -> Secret[mode]] :
                 sk = Key(mode, A, s1, s2)
SignatureMade ==
  sig # MlNone => /\ sk # MlNone
                /\ \E y \in Mask[mode], c \in Challenge[mode] : sig = Attempted(mode, sk, y, c)
Made == mode \in Mode /\ KeyMade /\ SignatureMade

LEMMA MadeInit == MlInit => Made
  BY DEF MlInit, Made, KeyMade, SignatureMade

LEMMA MadeNext == Made /\ [MlNext]_mlVars => Made'
<1> SUFFICES ASSUME Made, [MlNext]_mlVars PROVE Made'
  OBVIOUS
<1>1. CASE NewKeyFromSeed
  <2>1. mode' = mode /\ sig' = sig /\ sk = MlNone
    BY <1>1 DEF NewKeyFromSeed
  <2>2. sig = MlNone
    BY <2>1 DEF Made, SignatureMade
  <2>3. KeyMade'
    BY <1>1, <2>1 DEF NewKeyFromSeed, KeyMade
  <2>4. QED
    BY <2>1, <2>2, <2>3 DEF Made, SignatureMade
<1>2. CASE Attempt
  <2>1. mode' = mode /\ sk' = sk /\ sk # MlNone
    BY <1>2 DEF Attempt
  <2>2. \E y \in Mask[mode], c \in Challenge[mode] : sig' = Attempted(mode, sk, y, c)
    BY <1>2 DEF Attempt
  <2>3. QED
    BY <2>1, <2>2 DEF Made, KeyMade, SignatureMade
<1>3. CASE UNCHANGED mlVars
  BY <1>3 DEF Made, KeyMade, SignatureMade, mlVars
<1>4. QED
  BY <1>1, <1>2, <1>3 DEF MlNext

\* What the invariant gives: an accepted attempt verifies, row by row.
LEMMA MadeVerifies ==
  ASSUME ModeAssumption, Made
  PROVE  MlSignatureVerifies
<1> SUFFICES ASSUME sig # MlNone PROVE Verify(mode, sk.A, sk.t1, sig) /\ HighBitsKept
  BY Zenon DEF MlSignatureVerifies, SignatureVerifies, HighBitsKept
<1> DEFINE p == mode
           bound == p.Gamma2 - Beta(p)
<1>1. p \in Mode
  BY DEF Made
<1>2. PICK A \in Matrix, s1 \in Secret[p], s2 \in [Row -> Secret[p]] : sk = Key(p, A, s1, s2)
  BY DEF Made, KeyMade, SignatureMade
<1>3. PICK y \in Mask[p], c \in Challenge[p] : sig = Attempted(p, sk, y, c)
  BY DEF Made, SignatureMade
<1>4. /\ Rounding(p) /\ p.Tau \in Nat /\ p.Eta \in Nat /\ p.Omega \in Nat
      /\ Challenge[p] \subseteq -p.Tau .. p.Tau
      /\ Mask[p] \subseteq 1 - Gamma1(p) .. Gamma1(p)
      /\ Secret[p] \subseteq -p.Eta .. p.Eta
  BY <1>1, ModeFields
<1> DEFINE w == [i \in Row |-> decompose(p, (sk.A[i] * y) % Q)]
           w0mcs2 == [i \in Row |-> (w[i].a0plusQ - c * sk.s2[i]) % Q]
           z == (y + c * sk.s1) % Q
           ct0 == [i \in Row |-> (c * (sk.t0[i] - Q)) % Q]
           hint == [i \in Row |-> makeHint(p, (w0mcs2[i] + ct0[i]) % Q, w[i].a1)]
<1>5. ~Rejected(p, w0mcs2, z, ct0, hint)
  BY <1>3, Zenon DEF Attempted
<1>6. sig = [z |-> z, hint |-> hint, c |-> c, w1 |-> [i \in Row |-> w[i].a1]]
  BY <1>3, Zenon DEF Attempted
<1> DEFINE ones == {i \in Row : hint[i] = 1}
<1>7. /\ ~Exceeds(z, Gamma1(p) - Beta(p))
      /\ \A i \in Row : ~Exceeds(w0mcs2[i], bound) /\ ~Exceeds(ct0[i], p.Gamma2)
      /\ ~(Cardinality(ones) > p.Omega)
  BY <1>5 DEF Rejected, VecExceeds
<1>8. Cardinality(ones) <= p.Omega
  <2>1. K \in Nat
    BY DEF ModeAssumption
  <2>2. IsFiniteSet(Row)
    BY <2>1, FS_Interval DEF Row
  <2>3. IsFiniteSet(ones)
    BY <2>2, FS_Subset, Zenon
  <2>4. Cardinality(ones) \in Nat
    BY <2>3, FS_CardinalityType
  <2> HIDE DEF ones
  <2>5. QED
    BY <1>4, <1>7, <2>4
<1>9. bound \in Int /\ bound <= p.Gamma2
  <2>1. p.Gamma2 \in Int
    BY <1>4, IntervalsCover
  <2>2. Beta(p) \in Nat
    BY <1>4, SMT DEF Beta
  <2>3. QED
    BY <2>1, <2>2, SMT
<1>10. A \in [Row -> Int] /\ s1 \in Int /\ s2 \in [Row -> Int] /\ y \in Int /\ c \in Int
  <2>1. Matrix \subseteq [Row -> Int]
    BY Zenon DEF ModeAssumption, Row
  <2>2. -p.Tau .. p.Tau \subseteq Int /\ -p.Eta .. p.Eta \subseteq Int /\ 1 - Gamma1(p) .. Gamma1(p) \subseteq Int
    BY SMT
  <2>3. QED
    BY <1>2, <1>3, <1>4, <2>1, <2>2, Zenon
<1>11. sk.A = A /\ sk.s1 = s1 /\ sk.s2 = s2
  BY <1>2, Zenon DEF Key
<1>12. ASSUME NEW i \in Row
       PROVE  /\ PolyUseHint(p, (sk.A[i] * Centered(z) - 2 ^ D * c * sk.t1[i]) % Q, hint[i]) = w[i].a1
              /\ LET r == decompose(p, (sk.A[i] * Centered(z) - c * (sk.t1[i] * 2 ^ D + sk.t0[i] - Q)) % Q)
                 IN  r.a1 = w[i].a1 /\ ~Exceeds(r.a0plusQ - Q, bound)
  <2> DEFINE t == power2round((A[i] * s1 + s2[i]) % Q)
             wi == w[i]
             mi == w0mcs2[i]
             ci == ct0[i]
             Ai == A[i]
             si == s2[i]
  <2>1. sk.t0[i] = t.a0plusQ /\ sk.t1[i] = t.a1 /\ t = power2round((Ai * s1 + si) % Q)
    BY <1>2 DEF Key
  <2>2. Ai \in Int /\ si \in Int
    BY <1>10
  <2>3. wi = decompose(p, (Ai * y) % Q)
    BY <1>11
  <2>4. mi = (wi.a0plusQ - c * si) % Q /\ ~Exceeds(mi, bound)
    BY <1>7, <1>11
  <2>5. ci = (c * (t.a0plusQ - Q)) % Q /\ ~Exceeds(ci, p.Gamma2)
    BY <1>7, <2>1
  <2>6. z = (y + c * s1) % Q
    BY <1>11
  <2>7. hint[i] = makeHint(p, (mi + ci) % Q, wi.a1) /\ w[i].a1 = wi.a1 /\ sk.A[i] = Ai
    BY <1>11
  <2>8. Rounding(p)
    BY <1>4
  <2> HIDE DEF t, wi, mi, ci, Ai, si, w, w0mcs2, ct0, hint, z, bound
  <2>9. RowMade(p, bound, Ai, y, c, s1, si, t, wi, mi, ci, z)
    BY <1>9, <1>10, <2>1, <2>2, <2>3, <2>4, <2>5, <2>6, <2>8, Zenon DEF RowMade
  <2>10. /\ PolyUseHint(p, (Ai * Centered(z) - 2 ^ D * c * t.a1) % Q,
                        makeHint(p, (mi + ci) % Q, wi.a1)) = wi.a1
         /\ LET r == decompose(p, (Ai * Centered(z) - c * (t.a1 * 2 ^ D + t.a0plusQ - Q)) % Q)
            IN  r.a1 = wi.a1 /\ ~Exceeds(r.a0plusQ - Q, bound)
    BY <2>9, RowVerifies, Zenon
  <2>11. QED
    BY <2>1, <2>7, <2>10
<1>13. Verify(p, sk.A, sk.t1, sig)
  <2>1. sig.z = z /\ sig.hint = hint /\ sig.c = c /\ sig.w1 = [i \in Row |-> w[i].a1]
    BY <1>6
  <2>2. [i \in Row |-> w[i].a1]
          = [i \in Row |-> PolyUseHint(p, (sk.A[i] * Centered(z) - 2 ^ D * c * sk.t1[i]) % Q, hint[i])]
    BY <1>12
  <2> HIDE DEF w, z, hint
  <2>3. QED
    BY <1>7, <1>8, <2>1, <2>2 DEF Verify, ones
<1>14. HighBitsKept
  <2>1. sig.z = z /\ sig.c = c /\ \A i \in Row : sig.w1[i] = w[i].a1
    BY <1>6
  <2> HIDE DEF w, z, bound
  <2>2. QED
    BY <1>12, <2>1 DEF HighBitsKept, bound
<1>15. QED
  BY <1>13, <1>14

\* Every signature that SignTo returns verifies, with the high bits of the
\* commitment and the bound on the low ones that the rejection is there for.
THEOREM SignedVerifies == ASSUME ModeAssumption PROVE MlSpec => []MlSignatureVerifies
<1>1. Made => MlSignatureVerifies
  BY MadeVerifies
<1>2. QED
  BY <1>1, MadeInit, MadeNext, PTL DEF MlSpec

-----------------------------------------------------------------------------
(***************************************************************************)
(* MlKem. Which vector an object refers to is the matter: a vector that    *)
(* some object refers to is never written again, so that what a hash says  *)
(* of it stays true.                                                        *)
(***************************************************************************)

\* The vector at a cell is the one that was hashed.
Holds(cell, hpk) == cell # Nil /\ hpk \in Bytes /\ heap[cell] = hpk.seed

KemInv ==
  /\ DOMAIN heap = Cells
  /\ pub \in [Pubs -> [pk : Cells, hpk : Bytes \cup {KemNone}, ok : BOOLEAN]]
  /\ priv \in [Privs -> [sk : Seeds \cup {KemNone}, pk : Cells, hpk : Bytes \cup {KemNone},
                         z : Seeds \cup {KemNone}, ok : BOOLEAN]]
  /\ \A p \in Pubs : pub[p].ok => Holds(pub[p].pk, pub[p].hpk)
  /\ \A s \in Privs : priv[s].ok => Holds(priv[s].pk, priv[s].hpk)

LEMMA KemInvInit == ASSUME MlKemAssumption PROVE KemInit => KemInv
  BY DEF MlKemAssumption, KemInit, KemInv

\* A new cell is none that an object refers to.
LEMMA NewCell ==
  ASSUME KemInv, NEW cell \in Cells, New(cell)
  PROVE  /\ cell # Nil
         /\ \A p \in Pubs : pub[p].pk # cell
         /\ \A s \in Privs : priv[s].pk # cell
  BY DEF New, Referenced

\* Writing to a new cell changes no vector that an object refers to.
LEMMA WriteNew ==
  ASSUME KemInv, NEW cell \in Cells, New(cell), NEW k, heap' = [heap EXCEPT ![cell] = k]
  PROVE  /\ DOMAIN heap' = Cells /\ heap'[cell] = k
         /\ \A p \in Pubs : pub[p].ok =>
              pub[p].pk # Nil /\ pub[p].hpk \in Bytes /\ heap'[pub[p].pk] = pub[p].hpk.seed
         /\ \A s \in Privs : priv[s].ok =>
              priv[s].pk # Nil /\ priv[s].hpk \in Bytes /\ heap'[priv[s].pk] = priv[s].hpk.seed
<1>1. \A c \in Cells : c # cell => heap'[c] = heap[c]
  BY DEF KemInv
<1>2. \A p \in Pubs : pub[p].pk \in Cells
  BY DEF KemInv
<1>3. \A s \in Privs : priv[s].pk \in Cells
  BY DEF KemInv
<1>4. QED
  BY <1>1, <1>2, <1>3, NewCell DEF KemInv, Holds

LEMMA KemInvNext == KemInv /\ [KemNext]_kemVars => KemInv'
<1> SUFFICES ASSUME KemInv, [KemNext]_kemVars PROVE KemInv'
  OBVIOUS
<1> USE DEF KemInv, Holds
<1>1. ASSUME NEW p \in Pubs, NEW s \in Privs, NEW k \in Seeds, KemNewKeyFromSeed(p, s, k)
      PROVE  KemInv'
  <2>1. PICK cell \in Cells :
          LET hpk == [seed |-> k, norm |-> TRUE]
          IN  /\ New(cell) /\ heap' = [heap EXCEPT ![cell] = k]
              /\ pub' = [pub EXCEPT ![p] = [pk |-> cell, hpk |-> hpk, ok |-> TRUE]]
              /\ priv' = [priv EXCEPT ![s] = [sk |-> k, pk |-> cell, hpk |-> hpk, z |-> k, ok |-> TRUE]]
    BY <1>1 DEF KemNewKeyFromSeed
  <2>2. [seed |-> k, norm |-> TRUE] \in Bytes
    BY DEF Bytes
  <2>3. cell # Nil /\ \A s1 \in Privs : priv[s1].pk # cell
    BY <2>1, NewCell
  <2>4. /\ DOMAIN heap' = Cells /\ heap'[cell] = k
        /\ \A p1 \in Pubs : pub[p1].ok =>
             pub[p1].pk # Nil /\ pub[p1].hpk \in Bytes /\ heap'[pub[p1].pk] = pub[p1].hpk.seed
        /\ \A s1 \in Privs : priv[s1].ok =>
             priv[s1].pk # Nil /\ priv[s1].hpk \in Bytes /\ heap'[priv[s1].pk] = priv[s1].hpk.seed
    BY <2>1, WriteNew
  <2>5. QED
    BY <2>1, <2>2, <2>3, <2>4
<1>2. ASSUME NEW p \in Pubs, NEW s \in Privs, Public(s, p) PROVE KemInv'
  BY <1>2 DEF Public
<1>3. ASSUME NEW p \in Pubs, NEW buf \in Bytes, UnpackPub(p, buf) PROVE KemInv'
  <2>1. PICK cell \in Cells :
          /\ New(cell) /\ heap' = [heap EXCEPT ![cell] = buf.seed]
          /\ pub' = [pub EXCEPT ![p] =
               IF buf.norm THEN [pk |-> cell, hpk |-> buf, ok |-> TRUE]
               ELSE [pk |-> cell, hpk |-> pub[p].hpk, ok |-> FALSE]]
          /\ priv' = priv
    BY <1>3 DEF UnpackPub
  <2>2. QED
    BY <2>1, NewCell, WriteNew
<1>4. ASSUME NEW s \in Privs, NEW buf \in PrivBuffers, UnpackPriv(s, buf) PROVE KemInv'
  <2>1. PICK cell \in Cells :
          /\ New(cell) /\ heap' = [heap EXCEPT ![cell] = buf.pk.seed]
          /\ priv' = [priv EXCEPT ![s] = [sk |-> buf.sk, pk |-> cell, hpk |-> buf.hpk,
                                          z |-> buf.z, ok |-> buf.pk = buf.hpk]]
          /\ pub' = pub
    BY <1>4 DEF UnpackPriv
  <2>2. buf \in [sk : Seeds, pk : Bytes, hpk : Bytes, z : Seeds]
    BY DEF PrivBuffers
  <2>3. cell # Nil
    BY <2>1, NewCell
  <2>4. /\ DOMAIN heap' = Cells /\ heap'[cell] = buf.pk.seed
        /\ \A p \in Pubs : pub[p].ok =>
             pub[p].pk # Nil /\ pub[p].hpk \in Bytes /\ heap'[pub[p].pk] = pub[p].hpk.seed
        /\ \A s1 \in Privs : priv[s1].ok =>
             priv[s1].pk # Nil /\ priv[s1].hpk \in Bytes /\ heap'[priv[s1].pk] = priv[s1].hpk.seed
    BY <2>1, WriteNew
  <2>5. QED
    BY <2>1, <2>2, <2>3, <2>4
<1>5. CASE UNCHANGED kemVars
  BY <1>5 DEF kemVars
<1>6. QED
  BY <1>1, <1>2, <1>3, <1>4, <1>5 DEF KemNext

\* The invariant is enough.
LEMMA KemInvAgrees == ASSUME KemInv PROVE DecapsulationAgrees
<1> SUFFICES ASSUME NEW s \in Privs, Whole(s)
             PROVE  /\ \A p \in Pubs, m \in Messages : pub[p].ok =>
                         LET c == EncapsulateTo(p, m)
                         IN  (DecapsulateTo(s, c.ct) = c.ss) = (pub[p].hpk = priv[s].hpk)
                    /\ \A ct \in Forged :
                         (DecapsulateTo(s, ct)[1] = "rejected") = (ct \notin Honest(priv[s].sk))
  BY DEF DecapsulationAgrees
<1> DEFINE k == priv[s].sk
<1>1. /\ heap[priv[s].pk] = k
      /\ priv[s].hpk \in Bytes /\ priv[s].hpk.seed = k /\ priv[s].hpk.norm = TRUE
  BY DEF KemInv, Holds, Whole, Bytes
<1>2. priv[s].hpk = [seed |-> k, norm |-> TRUE]
  BY <1>1 DEF Bytes
\* What it does with any ciphertext.
<1>3. ASSUME NEW th, NEW m, NEW r, NEW ct, ct = [th |-> th, m |-> m, r |-> r]
      PROVE  DecapsulateTo(s, ct) =
               IF th = k /\ r = <<"r", m, priv[s].hpk>> THEN <<"K", m, priv[s].hpk>>
               ELSE <<"rejected", priv[s].z, ct>>
  BY <1>1, <1>3 DEF DecapsulateTo, DecryptTo, EncryptTo, G
<1>4. ASSUME NEW p \in Pubs, NEW m \in Messages, pub[p].ok
      PROVE  LET c == EncapsulateTo(p, m)
             IN  (DecapsulateTo(s, c.ct) = c.ss) = (pub[p].hpk = priv[s].hpk)
  <2> DEFINE c == EncapsulateTo(p, m)
  <2>1. /\ c.ct = [th |-> heap[pub[p].pk], m |-> m, r |-> <<"r", m, pub[p].hpk>>]
        /\ c.ss = <<"K", m, pub[p].hpk>>
    BY DEF EncapsulateTo, EncryptTo, G
  <2>2. heap[pub[p].pk] = pub[p].hpk.seed
    BY <1>4 DEF KemInv, Holds
  <2> HIDE DEF c
  <2>3. DecapsulateTo(s, c.ct) =
          IF heap[pub[p].pk] = k /\ <<"r", m, pub[p].hpk>> = <<"r", m, priv[s].hpk>>
          THEN <<"K", m, priv[s].hpk>> ELSE <<"rejected", priv[s].z, c.ct>>
    BY <1>3, <2>1
  <2>4. CASE pub[p].hpk = priv[s].hpk
    <3>1. heap[pub[p].pk] = k
      BY <1>1, <2>2, <2>4
    <3>2. DecapsulateTo(s, c.ct) = c.ss
      BY <2>1, <2>3, <2>4, <3>1
    <3>3. QED
      BY <2>4, <3>2 DEF c
  <2>5. CASE pub[p].hpk # priv[s].hpk
    <3>1. DecapsulateTo(s, c.ct) = <<"rejected", priv[s].z, c.ct>>
      BY <2>3, <2>5
    <3>2. DecapsulateTo(s, c.ct) # c.ss
      BY <2>1, <3>1
    <3>3. QED
      BY <2>5, <3>2 DEF c
  <2>6. QED
    BY <2>4, <2>5
<1>5. ASSUME NEW ct \in Forged
      PROVE  (DecapsulateTo(s, ct)[1] = "rejected") = (ct \notin Honest(k))
  <2>1. ct = [th |-> ct.th, m |-> ct.m, r |-> ct.r] /\ ct.m \in Messages
    BY DEF Forged
  <2>2. ct \in Honest(k) <=> ct.th = k /\ ct.r = <<"r", ct.m, priv[s].hpk>>
    BY <1>2, <2>1 DEF Honest
  <2>3. DecapsulateTo(s, ct) =
          IF ct.th = k /\ ct.r = <<"r", ct.m, priv[s].hpk>> THEN <<"K", ct.m, priv[s].hpk>>
          ELSE <<"rejected", priv[s].z, ct>>
    BY <1>3, <2>1
  <2>4. CASE ct \in Honest(k)
    <3>1. DecapsulateTo(s, ct)[1] = "K"
      BY <2>2, <2>3, <2>4
    <3>2. QED
      BY <2>4, <3>1
  <2>5. CASE ct \notin Honest(k)
    <3>1. DecapsulateTo(s, ct)[1] = "rejected"
      BY <2>2, <2>3, <2>5
    <3>2. QED
      BY <2>5, <3>1
  <2>6. QED
    BY <2>4, <2>5
<1>6. QED
  BY <1>4, <1>5

(* ML-KEM: whatever was unpacked before, with or without an error, both ends *)
(* agree for the own key pair only, and no forged ciphertext gives a key that *)
(* belongs to a message; for every number of keys and objects.               *)
THEOREM KemAgrees == ASSUME MlKemAssumption PROVE KemSpec => []DecapsulationAgrees
<1>1. KemInv => DecapsulationAgrees
  BY KemInvAgrees
<1>2. QED
  BY <1>1, KemInvInit, KemInvNext, PTL DEF KemSpec

-----------------------------------------------------------------------------
(***************************************************************************)
(* SimOt. What was sent was made under the keys of its A and B, and the    *)
(* receiver's B is made of its scalar, its choice and the A it was given.  *)
(***************************************************************************)

\* What the sender of A = a answers to B.
Answer(a, B, n) ==
  <<Sealed(<<a, B, (a * B) % Order>>, Message(n, 0)),
    Sealed(<<a, B, (((a * B) % Order) - a * a) % Order>>, Message(n, 1))>>

OtInv ==
  /\ As \subseteq Scalars /\ Bs \subseteq 0 .. Order - 1
  /\ sender.inits \in Nat /\ sender.A = sender.a
  /\ sender.inits > 0 => sender.a \in As
  /\ \A e \in Es : \E a \in As, B \in 0 .. Order - 1, n \in Nat : e = Answer(a, B, n)
  /\ receiver.A # 0 =>
       /\ receiver.A \in As /\ receiver.b \in Scalars /\ receiver.c \in {0, 1}
       /\ receiver.B = (receiver.b + receiver.c * receiver.A) % Order
  /\ DOMAIN receiver = {"b", "c", "A", "B", "mc"}

LEMMA OtInvInit == OtInit => OtInv
<1> SUFFICES ASSUME OtInit PROVE OtInv
  OBVIOUS
<1>1. QED
  BY DEF OtInit, OtInv

LEMMA OtInvNext == ASSUME SimOtAssumption, OtInv, [OtNext]_otVars PROVE OtInv'
<1> USE DEF OtInv
<1>o. Order \in Nat \ {0} /\ Scalars \subseteq Int
  BY DEF SimOtAssumption
<1>1. ASSUME NEW a \in Scalars, InitSender(a) PROVE OtInv'
  <2>1. /\ sender' = [a |-> a, A |-> a, inits |-> sender.inits + 1]
        /\ As' = As \cup {a} /\ receiver' = receiver /\ Bs' = Bs /\ Es' = Es /\ a \notin As
    BY <1>1 DEF InitSender
  <2>2. receiver'.A # 0 =>
          /\ receiver'.A \in As' /\ receiver'.b \in Scalars /\ receiver'.c \in {0, 1}
          /\ receiver'.B = (receiver'.b + receiver'.c * receiver'.A) % Order
    BY <2>1
  <2>3. QED
    BY <2>1, <2>2
<1>2. ASSUME NEW choice \in {0, 1}, NEW A \in As, NEW b \in Scalars, Round1Receiver(choice, A, b)
      PROVE  OtInv'
  <2>1. PICK B \in Int : B = (b + choice * A) % Order
    BY <1>o
  <2>2. B \in 0 .. Order - 1
    <3>1. b + choice * A \in Int
      BY <1>o
    <3>2. QED
      BY <1>o, <2>1, <3>1, Remainder
  <2>3. /\ receiver' = [receiver EXCEPT !.b = b, !.c = choice, !.A = A, !.B = B]
        /\ sender' = sender /\ As' = As /\ Es' = Es /\ Bs' = Bs \cup {receiver'.B}
    BY <1>2, <2>1 DEF Round1Receiver
  <2>4. receiver'.b = b /\ receiver'.c = choice /\ receiver'.A = A /\ receiver'.B = B
        /\ DOMAIN receiver' = DOMAIN receiver
    BY <2>3
  <2>5. QED
    BY <2>1, <2>2, <2>3, <2>4
<1>3. ASSUME NEW B \in Bs, Round2Sender(B) PROVE OtInv'
  <2>1. sender.inits > 0 /\ sender.a \in As /\ sender.inits \in Nat /\ B \in 0 .. Order - 1
    BY <1>3 DEF Round2Sender
  <2>2. /\ Es' = Es \cup {Answer(sender.a, B, sender.inits)}
        /\ sender' = sender /\ receiver' = receiver /\ As' = As /\ Bs' = Bs
    BY <1>3 DEF Round2Sender, MessageKeys, Answer
  <2>3. \A e \in Es' : \E a \in As', B1 \in 0 .. Order - 1, n \in Nat : e = Answer(a, B1, n)
    BY <2>1, <2>2
  <2>4. QED
    BY <2>2, <2>3
<1>4. ASSUME NEW e \in Es, NEW choice \in {0, 1}, Round3Receiver(e, choice) PROVE OtInv'
  <2>1. PICK mc : receiver' = [receiver EXCEPT !.mc = mc]
    BY <1>4 DEF Round3Receiver
  <2>2. sender' = sender /\ As' = As /\ Bs' = Bs /\ Es' = Es
    BY <1>4 DEF Round3Receiver
  <2>3. /\ receiver'.b = receiver.b /\ receiver'.c = receiver.c /\ receiver'.A = receiver.A
        /\ receiver'.B = receiver.B /\ DOMAIN receiver' = DOMAIN receiver
    BY <2>1
  <2>4. QED
    BY <2>2, <2>3
<1>5. CASE UNCHANGED otVars
  BY <1>5 DEF otVars
<1>6. QED
  BY <1>1, <1>2, <1>3, <1>4, <1>5 DEF OtNext

\* Modulo a prime, one key alone is the receiver's: that of its choice.
LEMMA OneKey ==
  ASSUME SimOtAssumption, NEW a \in 1 .. Order - 1, NEW b \in Int, NEW c \in {0, 1},
         NEW B, B = (b + c * a) % Order
  PROVE  /\ (a * B) % Order = (b * a) % Order <=> c = 0
         /\ (((a * B) % Order) - a * a) % Order = (b * a) % Order <=> c = 1
<1>1. Order \in Nat \ {0}
  BY DEF SimOtAssumption
<1>2. (a * a) % Order # 0
  BY DEF SimOtAssumption
<1>3. PICK z \in Int : z = b + c * a
  OBVIOUS
<1>4. PICK s \in Int : s = a * a
  OBVIOUS
<1>5. PICK t \in Int : t = b * a
  OBVIOUS
<1>6. B \in Int /\ a * B = B * a
  BY <1>1, <1>3, Remainder
<1>7. z * a = t + c * s
  BY <1>3, <1>4, <1>5
<1>8. (a * B) % Order = (t + c * s) % Order
  <2>1. a \in Int
    BY <1>1
  <2>2. ((z % Order) * a) % Order = (z * a) % Order
    BY <1>1, <2>1, RemainderProduct, Zenon
  <2>3. QED
    BY <1>3, <1>6, <1>7, <2>2
<1>9. (a * B) % Order = t % Order <=> c = 0
  <2>1. CASE c = 0
    BY <1>4, <1>5, <1>8, <2>1
  <2>2. CASE c = 1
    <3>1. PICK x \in Int : x = t + s
      OBVIOUS
    <3>2. x % Order = t % Order <=> (x - t) % Order = 0
      BY <1>1, RemainderDifference
    <3>3. x - t = s
      BY <3>1
    <3>4. (a * B) % Order = x % Order
      BY <1>8, <2>2, <3>1
    <3>5. QED
      BY <1>2, <1>4, <2>2, <3>2, <3>3, <3>4
  <2>3. QED
    BY <2>1, <2>2
<1>10. (((a * B) % Order) - s) % Order = t % Order <=> c = 1
  <2>1. PICK y \in Int : y = t + c * s
    OBVIOUS
  <2>2. PICK w \in Int : w = -s
    OBVIOUS
  <2>3. ((y % Order) + w) % Order = (y + w) % Order
    BY <1>1, RemainderSum
  <2>4. (((a * B) % Order) - s) % Order = (y + w) % Order
    <3>1. y % Order \in Int /\ (a * B) % Order = y % Order
      BY <1>1, <1>8, <2>1, Remainder
    <3>2. (y % Order) + w = ((a * B) % Order) - s
      BY <2>2, <3>1
    <3>3. QED
      BY <2>3, <3>2
  <2>5. CASE c = 1
    <3>1. y + w = t
      BY <2>1, <2>2, <2>5
    <3>2. QED
      BY <2>4, <2>5, <3>1
  <2>6. CASE c = 0
    <3>1. PICK x \in Int : x = y + w
      OBVIOUS
    <3>2. x = t - s /\ t - x = s
      BY <2>1, <2>2, <2>6, <3>1
    <3>3. t % Order = x % Order <=> (t - x) % Order = 0
      BY <1>1, RemainderDifference
    <3>4. QED
      BY <1>2, <1>4, <2>4, <2>6, <3>1, <3>2, <3>3
  <2>7. QED
    BY <2>5, <2>6
<1>11. QED
  BY <1>4, <1>5, <1>9, <1>10

\* The invariant is enough.
LEMMA OtInvChosen == ASSUME SimOtAssumption, OtInv PROVE ChosenOnly
<1> SUFFICES ASSUME NEW e \in Es, NEW choice \in {0, 1}, receiver.A \in As
             PROVE  Opened(e, choice) =
                      IF /\ e[1].key[1] = receiver.A /\ e[1].key[2] = receiver.B
                         /\ choice = receiver.c
                      THEN Message(e[1].msg.session, receiver.c) ELSE OtNone
  BY DEF ChosenOnly
<1>1. PICK a \in As, B \in 0 .. Order - 1, n \in Nat : e = Answer(a, B, n)
  BY DEF OtInv
<1>2. a \in 1 .. Order - 1
  BY DEF OtInv, SimOtAssumption
<1>3. PICK k0, k1 : k0 = (a * B) % Order /\ k1 = (((a * B) % Order) - a * a) % Order
  OBVIOUS
<1>4. /\ e[1].key = <<a, B, k0>> /\ e[2].key = <<a, B, k1>>
      /\ e[1].msg = Message(n, 0) /\ e[2].msg = Message(n, 1)
  BY <1>1, <1>3 DEF Answer, Sealed
<1>5. PICK k : k = (receiver.b * receiver.A) % Order
  OBVIOUS
<1>6. KeyR = <<receiver.A, receiver.B, k>>
  BY <1>5 DEF KeyR
<1>7. CASE ~(a = receiver.A /\ B = receiver.B)
  <2>1. e[1].key # KeyR /\ e[2].key # KeyR
    BY <1>4, <1>6, <1>7
  <2>2. choice + 1 = 1 \/ choice + 1 = 2
    OBVIOUS
  <2>3. Opened(e, choice) = OtNone
    BY <2>1, <2>2 DEF Opened
  <2>4. ~(e[1].key[1] = receiver.A /\ e[1].key[2] = receiver.B)
    BY <1>4, <1>7
  <2>5. QED
    BY <2>3, <2>4
<1>8. CASE a = receiver.A /\ B = receiver.B
  <2>1. /\ receiver.b \in Int /\ receiver.c \in {0, 1}
        /\ B = (receiver.b + receiver.c * a) % Order
    <3>1. receiver.A # 0 /\ Scalars \subseteq Int
      BY <1>2, <1>8 DEF SimOtAssumption
    <3>2. /\ receiver.b \in Scalars /\ receiver.c \in {0, 1}
          /\ receiver.B = (receiver.b + receiver.c * receiver.A) % Order
      BY <3>1 DEF OtInv
    <3>3. QED
      BY <1>8, <3>1, <3>2
  <2>2. (k0 = k <=> receiver.c = 0) /\ (k1 = k <=> receiver.c = 1)
    BY <1>2, <1>3, <1>5, <1>8, <2>1, OneKey
  <2>3. e[1].key[1] = receiver.A /\ e[1].key[2] = receiver.B /\ e[1].msg.session = n
    BY <1>4, <1>8 DEF Message
  <2>4. CASE choice = 0
    <3>1. Opened(e, choice) = IF k0 = k THEN Message(n, 0) ELSE OtNone
      BY <1>4, <1>6, <1>8, <2>4 DEF Opened
    <3>2. QED
      BY <2>1, <2>2, <2>3, <2>4, <3>1
  <2>5. CASE choice = 1
    <3>1. Opened(e, choice) = IF k1 = k THEN Message(n, 1) ELSE OtNone
      BY <1>4, <1>6, <1>8, <2>5 DEF Opened
    <3>2. QED
      BY <2>1, <2>2, <2>3, <2>5, <3>1
  <2>6. QED
    BY <2>4, <2>5
<1>9. QED
  BY <1>7, <1>8

(* ot/simot: over any group of prime order, for any number of sessions, the  *)
(* receiver opens the message it chose, of the session it chose it in, and   *)
(* nothing else.                                                            *)
THEOREM OtOpensChosen == ASSUME SimOtAssumption PROVE OtSpec => []ChosenOnly
<1>1. OtInit => OtInv
  BY OtInvInit
<1>2. OtInv /\ [OtNext]_otVars => OtInv'
  BY OtInvNext
<1>3. OtInv => ChosenOnly
  BY OtInvChosen
<1>4. QED
  BY <1>1, <1>2, <1>3, PTL DEF OtSpec

-----------------------------------------------------------------------------
(***************************************************************************)
(* SecretSharing. Polynomials are functions on the integers, of a length   *)
(* (the number of coefficients), and scalars are what is left of their     *)
(* values modulo the order. One of length n that vanishes modulo the order *)
(* at n scalars vanishes everywhere, because a factor x - a can be taken   *)
(* out at each; so the one that Lagrange's formula gives is the dealer's.  *)
(***************************************************************************)

(* Residues *)

Same(a, b) == \E k \in Int : a = b + k * SharingOrder

LEMMA OrderNat == ASSUME SharingAssumption
                  PROVE  /\ SharingOrder \in Nat \ {0} /\ SharingOrder \in Nat \ {0, 1}
                         /\ Scalar \subseteq Int /\ 0 \in Scalar /\ 1 \in Scalar
BY DEF SharingAssumption, Scalar

LEMMA SameResidue ==
  ASSUME SharingAssumption, NEW a \in Int, NEW b \in Int
  PROVE  a % SharingOrder = b % SharingOrder <=> Same(a, b)
<1>1. PICK k \in Int : a = (a % SharingOrder) + k * SharingOrder
  BY OrderNat, Remainder
<1>2. PICK l \in Int : b = (b % SharingOrder) + l * SharingOrder
  BY OrderNat, Remainder
<1>3. a % SharingOrder \in Int /\ b % SharingOrder \in Int /\ SharingOrder \in Int
  <2>1. SharingOrder \in Nat \ {0}
    BY OrderNat
  <2>2. a % SharingOrder \in 0 .. SharingOrder - 1 /\ b % SharingOrder \in 0 .. SharingOrder - 1
    BY <2>1, Remainder
  <2>3. QED
    BY <2>1, <2>2
<1>4. ASSUME a % SharingOrder = b % SharingOrder PROVE Same(a, b)
  <2>1. PICK r \in Int : r = a % SharingOrder
    BY <1>3
  <2>2. a = r + k * SharingOrder /\ b = r + l * SharingOrder
    BY <1>1, <1>2, <1>4, <2>1
  <2>3. k - l \in Int /\ a = b + (k - l) * SharingOrder
    BY <1>3, <2>2
  <2>4. QED
    BY <2>3 DEF Same
<1>5. ASSUME Same(a, b) PROVE a % SharingOrder = b % SharingOrder
  <2>1. PICK j \in Int : a = b + j * SharingOrder
    BY <1>5 DEF Same
  <2>2. QED
    BY <2>1, OrderNat, RemainderShift
<1>6. QED
  BY <1>4, <1>5

\* A number is the same as its residue.
LEMMA SameAsResidue ==
  ASSUME SharingAssumption, NEW a \in Int
  PROVE  /\ a % SharingOrder \in Scalar /\ a % SharingOrder \in Int
         /\ Same(a, a % SharingOrder)
<1>1. PICK k \in Int : a = (a % SharingOrder) + k * SharingOrder
  BY OrderNat, Remainder
<1>2. a % SharingOrder \in Scalar
  BY OrderNat, Remainder DEF Scalar
<1>3. QED
  BY <1>1, <1>2, OrderNat DEF Same

\* A scalar is its own residue.
LEMMA ScalarResidue ==
  ASSUME SharingAssumption, NEW a \in Scalar
  PROVE  a % SharingOrder = a
<1>1. a + 0 * SharingOrder = a /\ a \in 0 .. SharingOrder - 1
  BY OrderNat DEF Scalar
<1>2. (a + 0 * SharingOrder) % SharingOrder = a
  BY <1>1, OrderNat, RemainderIs
<1>3. QED
  BY <1>1, <1>2

LEMMA SameScalars ==
  ASSUME SharingAssumption, NEW a \in Scalar, NEW b \in Scalar, Same(a, b)
  PROVE  a = b
<1>1. a \in Int /\ b \in Int
  BY OrderNat
<1>2. a % SharingOrder = b % SharingOrder
  BY <1>1, SameResidue
<1>3. QED
  BY <1>2, ScalarResidue

LEMMA SameReflexive == ASSUME SharingAssumption, NEW a \in Int PROVE Same(a, a)
<1>1. a = a + 0 * SharingOrder
  BY OrderNat
<1>2. QED
  BY <1>1 DEF Same

LEMMA SameSymmetric ==
  ASSUME SharingAssumption, NEW a \in Int, NEW b \in Int, Same(a, b)
  PROVE  Same(b, a)
<1>1. PICK k \in Int : a = b + k * SharingOrder
  BY DEF Same
<1>2. SharingOrder \in Int
  BY OrderNat
<1>3. -k \in Int /\ b = a + (-k) * SharingOrder
  BY <1>1, <1>2
<1>4. QED
  BY <1>3 DEF Same

LEMMA SameTransitive ==
  ASSUME SharingAssumption, NEW a \in Int, NEW b \in Int, NEW c \in Int, Same(a, b), Same(b, c)
  PROVE  Same(a, c)
<1>1. PICK k \in Int : a = b + k * SharingOrder
  BY DEF Same
<1>2. PICK l \in Int : b = c + l * SharingOrder
  BY DEF Same
<1>3. SharingOrder \in Int
  BY OrderNat
<1>4. k + l \in Int /\ a = c + (k + l) * SharingOrder
  BY <1>1, <1>2, <1>3
<1>5. QED
  BY <1>4 DEF Same

LEMMA SameSum ==
  ASSUME SharingAssumption, NEW a \in Int, NEW b \in Int, NEW c \in Int, NEW d \in Int,
         Same(a, b), Same(c, d)
  PROVE  Same(a + c, b + d) /\ Same(a - c, b - d)
<1>1. PICK k \in Int : a = b + k * SharingOrder
  BY DEF Same
<1>2. PICK l \in Int : c = d + l * SharingOrder
  BY DEF Same
<1>3. SharingOrder \in Int
  BY OrderNat
<1>4. /\ k + l \in Int /\ a + c = (b + d) + (k + l) * SharingOrder
      /\ k - l \in Int /\ a - c = (b - d) + (k - l) * SharingOrder
  BY <1>1, <1>2, <1>3
<1>5. QED
  BY <1>4 DEF Same

LEMMA SameProduct ==
  ASSUME SharingAssumption, NEW a \in Int, NEW b \in Int, NEW c \in Int, NEW d \in Int,
         Same(a, b), Same(c, d)
  PROVE  Same(a * c, b * d)
<1>1. PICK k \in Int : a = b + k * SharingOrder
  BY DEF Same
<1>2. PICK l \in Int : c = d + l * SharingOrder
  BY DEF Same
<1>3. SharingOrder \in Int
  BY OrderNat
<1>4. PICK j \in Int : j = k * d + b * l + k * l * SharingOrder
  BY <1>3
<1>5. (b + k * SharingOrder) * (d + l * SharingOrder)
        = b * d + (k * d + b * l + k * l * SharingOrder) * SharingOrder
  BY <1>3
<1>6. a * c = b * d + j * SharingOrder
  BY <1>1, <1>2, <1>4, <1>5
<1>7. QED
  BY <1>6 DEF Same

\* Inverses, and what follows: a product vanishes with one of its factors only.
LEMMA ScalarInverse ==
  ASSUME SharingAssumption, NEW x \in Scalar
  PROVE  ScalarInv(x) \in Scalar /\ (x # 0 => Same(x * ScalarInv(x), 1))
<1>1. \E y \in Scalar : x # 0 => (x * y) % SharingOrder = 1
  <2>1. CASE x = 0
    BY <2>1, OrderNat
  <2>2. CASE x # 0
    <3>1. x \in 1 .. SharingOrder - 1
      BY <2>2, OrderNat DEF Scalar
    <3>2. PICK y \in 1 .. SharingOrder - 1 : (x * y) % SharingOrder = 1
      BY <3>1 DEF SharingAssumption
    <3>3. y \in Scalar
      BY OrderNat DEF Scalar
    <3>4. QED
      BY <3>2, <3>3
  <2>3. QED
    BY <2>1, <2>2
<1>2. ScalarInv(x) \in Scalar /\ (x # 0 => (x * ScalarInv(x)) % SharingOrder = 1)
  <2> DEFINE P(y) == x # 0 => (x * y) % SharingOrder = 1
  <2>1. ScalarInv(x) = CHOOSE y \in Scalar : P(y)
    BY DEF ScalarInv
  <2>2. \E y \in Scalar : P(y)
    BY <1>1
  <2> HIDE DEF P
  <2>3. ScalarInv(x) \in Scalar /\ P(ScalarInv(x))
    BY <2>1, <2>2
  <2>4. QED
    BY <2>3 DEF P
<1>3. PICK v \in Int : v = x * ScalarInv(x)
  BY <1>2, OrderNat
<1>4. 1 % SharingOrder = 1
  BY OrderNat, ScalarResidue
<1>5. x # 0 => v % SharingOrder = 1 % SharingOrder
  BY <1>2, <1>3, <1>4
<1>6. x # 0 => Same(v, 1)
  BY <1>5, SameResidue
<1>7. QED
  BY <1>2, <1>3, <1>6

LEMMA NoZeroDivisors ==
  ASSUME SharingAssumption, NEW a \in Int, NEW b \in Int, ~Same(a, 0), Same(a * b, 0)
  PROVE  Same(b, 0)
<1>1. PICK x \in Scalar : x = a % SharingOrder /\ Same(a, x)
  BY SameAsResidue
<1>2. x # 0
  BY <1>1
<1>3. PICK y \in Scalar : Same(x * y, 1)
  BY <1>2, ScalarInverse
<1>4. x \in Int /\ y \in Int
  BY OrderNat
<1>5. PICK k \in Int : a = x + k * SharingOrder
  BY <1>1 DEF Same
<1>6. Same(a * y, x * y)
  BY <1>1, <1>4, SameReflexive, SameProduct
<1>7. Same(a * y, 1)
  BY <1>3, <1>4, <1>6, SameTransitive
<1>8. Same((a * y) * b, 1 * b)
  BY <1>4, <1>7, SameReflexive, SameProduct
<1>9. Same((a * b) * y, 0 * y)
  BY <1>4, SameReflexive, SameProduct
<1>10. (a * y) * b = (a * b) * y /\ 1 * b = b /\ 0 * y = 0 /\ (a * y) * b \in Int
  BY <1>4
<1>11. Same((a * y) * b, b) /\ Same((a * y) * b, 0)
  BY <1>8, <1>9, <1>10
<1>12. QED
  BY <1>10, <1>11, SameSymmetric, SameTransitive
-----------------------------------------------------------------------------
(* Polynomials *)

NoCoefficients == [x \in Int |-> 0]

\* What is longer by a constant coefficient.
Longer(s) == {[x \in Int |-> c + x * f[x]] : c \in Int, f \in s}

\* The polynomials of each length.
Polys == CHOOSE s : s \in [Nat -> SUBSET [Int -> Int]] /\ s[0] = {NoCoefficients}
                    /\ \A n \in Nat : s[n + 1] = Longer(s[n])

LEMMA PolysAre ==
  /\ \A n \in Nat : Polys[n] \subseteq [Int -> Int]
  /\ Polys[0] = {NoCoefficients}
  /\ \A n \in Nat : Polys[n + 1] = Longer(Polys[n])
<1> DEFINE V == SUBSET [Int -> Int]
           After == [z \in Nat \X V |-> Longer(z[2])]
<1>1. \A s \in V : Longer(s) \in V
  <2> SUFFICES ASSUME NEW s \in V, NEW c \in Int, NEW f \in s
               PROVE  [x \in Int |-> c + x * f[x]] \in [Int -> Int]
    BY DEF Longer
  <2>1. f \in [Int -> Int]
    OBVIOUS
  <2>2. QED
    BY <2>1
<1>2. {NoCoefficients} \in V
  BY DEF NoCoefficients
<1>3. After \in [Nat \X V -> V]
  BY <1>1
<1> HIDE DEF V
<1>4. PICK s \in [Nat -> V] : IsRecursive(s, {NoCoefficients}, After)
  <2> HIDE DEF After
  <2>1. QED
    BY <1>2, <1>3, Recursion
<1>5. ASSUME NEW n \in Nat PROVE s[n + 1] = Longer(s[n])
  <2>1. s[n + 1] = After[<<n, s[n]>>]
    BY <1>4 DEF IsRecursive
  <2>2. s[n] \in V
    BY <1>4
  <2>3. QED
    BY <2>1, <2>2
<1>6. s[0] = {NoCoefficients}
  BY <1>4 DEF IsRecursive
<1> DEFINE P(r) == r \in [Nat -> SUBSET [Int -> Int]] /\ r[0] = {NoCoefficients}
                    /\ \A n \in Nat : r[n + 1] = Longer(r[n])
<1>7. P(s)
  BY <1>4, <1>5, <1>6 DEF V
<1>8. Polys = CHOOSE r : P(r)
  BY DEF Polys
<1> HIDE DEF P
<1>9. P(Polys)
  BY <1>7, <1>8
<1>10. QED
  BY <1>9 DEF P

\* One of length zero is zero.
LEMMA PolyEmpty == ASSUME NEW f \in Polys[0], NEW x \in Int PROVE f[x] = 0
BY PolysAre DEF NoCoefficients

\* One that is longer is a constant and x times one that is shorter.
LEMMA PolySplit ==
  ASSUME NEW n \in Nat, NEW f \in Polys[n + 1]
  PROVE  \E c \in Int, g \in Polys[n] : \A x \in Int : f[x] = c + x * g[x]
<1>1. f \in Longer(Polys[n])
  BY PolysAre
<1>2. PICK c \in Int, g \in Polys[n] : f = [x \in Int |-> c + x * g[x]]
  BY <1>1 DEF Longer
<1>3. QED
  BY <1>2

LEMMA PolyJoin ==
  ASSUME NEW n \in Nat, NEW c \in Int, NEW g \in Polys[n], NEW f \in [Int -> Int],
         \A x \in Int : f[x] = c + x * g[x]
  PROVE  f \in Polys[n + 1]
<1>1. f = [x \in Int |-> c + x * g[x]]
  OBVIOUS
<1>2. PICK s : s = Polys[n] /\ g \in s
  OBVIOUS
<1>3. [x \in Int |-> c + x * g[x]] \in Longer(s)
  BY <1>2 DEF Longer
<1>4. QED
  BY <1>1, <1>2, <1>3, PolysAre

LEMMA PolyInt == ASSUME NEW n \in Nat, NEW f \in Polys[n]
                 PROVE  f \in [Int -> Int] /\ \A x \in Int : f[x] \in Int
BY PolysAre

\* Zeros may follow.
LEMMA PolyPadded == ASSUME NEW n \in Nat, NEW f \in Polys[n] PROVE f \in Polys[n + 1]
<1> DEFINE S == {k \in Nat : Polys[k] \subseteq Polys[k + 1]}
<1>1. 0 \in S
  <2> SUFFICES ASSUME NEW g \in Polys[0] PROVE g \in Polys[0 + 1]
    OBVIOUS
  <2>1. g \in [Int -> Int] /\ \A x \in Int : g[x] = 0
    BY PolyInt, PolyEmpty
  <2>2. PICK z \in Nat : z = 0
    OBVIOUS
  <2>3. \A x \in Int : g[x] = z + x * g[x]
    BY <2>1, <2>2
  <2>4. z \in Int /\ g \in Polys[z]
    BY <2>2
  <2>5. g \in Polys[z + 1]
    BY <2>1, <2>3, <2>4, PolyJoin
  <2>6. QED
    BY <2>2, <2>5
<1>2. ASSUME NEW k \in Nat, k \in S PROVE k + 1 \in S
  <2> SUFFICES ASSUME NEW g \in Polys[k + 1] PROVE g \in Polys[(k + 1) + 1]
    OBVIOUS
  <2>1. PICK c \in Int, h \in Polys[k] : \A x \in Int : g[x] = c + x * h[x]
    BY PolySplit
  <2>2. h \in Polys[k + 1] /\ g \in [Int -> Int] /\ k + 1 \in Nat
    BY <1>2, PolyInt
  <2>3. QED
    BY <2>1, <2>2, PolyJoin
<1> HIDE DEF S
<1>3. n \in S
  BY <1>1, <1>2, Induction
<1>4. QED
  BY <1>3 DEF S

\* Sums, and multiples.
Combines(h, f, s, g) == \A x \in Int : h[x] = f[x] + s * g[x]

LEMMA PolyLinear ==
  ASSUME NEW n \in Nat, NEW f \in Polys[n], NEW g \in Polys[n], NEW s \in Int,
         NEW h \in [Int -> Int], Combines(h, f, s, g)
  PROVE  h \in Polys[n]
<1> DEFINE Sum(u, v) == [x \in Int |-> u[x] + s * v[x]]
           S == {k \in Nat : \A u, v \in Polys[k] : Sum(u, v) \in Polys[k]}
<1>1. 0 \in S
  <2> SUFFICES ASSUME NEW u \in Polys[0], NEW v \in Polys[0] PROVE Sum(u, v) \in Polys[0]
    OBVIOUS
  <2>1. \A x \in Int : u[x] = 0 /\ v[x] = 0
    BY PolyEmpty
  <2>2. \A x \in Int : u[x] + s * v[x] = 0
    BY <2>1
  <2>3. Sum(u, v) = NoCoefficients
    BY <2>2 DEF NoCoefficients
  <2>4. QED
    BY <2>3, PolysAre
<1>2. ASSUME NEW k \in Nat, k \in S PROVE k + 1 \in S
  <2> SUFFICES ASSUME NEW u \in Polys[k + 1], NEW v \in Polys[k + 1]
               PROVE  Sum(u, v) \in Polys[k + 1]
    OBVIOUS
  <2>1. PICK c \in Int, a \in Polys[k] : \A x \in Int : u[x] = c + x * a[x]
    BY PolySplit
  <2>2. PICK d \in Int, b \in Polys[k] : \A x \in Int : v[x] = d + x * b[x]
    BY PolySplit
  <2>3. Sum(a, b) \in Polys[k]
    BY <1>2
  <2>4. ASSUME NEW x \in Int PROVE Sum(u, v)[x] = (c + s * d) + x * Sum(a, b)[x]
    <3>1. a[x] \in Int /\ b[x] \in Int
      BY PolyInt
    <3>2. (c + x * a[x]) + s * (d + x * b[x]) = (c + s * d) + x * (a[x] + s * b[x])
      BY <3>1
    <3>3. QED
      BY <2>1, <2>2, <3>2
  <2>5. Sum(u, v) \in [Int -> Int]
    <3>1. k + 1 \in Nat
      OBVIOUS
    <3>2. \A x \in Int : u[x] \in Int /\ v[x] \in Int
      BY <3>1, PolyInt
    <3>3. QED
      BY <3>2
  <2>6. c + s * d \in Int
    OBVIOUS
  <2> HIDE DEF Sum
  <2>7. QED
    BY <2>3, <2>4, <2>5, <2>6, PolyJoin
<1> HIDE DEF S
<1>3. n \in S
  BY <1>1, <1>2, Induction
<1>4. Sum(f, g) \in Polys[n]
  BY <1>3 DEF S
<1>5. h = Sum(f, g)
  BY DEF Combines
<1>6. QED
  BY <1>4, <1>5

\* Multiplied by x - a.
LEMMA PolyTimes ==
  ASSUME NEW n \in Nat, NEW f \in Polys[n], NEW a \in Int
  PROVE  [x \in Int |-> f[x] * (x - a)] \in Polys[n + 1]
<1> DEFINE u == [x \in Int |-> 0 + x * f[x]]
           h == [x \in Int |-> f[x] * (x - a)]
<1>1. \A x \in Int : f[x] \in Int
  BY PolyInt
<1>2. u \in [Int -> Int] /\ h \in [Int -> Int]
  BY <1>1
<1>3. u \in Polys[n + 1]
  <2>1. PICK c \in Int : c = 0
    OBVIOUS
  <2>2. \A x \in Int : u[x] = c + x * f[x]
    BY <2>1
  <2> HIDE DEF u
  <2>3. QED
    BY <1>2, <2>2, PolyJoin
<1>4. f \in Polys[n + 1]
  BY PolyPadded
<1> PICK s \in Int : s = -a
  OBVIOUS
<1>5. ASSUME NEW x \in Int PROVE h[x] = u[x] + s * f[x]
  <2>1. f[x] * (x - a) = (0 + x * f[x]) + s * f[x]
    BY <1>1
  <2>2. QED
    BY <2>1
<1> HIDE DEF u, h
<1>6. n + 1 \in Nat /\ Combines(h, u, s, f)
  BY <1>5 DEF Combines
<1>7. h \in Polys[n + 1]
  BY <1>2, <1>3, <1>4, <1>6, PolyLinear
<1>8. QED
  BY <1>7 DEF h

\* Divided by x - a, with the value at a as the remainder.
LEMMA PolyDivided ==
  ASSUME NEW n \in Nat, NEW f \in Polys[n + 1], NEW a \in Int
  PROVE  \E g \in Polys[n] : \A x \in Int : f[x] = f[a] + (x - a) * g[x]
<1> DEFINE Divides(k, u) == \E g \in Polys[k] : \A x \in Int : u[x] = u[a] + (x - a) * g[x]
           S == {k \in Nat : \A u \in Polys[k + 1] : Divides(k, u)}
<1>1. 0 \in S
  <2> SUFFICES ASSUME NEW u \in Polys[0 + 1] PROVE Divides(0, u)
    OBVIOUS
  <2>1. PICK z \in Nat : z = 0
    OBVIOUS
  <2>2. u \in Polys[z + 1]
    BY <2>1
  <2>3. PICK c \in Int, v \in Polys[0] : \A x \in Int : u[x] = c + x * v[x]
    <3>1. \E c \in Int, v \in Polys[z] : \A x \in Int : u[x] = c + x * v[x]
      BY <2>2, PolySplit
    <3>2. QED
      BY <3>1, <2>1
  <2>4. \A x \in Int : v[x] = 0
    BY PolyEmpty
  <2>5. \A x \in Int : u[x] = c
    BY <2>3, <2>4
  <2>6. \A x \in Int : u[x] = u[a] + (x - a) * v[x]
    BY <2>4, <2>5
  <2>7. QED
    BY <2>6
<1>2. ASSUME NEW k \in Nat, k \in S PROVE k + 1 \in S
  <2> SUFFICES ASSUME NEW u \in Polys[(k + 1) + 1] PROVE Divides(k + 1, u)
    OBVIOUS
  <2>1. PICK c \in Int, v \in Polys[k + 1] : \A x \in Int : u[x] = c + x * v[x]
    BY PolySplit
  <2>2. PICK w \in Polys[k] : \A x \in Int : v[x] = v[a] + (x - a) * w[x]
    BY <1>2
  <2> DEFINE g == [x \in Int |-> v[x] + a * w[x]]
  <2>3. \A x \in Int : v[x] \in Int /\ w[x] \in Int
    BY PolyInt
  <2>4. g \in Polys[k + 1]
    <3>1. w \in Polys[k + 1]
      BY PolyPadded
    <3>2. g \in [Int -> Int] /\ Combines(g, v, a, w)
      BY <2>3 DEF Combines
    <3>3. k + 1 \in Nat
      OBVIOUS
    <3> HIDE DEF g
    <3>4. QED
      BY <3>1, <3>2, <3>3, PolyLinear
  <2>5. ASSUME NEW x \in Int PROVE u[x] = u[a] + (x - a) * g[x]
    <3>1. u[x] = c + x * v[x] /\ u[a] = c + a * v[a]
      BY <2>1
    <3>2. PICK y \in Int, z \in Int, b \in Int : y = v[x] /\ z = w[x] /\ b = v[a]
      BY <2>3
    <3>3. y = b + (x - a) * z
      BY <2>2, <3>2
    <3>4. a * y = a * (b + (x - a) * z)
      BY <3>3
    <3>5. c + x * y = (c + a * b) + (x - a) * (y + a * z)
      <4>1. (x - a) * (y + a * z) = x * y - a * y + a * ((x - a) * z)
        OBVIOUS
      <4>2. a * (b + (x - a) * z) = a * b + a * ((x - a) * z)
        OBVIOUS
      <4>3. QED
        BY <3>4, <4>1, <4>2
    <3>6. g[x] = y + a * z
      BY <3>2
    <3>7. QED
      BY <3>1, <3>2, <3>5, <3>6
  <2> HIDE DEF g
  <2>6. QED
    BY <2>4, <2>5
<1> HIDE DEF S
<1>3. n \in S
  BY <1>1, <1>2, Induction
<1>4. QED
  BY <1>3 DEF S

\* One of length n that vanishes at n scalars vanishes everywhere.
LEMMA PolyVanishes ==
  ASSUME SharingAssumption, NEW n \in Nat, NEW f \in Polys[n], NEW xs \in [1 .. n -> Scalar],
         IsInjective(xs), \A i \in 1 .. n : Same(f[xs[i]], 0), NEW x \in Int
  PROVE  Same(f[x], 0)
<1> DEFINE Zeros(k, u) == \A i \in 1 .. k : Same(u[xs[i]], 0)
           S == {k \in Nat : k <= n => \A u \in Polys[k] :
                               Zeros(k, u) => \A z \in Int : Same(u[z], 0)}
<1>1. 0 \in S
  <2>1. \A u \in Polys[0] : \A z \in Int : u[z] = 0
    BY PolyEmpty
  <2>2. Same(0, 0)
    BY SameReflexive
  <2>3. QED
    BY <2>1, <2>2
<1>2. ASSUME NEW k \in Nat, k \in S PROVE k + 1 \in S
  <2> SUFFICES ASSUME k + 1 <= n, NEW u \in Polys[k + 1], Zeros(k + 1, u), NEW z \in Int
               PROVE  Same(u[z], 0)
    OBVIOUS
  <2>1. PICK a \in Int : a = xs[k + 1] /\ a \in Scalar
    BY OrderNat
  <2>2. PICK g \in Polys[k] : \A y \in Int : u[y] = u[a] + (y - a) * g[y]
    BY <2>1, PolyDivided
  <2>3. \A y \in Int : u[y] \in Int /\ g[y] \in Int
    <3>1. k + 1 \in Nat
      OBVIOUS
    <3>2. QED
      BY <3>1, PolyInt
  <2>4. Same(u[a], 0)
    BY <2>1
  <2>5. ASSUME NEW i \in 1 .. k PROVE Same(g[xs[i]], 0)
    <3>1. PICK y \in Int : y = xs[i] /\ y \in Scalar
      BY OrderNat
    <3>2. y # a
      BY <2>1, <3>1 DEF IsInjective
    <3>3. ~ Same(y - a, 0)
      <4>1. SUFFICES ASSUME Same(y - a, 0) PROVE FALSE
        OBVIOUS
      <4>2. Same((y - a) + a, 0 + a)
        BY <4>1, SameReflexive, SameSum
      <4>3. (y - a) + a = y /\ 0 + a = a
        OBVIOUS
      <4>4. QED
        BY <2>1, <3>1, <3>2, <4>2, <4>3, SameScalars
    <3>4. Same(u[y], 0)
      BY <3>1
    <3>5. PICK p \in Int, q \in Int, r \in Int, d \in Int :
            p = u[y] /\ q = u[a] /\ r = g[y] /\ d = y - a
      BY <2>3
    <3>6. Same(p - q, 0 - 0) /\ 0 - 0 = 0
      <4>1. Same(p, 0) /\ Same(q, 0)
        BY <2>4, <3>4, <3>5
      <4>2. QED
        BY <4>1, SameSum
    <3>7. p = q + d * r
      BY <2>2, <3>5
    <3>8. p - q = d * r
      BY <3>7
    <3>9. Same(r, 0)
      <4>1. ~ Same(d, 0) /\ Same(d * r, 0)
        BY <3>3, <3>5, <3>6, <3>8
      <4>2. QED
        BY <4>1, NoZeroDivisors
    <3>10. QED
      BY <3>1, <3>5, <3>9
  <2>6. Same(g[z], 0)
    BY <1>2, <2>5
  <2>7. PICK d \in Int, v \in Int, y \in Int : d = z - a /\ v = g[z] /\ y = d * v
    BY <2>3
  <2>8. Same(v, 0) /\ Same(d, d)
    BY <2>6, <2>7, SameReflexive
  <2>9. Same(d * v, d * 0) /\ d * 0 = 0
    BY <2>8, SameProduct
  <2>10. Same(y, 0)
    BY <2>7, <2>9
  <2>11. PICK w \in Int : w = u[a]
    BY <2>3
  <2>12. Same(w, 0)
    BY <2>4, <2>11
  <2>13. Same(w + y, 0 + 0) /\ 0 + 0 = 0
    BY <2>10, <2>12, SameSum
  <2>14. u[z] = w + y
    BY <2>2, <2>7, <2>11
  <2>15. QED
    BY <2>13, <2>14
<1> HIDE DEF S
<1>3. n \in S
  BY <1>1, <1>2, Induction
<1>4. QED
  BY <1>3 DEF S
-----------------------------------------------------------------------------
(* Values *)

LEMMA LenIs == ASSUME NEW S, NEW n \in Nat, NEW c \in [1 .. n -> S]
               PROVE  c \in Seq(S) /\ Len(c) = n
<1>1. c \in Seq(S)
  OBVIOUS
<1>2. DOMAIN c = 1 .. n
  OBVIOUS
<1>3. Len(c) \in Nat /\ DOMAIN c = 1 .. Len(c)
  BY <1>1
<1>4. QED
  BY <1>1, <1>2, <1>3

\* What the loop of Evaluate holds, h[k] after k coefficients.
Horner(h, c, n, x) ==
  /\ h \in [0 .. n -> Scalar] /\ h[0] = 0
  /\ \A k \in 0 .. n - 1 : h[k + 1] = (h[k] * x + c[n - k]) % SharingOrder

LEMMA HornerExists ==
  ASSUME SharingAssumption, NEW n \in Nat, NEW c \in [1 .. n -> Scalar], NEW x \in Int
  PROVE  \E h : Horner(h, c, n, x) /\ PolyEvaluate(c, x) = h[n]
<1> DEFINE C(k) == IF k \in 0 .. n - 1 THEN c[n - k] ELSE 0
           After == [z \in Nat \X Scalar |-> (z[2] * x + C(z[1])) % SharingOrder]
           Body(f) == [i \in 0 .. n |-> IF i = 0 THEN 0
                                        ELSE (f[i - 1] * x + c[n + 1 - i]) % SharingOrder]
           px == CHOOSE f : f = Body(f)
<1>1. ASSUME NEW k \in Nat, NEW y \in Scalar PROVE (y * x + C(k)) % SharingOrder \in Scalar
  <2>1. C(k) \in Scalar
    BY OrderNat
  <2> HIDE DEF C
  <2>2. PICK v \in Int : v = y * x + C(k)
    BY <2>1, OrderNat
  <2>3. v % SharingOrder \in Scalar
    BY SameAsResidue
  <2>4. QED
    BY <2>2, <2>3
<1>2. After \in [Nat \X Scalar -> Scalar]
  <2> HIDE DEF C
  <2>1. QED
    BY <1>1
<1>3. PICK h \in [0 .. n -> Scalar] : Follows(h, 0, After, n)
  <2> HIDE DEF After
  <2>1. QED
    BY <1>2, OrderNat, RecursionUpTo
<1>4. h[0] = 0 /\ \A k \in 0 .. n - 1 : h[k + 1] = After[<<k, h[k]>>]
  BY <1>3 DEF Follows
<1>5. ASSUME NEW k \in 0 .. n - 1 PROVE h[k + 1] = (h[k] * x + c[n - k]) % SharingOrder
  <2>1. k \in Nat /\ h[k] \in Scalar /\ C(k) = c[n - k]
    BY <1>3
  <2> HIDE DEF C
  <2>2. QED
    BY <1>4, <2>1
<1>6. Horner(h, c, n, x)
  BY <1>3, <1>4, <1>5 DEF Horner
<1>7. ASSUME NEW f, f = Body(f) PROVE \A i \in 0 .. n : f[i] = h[i]
  <2> DEFINE S == {k \in Nat : k <= n => f[k] = h[k]}
  <2>1. 0 \in S
    <3>1. 0 \in 0 .. n
      OBVIOUS
    <3>2. f[0] = 0
      BY <1>7, <3>1
    <3>3. QED
      BY <1>4, <3>2
  <2>2. ASSUME NEW k \in Nat, k \in S PROVE k + 1 \in S
    <3> SUFFICES ASSUME k + 1 <= n PROVE f[k + 1] = h[k + 1]
      OBVIOUS
    <3>1. k + 1 \in 0 .. n /\ k + 1 # 0 /\ k + 1 - 1 = k /\ n + 1 - (k + 1) = n - k
      OBVIOUS
    <3>2. f[k + 1] = (f[k + 1 - 1] * x + c[n + 1 - (k + 1)]) % SharingOrder
      BY <1>7, <3>1
    <3>3. f[k] = h[k] /\ k \in 0 .. n - 1
      BY <2>2
    <3>4. QED
      BY <1>5, <3>1, <3>2, <3>3
  <2> HIDE DEF S
  <2>3. Nat \subseteq S
    BY <2>1, <2>2, Induction
  <2>4. QED
    BY <2>3 DEF S
<1>8. h = Body(h)
  <2>1. ASSUME NEW i \in 0 .. n
        PROVE  h[i] = IF i = 0 THEN 0 ELSE (h[i - 1] * x + c[n + 1 - i]) % SharingOrder
    <3>1. CASE i = 0
      BY <1>4, <3>1
    <3>2. CASE i # 0
      <4>1. PICK k \in 0 .. n - 1 : k = i - 1
        BY <3>2
      <4>2. k + 1 = i /\ n - k = n + 1 - i
        BY <4>1
      <4>3. h[i] = (h[k] * x + c[n - k]) % SharingOrder
        BY <1>5, <4>2
      <4>4. QED
        BY <3>2, <4>1, <4>2, <4>3
    <3>3. QED
      BY <3>1, <3>2
  <2>2. QED
    BY <1>3, <2>1
<1>9. px = Body(px)
  <2> HIDE DEF Body
  <2>1. QED
    BY <1>8
<1>10. px[n] = h[n]
  <2> HIDE DEF px, Body
  <2>1. \A i \in 0 .. n : px[i] = h[i]
    BY <1>7, <1>9
  <2>2. QED
    BY <2>1
<1>11. PolyEvaluate(c, x) = px[n]
  <2>1. Len(c) = n
    BY LenIs
  <2>2. QED
    BY <2>1 DEF PolyEvaluate
<1>12. QED
  BY <1>6, <1>10, <1>11

LEMMA EvaluateScalar ==
  ASSUME SharingAssumption, NEW n \in Nat, NEW c \in [1 .. n -> Scalar], NEW x \in Int
  PROVE  PolyEvaluate(c, x) \in Scalar /\ PolyEvaluate(c, x) \in Int
<1>1. PICK h : Horner(h, c, n, x) /\ PolyEvaluate(c, x) = h[n]
  BY HornerExists
<1>2. h[n] \in Scalar
  BY <1>1 DEF Horner
<1>3. QED
  BY <1>1, <1>2, OrderNat

LEMMA EvaluateEmpty ==
  ASSUME SharingAssumption, NEW c \in [1 .. 0 -> Scalar], NEW x \in Int
  PROVE  PolyEvaluate(c, x) = 0
<1>1. PICK n \in Nat : n = 0
  OBVIOUS
<1>2. c \in [1 .. n -> Scalar]
  BY <1>1
<1>3. PICK h : Horner(h, c, n, x) /\ PolyEvaluate(c, x) = h[n]
  BY <1>2, HornerExists
<1>4. QED
  BY <1>1, <1>3 DEF Horner

\* The value is the first coefficient and x times what the others give.
LEMMA EvaluateJoin ==
  ASSUME SharingAssumption, NEW n \in Nat, NEW c \in [1 .. n + 1 -> Scalar],
         NEW d \in [1 .. n -> Scalar], \A i \in 1 .. n : c[i + 1] = d[i], NEW x \in Int
  PROVE  PolyEvaluate(c, x) = (PolyEvaluate(d, x) * x + c[1]) % SharingOrder
<1>1. n + 1 \in Nat
  OBVIOUS
<1>2. PICK h : Horner(h, c, n + 1, x) /\ PolyEvaluate(c, x) = h[n + 1]
  BY <1>1, HornerExists
<1>3. PICK g : Horner(g, d, n, x) /\ PolyEvaluate(d, x) = g[n]
  BY HornerExists
<1> DEFINE S == {k \in Nat : k <= n => h[k] = g[k]}
<1>4. 0 \in S
  BY <1>2, <1>3 DEF Horner
<1>5. ASSUME NEW k \in Nat, k \in S PROVE k + 1 \in S
  <2> SUFFICES ASSUME k + 1 <= n PROVE h[k + 1] = g[k + 1]
    OBVIOUS
  <2>1. k \in 0 .. n - 1 /\ k \in 0 .. (n + 1) - 1 /\ n - k \in 1 .. n /\ (n + 1) - k = (n - k) + 1
    OBVIOUS
  <2>2. h[k + 1] = (h[k] * x + c[(n + 1) - k]) % SharingOrder
    BY <1>2, <2>1 DEF Horner
  <2>3. g[k + 1] = (g[k] * x + d[n - k]) % SharingOrder
    BY <1>3, <2>1 DEF Horner
  <2>4. c[(n + 1) - k] = d[n - k] /\ h[k] = g[k]
    BY <1>5, <2>1
  <2>5. QED
    BY <2>2, <2>3, <2>4
<1> HIDE DEF S
<1>6. n \in S
  BY <1>4, <1>5, Induction
<1>7. h[n] = g[n]
  BY <1>6 DEF S
<1>8. n \in 0 .. (n + 1) - 1 /\ (n + 1) - n = 1
  OBVIOUS
<1>9. h[n + 1] = (h[n] * x + c[(n + 1) - n]) % SharingOrder
  BY <1>2, <1>8 DEF Horner
<1>10. QED
  BY <1>2, <1>3, <1>7, <1>8, <1>9

\* Values modulo the order.
Values(c, f) == \A x \in Int : Same(PolyEvaluate(c, x), f[x])

LEMMA JoinedValues ==
  ASSUME SharingAssumption, NEW n \in Nat, NEW c \in [1 .. n + 1 -> Scalar],
         NEW d \in [1 .. n -> Scalar], \A i \in 1 .. n : c[i + 1] = d[i],
         NEW a \in Int, Same(c[1], a), NEW g \in Polys[n], Values(d, g),
         NEW f \in [Int -> Int], \A x \in Int : f[x] = a + x * g[x]
  PROVE  Values(c, f)
<1> SUFFICES ASSUME NEW x \in Int PROVE Same(PolyEvaluate(c, x), f[x])
  BY DEF Values
<1>1. PICK v \in Int, w \in Int, b \in Int :
        v = PolyEvaluate(d, x) /\ w = g[x] /\ b = c[1]
  <2>1. PolyEvaluate(d, x) \in Int /\ g[x] \in Int
    BY EvaluateScalar, PolyInt
  <2>2. 1 \in 1 .. n + 1
    OBVIOUS
  <2>3. c[1] \in Int
    BY <2>2, OrderNat
  <2>4. QED
    BY <2>1, <2>3
<1>2. Same(v, w) /\ Same(b, a) /\ Same(x, x)
  BY <1>1, SameReflexive DEF Values
<1>3. Same(v * x, w * x)
  BY <1>2, SameProduct
<1>4. PICK s \in Int, t \in Int : s = v * x /\ t = w * x
  OBVIOUS
<1>5. Same(s + b, t + a)
  BY <1>2, <1>3, <1>4, SameSum
<1>6. PICK y \in Int : y = s + b
  OBVIOUS
<1>7. f[x] = t + a
  <2>1. f[x] = a + x * w
    BY <1>1
  <2>2. a + x * w = w * x + a
    OBVIOUS
  <2>3. QED
    BY <1>4, <2>1, <2>2
<1>8. Same(y, f[x]) /\ f[x] \in Int
  BY <1>5, <1>6, <1>7
<1>9. PICK z \in Int : z = y % SharingOrder /\ Same(y, z)
  BY SameAsResidue
<1>10. Same(z, y)
  BY <1>9, SameSymmetric
<1>11. Same(z, f[x])
  BY <1>8, <1>10, SameTransitive
<1>12. PolyEvaluate(c, x) = (PolyEvaluate(d, x) * x + c[1]) % SharingOrder
  BY EvaluateJoin
<1>13. PolyEvaluate(c, x) = (v * x + b) % SharingOrder
  BY <1>1, <1>12
<1>14. QED
  BY <1>4, <1>6, <1>9, <1>11, <1>13

LEMMA PolyOf ==
  ASSUME SharingAssumption, NEW n \in Nat, NEW c \in [1 .. n -> Scalar]
  PROVE  \E f \in Polys[n] : Values(c, f)
<1> DEFINE S == {k \in Nat : \A b \in [1 .. k -> Scalar] : \E f \in Polys[k] : Values(b, f)}
<1>1. 0 \in S
  <2> SUFFICES ASSUME NEW b \in [1 .. 0 -> Scalar] PROVE \E f \in Polys[0] : Values(b, f)
    OBVIOUS
  <2>1. PICK f \in Polys[0] : f = NoCoefficients
    BY PolysAre
  <2>2. ASSUME NEW x \in Int PROVE Same(PolyEvaluate(b, x), f[x])
    <3>1. PolyEvaluate(b, x) = 0 /\ f[x] = 0
      BY EvaluateEmpty, PolyEmpty
    <3>2. Same(0, 0)
      BY SameReflexive
    <3>3. QED
      BY <3>1, <3>2
  <2>3. QED
    BY <2>2 DEF Values
<1>2. ASSUME NEW k \in Nat, k \in S PROVE k + 1 \in S
  <2> SUFFICES ASSUME NEW b \in [1 .. k + 1 -> Scalar] PROVE \E f \in Polys[k + 1] : Values(b, f)
    OBVIOUS
  <2> DEFINE d == [i \in 1 .. k |-> b[i + 1]]
  <2>1. d \in [1 .. k -> Scalar] /\ \A i \in 1 .. k : b[i + 1] = d[i]
    OBVIOUS
  <2>2. PICK g \in Polys[k] : Values(d, g)
    BY <1>2, <2>1
  <2>3. PICK a \in Int : a = b[1]
    BY OrderNat
  <2>4. Same(b[1], a)
    BY <2>3, SameReflexive
  <2> DEFINE f == [x \in Int |-> a + x * g[x]]
  <2>5. f \in [Int -> Int] /\ \A x \in Int : f[x] = a + x * g[x]
    <3>1. \A x \in Int : g[x] \in Int
      BY PolyInt
    <3>2. \A x \in Int : a + x * g[x] \in Int
      BY <3>1
    <3>3. QED
      BY <3>2
  <2> HIDE DEF d, f
  <2>6. f \in Polys[k + 1]
    BY <2>5, PolyJoin
  <2>7. Values(b, f)
    BY <2>1, <2>2, <2>4, <2>5, JoinedValues
  <2>8. QED
    BY <2>6, <2>7
<1> HIDE DEF S
<1>3. n \in S
  BY <1>1, <1>2, Induction
<1>4. QED
  BY <1>3 DEF S

LEMMA CoefficientsOf ==
  ASSUME SharingAssumption, NEW n \in Nat, NEW f \in Polys[n]
  PROVE  \E c \in [1 .. n -> Scalar] : Values(c, f)
<1> DEFINE S == {k \in Nat : \A u \in Polys[k] : \E c \in [1 .. k -> Scalar] : Values(c, u)}
<1>1. 0 \in S
  <2> SUFFICES ASSUME NEW u \in Polys[0] PROVE \E c \in [1 .. 0 -> Scalar] : Values(c, u)
    OBVIOUS
  <2>1. PICK c \in [1 .. 0 -> Scalar] : c = [i \in 1 .. 0 |-> 0]
    BY OrderNat
  <2>2. ASSUME NEW x \in Int PROVE Same(PolyEvaluate(c, x), u[x])
    <3>1. PolyEvaluate(c, x) = 0 /\ u[x] = 0
      BY EvaluateEmpty, PolyEmpty
    <3>2. Same(0, 0)
      BY SameReflexive
    <3>3. QED
      BY <3>1, <3>2
  <2>3. QED
    BY <2>2 DEF Values
<1>2. ASSUME NEW k \in Nat, k \in S PROVE k + 1 \in S
  <2> SUFFICES ASSUME NEW u \in Polys[k + 1] PROVE \E c \in [1 .. k + 1 -> Scalar] : Values(c, u)
    OBVIOUS
  <2>1. PICK a \in Int, g \in Polys[k] : \A x \in Int : u[x] = a + x * g[x]
    BY PolySplit
  <2>2. PICK d \in [1 .. k -> Scalar] : Values(d, g)
    BY <1>2
  <2>3. PICK r \in Scalar : r \in Int /\ r = a % SharingOrder /\ Same(a, r)
    BY SameAsResidue
  <2>4. Same(r, a)
    BY <2>3, SameSymmetric
  <2> DEFINE c == [i \in 1 .. k + 1 |-> IF i = 1 THEN r ELSE d[i - 1]]
  <2>5. c \in [1 .. k + 1 -> Scalar]
    <3>1. ASSUME NEW i \in 1 .. k + 1, i # 1 PROVE d[i - 1] \in Scalar
      <4>1. i - 1 \in 1 .. k
        BY <3>1
      <4>2. QED
        BY <4>1
    <3>2. QED
      BY <3>1
  <2>6. c[1] = r
    <3>1. 1 \in 1 .. k + 1
      OBVIOUS
    <3>2. QED
      BY <3>1
  <2>7. ASSUME NEW i \in 1 .. k PROVE c[i + 1] = d[i]
    <3>1. i + 1 \in 1 .. k + 1 /\ i + 1 # 1 /\ (i + 1) - 1 = i
      OBVIOUS
    <3>2. QED
      BY <3>1
  <2>8. u \in [Int -> Int]
    <3>1. k + 1 \in Nat
      OBVIOUS
    <3>2. QED
      BY <3>1, PolyInt
  <2> HIDE DEF c
  <2>9. Same(c[1], a)
    BY <2>4, <2>6
  <2>10. Values(c, u)
    BY <2>1, <2>2, <2>5, <2>7, <2>8, <2>9, JoinedValues
  <2>11. QED
    BY <2>5, <2>10
<1> HIDE DEF S
<1>3. n \in S
  BY <1>1, <1>2, Induction
<1>4. QED
  BY <1>3 DEF S

\* The value at zero is the first coefficient.
LEMMA EvaluateAtZero ==
  ASSUME SharingAssumption, NEW n \in Nat, NEW c \in [1 .. n + 1 -> Scalar]
  PROVE  PolyEvaluate(c, 0) = c[1]
<1> DEFINE d == [i \in 1 .. n |-> c[i + 1]]
<1>1. d \in [1 .. n -> Scalar] /\ \A i \in 1 .. n : c[i + 1] = d[i]
  OBVIOUS
<1>2. PICK x \in Int : x = 0
  OBVIOUS
<1> HIDE DEF d
<1>3. PolyEvaluate(c, x) = (PolyEvaluate(d, x) * x + c[1]) % SharingOrder
  BY <1>1, EvaluateJoin
<1>4. 1 \in 1 .. n + 1
  OBVIOUS
<1>5. PolyEvaluate(d, x) \in Int /\ c[1] \in Scalar /\ c[1] \in Int
  BY <1>1, <1>4, EvaluateScalar, OrderNat
<1>6. PolyEvaluate(d, x) * x + c[1] = c[1]
  BY <1>2, <1>5
<1>7. c[1] % SharingOrder = c[1]
  BY <1>5, ScalarResidue
<1>8. QED
  BY <1>2, <1>3, <1>6, <1>7
-----------------------------------------------------------------------------
(* Lagrange's polynomials *)

LEMMA DifferencesAre ==
  ASSUME SharingAssumption, NEW n \in Nat, NEW xs \in [1 .. n -> Scalar], NEW x \in Int, NEW j
  PROVE  LET d == Differences(x, j, xs)
         IN  /\ d[0] = 1 /\ \A i \in 0 .. n : d[i] \in Scalar
             /\ \A k \in 0 .. n - 1 :
                  d[k + 1] = IF k + 1 = j THEN d[k] ELSE (d[k] * (x - xs[k + 1])) % SharingOrder
<1> DEFINE X(k) == IF k \in 0 .. n - 1 THEN xs[k + 1] ELSE 0
           After == [z \in Nat \X Scalar |-> IF z[1] + 1 = j THEN z[2]
                                         ELSE (z[2] * (x - X(z[1]))) % SharingOrder]
           Body(f) == [i \in 0 .. n |-> IF i = 0 THEN 1
                                        ELSE IF i = j THEN f[i - 1]
                                        ELSE (f[i - 1] * (x - xs[i])) % SharingOrder]
           d == CHOOSE f : f = Body(f)
<1>1. ASSUME NEW k \in Nat, NEW y \in Scalar PROVE (y * (x - X(k))) % SharingOrder \in Scalar
  <2>1. X(k) \in Scalar
    BY OrderNat
  <2> HIDE DEF X
  <2>2. PICK v \in Int : v = y * (x - X(k))
    BY <2>1, OrderNat
  <2>3. v % SharingOrder \in Scalar
    BY SameAsResidue
  <2>4. QED
    BY <2>2, <2>3
<1>2. After \in [Nat \X Scalar -> Scalar]
  <2> HIDE DEF X
  <2>1. QED
    BY <1>1
<1>3. PICK h \in [0 .. n -> Scalar] : Follows(h, 1, After, n)
  <2> HIDE DEF After
  <2>1. QED
    BY <1>2, OrderNat, RecursionUpTo
<1>4. h[0] = 1 /\ \A k \in 0 .. n - 1 : h[k + 1] = After[<<k, h[k]>>]
  BY <1>3 DEF Follows
<1>5. ASSUME NEW k \in 0 .. n - 1
      PROVE  h[k + 1] = IF k + 1 = j THEN h[k] ELSE (h[k] * (x - xs[k + 1])) % SharingOrder
  <2>1. k \in Nat /\ h[k] \in Scalar /\ X(k) = xs[k + 1]
    BY <1>3
  <2> HIDE DEF X
  <2>2. QED
    BY <1>4, <2>1
<1>6. h = Body(h)
  <2>1. ASSUME NEW i \in 0 .. n
        PROVE  h[i] = IF i = 0 THEN 1 ELSE IF i = j THEN h[i - 1]
                      ELSE (h[i - 1] * (x - xs[i])) % SharingOrder
    <3>1. CASE i = 0
      BY <1>4, <3>1
    <3>2. CASE i # 0
      <4>1. PICK k \in 0 .. n - 1 : k = i - 1 /\ k + 1 = i
        BY <3>2
      <4>2. h[i] = IF i = j THEN h[k] ELSE (h[k] * (x - xs[i])) % SharingOrder
        BY <1>5, <4>1
      <4>3. QED
        BY <3>2, <4>1, <4>2
    <3>3. QED
      BY <3>1, <3>2
  <2>2. QED
    BY <1>3, <2>1
<1>7. d = Body(d)
  <2> HIDE DEF Body
  <2>1. QED
    BY <1>6
<1>8. d[0] = 1
  <2> HIDE DEF d
  <2>1. 0 \in 0 .. n
    OBVIOUS
  <2>2. QED
    BY <1>7, <2>1
<1>9. ASSUME NEW k \in 0 .. n - 1
      PROVE  d[k + 1] = IF k + 1 = j THEN d[k] ELSE (d[k] * (x - xs[k + 1])) % SharingOrder
  <2> HIDE DEF d
  <2>1. k + 1 \in 0 .. n /\ k + 1 # 0 /\ (k + 1) - 1 = k
    OBVIOUS
  <2>2. d[k + 1] = IF k + 1 = j THEN d[(k + 1) - 1]
                   ELSE (d[(k + 1) - 1] * (x - xs[k + 1])) % SharingOrder
    BY <1>7, <2>1
  <2>3. QED
    BY <2>1, <2>2
<1>10. Differences(x, j, xs) = d
  <2>1. Len(xs) = n
    BY LenIs
  <2>2. QED
    BY <2>1 DEF Differences
<1> HIDE DEF d, After, Body
<1> DEFINE S == {k \in Nat : k <= n => d[k] = h[k]}
<1>11. 0 \in S
  BY <1>4, <1>8
<1>12. ASSUME NEW k \in Nat, k \in S PROVE k + 1 \in S
  <2> SUFFICES ASSUME k + 1 <= n PROVE d[k + 1] = h[k + 1]
    OBVIOUS
  <2>1. k \in 0 .. n - 1 /\ d[k] = h[k]
    BY <1>12
  <2>2. QED
    BY <1>5, <1>9, <2>1
<1> HIDE DEF S
<1>13. Nat \subseteq S
  BY <1>11, <1>12, Induction
<1>14. \A i \in 0 .. n : d[i] \in Scalar
  BY <1>3, <1>13 DEF S
<1>15. QED
  BY <1>8, <1>9, <1>10, <1>14

LEMMA DifferencesPoly ==
  ASSUME SharingAssumption, NEW n \in Nat, NEW xs \in [1 .. n -> Scalar], NEW j \in 1 .. n
  PROVE  \E f \in Polys[n] : \A x \in Int : Same(Differences(x, j, xs)[n], f[x])
<1> DEFINE Length(k) == IF k < j THEN k + 1 ELSE k
           Diff(x, k) == Differences(x, j, xs)[k]
           Is(k, f) == \A x \in Int : Same(Diff(x, k), f[x])
           S == {k \in Nat : k <= n => \E f \in Polys[Length(k)] : Is(k, f)}
<1>1. 0 \in S
  <2> DEFINE one == [x \in Int |-> 1 + x * NoCoefficients[x]]
  <2>1. PICK z \in Nat : z = 0
    OBVIOUS
  <2>2. one \in [Int -> Int] /\ \A x \in Int : one[x] = 1
    BY DEF NoCoefficients
  <2>3. NoCoefficients \in Polys[z]
    BY <2>1, PolysAre
  <2>4. PICK c \in Int : c = 1
    OBVIOUS
  <2>5. \A x \in Int : one[x] = c + x * NoCoefficients[x]
    BY <2>4
  <2> HIDE DEF one
  <2>6. one \in Polys[z + 1]
    BY <2>2, <2>3, <2>5, PolyJoin
  <2>7. Length(0) = z + 1
    BY <2>1
  <2>8. ASSUME NEW x \in Int PROVE Same(Diff(x, 0), one[x])
    <3>1. Diff(x, 0) = 1
      BY DifferencesAre
    <3>2. Same(1, 1)
      BY SameReflexive
    <3>3. QED
      BY <2>2, <3>1, <3>2
  <2> HIDE DEF Length, Diff
  <2>9. QED
    BY <2>6, <2>7, <2>8
<1>2. ASSUME NEW k \in Nat, k \in S PROVE k + 1 \in S
  <2> SUFFICES ASSUME k + 1 <= n PROVE \E f \in Polys[Length(k + 1)] : Is(k + 1, f)
    OBVIOUS
  <2>1. PICK f \in Polys[Length(k)] : Is(k, f)
    BY <1>2
  <2>2. k \in 0 .. n - 1 /\ k \in 0 .. n
    OBVIOUS
  <2>3. \A x \in Int : /\ Diff(x, k) \in Scalar
                       /\ Diff(x, k + 1) = IF k + 1 = j THEN Diff(x, k)
                                        ELSE (Diff(x, k) * (x - xs[k + 1])) % SharingOrder
    BY <2>2, DifferencesAre
  <2>4. CASE k + 1 = j
    <3>1. Length(k) = k + 1 /\ Length(k + 1) = k + 1
      BY <2>4
    <3> HIDE DEF Diff
    <3>2. Is(k + 1, f)
      BY <2>1, <2>3, <2>4
    <3>3. QED
      BY <2>1, <3>1, <3>2
  <2>5. CASE k + 1 # j
    <3>1. PICK m \in Nat : m = Length(k) /\ Length(k + 1) = m + 1
      BY <2>5
    <3>2. PICK a \in Int : a = xs[k + 1]
      BY OrderNat
    <3> DEFINE g == [x \in Int |-> f[x] * (x - a)]
    <3>3. f \in Polys[m]
      BY <2>1, <3>1
    <3>4. g \in Polys[m + 1]
      BY <3>3, PolyTimes
    <3> HIDE DEF Diff
    <3>5. ASSUME NEW x \in Int PROVE Same(Diff(x, k + 1), g[x])
      <4>1. Diff(x, k) \in Int
        BY <2>3, OrderNat
      <4>2. f[x] \in Int
        BY <3>3, PolyInt
      <4>3. PICK u \in Int, v \in Int, w \in Int : u = Diff(x, k) /\ v = f[x] /\ w = x - a
        BY <4>1, <4>2
      <4>4. Same(u, v) /\ Same(w, w)
        BY <2>1, <4>3, SameReflexive
      <4>5. Same(u * w, v * w)
        BY <4>4, SameProduct
      <4>6. PICK b \in Int, c \in Int : b = u * w /\ c = v * w
        OBVIOUS
      <4>7. PICK r \in Int : r = b % SharingOrder /\ Same(b, r)
        BY SameAsResidue
      <4>8. Same(r, b) /\ Same(b, c)
        BY <4>5, <4>6, <4>7, SameSymmetric
      <4>9. Same(r, c)
        BY <4>8, SameTransitive
      <4>10. Diff(x, k + 1) = r
        BY <2>3, <2>5, <3>2, <4>3, <4>6, <4>7
      <4>11. g[x] = c
        BY <4>3, <4>6
      <4>12. QED
        BY <4>9, <4>10, <4>11
    <3> HIDE DEF g
    <3>6. QED
      BY <3>1, <3>4, <3>5
  <2>6. QED
    BY <2>4, <2>5
<1> HIDE DEF S
<1>3. n \in S
  BY <1>1, <1>2, Induction
<1>4. PICK f \in Polys[Length(n)] : Is(n, f)
  BY <1>3 DEF S
<1>5. Length(n) = n
  OBVIOUS
<1>6. QED
  BY <1>4, <1>5

LEMMA DifferencesZero ==
  ASSUME SharingAssumption, NEW n \in Nat, NEW xs \in [1 .. n -> Scalar], NEW j,
         NEW i \in 1 .. n, i # j
  PROVE  Differences(xs[i], j, xs)[n] = 0
<1> DEFINE d == Differences(xs[i], j, xs)
           S == {k \in Nat : k \in i .. n => d[k] = 0}
<1>1. xs[i] \in Int
  BY OrderNat
<1>2. /\ \A k \in 0 .. n : d[k] \in Scalar
      /\ \A k \in 0 .. n - 1 :
           d[k + 1] = IF k + 1 = j THEN d[k] ELSE (d[k] * (xs[i] - xs[k + 1])) % SharingOrder
  BY <1>1, DifferencesAre
<1> HIDE DEF d
<1>3. 0 \in S
  OBVIOUS
<1>4. 0 % SharingOrder = 0
  BY OrderNat, ScalarResidue
<1>5. ASSUME NEW k \in Nat, k \in S PROVE k + 1 \in S
  <2> SUFFICES ASSUME k + 1 \in i .. n PROVE d[k + 1] = 0
    OBVIOUS
  <2>1. k \in 0 .. n - 1 /\ k \in 0 .. n
    OBVIOUS
  <2>2. PICK u \in Int : u = d[k]
    BY <1>2, <2>1, OrderNat
  <2>3. PICK v \in Int : v = xs[i] - xs[k + 1]
    BY <1>1, OrderNat
  <2>4. d[k + 1] = IF k + 1 = j THEN u ELSE (u * v) % SharingOrder
    BY <1>2, <2>1, <2>2, <2>3
  <2>5. CASE k + 1 = i
    <3>1. v = 0 /\ k + 1 # j
      BY <1>1, <2>3, <2>5
    <3>2. u * v = 0
      BY <3>1
    <3>3. QED
      BY <1>4, <2>4, <3>1, <3>2
  <2>6. CASE k + 1 # i
    <3>1. u = 0
      BY <1>5, <2>2, <2>6
    <3>2. u * v = 0
      BY <3>1
    <3>3. QED
      BY <1>4, <2>4, <3>1, <3>2
  <2>7. QED
    BY <2>5, <2>6
<1> HIDE DEF S
<1>6. n \in S
  BY <1>3, <1>5, Induction
<1>7. QED
  BY <1>6 DEF S, d

LEMMA DifferencesNotZero ==
  ASSUME SharingAssumption, NEW n \in Nat, NEW xs \in [1 .. n -> Scalar], IsInjective(xs),
         NEW j \in 1 .. n
  PROVE  Differences(xs[j], j, xs)[n] # 0 /\ Differences(xs[j], j, xs)[n] \in Scalar
<1> DEFINE d == Differences(xs[j], j, xs)
           S == {k \in Nat : k <= n => d[k] # 0}
<1>1. PICK x \in Int : x = xs[j]
  BY OrderNat
<1>2. /\ d[0] = 1
      /\ \A k \in 0 .. n : d[k] \in Scalar
      /\ \A k \in 0 .. n - 1 :
           d[k + 1] = IF k + 1 = j THEN d[k] ELSE (d[k] * (xs[j] - xs[k + 1])) % SharingOrder
  <2> DEFINE e == Differences(x, j, xs)
  <2>1. /\ e[0] = 1
        /\ \A k \in 0 .. n : e[k] \in Scalar
        /\ \A k \in 0 .. n - 1 :
             e[k + 1] = IF k + 1 = j THEN e[k] ELSE (e[k] * (x - xs[k + 1])) % SharingOrder
    BY DifferencesAre
  <2>2. d = e
    BY <1>1
  <2> HIDE DEF d, e
  <2>3. QED
    BY <1>1, <2>1, <2>2
<1> HIDE DEF d
<1>3. 0 \in S
  BY <1>2
<1>4. ASSUME NEW k \in Nat, k \in S PROVE k + 1 \in S
  <2> SUFFICES ASSUME k + 1 <= n, k + 1 # j PROVE d[k + 1] # 0
    BY <1>2, <1>4
  <2>1. k \in 0 .. n - 1 /\ k \in 0 .. n /\ k + 1 \in 1 .. n
    OBVIOUS
  <2>2. PICK u \in Scalar : u = d[k] /\ u # 0
    BY <1>2, <1>4, <2>1
  <2>3. PICK a \in Scalar, b \in Scalar : a = xs[j] /\ b = xs[k + 1] /\ a # b
    BY <2>1 DEF IsInjective
  <2>4. PICK v \in Int : v = a - b
    BY OrderNat
  <2>5. d[k + 1] = (u * v) % SharingOrder
    BY <1>2, <2>1, <2>2, <2>3, <2>4
  <2>6. PICK w \in Int : w = u * v /\ w = v * u
    BY OrderNat
  <2>7. SUFFICES ASSUME w % SharingOrder = 0 PROVE FALSE
    BY <2>5, <2>6
  <2>8. Same(w, 0)
    BY <2>7, SameAsResidue
  <2>9. ~ Same(v, 0)
    <3>1. SUFFICES ASSUME Same(v, 0) PROVE FALSE
      OBVIOUS
    <3>2. a \in Int /\ b \in Int
      BY OrderNat
    <3>3. Same(v + b, 0 + b)
      BY <3>1, <3>2, SameReflexive, SameSum
    <3>4. v + b = a /\ 0 + b = b
      BY <2>4, <3>2
    <3>5. QED
      BY <2>3, <3>3, <3>4, SameScalars
  <2>10. Same(u, 0)
    BY <2>6, <2>8, <2>9, OrderNat, NoZeroDivisors
  <2>11. QED
    BY <2>2, <2>10, OrderNat, SameScalars
<1> HIDE DEF S
<1>5. n \in S
  BY <1>3, <1>4, Induction
<1>6. QED
  BY <1>2, <1>5 DEF S, d

LEMMA BaseScalar ==
  ASSUME SharingAssumption, NEW n \in Nat, NEW xs \in [1 .. n -> Scalar], NEW j \in 1 .. n
  PROVE  LagrangeBase(j, xs) \in Scalar
<1>1. Len(xs) = n
  BY LenIs
<1>2. xs[j] \in Int /\ 0 \in Int /\ n \in 0 .. n
  BY OrderNat
<1>3. Differences(0, j, xs)[n] \in Scalar /\ Differences(xs[j], j, xs)[n] \in Scalar
  BY <1>2, DifferencesAre
<1>4. ScalarInv(Differences(xs[j], j, xs)[n]) \in Scalar
  BY <1>3, ScalarInverse
<1>5. PICK v \in Int : v = Differences(0, j, xs)[n] * ScalarInv(Differences(xs[j], j, xs)[n])
  BY <1>3, <1>4, OrderNat
<1>6. LagrangeBase(j, xs) = v % SharingOrder
  BY <1>1, <1>5 DEF LagrangeBase
<1>7. QED
  BY <1>6, SameAsResidue

LEMMA LagrangeSumsAre ==
  ASSUME SharingAssumption, NEW n \in Nat, NEW xs \in [1 .. n -> Scalar],
         NEW ys \in [1 .. n -> Scalar]
  PROVE  LET px == LagrangeSums(xs, ys)
         IN  /\ px[0] = 0 /\ \A i \in 0 .. n : px[i] \in Scalar
             /\ \A k \in 0 .. n - 1 :
                  px[k + 1] = (px[k] + ys[k + 1] * LagrangeBase(k + 1, xs)) % SharingOrder
<1> DEFINE T(k) == IF k \in 1 .. n THEN ys[k] * LagrangeBase(k, xs) ELSE 0
           After == [z \in Nat \X Scalar |-> (z[2] + T(z[1] + 1)) % SharingOrder]
           Body(f) == [i \in 0 .. n |->
                         IF i = 0 THEN 0
                         ELSE (f[i - 1] + ys[i] * LagrangeBase(i, xs)) % SharingOrder]
           px == CHOOSE f : f = Body(f)
<1>1. ASSUME NEW k \in Nat, NEW y \in Scalar PROVE (y + T(k + 1)) % SharingOrder \in Scalar
  <2>1. T(k + 1) \in Int
    <3>1. CASE k + 1 \in 1 .. n
      <4>1. ys[k + 1] \in Int /\ LagrangeBase(k + 1, xs) \in Int
        BY <3>1, BaseScalar, OrderNat
      <4>2. QED
        BY <3>1, <4>1
    <3>2. CASE k + 1 \notin 1 .. n
      BY <3>2
    <3>3. QED
      BY <3>1, <3>2
  <2> HIDE DEF T
  <2>2. PICK v \in Int : v = y + T(k + 1)
    BY <2>1, OrderNat
  <2>3. v % SharingOrder \in Scalar
    BY SameAsResidue
  <2>4. QED
    BY <2>2, <2>3
<1>2. After \in [Nat \X Scalar -> Scalar]
  <2> HIDE DEF T
  <2>1. QED
    BY <1>1
<1>3. PICK h \in [0 .. n -> Scalar] : Follows(h, 0, After, n)
  <2> HIDE DEF After
  <2>1. QED
    BY <1>2, OrderNat, RecursionUpTo
<1>4. h[0] = 0 /\ \A k \in 0 .. n - 1 : h[k + 1] = After[<<k, h[k]>>]
  BY <1>3 DEF Follows
<1>5. ASSUME NEW k \in 0 .. n - 1
      PROVE  h[k + 1] = (h[k] + ys[k + 1] * LagrangeBase(k + 1, xs)) % SharingOrder
  <2>1. k \in Nat /\ h[k] \in Scalar /\ T(k + 1) = ys[k + 1] * LagrangeBase(k + 1, xs)
    BY <1>3
  <2> HIDE DEF T
  <2>2. QED
    BY <1>4, <2>1
<1>6. h = Body(h)
  <2>1. ASSUME NEW i \in 0 .. n
        PROVE  h[i] = IF i = 0 THEN 0
                      ELSE (h[i - 1] + ys[i] * LagrangeBase(i, xs)) % SharingOrder
    <3>1. CASE i = 0
      BY <1>4, <3>1
    <3>2. CASE i # 0
      <4>1. PICK k \in 0 .. n - 1 : k = i - 1 /\ k + 1 = i
        BY <3>2
      <4>2. h[i] = (h[k] + ys[i] * LagrangeBase(i, xs)) % SharingOrder
        BY <1>5, <4>1
      <4>3. QED
        BY <3>2, <4>1, <4>2
    <3>3. QED
      BY <3>1, <3>2
  <2>2. QED
    BY <1>3, <2>1
<1>7. px = Body(px)
  <2> HIDE DEF Body
  <2>1. QED
    BY <1>6
<1>8. px[0] = 0
  <2> HIDE DEF px
  <2>1. 0 \in 0 .. n
    OBVIOUS
  <2>2. QED
    BY <1>7, <2>1
<1>9. ASSUME NEW k \in 0 .. n - 1
      PROVE  px[k + 1] = (px[k] + ys[k + 1] * LagrangeBase(k + 1, xs)) % SharingOrder
  <2> HIDE DEF px
  <2>1. k + 1 \in 0 .. n /\ k + 1 # 0 /\ (k + 1) - 1 = k
    OBVIOUS
  <2>2. px[k + 1] = (px[(k + 1) - 1] + ys[k + 1] * LagrangeBase(k + 1, xs)) % SharingOrder
    BY <1>7, <2>1
  <2>3. QED
    BY <2>1, <2>2
<1>10. LagrangeSums(xs, ys) = px
  <2>1. Len(xs) = n
    BY LenIs
  <2>2. QED
    BY <2>1 DEF LagrangeSums
<1> HIDE DEF px, After, Body
<1> DEFINE S == {k \in Nat : k <= n => px[k] = h[k]}
<1>11. 0 \in S
  BY <1>4, <1>8
<1>12. ASSUME NEW k \in Nat, k \in S PROVE k + 1 \in S
  <2> SUFFICES ASSUME k + 1 <= n PROVE px[k + 1] = h[k + 1]
    OBVIOUS
  <2>1. k \in 0 .. n - 1 /\ px[k] = h[k]
    BY <1>12
  <2>2. QED
    BY <1>5, <1>9, <2>1
<1> HIDE DEF S
<1>13. Nat \subseteq S
  BY <1>11, <1>12, Induction
<1>14. \A i \in 0 .. n : px[i] \in Scalar
  BY <1>3, <1>13 DEF S
<1>15. QED
  BY <1>8, <1>9, <1>10, <1>14

\* The polynomial of one term of the sum: y at its scalar, zero at the others,
\* and at zero what is added to the sum.
LEMMA LagrangeTerm ==
  ASSUME SharingAssumption, NEW n \in Nat, NEW xs \in [1 .. n -> Scalar], IsInjective(xs),
         NEW j \in 1 .. n, NEW y \in Scalar
  PROVE  \E g \in Polys[n], s \in Int :
           /\ Same(s * g[0], y * LagrangeBase(j, xs))
           /\ Same(s * g[xs[j]], y)
           /\ \A i \in 1 .. n : i # j => Same(s * g[xs[i]], 0)
<1>1. PICK g \in Polys[n] : \A x \in Int : Same(Differences(x, j, xs)[n], g[x])
  BY DifferencesPoly
<1>2. PICK d \in Scalar : d = Differences(xs[j], j, xs)[n] /\ d # 0
  BY DifferencesNotZero
<1>3. PICK v \in Scalar : v = ScalarInv(d) /\ Same(d * v, 1)
  BY <1>2, ScalarInverse
<1>4. v \in Int /\ d \in Int /\ y \in Int /\ xs[j] \in Int
  BY OrderNat
<1>5. PICK s \in Int : s = y * v
  BY <1>4
<1>6. \A x \in Int : g[x] \in Int
  BY PolyInt
<1>7. Same(s * g[xs[j]], y)
  <2>1. PICK u \in Int : u = g[xs[j]]
    BY <1>4, <1>6
  <2>2. Same(d, u)
    BY <1>1, <1>2, <1>4, <2>1
  <2>3. Same(u, d)
    BY <1>4, <2>2, SameSymmetric
  <2>4. Same(s * u, s * d)
    BY <1>4, <2>3, SameReflexive, SameProduct
  <2>5. Same(y * (d * v), y * 1)
    BY <1>3, <1>4, SameReflexive, SameProduct
  <2>6. y * 1 = y /\ s * d = y * (d * v) /\ s * d \in Int /\ s * u \in Int
    BY <1>4, <1>5
  <2>7. Same(s * d, y)
    BY <2>5, <2>6
  <2>8. Same(s * u, y)
    BY <1>4, <2>4, <2>6, <2>7, SameTransitive
  <2>9. QED
    BY <2>1, <2>8
<1>8. ASSUME NEW i \in 1 .. n, i # j PROVE Same(s * g[xs[i]], 0)
  <2>1. PICK x \in Int : x = xs[i]
    BY OrderNat
  <2>2. Differences(x, j, xs)[n] = 0
    BY <1>8, <2>1, DifferencesZero
  <2>3. PICK u \in Int : u = g[x]
    BY <1>6
  <2>4. Same(0, u)
    BY <1>1, <2>2, <2>3
  <2>5. Same(u, 0)
    BY <2>4, SameSymmetric
  <2>6. PICK z \in Int : z = 0
    OBVIOUS
  <2>7. Same(s * u, s * z)
    BY <2>5, <2>6, SameReflexive, SameProduct
  <2>8. s * z = 0
    BY <2>6
  <2>9. QED
    BY <2>1, <2>3, <2>7, <2>8
<1>9. Same(s * g[0], y * LagrangeBase(j, xs))
  <2>1. PICK a \in Scalar : a = Differences(0, j, xs)[n]
    <3>1. 0 \in Int /\ n \in 0 .. n
      OBVIOUS
    <3>2. Differences(0, j, xs)[n] \in Scalar
      BY <3>1, DifferencesAre
    <3>3. QED
      BY <3>2
  <2>2. a \in Int
    BY OrderNat
  <2>3. PICK b \in Int : b = a * v
    BY <1>4, <2>2
  <2>4. LagrangeBase(j, xs) = b % SharingOrder
    <3>1. Len(xs) = n
      BY LenIs
    <3>2. QED
      BY <1>2, <1>3, <2>1, <2>3, <3>1 DEF LagrangeBase
  <2>5. PICK l \in Int : l = LagrangeBase(j, xs) /\ Same(b, l)
    BY <2>4, SameAsResidue
  <2>6. PICK u \in Int : u = g[0]
    BY <1>6
  <2>7. Same(a, u)
    BY <1>1, <2>1, <2>6
  <2>8. Same(u, a)
    BY <2>2, <2>7, SameSymmetric
  <2>9. Same(s * u, s * a)
    BY <2>2, <2>8, SameReflexive, SameProduct
  <2>10. Same(y * b, y * l)
    BY <1>4, <2>5, SameReflexive, SameProduct
  <2>11. s * a = y * b
    BY <1>4, <1>5, <2>2, <2>3
  <2>12. PICK e1 \in Int, e2 \in Int, e3 \in Int : e1 = s * u /\ e2 = y * b /\ e3 = y * l
    BY <1>4
  <2>13. Same(e1, e2) /\ Same(e2, e3)
    BY <2>9, <2>10, <2>11, <2>12
  <2>14. Same(e1, e3)
    BY <2>13, SameTransitive
  <2>15. QED
    BY <2>5, <2>6, <2>12, <2>14
<1>10. QED
  BY <1>7, <1>8, <1>9

LEMMA ZeroPoly == ASSUME NEW n \in Nat PROVE NoCoefficients \in Polys[n]
<1> DEFINE S == {k \in Nat : NoCoefficients \in Polys[k]}
<1>1. 0 \in S
  BY PolysAre
<1>2. ASSUME NEW k \in Nat, k \in S PROVE k + 1 \in S
  BY <1>2, PolyPadded
<1> HIDE DEF S
<1>3. n \in S
  BY <1>1, <1>2, Induction
<1>4. QED
  BY <1>3 DEF S

\* Lagrange's polynomial has the given values, and at zero the sum's.
LEMMA Interpolates ==
  ASSUME SharingAssumption, NEW n \in Nat, NEW xs \in [1 .. n -> Scalar], IsInjective(xs),
         NEW ys \in [1 .. n -> Scalar]
  PROVE  \E f \in Polys[n] : /\ Same(f[0], LagrangeSums(xs, ys)[n])
                             /\ \A i \in 1 .. n : Same(f[xs[i]], ys[i])
<1> DEFINE px == LagrangeSums(xs, ys)
           Goal(k, i) == IF i <= k THEN ys[i] ELSE 0
           Is(k, f) == Same(f[0], px[k]) /\ \A i \in 1 .. n : Same(f[xs[i]], Goal(k, i))
           S == {k \in Nat : k <= n => \E f \in Polys[n] : Is(k, f)}
<1>1. /\ px[0] = 0 /\ \A i \in 0 .. n : px[i] \in Scalar
      /\ \A k \in 0 .. n - 1 :
           px[k + 1] = (px[k] + ys[k + 1] * LagrangeBase(k + 1, xs)) % SharingOrder
  BY LagrangeSumsAre
<1> HIDE DEF px
<1>2. \A i \in 1 .. n : xs[i] \in Int /\ ys[i] \in Int
  BY OrderNat
<1>3. 0 \in S
  <2>1. NoCoefficients \in Polys[n] /\ \A x \in Int : NoCoefficients[x] = 0
    BY ZeroPoly DEF NoCoefficients
  <2>2. Same(0, 0)
    BY SameReflexive
  <2>3. \A i \in 1 .. n : Goal(0, i) = 0
    OBVIOUS
  <2> HIDE DEF Goal
  <2>4. Is(0, NoCoefficients)
    BY <1>1, <1>2, <2>1, <2>2, <2>3
  <2>5. QED
    BY <2>1, <2>4
<1>4. ASSUME NEW k \in Nat, k \in S PROVE k + 1 \in S
  <2> SUFFICES ASSUME k + 1 <= n PROVE \E f \in Polys[n] : Is(k + 1, f)
    OBVIOUS
  <2>1. PICK f \in Polys[n] : Is(k, f)
    BY <1>4
  <2>2. PICK j \in 1 .. n : j = k + 1
    OBVIOUS
  <2>3. PICK g \in Polys[n], s \in Int :
           /\ Same(s * g[0], ys[j] * LagrangeBase(j, xs))
           /\ Same(s * g[xs[j]], ys[j])
           /\ \A i \in 1 .. n : i # j => Same(s * g[xs[i]], 0)
    BY LagrangeTerm
  <2> DEFINE h == [x \in Int |-> f[x] + s * g[x]]
  <2>4. \A x \in Int : f[x] \in Int /\ g[x] \in Int
    BY PolyInt
  <2>5. h \in [Int -> Int]
    BY <2>4
  <2>6. \A x \in Int : h[x] = f[x] + s * g[x]
    OBVIOUS
  <2> HIDE DEF h
  <2>7. h \in Polys[n]
    <3>1. Combines(h, f, s, g)
      BY <2>6 DEF Combines
    <3>2. QED
      BY <2>5, <3>1, PolyLinear
  <2>8. Same(h[0], px[k + 1])
    <3>1. PICK u \in Int, v \in Int : u = f[0] /\ v = s * g[0]
      BY <2>4
    <3>2. PICK l \in Int : l = LagrangeBase(j, xs)
      BY BaseScalar, OrderNat
    <3>3. PICK w \in Int : w = ys[j] * l
      BY <1>2
    <3>4. k \in 0 .. n - 1 /\ k \in 0 .. n
      BY <2>2
    <3>5. PICK a \in Int : a = px[k]
      BY <1>1, <3>4, OrderNat
    <3>6. Same(u, a) /\ Same(v, w)
      BY <2>1, <2>3, <3>1, <3>2, <3>3, <3>5
    <3>7. Same(u + v, a + w)
      BY <3>6, SameSum
    <3>8. PICK b \in Int : b = a + w
      OBVIOUS
    <3>9. px[k + 1] = b % SharingOrder
      BY <1>1, <2>2, <3>2, <3>3, <3>4, <3>5, <3>8
    <3>10. PICK c \in Int : c = b % SharingOrder /\ Same(b, c)
      BY SameAsResidue
    <3>11. PICK d \in Int : d = u + v
      OBVIOUS
    <3>12. Same(d, c)
      BY <3>7, <3>8, <3>10, <3>11, SameTransitive
    <3>13. h[0] = d
      BY <2>6, <3>1, <3>11
    <3>14. QED
      BY <3>9, <3>10, <3>12, <3>13
  <2>9. ASSUME NEW i \in 1 .. n PROVE Same(h[xs[i]], Goal(k + 1, i))
    <3>1. PICK x \in Int : x = xs[i]
      BY <1>2
    <3>2. PICK u \in Int, v \in Int : u = f[x] /\ v = s * g[x]
      BY <2>4
    <3>3. h[x] = u + v
      BY <2>6, <3>2
    <3>4. Same(u, Goal(k, i))
      BY <2>1, <3>1, <3>2
    <3>5. CASE i = j
      <4>1. Goal(k, i) = 0 /\ Goal(k + 1, i) = ys[i]
        BY <2>2, <3>5
      <4>2. Same(v, ys[i]) /\ ys[i] \in Int
        BY <1>2, <2>3, <3>1, <3>2, <3>5
      <4>3. Same(u, 0)
        BY <3>4, <4>1
      <4>4. Same(u + v, 0 + ys[i])
        BY <4>2, <4>3, SameSum
      <4>5. 0 + ys[i] = ys[i]
        BY <4>2
      <4>6. QED
        BY <3>1, <3>3, <4>1, <4>4, <4>5
    <3>6. CASE i # j
      <4>1. Goal(k + 1, i) = Goal(k, i) /\ Goal(k, i) \in Int
        BY <1>2, <2>2, <3>6
      <4>2. Same(v, 0)
        BY <2>3, <3>1, <3>2, <3>6
      <4> HIDE DEF Goal
      <4>3. PICK y \in Int : y = Goal(k, i)
        BY <4>1
      <4>4. PICK z \in Int : z = 0 /\ y + z = y
        OBVIOUS
      <4>5. Same(u, y) /\ Same(v, z)
        BY <3>4, <4>2, <4>3, <4>4
      <4>6. Same(u + v, y + z)
        BY <4>5, SameSum
      <4>7. QED
        BY <3>1, <3>3, <4>1, <4>3, <4>4, <4>6
    <3>7. QED
      BY <3>5, <3>6
  <2> HIDE DEF Goal
  <2>10. QED
    BY <2>7, <2>8, <2>9
<1> HIDE DEF S
<1>5. n \in S
  BY <1>3, <1>4, Induction
<1>6. PICK f \in Polys[n] : Is(n, f)
  BY <1>5 DEF S
<1>7. \A i \in 1 .. n : Goal(n, i) = ys[i]
  OBVIOUS
<1>8. QED
  BY <1>6, <1>7 DEF px

\* From as many values as there are coefficients comes the first one.
LEMMA LagrangeRecovers ==
  ASSUME SharingAssumption, NEW n \in Nat, NEW c \in [1 .. n + 1 -> Scalar],
         NEW xs \in [1 .. n + 1 -> Scalar], IsInjective(xs),
         NEW ys \in [1 .. n + 1 -> Scalar], \A i \in 1 .. n + 1 : ys[i] = PolyEvaluate(c, xs[i])
  PROVE  LagrangeSums(xs, ys)[n + 1] = c[1]
<1>1. PICK m \in Nat : m = n + 1
  OBVIOUS
<1>2. /\ c \in [1 .. m -> Scalar] /\ xs \in [1 .. m -> Scalar] /\ ys \in [1 .. m -> Scalar]
      /\ \A i \in 1 .. m : ys[i] = PolyEvaluate(c, xs[i])
  BY <1>1
<1>3. PICK f \in Polys[m] : /\ Same(f[0], LagrangeSums(xs, ys)[m])
                            /\ \A i \in 1 .. m : Same(f[xs[i]], ys[i])
  BY <1>2, Interpolates
<1>4. PICK g \in Polys[m] : Values(c, g)
  BY <1>2, PolyOf
<1>5. \A x \in Int : f[x] \in Int /\ g[x] \in Int
  BY PolyInt
<1>6. PICK s \in Int : s = -1
  OBVIOUS
<1> DEFINE h == [x \in Int |-> f[x] + s * g[x]]
<1>7. h \in [Int -> Int] /\ \A x \in Int : h[x] = f[x] + s * g[x]
  BY <1>5
<1>8. ASSUME NEW x \in Int PROVE h[x] = f[x] - g[x]
  <2>1. PICK u \in Int, v \in Int : u = f[x] /\ v = g[x]
    BY <1>5
  <2>2. u + s * v = u - v
    BY <1>6
  <2>3. QED
    BY <1>7, <2>1, <2>2
<1> HIDE DEF h
<1>9. h \in Polys[m]
  <2>1. Combines(h, f, s, g)
    BY <1>7 DEF Combines
  <2>2. QED
    BY <1>7, <2>1, PolyLinear
<1>10. ASSUME NEW i \in 1 .. m PROVE Same(h[xs[i]], 0)
  <2>1. PICK x \in Int : x = xs[i]
    BY <1>2, OrderNat
  <2>2. PICK u \in Int, v \in Int, y \in Int : u = f[x] /\ v = g[x] /\ y = ys[i]
    BY <1>2, <1>5, OrderNat
  <2>3. Same(u, y) /\ Same(y, v)
    BY <1>2, <1>3, <1>4, <2>1, <2>2 DEF Values
  <2>4. Same(u, v) /\ Same(v, v)
    BY <2>3, SameTransitive, SameReflexive
  <2>5. Same(u - v, v - v) /\ v - v = 0
    BY <2>4, SameSum
  <2>6. QED
    BY <1>8, <2>1, <2>2, <2>5
<1>11. Same(h[0], 0)
  <2>1. PICK x \in Int : x = 0
    OBVIOUS
  <2>2. Same(h[x], 0)
    BY <1>2, <1>9, <1>10, PolyVanishes
  <2>3. QED
    BY <2>1, <2>2
<1>12. PICK u \in Int, v \in Int : u = f[0] /\ v = g[0]
  BY <1>5
<1>13. Same(u, v)
  <2>1. Same(u - v, 0)
    BY <1>8, <1>11, <1>12
  <2>2. Same((u - v) + v, 0 + v) /\ (u - v) + v = u /\ 0 + v = v
    BY <2>1, SameReflexive, SameSum
  <2>3. QED
    BY <2>2
<1>14. PICK a \in Scalar : a = LagrangeSums(xs, ys)[m]
  <2>1. m \in 0 .. m
    OBVIOUS
  <2>2. LagrangeSums(xs, ys)[m] \in Scalar
    BY <1>2, <2>1, LagrangeSumsAre
  <2>3. QED
    BY <2>2
<1>15. PICK b \in Scalar : b = c[1]
  OBVIOUS
<1>16. a \in Int /\ b \in Int
  BY OrderNat
<1>17. Same(u, a)
  BY <1>3, <1>12, <1>14
<1>18. Same(b, v)
  <2>1. b = PolyEvaluate(c, 0)
    BY <1>15, EvaluateAtZero
  <2>2. QED
    BY <1>4, <1>12, <2>1 DEF Values
<1>19. Same(v, b) /\ Same(a, u)
  BY <1>16, <1>17, <1>18, SameSymmetric
<1>20. Same(a, v)
  BY <1>13, <1>16, <1>19, SameTransitive
<1>21. Same(a, b)
  BY <1>16, <1>19, <1>20, SameTransitive
<1>22. QED
  BY <1>1, <1>14, <1>15, <1>21, SameScalars
-----------------------------------------------------------------------------
(* Fewer shares *)

LEMMA PolyPaddedTo ==
  ASSUME NEW n \in Nat, NEW m \in Nat, n <= m
  PROVE  Polys[n] \subseteq Polys[m]
<1> DEFINE S == {k \in Nat : n <= k => Polys[n] \subseteq Polys[k]}
<1>1. 0 \in S
  OBVIOUS
<1>2. ASSUME NEW k \in Nat, k \in S PROVE k + 1 \in S
  <2> SUFFICES ASSUME n <= k + 1 PROVE Polys[n] \subseteq Polys[k + 1]
    OBVIOUS
  <2>1. CASE n = k + 1
    BY <2>1
  <2>2. CASE n # k + 1
    <3>1. Polys[n] \subseteq Polys[k]
      BY <1>2, <2>2
    <3>2. Polys[k] \subseteq Polys[k + 1]
      BY PolyPadded
    <3>3. QED
      BY <3>1, <3>2
  <2>3. QED
    BY <2>1, <2>2
<1> HIDE DEF S
<1>3. m \in S
  BY <1>1, <1>2, Induction
<1>4. QED
  BY <1>3 DEF S

\* The product of x - id for given identifiers, which is not zero at zero.
LEMMA VanishingPoly ==
  ASSUME SharingAssumption, NEW m \in Nat, NEW ids \in [1 .. m -> Scalar \ {0}]
  PROVE  \E f \in Polys[m + 1] : ~Same(f[0], 0) /\ \A i \in 1 .. m : Same(f[ids[i]], 0)
<1> DEFINE Is(k, f) == ~Same(f[0], 0) /\ \A i \in 1 .. k : Same(f[ids[i]], 0)
           S == {k \in Nat : k <= m => \E f \in Polys[k + 1] : Is(k, f)}
<1>1. 0 \in S
  <2>1. PICK z \in Nat : z = 0
    OBVIOUS
  <2>2. PICK c \in Int : c = 1
    OBVIOUS
  <2> DEFINE one == [x \in Int |-> c + x * NoCoefficients[x]]
  <2>3. one \in [Int -> Int] /\ \A x \in Int : one[x] = 1
    BY <2>2 DEF NoCoefficients
  <2>4. \A x \in Int : one[x] = c + x * NoCoefficients[x]
    OBVIOUS
  <2> HIDE DEF one
  <2>5. one \in Polys[z + 1]
    BY <2>3, <2>4, ZeroPoly, PolyJoin
  <2>6. ~ Same(1, 0)
    <3>1. 1 \in Scalar /\ 0 \in Scalar /\ 1 # 0
      BY OrderNat
    <3>2. QED
      BY <3>1, SameScalars
  <2>7. Is(0, one)
    BY <2>3, <2>6
  <2>8. QED
    BY <2>1, <2>5, <2>7
<1>2. ASSUME NEW k \in Nat, k \in S PROVE k + 1 \in S
  <2> SUFFICES ASSUME k + 1 <= m PROVE \E f \in Polys[(k + 1) + 1] : Is(k + 1, f)
    OBVIOUS
  <2>1. PICK f \in Polys[k + 1] : Is(k, f)
    BY <1>2
  <2>2. PICK a \in Scalar \ {0} : a = ids[k + 1]
    OBVIOUS
  <2>3. a \in Int /\ k + 1 \in Nat
    BY OrderNat
  <2> DEFINE g == [x \in Int |-> f[x] * (x - a)]
  <2>4. g \in Polys[(k + 1) + 1]
    BY <2>3, PolyTimes
  <2>5. \A x \in Int : g[x] = f[x] * (x - a)
    OBVIOUS
  <2> HIDE DEF g
  <2>6. \A x \in Int : f[x] \in Int
    BY <2>3, PolyInt
  <2>7. ~ Same(g[0], 0)
    <3>1. SUFFICES ASSUME Same(g[0], 0) PROVE FALSE
      OBVIOUS
    <3>2. PICK u \in Int, d \in Int : u = f[0] /\ d = 0 - a
      BY <2>3, <2>6
    <3>3. g[0] = u * d
      BY <2>5, <3>2
    <3>4. ~ Same(u, 0)
      BY <2>1, <3>2
    <3>5. Same(d, 0)
      BY <3>1, <3>3, <3>4, NoZeroDivisors
    <3>6. Same(d + a, 0 + a) /\ d + a = 0 /\ 0 + a = a
      BY <2>3, <3>2, <3>5, SameReflexive, SameSum
    <3>7. 0 \in Scalar /\ a \in Scalar /\ Same(0, a)
      BY <3>6, OrderNat
    <3>8. 0 = a
      BY <3>7, SameScalars
    <3>9. QED
      BY <3>8
  <2>8. ASSUME NEW i \in 1 .. k + 1 PROVE Same(g[ids[i]], 0)
    <3>1. PICK x \in Int : x = ids[i]
      BY OrderNat
    <3>2. PICK u \in Int, d \in Int : u = f[x] /\ d = x - a
      BY <2>3, <2>6
    <3>3. g[x] = u * d
      BY <2>5, <3>2
    <3>4. CASE i = k + 1
      <4>1. d = 0
        BY <2>2, <2>3, <3>1, <3>2, <3>4
      <4>2. u * d = 0
        BY <4>1
      <4>3. Same(0, 0)
        BY SameReflexive
      <4>4. QED
        BY <3>1, <3>3, <4>2, <4>3
    <3>5. CASE i # k + 1
      <4>1. Same(u, 0)
        BY <2>1, <3>1, <3>2, <3>5
      <4>2. PICK z \in Int : z = 0
        OBVIOUS
      <4>3. Same(u * d, z * d)
        BY <4>1, <4>2, SameReflexive, SameProduct
      <4>4. z * d = 0
        BY <4>2
      <4>5. QED
        BY <3>1, <3>3, <4>3, <4>4
    <3>6. QED
      BY <3>4, <3>5
  <2>9. QED
    BY <2>4, <2>7, <2>8
<1> HIDE DEF S
<1>3. m \in S
  BY <1>1, <1>2, Induction
<1>4. QED
  BY <1>3 DEF S

\* Coefficients that change the secret by e and no value at the identifiers.
Shifts(d, t, m, ids, e) ==
  /\ d \in [1 .. t + 1 -> Scalar] /\ Same(d[1], e)
  /\ \A i \in 1 .. m : PolyEvaluate(d, ids[i]) = 0

LEMMA Shift ==
  ASSUME SharingAssumption, NEW t \in Nat, NEW m \in 0 .. t,
         NEW ids \in [1 .. m -> Scalar \ {0}], NEW e \in Int
  PROVE  \E d : Shifts(d, t, m, ids, e)
<1>1. PICK f \in Polys[m + 1] : ~Same(f[0], 0) /\ \A i \in 1 .. m : Same(f[ids[i]], 0)
  BY VanishingPoly
<1>2. PICK n \in Nat : n = t + 1 /\ m + 1 <= n /\ m + 1 \in Nat
  OBVIOUS
<1>3. f \in Polys[n]
  BY <1>2, PolyPaddedTo
<1>4. \A x \in Int : f[x] \in Int
  BY <1>3, PolyInt
<1>5. PICK u \in Int : u = f[0]
  BY <1>4
<1>6. PICK w \in Scalar : w \in Int /\ w = u % SharingOrder /\ Same(u, w)
  BY SameAsResidue
<1>7. w # 0
  BY <1>1, <1>5, <1>6
<1>8. PICK v \in Scalar : Same(w * v, 1)
  BY <1>7, ScalarInverse
<1>9. v \in Int
  BY OrderNat
<1>10. PICK s \in Int : s = e * v
  BY <1>9
<1> DEFINE g == [x \in Int |-> NoCoefficients[x] + s * f[x]]
<1>11. g \in [Int -> Int] /\ \A x \in Int : g[x] = NoCoefficients[x] + s * f[x]
  BY <1>4 DEF NoCoefficients
<1>12. \A x \in Int : g[x] = s * f[x]
  <2>1. \A x \in Int : s * f[x] \in Int
    BY <1>4
  <2>2. QED
    BY <1>11, <2>1 DEF NoCoefficients
<1> HIDE DEF g
<1>13. g \in Polys[n]
  <2>1. Combines(g, NoCoefficients, s, f)
    BY <1>11 DEF Combines
  <2>2. QED
    BY <1>3, <1>11, <2>1, ZeroPoly, PolyLinear
<1>14. PICK d \in [1 .. n -> Scalar] : Values(d, g)
  BY <1>13, CoefficientsOf
<1>15. Same(d[1], e)
  <2>1. PolyEvaluate(d, 0) = d[1]
    BY <1>2, <1>14, EvaluateAtZero
  <2>2. PICK y \in Int : y = d[1]
    <3>1. 1 \in 1 .. n
      BY <1>2
    <3>2. QED
      BY <3>1, OrderNat
  <2>3. Same(y, g[0])
    BY <1>14, <2>1, <2>2 DEF Values
  <2>4. g[0] = s * u
    BY <1>5, <1>12
  <2>5. Same(s * u, s * w)
    BY <1>6, SameReflexive, SameProduct
  <2>6. Same(e * (w * v), e * 1)
    BY <1>6, <1>8, <1>9, SameReflexive, SameProduct
  <2>7. e * (w * v) = s * w /\ e * 1 = e
    BY <1>6, <1>9, <1>10
  <2>8. PICK x1 \in Int, x2 \in Int : x1 = s * u /\ x2 = s * w
    BY <1>6
  <2>9. Same(y, x1) /\ Same(x1, x2) /\ Same(x2, e)
    BY <2>3, <2>4, <2>5, <2>6, <2>7, <2>8
  <2>10. Same(y, x2)
    BY <2>9, SameTransitive
  <2>11. Same(y, e)
    BY <2>9, <2>10, SameTransitive
  <2>12. QED
    BY <2>2, <2>11
<1>16. ASSUME NEW i \in 1 .. m PROVE PolyEvaluate(d, ids[i]) = 0
  <2>1. PICK x \in Int : x = ids[i]
    BY OrderNat
  <2>2. PICK y \in Scalar : y \in Int /\ y = PolyEvaluate(d, x)
    BY EvaluateScalar
  <2>3. PICK r \in Int, z \in Int : r = f[x] /\ z = 0
    BY <1>4
  <2>4. Same(r, z)
    BY <1>1, <2>1, <2>3
  <2>5. Same(s * r, s * z)
    BY <2>4, SameReflexive, SameProduct
  <2>6. PICK k \in Int : k = s * r
    OBVIOUS
  <2>7. Same(y, k)
    BY <1>12, <1>14, <2>2, <2>3, <2>6 DEF Values
  <2>8. Same(k, z)
    <3>1. s * z = z
      BY <2>3
    <3>2. QED
      BY <2>5, <2>6, <3>1
  <2>9. Same(y, z)
    BY <2>2, <2>7, <2>8, SameTransitive
  <2>10. z \in Scalar
    BY <2>3, OrderNat
  <2>11. y = z
    BY <2>9, <2>10, SameScalars
  <2>12. QED
    BY <2>1, <2>2, <2>3, <2>11
<1>17. d \in [1 .. t + 1 -> Scalar]
  BY <1>2
<1>18. Shifts(d, t, m, ids, e)
  BY <1>15, <1>16, <1>17 DEF Shifts
<1>19. QED
  BY <1>18

\* Values of a sum.
LEMMA SumValues ==
  ASSUME SharingAssumption, NEW n \in Nat, NEW c \in [1 .. n -> Scalar],
         NEW d \in [1 .. n -> Scalar], NEW e \in [1 .. n -> Scalar],
         \A i \in 1 .. n : Same(e[i], c[i] + d[i]), NEW x \in Int
  PROVE  Same(PolyEvaluate(e, x), PolyEvaluate(c, x) + PolyEvaluate(d, x))
<1> DEFINE Sums(k, u, v, w) == \A i \in 1 .. k : Same(w[i], u[i] + v[i])
           Is(u, v, w) == Same(PolyEvaluate(w, x), PolyEvaluate(u, x) + PolyEvaluate(v, x))
           All(k) == \A u, v, w \in [1 .. k -> Scalar] : Sums(k, u, v, w) => Is(u, v, w)
           S == {k \in Nat : All(k)}
<1>1. 0 \in S
  <2>1. ASSUME NEW u \in [1 .. 0 -> Scalar], NEW v \in [1 .. 0 -> Scalar],
               NEW w \in [1 .. 0 -> Scalar]
        PROVE  Is(u, v, w)
    <3>1. PolyEvaluate(u, x) = 0 /\ PolyEvaluate(v, x) = 0 /\ PolyEvaluate(w, x) = 0
      BY EvaluateEmpty
    <3>2. Same(0, 0) /\ 0 + 0 = 0
      BY SameReflexive
    <3>3. QED
      BY <3>1, <3>2
  <2> HIDE DEF Is, Sums
  <2>2. QED
    BY <2>1
<1>2. ASSUME NEW k \in Nat, k \in S PROVE k + 1 \in S
  <2> HIDE DEF All, Is, Sums
  <2> SUFFICES All(k + 1)
    OBVIOUS
  <2> USE DEF All
  <2> SUFFICES ASSUME NEW u \in [1 .. k + 1 -> Scalar], NEW v \in [1 .. k + 1 -> Scalar],
                      NEW w \in [1 .. k + 1 -> Scalar], Sums(k + 1, u, v, w)
               PROVE  Is(u, v, w)
    OBVIOUS
  <2> USE DEF Is, Sums
  <2> DEFINE Tail1(f) == [i \in 1 .. k |-> f[i + 1]]
  <2>1. \A f \in [1 .. k + 1 -> Scalar] :
          Tail1(f) \in [1 .. k -> Scalar] /\ \A i \in 1 .. k : f[i + 1] = Tail1(f)[i]
    OBVIOUS
  <2> HIDE DEF Tail1
  <2>2. ASSUME NEW f \in [1 .. k + 1 -> Scalar]
        PROVE  /\ PolyEvaluate(Tail1(f), x) \in Int /\ f[1] \in Int /\ PolyEvaluate(f, x) \in Int
               /\ Same(PolyEvaluate(f, x), PolyEvaluate(Tail1(f), x) * x + f[1])
    <3>1. 1 \in 1 .. k + 1 /\ k + 1 \in Nat
      OBVIOUS
    <3>2. PolyEvaluate(f, x) \in Int
      BY <3>1, EvaluateScalar
    <3>3. Tail1(f) \in [1 .. k -> Scalar] /\ \A i \in 1 .. k : f[i + 1] = Tail1(f)[i]
      BY <2>1
    <3>4. PICK y \in Int : y = PolyEvaluate(Tail1(f), x)
      BY <3>3, EvaluateScalar
    <3>5. PICK b \in Int : b = f[1]
      BY <3>1, OrderNat
    <3>6. PolyEvaluate(f, x) = (PolyEvaluate(Tail1(f), x) * x + f[1]) % SharingOrder
      BY <3>3, EvaluateJoin
    <3>7. PICK z \in Int : z = y * x + b
      OBVIOUS
    <3>8. Same(z, z % SharingOrder) /\ z % SharingOrder \in Int
      BY SameAsResidue
    <3>9. Same(z % SharingOrder, z)
      BY <3>8, SameSymmetric
    <3>10. QED
      BY <3>2, <3>4, <3>5, <3>6, <3>7, <3>9
  <2>3. PICK u1 \in Int, v1 \in Int, w1 \in Int, u2 \in Int, v2 \in Int, w2 \in Int :
          /\ u1 = PolyEvaluate(Tail1(u), x) /\ v1 = PolyEvaluate(Tail1(v), x)
          /\ w1 = PolyEvaluate(Tail1(w), x) /\ u2 = u[1] /\ v2 = v[1] /\ w2 = w[1]
    BY <2>2
  <2>4. PICK u3 \in Int, v3 \in Int, w3 \in Int :
          u3 = PolyEvaluate(u, x) /\ v3 = PolyEvaluate(v, x) /\ w3 = PolyEvaluate(w, x)
    BY <2>2
  <2>5. Same(u3, u1 * x + u2) /\ Same(v3, v1 * x + v2) /\ Same(w3, w1 * x + w2)
    BY <2>2, <2>3, <2>4
  <2>6. Same(w1, u1 + v1)
    <3>1. Sums(k, Tail1(u), Tail1(v), Tail1(w))
      <4> SUFFICES ASSUME NEW i \in 1 .. k
                   PROVE  Same(Tail1(w)[i], Tail1(u)[i] + Tail1(v)[i])
        OBVIOUS
      <4>1. i + 1 \in 1 .. k + 1
        OBVIOUS
      <4>2. Same(w[i + 1], u[i + 1] + v[i + 1])
        BY <4>1
      <4>3. w[i + 1] = Tail1(w)[i] /\ u[i + 1] = Tail1(u)[i] /\ v[i + 1] = Tail1(v)[i]
        BY <2>1
      <4>4. QED
        BY <4>2, <4>3
    <3>2. Tail1(u) \in [1 .. k -> Scalar] /\ Tail1(v) \in [1 .. k -> Scalar]
            /\ Tail1(w) \in [1 .. k -> Scalar]
      BY <2>1
    <3> HIDE DEF Sums
    <3>3. Is(Tail1(u), Tail1(v), Tail1(w))
      BY <1>2, <3>1, <3>2
    <3>4. QED
      BY <2>3, <3>3
  <2>7. Same(w2, u2 + v2)
    <3>1. 1 \in 1 .. k + 1
      OBVIOUS
    <3>2. QED
      BY <2>3, <3>1
  <2>8. PICK s1 \in Int, s2 \in Int, s3 \in Int, s4 \in Int :
          s1 = u1 + v1 /\ s2 = u2 + v2 /\ s3 = w1 * x /\ s4 = s1 * x
    OBVIOUS
  <2>9. Same(s3, s4)
    BY <2>6, <2>8, SameReflexive, SameProduct
  <2>10. Same(s3 + w2, s4 + s2)
    BY <2>7, <2>8, <2>9, SameSum
  <2>11. PICK p1 \in Int, p2 \in Int, p3 \in Int : p1 = u1 * x + u2 /\ p2 = v1 * x + v2 /\ p3 = s3 + w2
    OBVIOUS
  <2>12. s4 + s2 = p1 + p2
    <3>1. (u1 + v1) * x = u1 * x + v1 * x
      OBVIOUS
    <3>2. QED
      BY <2>8, <2>11, <3>1
  <2>13. PICK p4 \in Int, p5 \in Int : p4 = p1 + p2 /\ p5 = u3 + v3
    OBVIOUS
  <2>14. Same(p3, p4)
    BY <2>10, <2>11, <2>12, <2>13
  <2>15. Same(w3, p3)
    BY <2>5, <2>8, <2>11
  <2>16. Same(p5, p4)
    BY <2>5, <2>11, <2>13, SameSum
  <2>17. Same(p4, p5) /\ Same(w3, p4)
    BY <2>14, <2>15, <2>16, SameSymmetric, SameTransitive
  <2>18. Same(w3, p5)
    BY <2>17, SameTransitive
  <2>19. QED
    BY <2>4, <2>13, <2>18
<1> HIDE DEF S
<1>3. n \in S
  BY <1>1, <1>2, Induction
<1>4. QED
  BY <1>3 DEF S

(* Functions from an interval to a finite set are finitely many. *)
LEMMA FunctionsFinite ==
  ASSUME NEW A, IsFiniteSet(A), NEW n \in Nat
  PROVE  IsFiniteSet([1 .. n -> A])
<1> DEFINE S == {k \in Nat : IsFiniteSet([1 .. k -> A])}
<1>1. 0 \in S
  <2>1. [1 .. 0 -> A] = {[i \in 1 .. 0 |-> 0]}
    <3>1. ASSUME NEW f \in [1 .. 0 -> A] PROVE f = [i \in 1 .. 0 |-> 0]
      OBVIOUS
    <3>2. [i \in 1 .. 0 |-> 0] \in [1 .. 0 -> A]
      OBVIOUS
    <3>3. QED
      BY <3>1, <3>2
  <2>2. QED
    BY <2>1, FS_Singleton
<1>2. ASSUME NEW k \in Nat, k \in S PROVE k + 1 \in S
  <2> DEFINE P == [1 .. k -> A] \X A
             Longs == [1 .. k + 1 -> A]
             Add(z) == [i \in 1 .. k + 1 |-> IF i = k + 1 THEN z[2] ELSE z[1][i]]
             F == [z \in P |-> Add(z)]
  <2>1. IsFiniteSet(P)
    BY <1>2, FS_Product
  <2>2. ASSUME NEW z \in P PROVE Add(z) \in Longs
    <3>1. PICK f \in [1 .. k -> A], a \in A : z = <<f, a>>
      OBVIOUS
    <3>2. ASSUME NEW i \in 1 .. k + 1 PROVE (IF i = k + 1 THEN z[2] ELSE z[1][i]) \in A
      <4>1. i # k + 1 => i \in 1 .. k
        OBVIOUS
      <4>2. QED
        BY <3>1, <4>1
    <3>3. QED
      BY <3>2
  <2>3. F \in [P -> Longs]
    BY <2>2
  <2>4. ASSUME NEW g \in Longs PROVE \E z \in P : F[z] = g
    <3> DEFINE f == [i \in 1 .. k |-> g[i]]
    <3>1. k + 1 \in 1 .. k + 1 /\ 1 .. k \subseteq 1 .. k + 1
      OBVIOUS
    <3>2. f \in [1 .. k -> A] /\ g[k + 1] \in A
      BY <3>1
    <3>3. PICK z \in P : z = <<f, g[k + 1]>>
      BY <3>2
    <3>4. ASSUME NEW i \in 1 .. k + 1 PROVE (IF i = k + 1 THEN z[2] ELSE z[1][i]) = g[i]
      <4>1. z[1] = f /\ z[2] = g[k + 1]
        BY <3>3
      <4>2. i # k + 1 => i \in 1 .. k
        OBVIOUS
      <4>3. i # k + 1 => f[i] = g[i]
        BY <4>2
      <4> HIDE DEF f
      <4>4. QED
        BY <4>1, <4>3
    <3>5. Add(z) = g
      BY <3>4
    <3>6. F[z] = g
      BY <3>5
    <3>7. QED
      BY <3>6
  <2> HIDE DEF P, Longs, F
  <2>5. F \in Surjection(P, Longs)
    BY <2>3, <2>4 DEF Surjection
  <2>6. IsFiniteSet(Longs)
    BY <2>1, <2>5, FS_Surjection
  <2>7. QED
    BY <2>6 DEF Longs
<1> HIDE DEF S
<1>3. n \in S
  BY <1>1, <1>2, Induction
<1>4. QED
  BY <1>3 DEF S

\* A secret and the other coefficients.
LEMMA JoinIs ==
  ASSUME NEW t \in Nat, NEW a \in Scalar, NEW c \in [1 .. t -> Scalar]
  PROVE  /\ <<a>> \o c \in [1 .. t + 1 -> Scalar]
         /\ (<<a>> \o c)[1] = a
         /\ \A i \in 1 .. t : (<<a>> \o c)[i + 1] = c[i]
<1>1. Len(c) = t /\ c \in Seq(Scalar)
  BY LenIs
<1>2. Len(<<a>> \o c) = t + 1 /\ <<a>> \o c \in Seq(Scalar)
  BY <1>1
<1>3. DOMAIN (<<a>> \o c) = 1 .. t + 1 /\ (<<a>> \o c)[1] = a
  BY <1>1, <1>2
<1>4. ASSUME NEW i \in 1 .. t PROVE (<<a>> \o c)[i + 1] = c[i]
  BY <1>1
<1>5. ASSUME NEW i \in 1 .. t + 1 PROVE (<<a>> \o c)[i] \in Scalar
  BY <1>2
<1>6. <<a>> \o c \in [1 .. t + 1 -> Scalar]
  <2> DEFINE e == [i \in 1 .. t + 1 |-> (<<a>> \o c)[i]]
  <2>1. e \in [1 .. t + 1 -> Scalar]
    BY <1>5
  <2>2. <<a>> \o c = e
    BY <1>2, <1>3
  <2>3. QED
    BY <2>1, <2>2
<1>7. QED
  BY <1>3, <1>4, <1>6

\* The polynomials of one secret that have given values at given identifiers.
Agreeing(t, m, ids, vs, secret) ==
  {c \in [1 .. t -> Scalar] : \A i \in 1 .. m : PolyEvaluate(<<secret>> \o c, ids[i]) = vs[i]}

\* They are moved to those of another secret.
LEMMA AgreeingMoves ==
  ASSUME SharingAssumption, NEW t \in Nat, NEW m \in 0 .. t,
         NEW ids \in [1 .. m -> Scalar \ {0}], NEW vs \in [1 .. m -> Scalar],
         NEW a \in Scalar, NEW b \in Scalar
  PROVE  \E F : F \in Injection(Agreeing(t, m, ids, vs, a), Agreeing(t, m, ids, vs, b))
<1>1. a \in Int /\ b \in Int
  BY OrderNat
<1>2. PICK e0 \in Int : e0 = b - a
  BY <1>1
<1>3. PICK d : Shifts(d, t, m, ids, e0)
  BY <1>2, Shift
<1>4. /\ d \in [1 .. t + 1 -> Scalar] /\ Same(d[1], e0)
      /\ \A i \in 1 .. m : PolyEvaluate(d, ids[i]) = 0
  BY <1>3 DEF Shifts
<1> DEFINE Move(c) == [i \in 1 .. t |-> (c[i] + d[i + 1]) % SharingOrder]
           F == [c \in Agreeing(t, m, ids, vs, a) |-> Move(c)]
<1>5. \A c : c \in Agreeing(t, m, ids, vs, a) <=> /\ c \in [1 .. t -> Scalar]
                                     /\ \A i \in 1 .. m : PolyEvaluate(<<a>> \o c, ids[i]) = vs[i]
  BY DEF Agreeing
<1>6. \A c : c \in Agreeing(t, m, ids, vs, b) <=> /\ c \in [1 .. t -> Scalar]
                                     /\ \A i \in 1 .. m : PolyEvaluate(<<b>> \o c, ids[i]) = vs[i]
  BY DEF Agreeing
<1>7. \A i \in 1 .. t + 1 : d[i] \in Int /\ d[i] \in Scalar
  BY <1>4, OrderNat
<1>8. ASSUME NEW c \in [1 .. t -> Scalar]
      PROVE  /\ Move(c) \in [1 .. t -> Scalar]
             /\ \A i \in 1 .. t : /\ c[i] \in Int /\ Move(c)[i] \in Int
                                  /\ Same(Move(c)[i], c[i] + d[i + 1])
  <2>1. ASSUME NEW i \in 1 .. t
        PROVE  /\ (c[i] + d[i + 1]) % SharingOrder \in Scalar
               /\ c[i] \in Int /\ (c[i] + d[i + 1]) % SharingOrder \in Int
               /\ Same((c[i] + d[i + 1]) % SharingOrder, c[i] + d[i + 1])
    <3>1. i + 1 \in 1 .. t + 1
      OBVIOUS
    <3>2. PICK x \in Int, y \in Int : x = c[i] /\ y = d[i + 1]
      BY <1>7, <3>1, OrderNat
    <3>3. PICK z \in Int : z = x + y
      OBVIOUS
    <3>4. z % SharingOrder \in Scalar /\ z % SharingOrder \in Int /\ Same(z, z % SharingOrder)
      BY SameAsResidue
    <3>5. Same(z % SharingOrder, z)
      BY <3>4, SameSymmetric
    <3>6. QED
      BY <3>2, <3>3, <3>4, <3>5
  <2>2. QED
    BY <2>1
<1> HIDE DEF Move
<1>9. ASSUME NEW c \in Agreeing(t, m, ids, vs, a) PROVE Move(c) \in Agreeing(t, m, ids, vs, b)
  <2>1. c \in [1 .. t -> Scalar]
    BY <1>5
  <2>2. PICK e \in [1 .. t -> Scalar] : e = Move(c)
    BY <1>8, <2>1
  <2> DEFINE p == <<a>> \o c
             q == <<b>> \o e
  <2>3. /\ p \in [1 .. t + 1 -> Scalar] /\ p[1] = a /\ \A i \in 1 .. t : p[i + 1] = c[i]
        /\ q \in [1 .. t + 1 -> Scalar] /\ q[1] = b /\ \A i \in 1 .. t : q[i + 1] = e[i]
    BY <2>1, JoinIs
  <2>4. \A i \in 1 .. m : PolyEvaluate(p, ids[i]) = vs[i]
    BY <1>5
  <2> HIDE DEF p, q
  <2>5. ASSUME NEW i \in 1 .. t + 1 PROVE Same(q[i], p[i] + d[i])
    <3>1. CASE i = 1
      <4>1. PICK x \in Int, y \in Int, z \in Int : x = a /\ y = b /\ z = d[1]
        BY <1>7, <3>1, OrderNat
      <4>2. Same(z, y - x)
        BY <1>4, <1>2, <4>1
      <4>3. Same(x + z, x + (y - x)) /\ x + (y - x) = y /\ x + z \in Int
        BY <4>2, SameReflexive, SameSum
      <4>4. Same(y, x + z)
        BY <4>3, SameSymmetric
      <4>5. QED
        BY <2>3, <3>1, <4>1, <4>4
    <3>2. CASE i # 1
      <4>1. PICK j \in 1 .. t : j + 1 = i
        BY <3>2
      <4>2. Same(e[j], c[j] + d[j + 1])
        BY <1>8, <2>1, <2>2
      <4>3. q[j + 1] = e[j] /\ p[j + 1] = c[j]
        BY <2>3
      <4>4. QED
        BY <4>1, <4>2, <4>3
    <3>3. QED
      BY <3>1, <3>2
  <2>6. ASSUME NEW i \in 1 .. m PROVE PolyEvaluate(q, ids[i]) = vs[i]
    <3>1. PICK x \in Int : x = ids[i]
      BY OrderNat
    <3>2. t + 1 \in Nat
      OBVIOUS
    <3>3. Same(PolyEvaluate(q, x), PolyEvaluate(p, x) + PolyEvaluate(d, x))
      BY <1>4, <2>3, <2>5, <3>2, SumValues
    <3>4. PICK u \in Scalar, v \in Scalar : u = PolyEvaluate(q, x) /\ v = PolyEvaluate(p, x)
      BY <2>3, <3>2, EvaluateScalar
    <3>5. PolyEvaluate(d, x) = 0
      BY <1>4, <3>1
    <3>6. v \in Int /\ v + 0 = v
      BY OrderNat
    <3>7. Same(u, v)
      BY <3>3, <3>4, <3>5, <3>6
    <3>8. u = v
      BY <3>7, SameScalars
    <3>9. QED
      BY <2>4, <3>1, <3>4, <3>8
  <2>7. QED
    BY <1>6, <2>2, <2>6 DEF q
<1>10. ASSUME NEW c \in Agreeing(t, m, ids, vs, a), NEW e \in Agreeing(t, m, ids, vs, a), Move(c) = Move(e) PROVE c = e
  <2>1. c \in [1 .. t -> Scalar] /\ e \in [1 .. t -> Scalar]
    BY <1>5
  <2>2. ASSUME NEW i \in 1 .. t PROVE c[i] = e[i]
    <3>1. i + 1 \in 1 .. t + 1
      OBVIOUS
    <3>2. PICK x \in Int, y \in Int, z \in Int, w \in Int :
            x = c[i] /\ y = e[i] /\ z = d[i + 1] /\ w = Move(c)[i]
      BY <1>7, <1>8, <2>1, <3>1
    <3>3. Same(w, x + z) /\ Same(w, y + z)
      BY <1>8, <1>10, <2>1, <3>2
    <3>4. PICK r \in Int, s \in Int : r = x + z /\ s = y + z
      OBVIOUS
    <3>5. Same(r, w)
      BY <3>3, <3>4, SameSymmetric
    <3>6. Same(r, s)
      BY <3>3, <3>4, <3>5, SameTransitive
    <3>7. Same(r - z, s - z)
      BY <3>6, SameReflexive, SameSum
    <3>8. r - z = x /\ s - z = y
      BY <3>4
    <3>9. Same(x, y)
      BY <3>7, <3>8
    <3>10. x \in Scalar /\ y \in Scalar
      BY <2>1, <3>2
    <3>11. QED
      BY <3>2, <3>9, <3>10, SameScalars
  <2>3. QED
    BY <2>1, <2>2
<1>11. F \in Injection(Agreeing(t, m, ids, vs, a), Agreeing(t, m, ids, vs, b))
  <2>1. F \in [Agreeing(t, m, ids, vs, a) -> Agreeing(t, m, ids, vs, b)]
    BY <1>9
  <2>2. ASSUME NEW c \in Agreeing(t, m, ids, vs, a), NEW e \in Agreeing(t, m, ids, vs, a), F[c] = F[e] PROVE c = e
    BY <1>10, <2>2
  <2> HIDE DEF F
  <2>3. IsInjective(F)
    BY <2>1, <2>2 DEF IsInjective
  <2>4. QED
    BY <2>1, <2>3 DEF Injection
<1>12. QED
  BY <1>11

\* So there are as many for the one as for the other.
LEMMA AgreeingAlike ==
  ASSUME SharingAssumption, NEW t \in Nat, NEW m \in 0 .. t,
         NEW ids \in [1 .. m -> Scalar \ {0}], NEW vs \in [1 .. m -> Scalar],
         NEW a \in Scalar, NEW b \in Scalar
  PROVE  Cardinality(Agreeing(t, m, ids, vs, a)) = Cardinality(Agreeing(t, m, ids, vs, b))
<1> DEFINE A == Agreeing(t, m, ids, vs, a)
           B == Agreeing(t, m, ids, vs, b)
<1>1. IsFiniteSet([1 .. t -> Scalar])
  <2>1. IsFiniteSet(Scalar)
    <3>1. 0 \in Int /\ SharingOrder - 1 \in Int
      BY OrderNat
    <3>2. QED
      BY <3>1, FS_Interval DEF Scalar
  <2>2. QED
    BY <2>1, FunctionsFinite
<1>2. A \subseteq [1 .. t -> Scalar] /\ B \subseteq [1 .. t -> Scalar]
  BY DEF Agreeing
<1>3. (\E F : F \in Injection(A, B)) /\ (\E F : F \in Injection(B, A))
  BY AgreeingMoves
<1> HIDE DEF A, B
<1>4. IsFiniteSet(A) /\ IsFiniteSet(B)
  BY <1>1, <1>2, FS_Subset
<1>5. PICK F : F \in Injection(A, B)
  BY <1>3
<1>6. PICK After : After \in Injection(B, A)
  BY <1>3
<1>7. Cardinality(A) <= Cardinality(B)
  BY <1>4, <1>5, FS_Injection
<1>8. Cardinality(B) <= Cardinality(A)
  BY <1>4, <1>6, FS_Injection
<1>9. Cardinality(A) \in Nat /\ Cardinality(B) \in Nat
  BY <1>4, FS_CardinalityType
<1>10. Cardinality(A) = Cardinality(B)
  BY <1>7, <1>8, <1>9
<1>11. QED
  BY <1>10 DEF A, B
-----------------------------------------------------------------------------
(* Commitments *)

LEMMA DegreeIs ==
  ASSUME NEW n \in Nat, NEW c, Len(c) = n + 1
  PROVE  /\ Degree(c) \in 0 .. n
         /\ Degree(c) > 0 => c[Degree(c) + 1] # 0
         /\ \A j \in Degree(c) + 1 .. n : c[j + 1] = 0
<1> DEFINE T == {i \in Nat : i <= n /\ \A j \in i + 1 .. n : c[j + 1] = 0}
           Is(i) == (i > 0 => c[i + 1] # 0) /\ \A j \in i + 1 .. n : c[j + 1] = 0
<1>1. n \in T
  OBVIOUS
<1>2. PICK d \in T : \A i \in T : d <= i
  <2>1. T \subseteq Nat /\ T # {}
    BY <1>1
  <2> HIDE DEF T
  <2>2. QED
    BY <2>1, LeastNat
<1>3. d \in 0 .. n
  OBVIOUS
<1>4. ASSUME d > 0 PROVE c[d + 1] # 0
  <2> SUFFICES ASSUME c[d + 1] = 0 PROVE FALSE
    OBVIOUS
  <2>1. PICK k \in Nat : k + 1 = d /\ k <= n /\ ~(d <= k)
    <3>1. d - 1 \in Nat /\ (d - 1) + 1 = d /\ d - 1 <= n /\ ~(d <= d - 1)
      BY <1>3, <1>4
    <3>2. QED
      BY <3>1
  <2>2. \A j \in k + 1 .. n : j = d \/ j \in d + 1 .. n
    BY <2>1
  <2>3. k \in T
    BY <2>1, <2>2
  <2>4. QED
    BY <1>2, <2>1, <2>3
<1>5. Is(d)
  BY <1>3, <1>4
<1>6. Degree(c) = CHOOSE i \in 0 .. n : Is(i)
  <2>1. Len(c) - 1 = n
    OBVIOUS
  <2>2. QED
    BY <2>1 DEF Degree
<1>7. Degree(c) \in 0 .. n /\ Is(Degree(c))
  <2> HIDE DEF Is
  <2>1. QED
    BY <1>3, <1>5, <1>6
<1>8. QED
  BY <1>7

\* A commitment has a value for every coefficient unless the last one is zero.
LEMMA CommitIs ==
  ASSUME NEW n \in Nat, NEW c \in [1 .. n + 1 -> Scalar]
  PROVE  /\ n = 0 \/ c[n + 1] # 0 => CommitSecret(c) = c
         /\ ~(n = 0 \/ c[n + 1] # 0) => Len(CommitSecret(c)) # n + 1
<1>1. Len(c) = n + 1 /\ c \in Seq(Scalar)
  <2>1. n + 1 \in Nat
    OBVIOUS
  <2>2. QED
    BY <2>1, LenIs
<1>2. PICK d \in 0 .. n : /\ d = Degree(c) /\ (d > 0 => c[d + 1] # 0)
                          /\ \A j \in d + 1 .. n : c[j + 1] = 0
  BY <1>1, DegreeIs
<1>3. CommitSecret(c) = SubSeq(c, 1, d + 1)
  BY <1>2 DEF CommitSecret
<1>4. ASSUME n = 0 \/ c[n + 1] # 0 PROVE CommitSecret(c) = c
  <2>1. d = n
    <3>1. d # n => n \in d + 1 .. n /\ n # 0
      OBVIOUS
    <3>2. QED
      BY <1>2, <1>4, <3>1
  <2>2. SubSeq(c, 1, Len(c)) = c
    BY <1>1
  <2>3. QED
    BY <1>1, <1>3, <2>1, <2>2
<1>5. ASSUME n # 0, c[n + 1] = 0 PROVE Len(CommitSecret(c)) # n + 1
  <2>1. d # n
    BY <1>2, <1>5
  <2>2. d + 1 \in 1 .. n
    BY <2>1
  <2>3. Len(SubSeq(c, 1, d + 1)) = d + 1
    BY <1>1, <2>2
  <2>4. QED
    BY <1>3, <2>2, <2>3
<1>6. QED
  BY <1>4, <1>5

\* Of n values some are equal when there are fewer than n different ones.
LEMMA FewerValues ==
  ASSUME NEW n \in Nat, NEW xs, DOMAIN xs = 1 .. n + 1, xs = [i \in 1 .. n + 1 |-> xs[i]]
  PROVE  Cardinality({xs[i] : i \in 1 .. n + 1}) <= n <=> ~IsInjective(xs)
<1> DEFINE S == 1 .. n + 1
           T == {xs[i] : i \in S}
<1>1. IsFiniteSet(S) /\ Cardinality(S) = n + 1
  <2>1. 1 \in Int /\ n + 1 \in Int /\ ~(1 > n + 1) /\ (n + 1) - 1 + 1 = n + 1
    OBVIOUS
  <2>2. QED
    BY <2>1, FS_Interval
<1>2. xs \in Surjection(S, T)
  <2>1. xs \in [S -> T]
    OBVIOUS
  <2>2. QED
    BY <2>1 DEF Surjection
<1>3. xs \in [S -> T]
  OBVIOUS
<1> HIDE DEF S, T
<1>4. /\ IsFiniteSet(T) /\ Cardinality(T) <= Cardinality(S)
      /\ Cardinality(T) = Cardinality(S) <=> xs \in Injection(S, T)
  BY <1>1, <1>2, FS_Surjection
<1>5. xs \in Injection(S, T) <=> IsInjective(xs)
  BY <1>3 DEF Injection
<1>6. Cardinality(T) \in Nat
  BY <1>4, FS_CardinalityType
<1>7. Cardinality(T) <= n <=> Cardinality(T) # Cardinality(S)
  BY <1>1, <1>4, <1>6
<1>8. QED
  BY <1>4, <1>5, <1>7 DEF S, T
-----------------------------------------------------------------------------
(* The invariant: before New there is nothing; after it the commitment is to  *)
(* the polynomial, and what was collected are points of the polynomial, none *)
(* at zero.                                                                   *)

VerifiedShare == [ID : Scalar \ {0}, Value : Scalar]

Sharing(t, m) ==
  /\ poly \in [1 .. t + 1 -> Scalar] /\ commitment = CommitSecret(poly)
  /\ collected \in [1 .. m -> VerifiedShare]
  /\ \A i \in 1 .. m : collected[i].Value = PolyEvaluate(poly, collected[i].ID)

SharingInv == SharingInit \/ \E t \in 0 .. MaxT, m \in 0 .. MaxShares : Sharing(t, m)

LEMMA SharingLengths ==
  ASSUME NEW t \in Nat, NEW m \in Nat, Sharing(t, m)
  PROVE  /\ Len(poly) = t + 1 /\ threshold = t /\ poly # <<>>
         /\ Len(collected) = m /\ collected \in Seq(VerifiedShare)
<1>1. Len(poly) = t + 1
  <2>1. t + 1 \in Nat
    OBVIOUS
  <2>2. QED
    BY <2>1, LenIs DEF Sharing
<1>2. Len(collected) = m /\ collected \in Seq(VerifiedShare)
  BY LenIs DEF Sharing
<1>3. threshold = t
  BY <1>1 DEF threshold
<1>4. Len(<<>>) = 0
  OBVIOUS
<1>5. QED
  BY <1>1, <1>2, <1>3, <1>4

\* A share that verifies is a point of the polynomial.
LEMMA VerifiedIs ==
  ASSUME SharingAssumption, NEW t \in Nat, NEW m \in Nat, Sharing(t, m),
         NEW id \in 1 .. Players, NEW s \in Arriving(id), VerifyShare(t, s, commitment)
  PROVE  s \in VerifiedShare /\ s.Value = PolyEvaluate(poly, s.ID)
<1>1. poly \in [1 .. t + 1 -> Scalar] /\ t + 1 \in Nat
  BY DEF Sharing
<1>2. commitment = poly
  <2>1. Len(commitment) = t + 1 /\ commitment = CommitSecret(poly)
    BY DEF VerifyShare, Sharing
  <2>2. QED
    BY <1>1, <2>1, CommitIs
<1>3. s.ID # 0 /\ s.Value = PolyEvaluate(poly, s.ID)
  BY <1>2 DEF VerifyShare
<1>4. id \in Scalar /\ id \in Int
  BY DEF SharingAssumption, Scalar
<1>5. PICK y \in Scalar : y \in Int /\ y = PolyEvaluate(poly, id)
  BY <1>1, <1>4, EvaluateScalar
<1> DEFINE own == [ID |-> id, Value |-> y]
<1>6. own = ShareWithID(poly, id)
  BY <1>5 DEF ShareWithID
<1>7. /\ (id + 1) % SharingOrder \in Scalar /\ (y + 1) % SharingOrder \in Scalar
      /\ (own.ID + 1) % SharingOrder = (id + 1) % SharingOrder
      /\ (own.Value + 1) % SharingOrder = (y + 1) % SharingOrder
  BY <1>4, <1>5, SameAsResidue
<1>8. s \in {own, [own EXCEPT !.Value = (y + 1) % SharingOrder],
                  [own EXCEPT !.ID = (id + 1) % SharingOrder]}
  BY <1>6, <1>7 DEF Arriving
<1>9. s \in [ID : Scalar, Value : Scalar]
  BY <1>4, <1>5, <1>7, <1>8
<1>10. QED
  BY <1>3, <1>9 DEF VerifiedShare

LEMMA SharingInvInit == SharingInit => SharingInv
BY DEF SharingInv

LEMMA SharingInvNew == ASSUME SharingAssumption, SharingInv, NewSharing PROVE SharingInv'
<1>1. MaxT \in Nat /\ MaxShares \in Nat
  BY DEF SharingAssumption
<1>2. SharingInit
  <2>1. ASSUME NEW t \in 0 .. MaxT, NEW m \in 0 .. MaxShares, Sharing(t, m) PROVE poly # <<>>
    BY <2>1, SharingLengths
  <2>2. QED
    BY <2>1 DEF SharingInv, NewSharing
<1>3. PICK t \in 0 .. MaxT : \E c \in [1 .. t + 1 -> Scalar] :
        poly' = c /\ commitment' = CommitSecret(c)
  BY DEF NewSharing
<1>4. poly' \in [1 .. t + 1 -> Scalar] /\ commitment' = CommitSecret(poly')
  BY <1>3
<1>5. PICK m \in 0 .. MaxShares : m = 0
  BY <1>1
<1>6. collected' = <<>> /\ <<>> \in [1 .. m -> VerifiedShare]
  BY <1>2, <1>5 DEF SharingInit, NewSharing
<1>7. \A i \in 1 .. m : FALSE
  BY <1>5
<1>8. Sharing(t, m)'
  BY <1>4, <1>6, <1>7 DEF Sharing, VerifiedShare, Scalar
<1>9. QED
  BY <1>8 DEF SharingInv

LEMMA SharingInvCollect == ASSUME SharingAssumption, SharingInv, Collect PROVE SharingInv'
<1>1. PICK t \in 0 .. MaxT, m \in 0 .. MaxShares : Sharing(t, m)
  BY DEF SharingInv, SharingInit, Collect
<1>2. /\ threshold = t /\ Len(collected) = m /\ collected \in Seq(VerifiedShare)
      /\ collected \in [1 .. m -> VerifiedShare] /\ t \in Nat /\ m \in Nat
  BY <1>1, SharingLengths DEF Sharing
<1>3. PICK id \in 1 .. Players : \E s \in Arriving(id) :
        VerifyShare(t, s, commitment) /\ collected' = Append(collected, s)
  BY <1>2 DEF Collect
<1>4. PICK s \in Arriving(id) :
        VerifyShare(t, s, commitment) /\ collected' = Append(collected, s)
  BY <1>3
<1>5. s \in VerifiedShare /\ s.Value = PolyEvaluate(poly, s.ID)
  BY <1>1, <1>2, <1>4, VerifiedIs
<1>6. PICK n \in 0 .. MaxShares : n = m + 1
  BY <1>2 DEF Collect, SharingAssumption
<1>7. collected' = [i \in 1 .. n |-> IF i = n THEN s ELSE collected[i]]
  <2> DEFINE f == [i \in 1 .. n |-> IF i = n THEN s ELSE collected[i]]
  <2>1. PICK q \in Seq(VerifiedShare) : q = Append(collected, s)
    <3>1. collected \in Seq(VerifiedShare) /\ s \in VerifiedShare
      BY <1>2, <1>5
    <3>2. Append(collected, s) \in Seq(VerifiedShare)
      BY <3>1
    <3>3. QED
      BY <3>2
  <2>2. Len(q) = n /\ DOMAIN q = 1 .. n
    BY <1>2, <1>6, <2>1
  <2>3. ASSUME NEW i \in 1 .. n PROVE q[i] = f[i]
    BY <1>2, <1>6, <2>1
  <2>4. DOMAIN f = 1 .. n
    OBVIOUS
  <2>5. q = f
    <3> HIDE DEF f
    <3>1. f = [i \in 1 .. n |-> f[i]]
      BY DEF f
    <3>2. q = [i \in 1 .. n |-> q[i]]
      BY <2>2
    <3>3. QED
      BY <2>3, <3>1, <3>2
  <2>6. QED
    BY <1>4, <2>1, <2>5
<1>8. collected' \in [1 .. n -> VerifiedShare]
  BY <1>2, <1>5, <1>6, <1>7
<1>9. ASSUME NEW i \in 1 .. n
      PROVE  collected'[i].Value = PolyEvaluate(poly, collected'[i].ID)
  <2>1. CASE i = n
    BY <1>5, <1>7, <2>1
  <2>2. CASE i # n
    <3>1. i \in 1 .. m /\ collected'[i] = collected[i]
      BY <1>6, <1>7, <2>2
    <3>2. QED
      BY <1>1, <3>1 DEF Sharing
  <2>3. QED
    BY <2>1, <2>2
<1>10. poly' = poly /\ commitment' = commitment
  BY DEF Collect
<1>11. Sharing(t, n)'
  BY <1>1, <1>8, <1>9, <1>10 DEF Sharing, VerifiedShare, Scalar
<1>12. QED
  BY <1>11 DEF SharingInv

LEMMA SharingInvStep ==
  ASSUME SharingAssumption PROVE SharingInv /\ [SharingNext]_sharingVars => SharingInv'
<1>1. SharingInv /\ NewSharing => SharingInv'
  BY SharingInvNew
<1>2. SharingInv /\ Collect => SharingInv'
  BY SharingInvCollect
<1>3. SharingInv /\ UNCHANGED sharingVars => SharingInv'
  BY DEF SharingInv, SharingInit, Sharing, sharingVars
<1>4. QED
  BY <1>1, <1>2, <1>3 DEF SharingNext

(* What the invariant gives *)

LEMMA RecoverIs ==
  ASSUME SharingAssumption, NEW t \in Nat, NEW m \in Nat, Sharing(t, m)
  PROVE  Recover(t, collected) \in
           IF m <= t THEN {"error"}
           ELSE IF Cardinality({collected[i].ID : i \in 1 .. t + 1}) <= t THEN {"panic"}
           ELSE {poly[1]}
<1>1. Len(collected) = m
  BY SharingLengths
<1> DEFINE xs == [i \in 1 .. t + 1 |-> collected[i].ID]
           ys == [i \in 1 .. t + 1 |-> collected[i].Value]
<1>2. ASSUME m <= t PROVE Recover(t, collected) = "error"
  BY <1>1, <1>2 DEF Recover
<1>3. ASSUME ~(m <= t)
      PROVE  /\ Recover(t, collected) = IF ~IsInjective(xs) THEN "panic"
                                        ELSE LagrangeSums(xs, ys)[t + 1]
             /\ Cardinality({collected[i].ID : i \in 1 .. t + 1}) <= t <=> ~IsInjective(xs)
             /\ IsInjective(xs) => LagrangeSums(xs, ys)[t + 1] = poly[1]
  <2>1. 1 .. t + 1 \subseteq 1 .. m
    BY <1>3
  <2>2. \A i \in 1 .. t + 1 : /\ collected[i].ID \in Scalar /\ collected[i].Value \in Scalar
                              /\ collected[i].Value = PolyEvaluate(poly, collected[i].ID)
    BY <2>1 DEF Sharing, VerifiedShare
  <2>3. xs \in [1 .. t + 1 -> Scalar] /\ ys \in [1 .. t + 1 -> Scalar]
    BY <2>2
  <2>4. \A i \in 1 .. t + 1 : xs[i] = collected[i].ID /\ ys[i] = PolyEvaluate(poly, xs[i])
    BY <2>2
  <2>5. Recover(t, collected) = IF ~IsInjective(xs) THEN "panic"
                                ELSE LagrangeSums(xs, ys)[t + 1]
    BY <1>1, <1>3 DEF Recover
  <2> HIDE DEF xs, ys
  <2>6. Cardinality({xs[i] : i \in 1 .. t + 1}) <= t <=> ~IsInjective(xs)
    <3>1. DOMAIN xs = 1 .. t + 1 /\ xs = [i \in 1 .. t + 1 |-> xs[i]]
      BY <2>3
    <3>2. QED
      BY <3>1, FewerValues
  <2>7. {xs[i] : i \in 1 .. t + 1} = {collected[i].ID : i \in 1 .. t + 1}
    BY <2>4
  <2>8. ASSUME IsInjective(xs) PROVE LagrangeSums(xs, ys)[t + 1] = poly[1]
    <3>1. poly \in [1 .. t + 1 -> Scalar] /\ \A i \in 1 .. t + 1 : ys[i] = PolyEvaluate(poly, xs[i])
      BY <2>4 DEF Sharing
    <3>2. QED
      BY <2>3, <2>8, <3>1, LagrangeRecovers
  <2>9. QED
    BY <2>5, <2>6, <2>7, <2>8
<1> HIDE DEF xs, ys
<1>4. QED
  BY <1>2, <1>3

LEMMA OwnVerify ==
  ASSUME SharingAssumption, NEW t \in Nat, NEW m \in Nat, Sharing(t, m), NEW id \in 1 .. Players
  PROVE  VerifyShare(t, ShareWithID(poly, id), commitment) = (t = 0 \/ poly[t + 1] # 0)
<1>1. poly \in [1 .. t + 1 -> Scalar] /\ commitment = CommitSecret(poly)
  BY DEF Sharing
<1>2. Len(poly) = t + 1
  BY SharingLengths
<1>3. ShareWithID(poly, id).ID = id /\ ShareWithID(poly, id).Value = PolyEvaluate(poly, id)
        /\ id # 0
  BY DEF ShareWithID
<1>4. CASE t = 0 \/ poly[t + 1] # 0
  <2>1. commitment = poly
    BY <1>1, <1>4, CommitIs
  <2>2. QED
    BY <1>2, <1>3, <1>4, <2>1 DEF VerifyShare
<1>5. CASE ~(t = 0 \/ poly[t + 1] # 0)
  <2>1. Len(commitment) # t + 1
    BY <1>1, <1>5, CommitIs
  <2>2. QED
    BY <1>5, <2>1 DEF VerifyShare
<1>6. QED
  BY <1>4, <1>5

LEMMA ConsistentAlike ==
  ASSUME SharingAssumption, NEW t \in Nat, NEW m \in 0 .. t, Sharing(t, m),
         NEW a \in Scalar, NEW b \in Scalar
  PROVE  Cardinality(Consistent(a)) = Cardinality(Consistent(b))
<1>1. threshold = t /\ collected \in [1 .. m -> VerifiedShare]
  <2>1. m \in Nat
    OBVIOUS
  <2>2. QED
    BY <2>1, SharingLengths DEF Sharing
<1>2. DOMAIN collected = 1 .. m
  BY <1>1
<1>3. PICK ids \in [1 .. m -> Scalar \ {0}], vs \in [1 .. m -> Scalar] :
        \A i \in 1 .. m : ids[i] = collected[i].ID /\ vs[i] = collected[i].Value
  <2> DEFINE f == [i \in 1 .. m |-> collected[i].ID]
             g == [i \in 1 .. m |-> collected[i].Value]
  <2>1. f \in [1 .. m -> Scalar \ {0}] /\ g \in [1 .. m -> Scalar]
    BY <1>1 DEF VerifiedShare
  <2>2. \A i \in 1 .. m : f[i] = collected[i].ID /\ g[i] = collected[i].Value
    OBVIOUS
  <2> HIDE DEF f, g
  <2>3. QED
    BY <2>1, <2>2
<1>4. ASSUME NEW x PROVE Consistent(x) = Agreeing(t, m, ids, vs, x)
  <2>1. ASSUME NEW c
        PROVE  (\A i \in 1 .. m : PolyEvaluate(<<x>> \o c, collected[i].ID) = collected[i].Value)
                 <=> (\A i \in 1 .. m : PolyEvaluate(<<x>> \o c, ids[i]) = vs[i])
    BY <1>3
  <2>2. QED
    BY <1>1, <1>2, <2>1 DEF Consistent, Agreeing
<1>5. Cardinality(Agreeing(t, m, ids, vs, a)) = Cardinality(Agreeing(t, m, ids, vs, b))
  BY AgreeingAlike
<1>6. QED
  BY <1>4, <1>5

LEMMA SharingInvGives == ASSUME SharingAssumption, SharingInv PROVE SharingThreshold
<1> SUFFICES ASSUME poly # <<>> PROVE SharingThreshold
  BY DEF SharingThreshold
<1>1. PICK t \in 0 .. MaxT, m \in 0 .. MaxShares : Sharing(t, m)
  BY DEF SharingInv, SharingInit
<1>2. threshold = t /\ Len(collected) = m /\ t \in Nat /\ m \in Nat
  BY <1>1, SharingLengths
<1>3. Recover(threshold, collected) \in
        IF Len(collected) <= threshold THEN {"error"}
        ELSE IF Cardinality({collected[i].ID : i \in 1 .. threshold + 1}) <= threshold
          THEN {"panic"}
        ELSE {poly[1]}
  BY <1>1, <1>2, RecoverIs
<1>4. ASSUME NEW id \in 1 .. Players
      PROVE  (threshold = 0 \/ poly[threshold + 1] # 0) =>
               VerifyShare(threshold, ShareWithID(poly, id), commitment)
  BY <1>1, <1>2, OwnVerify
<1>5. ASSUME Len(collected) <= threshold, NEW x \in Scalar, NEW y \in Scalar
      PROVE  Cardinality(Consistent(x)) = Cardinality(Consistent(y))
  <2>1. m \in 0 .. t
    BY <1>2, <1>5
  <2>2. QED
    BY <1>1, <1>2, <2>1, ConsistentAlike
<1>6. QED
  BY <1>3, <1>4, <1>5 DEF SharingThreshold

(* Secret sharing, for every order that is prime, and every threshold and    *)
(* number of shares: t + 1 verified shares of different identifiers give the  *)
(* secret, t or fewer leave as many polynomials for every secret, and the    *)
(* shares of the dealer verify if his last coefficient is not zero.          *)
THEOREM SharingHasThreshold ==
  ASSUME SharingAssumption PROVE SharingSpec => []SharingThreshold
<1>1. SharingSpec => []SharingInv
  BY SharingInvInit, SharingInvStep, PTL DEF SharingSpec
<1>2. SharingInv => SharingThreshold
  BY SharingInvGives
<1>3. QED
  BY <1>1, <1>2, PTL
-----------------------------------------------------------------------------
(***************************************************************************)
(* Oprf. Blinding, evaluating and unblinding commute, in the field of the  *)
(* scalars; and what the server answers is an evaluation of some batch     *)
(* that was blinded, by a key of its own.                                  *)
(***************************************************************************)

Field == 0 .. GroupOrder - 1
Units == 1 .. GroupOrder - 1

LEMMA FieldIs ==
  ASSUME OprfAssumption
  PROVE  GroupOrder \in Nat \ {0} /\ Field \subseteq Int /\ Units \subseteq Field
         /\ \A a \in Int, b \in Int : (a * b) % GroupOrder \in Field
<1>1. GroupOrder \in Nat \ {0, 1}
  BY DEF OprfAssumption
<1>2. ASSUME NEW a \in Int, NEW b \in Int PROVE (a * b) % GroupOrder \in Field
  <2>1. PICK c \in Int : c = a * b
    OBVIOUS
  <2>2. c % GroupOrder \in Field
    BY <1>1, Remainder DEF Field
  <2>3. QED
    BY <2>1, <2>2
<1>3. QED
  BY <1>1, <1>2 DEF Field, Units

LEMMA InverseIs ==
  ASSUME OprfAssumption, NEW x \in Units
  PROVE  Inv(x) \in Units /\ (x * Inv(x)) % GroupOrder = 1 /\ (Inv(x) * x) % GroupOrder = 1
<1>1. \E y \in 1 .. GroupOrder - 1 : (x * y) % GroupOrder = 1
  BY DEF OprfAssumption, Units
<1>2. Inv(x) \in 1 .. GroupOrder - 1 /\ (x * Inv(x)) % GroupOrder = 1
  BY <1>1 DEF Inv, Units
<1>3. PICK y \in Int : y = Inv(x)
  BY <1>2
<1>4. x \in Int /\ x * y = y * x
  BY DEF Units
<1>5. QED
  BY <1>2, <1>3, <1>4 DEF Units

\* Nothing is left under a zero blind.
LEMMA ZeroInverse ==
  ASSUME OprfAssumption, NEW x \in Int PROVE Inv(0) = 0 /\ (x * Inv(0)) % GroupOrder = 0
<1>1. Inv(0) = 0
  BY DEF Inv
<1>2. x * 0 = 0 /\ 0 = 0 + 0 * GroupOrder /\ 0 \in 0 .. GroupOrder - 1
      /\ GroupOrder \in Nat \ {0}
  BY FieldIs
<1>3. (0 + 0 * GroupOrder) % GroupOrder = 0
  BY <1>2, RemainderIs
<1>4. QED
  BY <1>1, <1>2, <1>3

\* What is taken off again.
LEMMA Cancels ==
  ASSUME OprfAssumption, NEW r \in Field, NEW x \in Int, NEW y \in Int,
         (x * y) % GroupOrder = 1
  PROVE  (((r * x) % GroupOrder) * y) % GroupOrder = r
<1>1. GroupOrder \in Nat \ {0} /\ r \in Int
  BY FieldIs
<1>2. (((r * x) % GroupOrder) * y) % GroupOrder = (r * ((x * y) % GroupOrder)) % GroupOrder
  BY <1>1, RemainderAssociative
<1>3. r \in 0 .. GroupOrder - 1 /\ r * 1 = r /\ r + 0 * GroupOrder = r
  BY <1>1 DEF Field
<1>4. (r + 0 * GroupOrder) % GroupOrder = r
  BY <1>1, <1>3, RemainderIs
<1>5. QED
  BY <1>2, <1>3, <1>4

\* Blinding and unblinding around a multiplication.
LEMMA Unblinds ==
  ASSUME OprfAssumption, NEW h \in Field, NEW b \in Units, NEW k \in Int
  PROVE  (((((h * b) % GroupOrder) * k) % GroupOrder) * Inv(b)) % GroupOrder = (h * k) % GroupOrder
<1>1. PICK c \in Units : c = Inv(b) /\ (b * c) % GroupOrder = 1
  BY InverseIs
<1>2. GroupOrder \in Nat \ {0} /\ h \in Int /\ b \in Int /\ c \in Int
  BY <1>1, FieldIs
<1>3. (((h * b) % GroupOrder) * k) % GroupOrder = (((h * k) % GroupOrder) * b) % GroupOrder
  <2>1. PICK u \in Int : u = h * b
    BY <1>2
  <2>2. PICK v \in Int : v = h * k
    BY <1>2
  <2>3. u * k = v * b
    BY <1>2, <2>1, <2>2
  <2>4. ((u % GroupOrder) * k) % GroupOrder = (u * k) % GroupOrder
    BY <1>2, RemainderProduct
  <2>5. ((v % GroupOrder) * b) % GroupOrder = (v * b) % GroupOrder
    BY <1>2, RemainderProduct
  <2>6. QED
    BY <2>1, <2>2, <2>3, <2>4, <2>5
<1>4. PICK r \in Field : r = (h * k) % GroupOrder
  BY <1>2, FieldIs
<1>5. (((r * b) % GroupOrder) * c) % GroupOrder = r
  BY <1>1, <1>2, Cancels
<1>6. QED
  BY <1>1, <1>3, <1>4, <1>5

\* Unblinding what gives the blinded element when multiplied.
LEMMA UnblindsInverse ==
  ASSUME OprfAssumption, NEW h \in Field, NEW b \in Units, NEW t \in Units, NEW x \in Field,
         (x * t) % GroupOrder = (h * b) % GroupOrder
  PROVE  (x * Inv(b)) % GroupOrder = (h * Inv(t)) % GroupOrder
<1>1. PICK c \in Units : c = Inv(t) /\ (t * c) % GroupOrder = 1
  BY InverseIs
<1>2. x \in Int /\ t \in Int /\ c \in Int
  BY <1>1, FieldIs
<1>3. (((x * t) % GroupOrder) * c) % GroupOrder = x
  BY <1>1, <1>2, Cancels
<1>4. (((((h * b) % GroupOrder) * c) % GroupOrder) * Inv(b)) % GroupOrder = (h * c) % GroupOrder
  BY <1>2, Unblinds
<1>5. QED
  BY <1>1, <1>3, <1>4

-----------------------------------------------------------------------------
\* A batch that was blinded.
Batch(f) == /\ f.inputs \in Seq(Input) /\ f.blinds \in [DOMAIN f.inputs -> Blinds]
            /\ f.request = [i \in DOMAIN f.inputs |->
                              (HashToElement[f.inputs[i]] * f.blinds[i]) % GroupOrder]

\* A request as it comes to the server.
Request(s) == s = [i \in DOMAIN s |-> s[i]] /\ \A i \in DOMAIN s : s[i] \in Field

\* The proof of an answer.
Proved(e) ==
  /\ oprfMode = "base" => "elements" \in DOMAIN e
  /\ oprfMode = "verifiable" =>
       \E req, k, ka : /\ Request(req) /\ k \in Units
                        /\ e = [elements |-> Times(req, k), proof |-> Proof(k, ka, req, Times(req, k))]
  /\ oprfMode = "partial" =>
       \E req, t : /\ Request(req) /\ t \in Units
                   /\ e = [elements |-> Times(req, Inv(t)),
                           proof |-> Proof(t, t, Times(req, Inv(t)), req)]

OprfInv ==
  /\ oprfMode \in OprfModes
  /\ serverKey \in [k : Field, pub : Field, ok : BOOLEAN] /\ (serverKey.ok => serverKey.k # 0)
  /\ pkS \in Field
  /\ fin # OprfNone => Batch(fin)
  /\ eval # OprfNone => Proved(eval)

LEMMA OprfInvInit == ASSUME OprfAssumption PROVE OprfInit => OprfInv
<1> SUFFICES ASSUME OprfInit PROVE OprfInv
  OBVIOUS
<1>1. PICK k \in Keys : serverKey = [k |-> k, pub |-> 0, ok |-> TRUE]
  BY DEF OprfInit
<1>2. k \in Field /\ k # 0 /\ 0 \in Field
  BY DEF OprfAssumption, Field
<1>3. QED
  BY <1>1, <1>2 DEF OprfInit, OprfInv

LEMMA RequestOf == ASSUME OprfAssumption, NEW f, Batch(f) PROVE Request(f.request)
<1>1. \A i \in DOMAIN f.inputs : f.inputs[i] \in Input
  BY DEF Batch
<1>2. ASSUME NEW i \in DOMAIN f.inputs PROVE f.request[i] \in Field
  <2>1. HashToElement[f.inputs[i]] \in Int /\ f.blinds[i] \in Int
    <3>1. f.inputs[i] \in Input /\ f.blinds[i] \in Blinds
      BY <1>1 DEF Batch
    <3>2. HashToElement[f.inputs[i]] \in Field /\ f.blinds[i] \in Field
      BY <3>1 DEF OprfAssumption, Field
    <3>3. QED
      BY <3>2, FieldIs
  <2>2. QED
    BY <2>1, FieldIs DEF Batch
<1>3. QED
  BY <1>2 DEF Batch, Request

LEMMA TweakedIs ==
  ASSUME OprfAssumption, NEW k \in Field, NEW info \in Info
  PROVE  Tweaked(k, info) \in Field /\ (Tweaked(k, info) # 0 => Tweaked(k, info) \in Units)
<1>1. PICK x \in Int : x = k + HashToScalar[info]
  <2>1. HashToScalar \in [Info -> 0 .. GroupOrder - 1] /\ GroupOrder \in Nat
    BY DEF OprfAssumption
  <2>2. HashToScalar[info] \in 0 .. GroupOrder - 1
    BY <2>1
  <2>3. HashToScalar[info] \in Int /\ k \in Int
    BY <2>1, <2>2 DEF Field
  <2>4. QED
    BY <2>3
<1>2. x % GroupOrder \in 0 .. GroupOrder - 1
  BY FieldIs, Remainder
<1>3. QED
  BY <1>1, <1>2 DEF Tweaked, Field, Units

LEMMA OprfInvNext == ASSUME OprfAssumption, OprfInv, [OprfNext]_oprfVars PROVE OprfInv'
<1> USE DEF OprfInv
<1>k. Keys \subseteq Field /\ Keys \subseteq Units /\ 0 \in Field /\ 0 \notin Keys
  BY DEF OprfAssumption, Field, Units
<1>1. ASSUME NEW k \in Keys, NewKey(k) PROVE OprfInv'
  <2>1. serverKey' = [k |-> k, pub |-> 0, ok |-> TRUE] /\ k # 0 /\ k \in Field
    BY <1>1, <1>k DEF NewKey
  <2>2. QED
    BY <1>1, <1>k, <2>1 DEF NewKey, Proved
<1>2. ASSUME NEW k \in Keys \cup {0}, UnmarshalKey(k) PROVE OprfInv'
  <2>1. k \in Field /\ serverKey' = [serverKey EXCEPT !.k = k, !.ok = k # 0]
    BY <1>2, <1>k DEF UnmarshalKey
  <2>2. /\ serverKey' \in [k : Field, pub : Field, ok : BOOLEAN]
        /\ serverKey'.ok => serverKey'.k # 0
    BY <2>1
  <2>3. QED
    BY <1>2, <2>2 DEF UnmarshalKey, Proved
<1>c. /\ Cached(serverKey) \in [k : Field, pub : Field, ok : BOOLEAN]
      /\ Cached(serverKey).ok => Cached(serverKey).k # 0
  BY DEF Cached
<1>3. CASE OprfPublic
  <2>1. serverKey' = Cached(serverKey) /\ pkS' = Cached(serverKey).pub
    BY <1>3 DEF OprfPublic
  <2>2. QED
    BY <1>3, <1>c, <2>1 DEF OprfPublic, Proved
<1>4. ASSUME NEW inputs \in Batches, NEW blinds \in [DOMAIN inputs -> Blinds],
             OprfBlind(inputs, blinds)
      PROVE  OprfInv'
  <2>1. inputs \in Seq(Input)
    BY DEF OprfAssumption
  <2>2. Batch(fin')
    BY <1>4, <2>1 DEF OprfBlind, Batch
  <2>3. QED
    BY <1>4, <2>2 DEF OprfBlind, Proved
<1>5. ASSUME NEW info \in Info, Evaluate(info) PROVE OprfInv'
  <2> DEFINE req == fin.request
             t == Tweaked(serverKey.k, info)
  <2>1. Request(req)
    BY <1>5, RequestOf DEF Evaluate
  <2>2. serverKey.k \in Units
    BY <1>5 DEF Evaluate, Field, Units
  <2>3. oprfMode' = oprfMode /\ pkS' = pkS /\ fin' = fin
    BY <1>5 DEF Evaluate
  <2>4. /\ serverKey' \in [k : Field, pub : Field, ok : BOOLEAN]
        /\ serverKey'.ok => serverKey'.k # 0
    BY <1>5, <1>c DEF Evaluate
  <2>5. oprfMode = "verifiable" =>
          eval' = [elements |-> Times(req, serverKey.k),
                   proof |-> Proof(serverKey.k, serverKey'.pub, req, Times(req, serverKey.k))]
    BY <1>5 DEF Evaluate
  <2>6. oprfMode = "partial" =>
          /\ t # 0
          /\ eval' = [elements |-> Times(req, Inv(t)),
                      proof |-> Proof(t, t, Times(req, Inv(t)), req)]
    BY <1>5 DEF Evaluate
  <2>b. oprfMode = "base" => "elements" \in DOMAIN eval'
    BY <1>5 DEF Evaluate
  <2>7. t # 0 => t \in Units
    BY <2>2, FieldIs, TweakedIs
  <2> HIDE DEF req, t
  <2>8. Proved(eval)'
    BY <2>1, <2>2, <2>3, <2>5, <2>6, <2>7, <2>b DEF Proved
  <2>9. QED
    BY <2>3, <2>4, <2>8
<1>6. CASE UNCHANGED oprfVars
  BY <1>6 DEF oprfVars, Proved
<1>7. QED
  BY <1>1, <1>2, <1>3, <1>4, <1>5, <1>6 DEF OprfNext

-----------------------------------------------------------------------------
\* What a batch asks for, and gets: of an input with a zero blind the identity.
Asked(f, secret) ==
  [i \in DOMAIN f.inputs |-> IF f.blinds[i] = 0 THEN 0
                            ELSE (HashToElement[f.inputs[i]] * secret) % GroupOrder]

LEMMA BatchMember ==
  ASSUME OprfAssumption, NEW f, Batch(f), NEW i \in DOMAIN f.inputs
  PROVE  /\ HashToElement[f.inputs[i]] \in Field
         /\ f.blinds[i] \in Field /\ (f.blinds[i] # 0 => f.blinds[i] \in Units)
         /\ f.request[i] = (HashToElement[f.inputs[i]] * f.blinds[i]) % GroupOrder
<1>1. f.inputs[i] \in Input /\ f.blinds[i] \in Blinds
  BY DEF Batch
<1>2. HashToElement[f.inputs[i]] \in Field /\ f.blinds[i] \in Field
  BY <1>1 DEF OprfAssumption, Field
<1>3. f.blinds[i] # 0 => f.blinds[i] \in Units
  BY <1>2, FieldIs DEF Field, Units
<1>4. QED
  BY <1>2, <1>3 DEF Batch

LEMMA BatchLengths ==
  ASSUME NEW f, Batch(f)
  PROVE  /\ DOMAIN f.blinds = DOMAIN f.inputs /\ DOMAIN f.request = DOMAIN f.inputs
         /\ Len(f.blinds) = Len(f.inputs) /\ Len(f.request) = Len(f.inputs)
<1>1. DOMAIN f.inputs = 1 .. Len(f.inputs) /\ Len(f.inputs) \in Nat
  BY DEF Batch
<1>2. DOMAIN f.blinds = DOMAIN f.inputs /\ DOMAIN f.request = DOMAIN f.inputs
  BY DEF Batch
<1>3. QED
  BY <1>1, <1>2 DEF Batch

\* The blinded elements times the key, unblinded.
LEMMA UnblindedTimes ==
  ASSUME OprfAssumption, NEW f, Batch(f), NEW k \in Int, NEW e, e.elements = Times(f.request, k)
  PROVE  Unblinded(f, e) = Asked(f, k)
<1>1. ASSUME NEW i \in DOMAIN f.inputs
      PROVE  (e.elements[i] * Inv(f.blinds[i])) % GroupOrder = Asked(f, k)[i]
  <2>1. e.elements[i] = (f.request[i] * k) % GroupOrder
    BY BatchLengths DEF Times
  <2>z. CASE f.blinds[i] = 0
    <3>1. e.elements[i] \in Int
      <4>1. f.request[i] \in Int
        BY RequestOf, BatchLengths, FieldIs DEF Request
      <4>2. QED
        BY <2>1, <4>1, FieldIs
    <3>2. (e.elements[i] * Inv(0)) % GroupOrder = 0
      BY <3>1, ZeroInverse
    <3>3. QED
      BY <2>z, <3>2 DEF Asked
  <2>n. CASE f.blinds[i] # 0
    <3>1. PICK h \in Field, b \in Units :
            h = HashToElement[f.inputs[i]] /\ b = f.blinds[i] /\ f.request[i] = (h * b) % GroupOrder
      BY <2>n, BatchMember
    <3>2. (((((h * b) % GroupOrder) * k) % GroupOrder) * Inv(b)) % GroupOrder = (h * k) % GroupOrder
      BY Unblinds
    <3>3. QED
      BY <2>1, <2>n, <3>1, <3>2 DEF Asked
  <2>3. QED
    BY <2>z, <2>n
<1>2. Unblinded(f, e) = [i \in DOMAIN f.inputs |-> Asked(f, k)[i]]
  BY <1>1, BatchLengths DEF Unblinded
<1>3. QED
  BY <1>2 DEF Asked

\* Elements that times t are the blinded ones, unblinded.
LEMMA UnblindedInverse ==
  ASSUME OprfAssumption, NEW f, Batch(f), NEW t \in Units, NEW e, f.request = Times(e.elements, t),
         \A i \in DOMAIN e.elements : e.elements[i] \in Field
  PROVE  Unblinded(f, e) = Asked(f, Inv(t))
<1>1. ASSUME NEW i \in DOMAIN f.inputs
      PROVE  (e.elements[i] * Inv(f.blinds[i])) % GroupOrder = Asked(f, Inv(t))[i]
  <2>1. i \in DOMAIN e.elements /\ f.request[i] = (e.elements[i] * t) % GroupOrder
    BY BatchLengths DEF Times
  <2>2. PICK x \in Field : x = e.elements[i]
    BY <2>1
  <2>z. CASE f.blinds[i] = 0
    <3>1. x \in Int
      BY FieldIs
    <3>2. (x * Inv(0)) % GroupOrder = 0
      BY <3>1, ZeroInverse
    <3>3. QED
      BY <2>2, <2>z, <3>2 DEF Asked
  <2>n. CASE f.blinds[i] # 0
    <3>1. PICK h \in Field, b \in Units :
            h = HashToElement[f.inputs[i]] /\ b = f.blinds[i] /\ f.request[i] = (h * b) % GroupOrder
      BY <2>n, BatchMember
    <3>2. (x * Inv(b)) % GroupOrder = (h * Inv(t)) % GroupOrder
      BY <2>1, <2>2, <3>1, UnblindsInverse
    <3>3. QED
      BY <2>2, <2>n, <3>1, <3>2 DEF Asked
  <2>3. QED
    BY <2>z, <2>n
<1>2. Unblinded(f, e) = [i \in DOMAIN f.inputs |-> Asked(f, Inv(t))[i]]
  BY <1>1, BatchLengths DEF Unblinded
<1>3. QED
  BY <1>2 DEF Asked

LEMMA Errors == /\ \A x : Done(x).error = "none" /\ Done(x).outputs = x
                /\ \A what : Error(what).error = what
  BY DEF Done, Error

LEMMA OfBlindedIs ==
  ASSUME NEW f, NEW info, NEW secret
  PROVE  OfBlinded(f, Done([i \in DOMAIN f.inputs |->
                        Output(f.inputs[i], info, (HashToElement[f.inputs[i]] * secret) % GroupOrder)]),
                   info)
           = Done([i \in DOMAIN f.inputs |-> Output(f.inputs[i], info, Asked(f, secret)[i])])
<1> DEFINE full == [i \in DOMAIN f.inputs |->
              Output(f.inputs[i], info, (HashToElement[f.inputs[i]] * secret) % GroupOrder)]
           left == [i \in DOMAIN f.inputs |-> IF f.blinds[i] = 0 THEN Output(f.inputs[i], info, 0)
                                             ELSE full[i]]
<1>1. OfBlinded(f, Done(full), info) = Done(left)
  <2> HIDE DEF full
  <2>1. QED
    BY Errors DEF OfBlinded
<1>2. left = [i \in DOMAIN f.inputs |-> Output(f.inputs[i], info, Asked(f, secret)[i])]
  BY DEF Asked
<1>3. QED
  BY <1>1, <1>2

\* What FullEvaluate gives for what was blinded.
FullOf(f, k, info) == OfBlinded(f, FullEvaluate(k, f.inputs, info), info)

LEMMA FullIs ==
  ASSUME NEW f, NEW k, NEW info
  PROVE  /\ oprfMode = "partial" /\ Tweaked(k, info) = 0
              => FullOf(f, k, info) = Error("ErrInverseZero")
         /\ oprfMode = "partial" /\ Tweaked(k, info) # 0
              => FullOf(f, k, info)
                   = Done([i \in DOMAIN f.inputs |->
                             Output(f.inputs[i], info, Asked(f, Inv(Tweaked(k, info)))[i])])
         /\ oprfMode # "partial"
              => FullOf(f, k, info)
                   = Done([i \in DOMAIN f.inputs |-> Output(f.inputs[i], info, Asked(f, k)[i])])
<1> DEFINE full(secret) == Done([i \in DOMAIN f.inputs |->
              Output(f.inputs[i], info, (HashToElement[f.inputs[i]] * secret) % GroupOrder)])
<1>1. CASE oprfMode = "partial" /\ Tweaked(k, info) = 0
  <2>1. FullEvaluate(k, f.inputs, info) = Error("ErrInverseZero")
    BY <1>1 DEF FullEvaluate
  <2>2. QED
    BY <1>1, <2>1, Errors DEF FullOf, OfBlinded
<1>2. CASE oprfMode = "partial" /\ Tweaked(k, info) # 0
  <2>1. FullEvaluate(k, f.inputs, info) = full(Inv(Tweaked(k, info)))
    BY <1>2 DEF FullEvaluate
  <2>2. QED
    BY <1>2, <2>1, OfBlindedIs DEF FullOf
<1>3. CASE oprfMode # "partial"
  <2>1. FullEvaluate(k, f.inputs, info) = full(k)
    BY <1>3 DEF FullEvaluate
  <2>2. QED
    BY <1>3, <2>1, OfBlindedIs DEF FullOf
<1>4. QED
  BY <1>1, <1>2, <1>3

\* The verifiable mode.
LEMMA Verifiable ==
  ASSUME OprfAssumption, OprfInv, fin # OprfNone, eval # OprfNone, oprfMode = "verifiable",
         NEW elements, NEW info \in Info,
         NEW result, result = Finalize(fin, [eval EXCEPT !.elements = elements], info),
         NEW function, function = FullOf(fin, pkS, info)
  PROVE  /\ result.error = "none" => result = function
         /\ Own(elements, info) => result = function
         /\ eval.proof.ka # eval.proof.k => result.error # "none"
         /\ result.error # "ErrInvalidInfo" /\ function.error # "ErrInverseZero"
<1>1. Batch(fin) /\ pkS \in Int
  BY FieldIs DEF OprfInv
<1>2. PICK req, k, ka :
        /\ Request(req) /\ k \in Units
        /\ eval = [elements |-> Times(req, k), proof |-> Proof(k, ka, req, Times(req, k))]
  BY DEF OprfInv, Proved
<1> DEFINE e == [eval EXCEPT !.elements = elements]
<1>3. e.elements = elements /\ e.proof = eval.proof
  BY <1>2
<1> HIDE DEF e
<1>4. result = IF Len(elements) # Len(fin.blinds) THEN Error("ErrInvalidInput")
            ELSE IF VerifyBatch(pkS, fin.request, elements, eval.proof)
                 THEN Outputs(fin, e, info) ELSE Error("ErrInvalidProof")
  BY <1>3 DEF Finalize, e
<1>5. VerifyBatch(pkS, fin.request, elements, eval.proof) <=>
        /\ pkS = eval.proof.ka /\ pkS = eval.proof.k
        /\ Weighed(fin.request, elements) = Weighed(eval.proof.b, eval.proof.kb)
        /\ elements = Times(fin.request, eval.proof.k)
  BY DEF VerifyBatch
<1>6. ASSUME VerifyBatch(pkS, fin.request, elements, eval.proof)
      PROVE  Outputs(fin, e, info) = function /\ Len(elements) = Len(fin.blinds)
  <2>1. elements = Times(fin.request, pkS)
    BY <1>5, <1>6
  <2>2. Unblinded(fin, e) = Asked(fin, pkS)
    BY <1>1, <1>3, <2>1, UnblindedTimes
  <2>3. Outputs(fin, e, info) = function
    BY <2>2, FullIs DEF Outputs
  <2>4. Len(elements) = Len(fin.blinds)
    <3>1. DOMAIN elements = DOMAIN fin.request
      BY <2>1 DEF Times
    <3>2. DOMAIN elements = 1 .. Len(fin.inputs) /\ Len(fin.inputs) \in Nat
      BY <1>1, <3>1, BatchLengths DEF Batch
    <3>3. Len(elements) = Len(fin.inputs)
      BY <2>1, <3>2 DEF Times
    <3>4. QED
      BY <1>1, <3>3, BatchLengths
  <2>5. QED
    BY <2>3, <2>4
<1>7. function.error = "none"
  <2>1. PICK x : function = Done(x)
    BY FullIs
  <2>2. QED
    BY <2>1, Errors
<1>8. Outputs(fin, e, info).error = "none"
  BY Errors DEF Outputs
<1>9. Own(elements, info) => VerifyBatch(pkS, fin.request, elements, eval.proof)
  BY <1>2, <1>5 DEF Own, Proof
<1>10. QED
  BY <1>4, <1>5, <1>6, <1>7, <1>8, <1>9, Errors

\* What the weights bind is what was proved.
LEMMA WeighedOf ==
  ASSUME OprfAssumption, NEW b, NEW kb, NEW pb, NEW pkb, Weighed(b, kb) = Weighed(pb, pkb),
         \A i \in DOMAIN pb : pb[i] \in Field
  PROVE  \A i \in DOMAIN b : b[i] \in Field
<1>1. ASSUME NEW i \in DOMAIN b, b[i] # 0 PROVE b[i] \in Field
  <2>1. <<i, b[i], kb[i]>> \in Weighed(b, kb)
    BY <1>1 DEF Weighed
  <2>2. PICK j \in DOMAIN pb : <<i, b[i], kb[i]>> = <<j, pb[j], pkb[j]>>
    BY <2>1 DEF Weighed
  <2>3. QED
    BY <2>2
<1>2. 0 \in Field
  BY FieldIs DEF Field
<1>3. QED
  BY <1>1, <1>2

\* The partially oblivious mode.
LEMMA Partial ==
  ASSUME OprfAssumption, OprfInv, fin # OprfNone, eval # OprfNone, oprfMode = "partial",
         NEW elements, NEW info \in Info,
         NEW result, result = Finalize(fin, [eval EXCEPT !.elements = elements], info),
         NEW function, function = FullOf(fin, pkS, info)
  PROVE  /\ result.error = "none" => result = function
         /\ Own(elements, info) => result = function
         /\ eval.proof.ka # eval.proof.k => result.error # "none"
         /\ Len(elements) = Len(fin.inputs) =>
              (result.error = "ErrInvalidInfo" <=> function.error = "ErrInverseZero")
<1>1. Batch(fin) /\ pkS \in Field
  BY DEF OprfInv
<1>2. PICK req, u :
        /\ Request(req) /\ u \in Units
        /\ eval = [elements |-> Times(req, Inv(u)),
                   proof |-> Proof(u, u, Times(req, Inv(u)), req)]
  BY DEF OprfInv, Proved
<1> DEFINE e == [eval EXCEPT !.elements = elements]
           t == Tweaked(pkS, info)
<1>3. e.elements = elements /\ e.proof = eval.proof
  BY <1>2
<1> HIDE DEF e
<1>4. result = IF Len(elements) # Len(fin.blinds) THEN Error("ErrInvalidInput")
            ELSE IF t = 0 THEN Error("ErrInvalidInfo")
            ELSE IF VerifyBatch(t, elements, fin.request, eval.proof)
                 THEN Outputs(fin, e, info) ELSE Error("ErrInvalidProof")
  BY <1>3 DEF Finalize, e
<1>5. t # 0 => t \in Units
  BY <1>1, TweakedIs
<1> HIDE DEF t
<1>6. eval.proof.ka = u /\ eval.proof.k = u /\ eval.proof.b = Times(req, Inv(u))
      /\ eval.proof.kb = req /\ eval.elements = Times(req, Inv(u))
  BY <1>2 DEF Proof
<1>7. \A i \in DOMAIN Times(req, Inv(u)) : Times(req, Inv(u))[i] \in Field
  <2>1. ASSUME NEW i \in DOMAIN req PROVE (req[i] * Inv(u)) % GroupOrder \in Field
    <3>1. req[i] \in Int /\ Inv(u) \in Int
      BY <1>2, FieldIs, InverseIs DEF Request
    <3>2. QED
      BY <3>1, FieldIs
  <2>2. QED
    BY <2>1 DEF Times
<1>8. VerifyBatch(t, elements, fin.request, eval.proof) <=>
        /\ t = u /\ Weighed(elements, fin.request) = Weighed(Times(req, Inv(u)), req)
        /\ fin.request = Times(elements, u)
  BY <1>6 DEF VerifyBatch
<1>9. ASSUME VerifyBatch(t, elements, fin.request, eval.proof), t # 0
      PROVE  Outputs(fin, e, info) = function
  <2>1. fin.request = Times(e.elements, t) /\ \A i \in DOMAIN e.elements : e.elements[i] \in Field
    BY <1>3, <1>7, <1>8, <1>9, WeighedOf
  <2>2. Unblinded(fin, e) = Asked(fin, Inv(t))
    BY <1>1, <1>5, <1>9, <2>1, UnblindedInverse
  <2>3. QED
    BY <1>9, <2>2, FullIs DEF Outputs, t
<1>10. ASSUME Own(elements, info)
       PROVE  /\ VerifyBatch(t, elements, fin.request, eval.proof)
              /\ t # 0 /\ Len(elements) = Len(fin.blinds)
  <2>1. t = u /\ elements = Times(req, Inv(u)) /\ fin.request = req
    BY <1>6, <1>10 DEF Own, t
  <2>2. ASSUME NEW i \in DOMAIN req
        PROVE  (((req[i] * Inv(u)) % GroupOrder) * u) % GroupOrder = req[i]
    <3>1. PICK v \in Units : v = Inv(u) /\ (v * u) % GroupOrder = 1
      BY <1>2, InverseIs
    <3>2. v \in Int /\ u \in Int /\ req[i] \in Field
      BY <1>2, <3>1, FieldIs DEF Request
    <3>3. QED
      BY <3>1, <3>2, Cancels
  <2>3. Times(elements, u) = [i \in DOMAIN req |-> req[i]]
    BY <2>1, <2>2 DEF Times
  <2>4. Times(elements, u) = req
    BY <1>2, <2>3 DEF Request
  <2>5. t # 0
    BY <1>2, <2>1 DEF Units
  <2>6. Len(elements) = Len(fin.blinds)
    <3>1. DOMAIN elements = DOMAIN fin.request
      BY <2>1 DEF Times
    <3>2. DOMAIN elements = 1 .. Len(fin.inputs) /\ Len(fin.inputs) \in Nat
      BY <1>1, <3>1, BatchLengths DEF Batch
    <3>3. Len(elements) = Len(fin.inputs)
      BY <2>1, <3>2 DEF Times
    <3>4. QED
      BY <1>1, <3>3, BatchLengths
  <2>7. QED
    BY <1>8, <2>1, <2>4, <2>5, <2>6
<1>11. /\ t # 0 => function.error = "none"
       /\ t = 0 => function.error = "ErrInverseZero"
  <2>1. t = 0 => function = Error("ErrInverseZero")
    BY FullIs DEF t
  <2>2. t # 0 => \E x : function = Done(x)
    BY FullIs DEF t
  <2>3. QED
    BY <2>1, <2>2, Errors
<1>12. Outputs(fin, e, info).error = "none"
  BY Errors DEF Outputs
<1>13. Len(fin.blinds) = Len(fin.inputs)
  BY <1>1, BatchLengths
<1>14. result.error = "none" => result = function
  BY <1>4, <1>9, Errors
<1>15. Own(elements, info) => result = function
  BY <1>4, <1>9, <1>10
<1>16. Len(elements) = Len(fin.inputs) =>
         (result.error = "ErrInvalidInfo" <=> function.error = "ErrInverseZero")
  BY <1>4, <1>11, <1>12, <1>13, Errors
<1>17. QED
  BY <1>6, <1>14, <1>15, <1>16

\* Without a proof.
LEMMA BaseMode ==
  ASSUME OprfAssumption, OprfInv, fin # OprfNone, oprfMode = "base",
         NEW elements, NEW info, NEW k \in Keys, elements = Times(fin.request, k),
         "elements" \in DOMAIN eval
  PROVE  Finalize(fin, [eval EXCEPT !.elements = elements], info) = FullOf(fin, k, info)
<1>1. Batch(fin) /\ k \in Int
  BY FieldIs DEF OprfInv, OprfAssumption, Units
<1> DEFINE e == [eval EXCEPT !.elements = elements]
<1>2. e.elements = elements
  OBVIOUS
<1> HIDE DEF e
<1>3. Len(elements) = Len(fin.blinds)
  <2>1. DOMAIN elements = DOMAIN fin.request
    BY DEF Times
  <2>2. DOMAIN elements = 1 .. Len(fin.inputs) /\ Len(fin.inputs) \in Nat
    BY <1>1, <2>1, BatchLengths DEF Batch
  <2>3. Len(elements) = Len(fin.inputs)
    BY <2>2 DEF Times
  <2>4. QED
    BY <1>1, <2>3, BatchLengths
<1>4. Finalize(fin, e, info) = Outputs(fin, e, info)
  BY <1>2, <1>3 DEF Finalize
<1>5. Unblinded(fin, e) = Asked(fin, k)
  BY <1>1, <1>2, UnblindedTimes
<1>6. Outputs(fin, e, info) = FullOf(fin, k, info)
  BY <1>5, FullIs DEF Outputs
<1>7. QED
  BY <1>4, <1>6 DEF e

LEMMA OprfInvFunction == ASSUME OprfAssumption, OprfInv PROVE OnlyTheFunction
<1> SUFFICES ASSUME fin # OprfNone, eval # OprfNone, NEW elements \in Delivered, NEW info \in Info
             PROVE  LET result == Finalize(fin, [eval EXCEPT !.elements = elements], info)
                        function(k) == FullOf(fin, k, info)
                    IN  IF oprfMode = "base"
                        THEN \A k \in Keys : elements = Times(fin.request, k) => result = function(k)
                        ELSE pkS # 0 =>
                               /\ result.error = "none" => result = function(pkS)
                               /\ Own(elements, info) => result = function(pkS)
                               /\ eval.proof.ka # eval.proof.k => result.error # "none"
                               /\ Len(elements) = Len(fin.inputs) =>
                                    (result.error = "ErrInvalidInfo"
                                       <=> function(pkS).error = "ErrInverseZero")
  BY DEF OnlyTheFunction, FullOf
<1> DEFINE result == Finalize(fin, [eval EXCEPT !.elements = elements], info)
           full == FullOf(fin, pkS, info)
<1>1. CASE oprfMode = "base"
  <2>1. "elements" \in DOMAIN eval
    BY <1>1 DEF OprfInv, Proved
  <2>2. \A k \in Keys : elements = Times(fin.request, k) => result = FullOf(fin, k, info)
    BY <1>1, <2>1, BaseMode
  <2>3. QED
    BY <1>1, <2>2
<1>2. CASE oprfMode \in {"verifiable", "partial"}
  <2>1. /\ result.error = "none" => result = full
        /\ Own(elements, info) => result = full
        /\ eval.proof.ka # eval.proof.k => result.error # "none"
        /\ Len(elements) = Len(fin.inputs) =>
             (result.error = "ErrInvalidInfo" <=> full.error = "ErrInverseZero")
    <3> HIDE DEF result, full
    <3>1. CASE oprfMode = "verifiable"
      BY <3>1, Verifiable DEF result, full
    <3>2. CASE oprfMode = "partial"
      BY <3>2, Partial DEF result, full
    <3>3. QED
      BY <1>2, <3>1, <3>2
  <2>2. QED
    BY <1>2, <2>1
<1>3. QED
  BY <1>1, <1>2 DEF OprfInv, OprfModes

(* oprf: over any group of prime order, with any inputs, informations, keys  *)
(* and batches, a client finalizes with a proof to the function of the key   *)
(* it knows the public key of or to an error, and finalizes the answer to    *)
(* its own batch; whatever the server's object was filled with. Blinds may   *)
(* be zero: for an input with a zero blind the output is that of the         *)
(* identity, and not of the function.                                        *)
THEOREM OprfIsTheFunction == ASSUME OprfAssumption PROVE OprfSpec => []OnlyTheFunction
<1>1. OprfInit => OprfInv
  BY OprfInvInit
<1>2. OprfInv /\ [OprfNext]_oprfVars => OprfInv'
  BY OprfInvNext
<1>3. OprfInv => OnlyTheFunction
  BY OprfInvFunction
<1>4. QED
  BY <1>1, <1>2, <1>3, PTL DEF OprfSpec
==============================================================================
