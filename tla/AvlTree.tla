------------------------------- MODULE AvlTree -------------------------------
(***************************************************************************)
(* AVL.cpp.  The node of the i-th insertion of a key k is at the address   *)
(* <<k, i>>, and t[a] is the node at a.  A call of insert or of a rotation *)
(* is given a memory t and a node at, and leaves what it returns there; it *)
(* is not ok once a null pointer has been followed.  turned: rightRotate   *)
(* has been called.                                                        *)
(***************************************************************************)
EXTENDS Structures

CONSTANTS
  AvlKeys,    \* keys to insert, any number of times
  AvlNodes,   \* nodes in the tree
  AvlSmall    \* nodes in a tree that has a key twice

ASSUME AvlAssumption == AvlKeys \subseteq Int /\ IsFiniteSet(AvlKeys) /\ AvlNodes \in Nat /\ AvlSmall \in Nat

Nil == <<0, 0>>
Address == AvlKeys \X (1 .. AvlNodes)
Pointer == Address \cup {Nil}

node == [key : Int, left : Pointer, right : Pointer, height : Nat]
AvlCalls == [t : [Address -> node], at : Pointer, ok : BOOLEAN, turned : BOOLEAN]

height(t, N) == IF N = Nil THEN 0 ELSE t[N].height

max(a, b) == IF a > b THEN a ELSE b

newNode(key) == [key |-> key, left |-> Nil, right |-> Nil, height |-> 1]

\* The memory t, with the height of N that follows from its children's.
Measured(t, N) == [t EXCEPT ![N].height = max(height(t, t[N].left), height(t, t[N].right)) + 1]

\* The height of the new root is computed before that of z, from the height z
\* had above it.
rightRotate(s) ==
  LET z == s.at
      y == s.t[z].left
      linked == [s.t EXCEPT ![y].right = z, ![z].left = s.t[y].right]
  IN  IF ~ s.ok \/ y = Nil THEN [s EXCEPT !.ok = FALSE]
      ELSE [t |-> Measured(Measured(linked, y), z), at |-> y, ok |-> TRUE, turned |-> TRUE]

\* Faulty variant: the new root keeps the height it had.
LeftRotateKept(s) ==
  LET z == s.at
      y == s.t[z].right
      linked == [s.t EXCEPT ![y].left = z, ![z].right = s.t[y].left]
  IN  IF ~ s.ok \/ y = Nil THEN [s EXCEPT !.ok = FALSE] ELSE [s EXCEPT !.t = Measured(linked, z), !.at = y]

leftRotate(s) ==
  LET z == s.at
      y == s.t[z].right
      linked == [s.t EXCEPT ![y].left = z, ![z].right = s.t[y].left]
  IN  IF ~ s.ok \/ y = Nil THEN [s EXCEPT !.ok = FALSE]
      ELSE [t |-> Measured(Measured(linked, z), y), at |-> y, ok |-> TRUE, turned |-> s.turned]

\* The call for a child, and node n with what the call c has left as its child.
LeftChild(s) == [s EXCEPT !.at = s.t[s.at].left]
RightChild(s) == [s EXCEPT !.at = s.t[s.at].right]
HungLeft(c, n) == [c EXCEPT !.t = [c.t EXCEPT ![n].left = c.at], !.at = n]
HungRight(c, n) == [c EXCEPT !.t = [c.t EXCEPT ![n].right = c.at], !.at = n]

getBalance(s) == height(s.t, s.t[s.at].left) - height(s.t, s.t[s.at].right)

\* The end of a call, when key is below its node and the node's height is set.
Rebalanced(s, key) ==
  LET balance == getBalance(s)
      l == s.t[s.at].left
      r == s.t[s.at].right
  IN  CASE balance > 1 /\ key < s.t[l].key -> rightRotate(s)
        [] balance < -1 /\ key > s.t[r].key -> leftRotate(s)
        [] balance > 1 /\ key > s.t[l].key -> rightRotate(HungLeft(leftRotate(LeftChild(s)), s.at))
        [] balance < -1 /\ key < s.t[r].key -> leftRotate(HungRight(rightRotate(RightChild(s)), s.at))
        [] OTHER -> s

\* The node of s, when the call of insert for its child is done.
Descended(called, s, key) ==
  LET c == IF key < s.t[s.at].key THEN HungLeft(called[LeftChild(s)], s.at) ELSE HungRight(called[RightChild(s)], s.at)
  IN  [c EXCEPT !.t = Measured(c.t, s.at)]

\* A call of insert in s, when called are the calls it makes.
Inserted(called, s, key, new) ==
  IF s.at = Nil THEN [s EXCEPT !.t = [s.t EXCEPT ![new] = newNode(key)], !.at = new]
  ELSE LET c == Descended(called, s, key) IN IF c.ok THEN Rebalanced(c, key) ELSE c

\* insert: a way down has no more than AvlNodes nodes and a null pointer.
AvlInsert(s, key, new) ==
  LET called[n \in Nat] == IF n = 0 THEN [c \in AvlCalls |-> c]
                           ELSE [c \in AvlCalls |-> Inserted(called[n - 1], c, key, new)]
  IN  called[AvlNodes + 1][s]

preOrder(t, root) ==
  LET printed[n \in Nat] == IF n = 0 THEN [a \in Pointer |-> <<>>]
        ELSE [a \in Pointer |-> IF a = Nil THEN <<>>
                ELSE <<t[a].key>> \o printed[n - 1][t[a].left] \o printed[n - 1][t[a].right]]
  IN  printed[AvlNodes][root]

-----------------------------------------------------------------------------
\* What the stored heights and the order of the keys should be: the nodes of the
\* tree at root, and how many are on its longest way down.

Below(t, root) ==
  LET below[n \in Nat] == IF n = 0 THEN [a \in Pointer |-> {}]
        ELSE [a \in Pointer |-> IF a = Nil THEN {} ELSE {a} \cup below[n - 1][t[a].left] \cup below[n - 1][t[a].right]]
  IN  below[AvlNodes][root]

Depth(t, root) ==
  LET depth[n \in Nat] == IF n = 0 THEN [a \in Pointer |-> 0]
        ELSE [a \in Pointer |-> IF a = Nil THEN 0 ELSE max(depth[n - 1][t[a].left], depth[n - 1][t[a].right]) + 1]
  IN  depth[AvlNodes][root]

-----------------------------------------------------------------------------
\* given: how often each key has been inserted.  earlier: rightRotate had been
\* called before the last insertion.
AvlInit ==
  Begin("AVL", [t |-> [a \in Address |-> newNode(0)], root |-> Nil, ok |-> TRUE,
                given |-> [k \in AvlKeys |-> 0], turned |-> FALSE, earlier |-> FALSE])

Distinct(given) == \A k \in AvlKeys : given[k] <= 1

\* The nodes created so far.
Created(given) == {a \in Address : a[2] <= given[a[1]]}

\* main inserts one key after the other.
AvlNext ==
  /\ structure = "AVL" /\ store.ok
  /\ \E key \in AvlKeys :
       LET given == [store.given EXCEPT ![key] = @ + 1]
           s == AvlInsert([t |-> store.t, at |-> store.root, ok |-> TRUE, turned |-> store.turned], key, <<key, given[key]>>)
       IN  /\ Cardinality(Created(store.given)) < AvlNodes
           /\ ~ Distinct(given) => Cardinality(Created(store.given)) < AvlSmall
           /\ store' = [t |-> s.t, root |-> s.at, ok |-> s.ok, given |-> given, turned |-> s.turned, earlier |-> store.turned]
  /\ UNCHANGED structure

AvlSpec == AvlInit /\ [][AvlNext]_<<structure, store>>

-----------------------------------------------------------------------------
\* Rotations keep every node that was created in the tree, once, with its key, and
\* the order of the keys; preOrder prints each of them.
AvlComplete ==
  store.ok =>
    LET t == store.t
    IN  /\ Below(t, store.root) = Created(store.given)
        /\ \A a \in Created(store.given) :
             /\ t[a].key = a[1]
             /\ \A b \in Below(t, t[a].left) : t[b].key <= t[a].key
             /\ \A b \in Below(t, t[a].right) : t[b].key >= t[a].key
        /\ Occurrences(AvlKeys, preOrder(t, store.root)) = store.given

\* insert follows a null pointer only after a key has been inserted twice, when a
\* key equal to the right child's is not rotated away, or after rightRotate has
\* stored a height too large: nine keys, all different, are enough.
AvlNoFault == Distinct(store.given) /\ ~ store.earlier => store.ok

\* A stored height is never below the true one.  Until rightRotate, which sets
\* its new root's height from a stale one, has been called, the heights of a tree
\* of distinct keys are exact and it is balanced.
AvlBalance ==
  store.ok =>
    \A a \in Created(store.given) :
      LET n == store.t[a]
      IN  /\ n.height >= Depth(store.t, a)
          /\ Distinct(store.given) /\ ~ store.turned =>
               /\ n.height = Depth(store.t, a)
               /\ Depth(store.t, n.left) - Depth(store.t, n.right) \in -1 .. 1

\* The AVL tree after every insertion.
AvlInv == structure = "AVL" => AvlComplete /\ AvlNoFault /\ AvlBalance
=============================================================================
