---------------------------- MODULE TwoThreeTree ----------------------------
(***************************************************************************)
(* CTree<T> of the 2-3 tree (CTree.h) on a heap of CNode<T>.               *)
(*                                                                         *)
(* The code only compares keys and only compares and follows pointers, so  *)
(* between two calls a tree of n keys holds 2, 4, .. 2n and every node is  *)
(* at the address that is its path from the root; a call may be given any  *)
(* key 1 .. 2n+1, the odd ones being new.  `last' keeps what the call did  *)
(* before the keys and the addresses are named anew.                       *)
(*                                                                         *)
(* A node has one or two keys, small and big, and children left, middle    *)
(* and right.  A node without a middle child and with one key is a         *)
(* "twoNode".                                                              *)
(*                                                                         *)
(* A rotation can leave an inner node without its right child.  The calls  *)
(* made on such a tree may follow a null pointer, which ends the program.  *)
(***************************************************************************)
EXTENDS Integers, Sequences, FiniteSets, SequencesExt

CONSTANTS
  MaxKeys,   \* keys in the tree
  MaxCalls,  \* calls that change a lopsided tree
  NULL,      \* the null pointer
  NoCall     \* no call has been made since the last result was looked at

ASSUME TreeAssumption == MaxKeys \in Nat /\ MaxCalls \in Nat

VARIABLES
  heap,      \* heap[p]: the node at path p
  linked,    \* the nodes allocated are the tree's, and their parents are right
  lopsided,  \* calls since the tree was empty that changed it, from the first on that
             \* made a global rotation around a node that is no leaf
  last       \* the last call: its name, argument, return code, and keys

vars == <<heap, linked, lopsided, last>>

left == 1
middle == 2
right == 3

Small(n) == n.keys[1]
Big(n) == n.keys[2]
Left(n) == n.kids[left]
Middle(n) == n.kids[middle]
Right(n) == n.kids[right]
TwoNode(n) == Len(n.keys) = 1
ThreeNode(n) == Len(n.keys) = 2

isLeaf(n) == Left(n) = NULL /\ Middle(n) = NULL

\* Faulty variant: the children do not learn their new parent.
SetDownwards(h, n, keys, kids) == [h EXCEPT ![n].keys = keys, ![n].kids = kids]

\* Node n of heap h gets these keys and children, and the children n as parent.
Set(h, n, keys, kids) ==
  [a \in DOMAIN h |->
    LET b == IF a = n THEN [h[n] EXCEPT !.keys = keys, !.kids = kids] ELSE h[a]
    IN  IF a \in Range(kids) THEN [b EXCEPT !.parent = n] ELSE b]

SetKeys(h, n, keys) == [h EXCEPT ![n].keys = keys]

\* new CNode<T>: an unused address, and the heap with the node there.
Fresh(h) == <<0, Cardinality(DOMAIN h)>>

New(h, keys, kids) ==
  LET n == Fresh(h)
  IN  Set([a \in DOMAIN h \cup {n} |->
             IF a = n THEN [keys |-> <<>>, kids |-> <<NULL, NULL, NULL>>, parent |-> NULL] ELSE h[a]],
          n, keys, kids)

Delete(h, n) == [a \in DOMAIN h \ {n} |-> h[a]]

\* The node with the smallest key below n; NULL, where the code follows the null
\* pointer, if there is no n.
RECURSIVE getMinNode(_, _)
getMinNode(h, n) == IF n = NULL \/ Left(h[n]) = NULL THEN n ELSE getMinNode(h, Left(h[n]))

RECURSIVE getMaxNode(_, _)
getMaxNode(h, n) == IF Right(h[n]) = NULL THEN n ELSE getMaxNode(h, Right(h[n]))

\* search: the node with key k, or the one where the walk for it ends.
RECURSIVE search(_, _, _)
search(h, n, k) ==
  LET N == h[n]
      d == IF k < Small(N) THEN left
           ELSE IF k > N.keys[Len(N.keys)] THEN right ELSE middle
  IN  IF k \in Range(N.keys) THEN [node |-> n, found |-> TRUE]
      ELSE IF N.kids[d] = NULL THEN [node |-> n, found |-> FALSE]
      ELSE search(h, N.kids[d], k)

-----------------------------------------------------------------------------
(* insert.  A tree t is a heap, its root, how lopsided it is, and the code  *)
(* the call returns.                                                       *)

\* add: a second key for a twoNode.
add(N, k) == IF k > Small(N) THEN <<Small(N), k>> ELSE <<k, Small(N)>>

\* split: the node n and a new one left of it share n's keys and k; the key in
\* the middle goes up.  `added' is the node a split below has made.
split(h, n, k, added) ==
  LET N == h[n]
      new == Fresh(h)
  IN  CASE k > Big(N) ->
             [heap |-> Set(New(h, <<Small(N)>>, <<Left(N), NULL, Middle(N)>>),
                           n, <<k>>, <<added, NULL, Right(N)>>), new |-> new, up |-> Big(N)]
        [] k < Small(N) ->
             [heap |-> Set(New(h, <<k>>, <<added, NULL, Left(N)>>),
                           n, <<Big(N)>>, <<Middle(N), NULL, Right(N)>>), new |-> new, up |-> Small(N)]
        [] OTHER ->
             [heap |-> Set(New(h, <<Small(N)>>, <<Left(N), NULL, added>>),
                           n, <<Big(N)>>, <<Middle(N), NULL, Right(N)>>), new |-> new, up |-> k]

\* The loop of insert: splits go up to a twoNode or make a new root.
RECURSIVE SplitUp(_, _, _, _)
SplitUp(t, n, k, added) ==
  LET s == split(t.heap, n, k, added)
      p == t.heap[n].parent
      P == t.heap[p]
  IN  IF p = NULL
      THEN [t EXCEPT !.heap = New(s.heap, <<s.up>>, <<s.new, NULL, n>>), !.root = Fresh(s.heap)]
      ELSE IF TwoNode(P)
      THEN [t EXCEPT !.heap =
              Set(s.heap, p, add(P, s.up),
                  IF s.up < Small(P) THEN <<s.new, Left(P), Right(P)>>
                  ELSE <<Left(P), s.new, Right(P)>>)]
      ELSE SplitUp([t EXCEPT !.heap = s.heap], p, s.up, s.new)

insert(t, k) ==
  IF t.root = NULL
  THEN [t EXCEPT !.heap = New(t.heap, <<k>>, <<NULL, NULL, NULL>>), !.root = Fresh(t.heap)]
  ELSE LET f == search(t.heap, t.root, k)
           N == t.heap[f.node]
       IN  CASE f.found -> [t EXCEPT !.code = "DUPLICATE_VALUE"]
             [] ~ f.found /\ TwoNode(N) -> [t EXCEPT !.heap = SetKeys(@, f.node, add(N, k))]
             [] ~ f.found /\ ThreeNode(N) -> SplitUp(t, f.node, k, NULL)

-----------------------------------------------------------------------------
(* Traversals: the node and key that follow key k of node n.               *)

\* Up from n to the first key greater than k.
RECURSIVE ClimbInorder(_, _, _)
ClimbInorder(h, n, k) ==
  LET p == h[n].parent
      Greater == {i \in 1..Len(h[p].keys) : k < h[p].keys[i]}
  IN  IF p = NULL THEN [node |-> NULL, key |-> k]
      ELSE IF Greater = {} THEN ClimbInorder(h, p, k)
      ELSE [node |-> p, key |-> h[p].keys[CHOOSE i \in Greater : \A j \in Greater : i <= j]]

\* The null pointer is followed; a big key is read that is no longer in its node.
Crash == [node |-> NULL, key |-> -1]
OldKey == [node |-> NULL, key |-> -2]

\* The first key of node n, if there is such a node.
FirstOf(h, n) == IF n = NULL THEN Crash ELSE [node |-> n, key |-> Small(h[n])]

getNextInorderKey(h, n, k) ==
  LET N == h[n]
  IN  CASE ThreeNode(N) /\ k = Small(N) /\ isLeaf(N) -> [node |-> n, key |-> Big(N)]
        [] ThreeNode(N) /\ k = Small(N) /\ ~ isLeaf(N) -> FirstOf(h, getMinNode(h, Middle(N)))
        [] ~ (ThreeNode(N) /\ k = Small(N)) /\ ~ isLeaf(N) -> FirstOf(h, getMinNode(h, Right(N)))
        [] OTHER -> ClimbInorder(h, n, k)

getNextPostorderKey(h, n, k) ==
  LET N == h[n]
      p == N.parent
      P == h[p]
  IN  CASE ThreeNode(N) /\ k = Small(N) /\ isLeaf(N) -> [node |-> n, key |-> Big(N)]
        [] ThreeNode(N) /\ k = Small(N) /\ ~ isLeaf(N) -> FirstOf(h, getMinNode(h, Right(N)))
        [] OTHER ->
             IF p = NULL THEN [node |-> NULL, key |-> k]
             ELSE IF n = Left(P)
             THEN FirstOf(h, getMinNode(h, IF TwoNode(P) THEN Right(P) ELSE Middle(P)))
             ELSE IF TwoNode(P) /\ n = Middle(P) THEN [node |-> p, key |-> k]
             ELSE [node |-> p, key |-> IF n = Right(P) /\ ThreeNode(P) THEN Big(P) ELSE Small(P)]

\* Up from n past the nodes of which it is the right child.
RECURSIVE ClimbPreorder(_, _, _)
ClimbPreorder(h, n, k) ==
  LET p == h[n].parent
      P == h[p]
  IN  CASE p = NULL -> [node |-> NULL, key |-> k]
        [] p # NULL /\ n = Right(P) -> ClimbPreorder(h, p, k)
        [] p # NULL /\ n = Left(P) /\ ThreeNode(P) -> [node |-> p, key |-> Big(P)]
        [] p # NULL /\ n = Middle(P) /\ TwoNode(P) -> [node |-> p, key |-> k]
        [] OTHER -> FirstOf(h, Right(P))

getNextPreorderKey(h, n, k) ==
  LET N == h[n]
  IN  CASE k = Small(N) /\ ThreeNode(N) /\ isLeaf(N) -> [node |-> n, key |-> Big(N)]
        [] k = Small(N) /\ ~ isLeaf(N) -> FirstOf(h, Left(N))
        [] k # Small(N) /\ ~ isLeaf(N) -> IF ThreeNode(N) THEN FirstOf(h, Middle(N)) ELSE OldKey
        [] OTHER -> ClimbPreorder(h, n, k)

Orders == {"inorder", "preorder", "postorder"}

NextKey(order, h, n, k) ==
  CASE order = "inorder"   -> getNextInorderKey(h, n, k)
    [] order = "preorder"  -> getNextPreorderKey(h, n, k)
    [] order = "postorder" -> getNextPostorderKey(h, n, k)

\* print: what the loop writes from key k of node n on, and -1 or -2 if it goes
\* astray there.
RECURSIVE PrintFrom(_, _, _, _)
PrintFrom(order, h, n, k) ==
  LET s == NextKey(order, h, n, k)
  IN  <<k>> \o (IF s.key < 0 THEN <<s.key>>
                ELSE IF s.node = NULL THEN <<>> ELSE PrintFrom(order, h, s.node, s.key))

print(order, t) ==
  LET n == IF order = "preorder" THEN t.root ELSE getMinNode(t.heap, t.root)
  IN  IF t.root = NULL THEN <<>> ELSE PrintFrom(order, t.heap, n, Small(t.heap[n]))

-----------------------------------------------------------------------------
(* deleteItem.  The functions that repair the tree give the set of heaps   *)
(* they can leave: none when they do not apply.  n is the node without a   *)
(* key: a leaf, or a node with a left child only.                          *)

\* The siblings that localRotation asks, in this order, for a second key.
Asked(P, n) ==
  CASE n = Left(P) -> IF TwoNode(P) THEN <<Right(P)>> ELSE <<Middle(P), Right(P)>>
    [] n = Middle(P) -> <<Right(P), Left(P)>>
    [] OTHER -> IF TwoNode(P) THEN <<Left(P)>> ELSE <<Middle(P), Left(P)>>

\* One of them is missing, and none asked before it has a second key.
SiblingMissing(h, n) ==
  LET asked == Asked(h[h[n].parent], n)
  IN  \E i \in DOMAIN asked : /\ asked[i] = NULL
                              /\ \A j \in 1 .. i - 1 : asked[j] # NULL /\ TwoNode(h[asked[j]])

\* Case 4, when the parent has one key and a middle child all the same.
OldKeyUsed(h, n) ==
  LET P == h[h[n].parent]
  IN  n = Middle(P) /\ TwoNode(P) /\ ThreeNode(h[Right(P)])

\* Cases 1 to 8: a sibling with two keys gives one, by way of the parent.
localRotation(h, n) ==
  LET p == h[n].parent
      P == h[p]
      l == Left(P)   m == Middle(P)   r == Right(P)
      L == h[l]      M == h[m]        R == h[r]
      FromRight(g) == Set(g, r, <<Big(R)>>, <<Middle(R), NULL, Right(R)>>)
      FromLeft(g) == Set(g, l, <<Small(L)>>, <<Left(L), NULL, Middle(L)>>)
      Fill(g, a, k, kids) == Set(g, a, <<k>>, kids)
  IN  CASE n = l /\ TwoNode(P) /\ ThreeNode(R) ->                        \* case 1
             {FromRight(SetKeys(Fill(h, l, Small(P), <<Left(L), Middle(L), Left(R)>>), p, <<Small(R)>>))}
        [] n = l /\ ThreeNode(P) /\ ThreeNode(M) ->                      \* case 2
             {Set(SetKeys(Fill(h, l, Small(P), <<Left(L), Middle(L), Left(M)>>), p, <<Small(M), Big(P)>>),
                  m, <<Big(M)>>, <<Middle(M), NULL, Right(M)>>)}
        [] n = l /\ ThreeNode(P) /\ TwoNode(M) /\ ThreeNode(R) ->        \* case 3
             {FromRight(SetKeys(Fill(Fill(h, l, Small(P), <<Left(L), Middle(L), Left(M)>>),
                                     m, Big(P), <<Right(M), Middle(M), Left(R)>>),
                                p, <<Small(M), Small(R)>>))}
        [] n = m /\ ThreeNode(R) ->                                      \* case 4
             {FromRight(SetKeys(Fill(h, m, Big(P), <<Left(M), Middle(M), Left(R)>>), p, <<Small(P), Small(R)>>))}
        [] n = m /\ TwoNode(R) /\ ThreeNode(L) ->                        \* case 5
             {FromLeft(SetKeys(Fill(h, m, Small(P), <<Right(L), Middle(M), Left(M)>>), p, [P.keys EXCEPT ![1] = Big(L)]))}
        [] n = r /\ TwoNode(P) /\ ThreeNode(L) ->                        \* case 6
             {FromLeft(SetKeys(Fill(h, r, Small(P), <<Right(L), Middle(R), Left(R)>>), p, <<Big(L)>>))}
        [] n = r /\ ThreeNode(P) /\ ThreeNode(M) ->                      \* case 7
             {Set(SetKeys(Fill(h, r, Big(P), <<Right(M), Middle(R), Left(R)>>), p, <<Small(P), Big(M)>>),
                  m, <<Small(M)>>, <<Left(M), NULL, Middle(M)>>)}
        [] n = r /\ ThreeNode(P) /\ TwoNode(M) /\ ThreeNode(L) ->        \* case 8
             {FromLeft(SetKeys(Fill(Fill(h, r, Big(P), <<Right(M), Middle(R), Left(R)>>),
                                    m, Small(P), <<Right(L), Middle(M), Left(M)>>),
                               p, <<Big(L), Small(M)>>))}
        [] OTHER -> {}

\* Cases 9 to 14: the nodes next to a key of the root, the last below the child
\* before it and the first below the child after it, exchange a key by way of
\* the root.  The children move in none of these cases.
globalRotation(h, root, n) ==
  LET Q == h[root]
      rmin == getMinNode(h, Right(Q))
      lmax == getMaxNode(h, Left(Q))
      mmin == getMinNode(h, Middle(Q))
      mmax == getMaxNode(h, Middle(Q))
      \* a, before key i of the root, takes it; the root takes the small key of b
      TakeNext(a, i, b) ==
        SetKeys(SetKeys(SetKeys(h, a, <<Q.keys[i]>>), root, [Q.keys EXCEPT ![i] = Small(h[b])]), b, <<Big(h[b])>>)
      \* b, after key i of the root, takes it; the root takes the big key of a
      TakePrevious(a, i, b) ==
        SetKeys(SetKeys(SetKeys(h, b, <<Q.keys[i]>>), root, [Q.keys EXCEPT ![i] = Big(h[a])]), a, <<Small(h[a])>>)
  IN  CASE ThreeNode(Q) /\ n = lmax /\ ThreeNode(h[mmin]) -> {TakeNext(lmax, 1, mmin)}       \* case 9
        [] ThreeNode(Q) /\ n = mmin /\ ThreeNode(h[lmax]) -> {TakePrevious(lmax, 1, mmin)}   \* case 10
        [] ThreeNode(Q) /\ n = mmax /\ ThreeNode(h[rmin]) -> {TakeNext(mmax, 2, rmin)}       \* case 11
        [] ThreeNode(Q) /\ n = rmin /\ ThreeNode(h[mmax]) -> {TakePrevious(mmax, 2, rmin)}   \* case 12
        [] TwoNode(Q) /\ n = rmin /\ ThreeNode(h[lmax]) -> {TakePrevious(lmax, 1, rmin)}     \* case 13
        [] TwoNode(Q) /\ n = lmax /\ ThreeNode(h[rmin]) -> {TakeNext(lmax, 1, rmin)}         \* case 14
        [] OTHER -> {}

\* A child of the root that globalRotation starts from is missing.
RootChildMissing(Q) == Left(Q) = NULL \/ Right(Q) = NULL \/ (ThreeNode(Q) /\ Middle(Q) = NULL)

\* Cases 15 to 17: below a parent with two keys, n, a sibling and a key of the
\* parent become one node.
localNodeMerger(h, n) ==
  LET p == h[n].parent
      P == h[p]
      l == Left(P)   m == Middle(P)   r == Right(P)
      L == h[l]      M == h[m]        R == h[r]
      Parent(g, k) == Delete(Set(g, p, <<k>>, <<l, NULL, r>>), m)
  IN  CASE ThreeNode(P) /\ n = l ->                                      \* case 15
             {Parent(Set(h, l, <<Small(P), Small(M)>>, <<Left(L), Left(M), Right(M)>>), Big(P))}
        [] ThreeNode(P) /\ n = m ->                                      \* case 16
             {Parent(Set(h, l, <<Small(L), Small(P)>>, <<Left(L), Right(L), Left(M)>>), Big(P))}
        [] ThreeNode(P) /\ n = r ->                                      \* case 17
             {Parent(Set(h, r, <<Small(M), Big(P)>>, <<Left(M), Right(M), Left(R)>>), Small(P))}
        [] OTHER -> {}

\* Cases 18 and 19: the parent's only key goes into the merged node, and the
\* parent is the next to be repaired.
globalNodeMerger(h, n) ==
  LET p == h[n].parent
      l == Left(h[p])   r == Right(h[p])
      L == h[l]         R == h[r]
      merged == IF n = l                                                 \* case 18, case 19
                THEN Set(h, l, <<Small(h[p]), Small(R)>>, <<Left(L), Left(R), Right(R)>>)
                ELSE Set(h, l, <<Small(L), Small(h[p])>>, <<Left(L), Right(L), Left(R)>>)
  IN  Delete(Set(merged, p, <<>>, <<l, Middle(h[p]), NULL>>), r)

\* The root without a key goes; its only child, if any, is the root.
RootGoes(t) ==
  LET child == Left(t.heap[t.root])
  IN  [t EXCEPT !.root = child,
                !.heap = Delete(IF child = NULL THEN @ ELSE [@ EXCEPT ![child].parent = NULL], t.root)]

\* The loop of deleteItem.
RECURSIVE Repair(_, _)
Repair(t, n) ==
  LET h == t.heap
      P == h[h[n].parent]
      Done(heaps) == [t EXCEPT !.heap = CHOOSE g \in heaps : TRUE]
  IN  IF n = t.root THEN RootGoes(t)
      ELSE IF SiblingMissing(h, n) THEN [t EXCEPT !.code = "FAULT"]
      ELSE IF OldKeyUsed(h, n) THEN [t EXCEPT !.code = "STALE"]
      ELSE IF localRotation(h, n) # {} THEN Done(localRotation(h, n))
      ELSE IF RootChildMissing(h[t.root]) THEN [t EXCEPT !.code = "FAULT"]
      ELSE IF globalRotation(h, t.root, n) # {}
      THEN [Done(globalRotation(h, t.root, n)) EXCEPT !.lopsided = IF isLeaf(h[n]) THEN @ ELSE TRUE]
      ELSE IF localNodeMerger(h, n) # {} THEN Done(localNodeMerger(h, n))
      ELSE IF n = Middle(P) THEN [t EXCEPT !.code = "FAILURE"]
      ELSE Repair([t EXCEPT !.heap = globalNodeMerger(h, n)], h[n].parent)

\* Faulty variant: the key is not put into the leaf its successor came from.
SwapHalf(h, n, k) ==
  LET s == getNextInorderKey(h, n, k)
  IN  [leaf |-> s.node,
       heap |-> [h EXCEPT ![n].keys = [i \in DOMAIN @ |-> IF @[i] = k THEN s.key ELSE @[i]]]]

\* swapWithInOrderSuccessor: the leaf that has key k now, and the heap.
swapWithInOrderSuccessor(h, n, k) ==
  LET s == getNextInorderKey(h, n, k)
      swapped == [h EXCEPT ![s.node].keys[1] = k]
  IN  [leaf |-> s.node,
       heap |-> [swapped EXCEPT ![n].keys = [i \in DOMAIN @ |-> IF @[i] = k THEN s.key ELSE @[i]]]]

removeFromLeaf(h, n, k) == SetKeys(h, n, SelectSeq(h[n].keys, LAMBDA x : x # k))

deleteItem(t, k) ==
  LET f == search(t.heap, t.root, k)
      leaf == isLeaf(t.heap[f.node])
      s == IF leaf THEN [leaf |-> f.node, heap |-> t.heap] ELSE swapWithInOrderSuccessor(t.heap, f.node, k)
      u == [t EXCEPT !.heap = s.heap]
  IN  IF t.root = NULL THEN [t EXCEPT !.code = "IS_EMPTY"]
      ELSE IF ~ f.found THEN [t EXCEPT !.code = "NOT_FOUND"]
      ELSE IF ~ leaf /\ getNextInorderKey(t.heap, f.node, k) = Crash THEN [t EXCEPT !.code = "FAULT"]
      ELSE IF ThreeNode(s.heap[s.leaf]) THEN [u EXCEPT !.heap = removeFromLeaf(@, s.leaf, k)]
      ELSE Repair(u, s.leaf)

-----------------------------------------------------------------------------
(* removeAll: nodes are deleted from the leftmost leaf on; a parent's      *)
(* pointers to deleted children are only compared.                         *)

\* The heap that is left, if no null pointer is followed.
RECURSIVE RemoveFrom(_, _)
RemoveFrom(h, n) ==
  LET p == h[n].parent
      P == h[p]
      rest == Delete(h, n)
  IN  IF n = NULL THEN {}
      ELSE IF p = NULL THEN {rest}
      ELSE IF (n = Left(P) /\ Middle(P) = NULL) \/ n = Middle(P)
      THEN RemoveFrom(rest, getMinNode(rest, Right(P)))
      ELSE IF n = Left(P) THEN RemoveFrom(rest, getMinNode(rest, Middle(P)))
      ELSE RemoveFrom(rest, p)

removeAll(t) ==
  LET left_over == RemoveFrom(t.heap, getMinNode(t.heap, t.root))
  IN  IF t.root = NULL THEN [t EXCEPT !.code = "IS_EMPTY"]
      ELSE IF left_over = {} THEN [t EXCEPT !.code = "FAULT"]
      ELSE [t EXCEPT !.heap = CHOOSE g \in left_over : TRUE, !.root = NULL]

-----------------------------------------------------------------------------
(* The calls.                                                              *)

\* The nodes reached from n, each with its path.
RECURSIVE Reached(_, _, _)
Reached(h, n, path) ==
  IF n = NULL THEN {}
  ELSE {<<path, n>>} \cup UNION {Reached(h, h[n].kids[d], Append(path, d)) : d \in {left, middle, right}}

\* The keys below n in the order a search tree has them.
RECURSIVE KeysBelow(_, _)
KeysBelow(h, n) ==
  IF n = NULL THEN <<>>
  ELSE LET K(i) == IF i <= Len(h[n].keys) THEN <<h[n].keys[i]>> ELSE <<>>
           B(d) == KeysBelow(h, h[n].kids[d])
       IN  B(left) \o K(1) \o B(middle) \o K(2) \o B(right)

Tree == [heap |-> heap, root |-> IF <<>> \in DOMAIN heap THEN <<>> ELSE NULL,
         lopsided |-> lopsided > 0, code |-> "SUCCESS"]
Keys == {2 * i : i \in 1..Len(KeysBelow(heap, Tree.root))}
Arguments == 1 .. 2 * Cardinality(Keys) + 1

\* The tree t with every node at its path and the keys numbered anew.
Renamed(t) ==
  LET W == Reached(t.heap, t.root, <<>>)
      keys == KeysBelow(t.heap, t.root)
      Rank(k) == 2 * Cardinality({i \in 1..Len(keys) : keys[i] <= k})
      Node(path) == t.heap[(CHOOSE w \in W : w[1] = path)[2]]
  IN  [path \in {w[1] : w \in W} |->
        [keys |-> [i \in DOMAIN Node(path).keys |-> Rank(Node(path).keys[i])],
         kids |-> [d \in 1..3 |-> IF Node(path).kids[d] = NULL THEN NULL ELSE Append(path, d)],
         parent |-> IF path = <<>> THEN NULL ELSE Front(path)]]

\* Every node allocated is reached by one path, and from its parent.
Linked(t) ==
  LET W == Reached(t.heap, t.root, <<>>)
  IN  /\ DOMAIN t.heap = {w[2] : w \in W}
      /\ \A v, w \in W : v[2] = w[2] => v = w
      /\ \A w \in W : t.heap[w[2]].parent =
                        IF w[1] = <<>> THEN NULL ELSE (CHOOSE v \in W : v[1] = Front(w[1]))[2]

Children(N) == {d \in {left, middle, right} : N.kids[d] # NULL}
Full(N) == IF TwoNode(N) THEN {left, right} ELSE {left, middle, right}

\* The shape of a tree: "full" if every node has no child or one more than it has
\* keys; "short" if what is missing are right children only, or all but the left;
\* otherwise "astray".  Then a search does not find all its keys, or isLeaf takes
\* an inner node for a leaf, or the node with the smallest key for another.
Shape(h) ==
  LET All(kinds(_)) == \A p \in DOMAIN h : Children(h[p]) \in kinds(h[p])
  IN  IF All(LAMBDA N : {{}, Full(N)}) THEN "full"
      ELSE IF All(LAMBDA N : {{}, {left}, Full(N) \ {right}, Full(N)}) THEN "short"
      ELSE "astray"

\* The program has followed a null pointer, which ends it, or used a key that is no
\* longer in its node.
Ended(code) == code \in {"FAULT", "STALE"}

\* The tree t after a call.
Call(name, k, t) ==
  LET Tally == CASE t.root = NULL \/ ~ t.lopsided -> 0
                 [] t.lopsided /\ t.heap = heap -> lopsided
                 [] OTHER -> lopsided + 1
  IN  /\ last = NoCall
      /\ IF Ended(t.code) THEN UNCHANGED <<heap, linked, lopsided>>
         ELSE heap' = Renamed(t) /\ linked' = Linked(t) /\ lopsided' = Tally
      /\ last' = [call |-> name, key |-> k, code |-> t.code, on |-> Shape(heap),
                  before |-> Keys, keys |-> KeysBelow(t.heap, t.root)]

Init == heap = <<>> /\ linked = TRUE /\ lopsided = 0 /\ last = NoCall

Insert(k) == (k \in Keys \/ Cardinality(Keys) < MaxKeys) /\ Call("insert", k, insert(Tree, k))

DeleteItem(k) == Call("deleteItem", k, deleteItem(Tree, k))

\* find gives the key in the tree or 0.
Find(k) ==
  /\ last = NoCall
  /\ last' = [call |-> "find", key |-> k, on |-> Shape(heap), before |-> Keys, keys |-> KeysBelow(heap, Tree.root),
              code |-> IF Tree.root # NULL /\ search(heap, Tree.root, k).found THEN "SUCCESS" ELSE "NOT_FOUND"]
  /\ UNCHANGED <<heap, linked, lopsided>>

RemoveAll == Call("removeAll", 0, removeAll(Tree))

\* print writes; the tree stays as it is.  Its code is never set to SUCCESS.
PrintKeys(order) ==
  LET written == print(order, Tree)
  IN  /\ last = NoCall
      /\ last' = [call |-> order, key |-> 0, on |-> Shape(heap), before |-> Keys, keys |-> written,
                  code |-> IF Tree.root = NULL THEN "IS_EMPTY"
                           ELSE IF Last(written) = Crash.key THEN "FAULT"
                           ELSE IF Last(written) = OldKey.key THEN "STALE" ELSE "FAILURE"]
      /\ UNCHANGED <<heap, linked, lopsided>>

\* The caller has seen the result.  A tree is not followed past the first call made
\* after it went astray, or past MaxCalls changes of a lopsided one.
Return ==
  /\ last # NoCall /\ ~ Ended(last.code) /\ last.on # "astray" /\ lopsided <= MaxCalls
  /\ last' = NoCall
  /\ UNCHANGED <<heap, linked, lopsided>>

Next ==
  \/ \E k \in Arguments : Insert(k) \/ DeleteItem(k) \/ Find(k)
  \/ \E order \in Orders : PrintKeys(order)
  \/ RemoveAll
  \/ Return

Spec == Init /\ [][Next]_vars

-----------------------------------------------------------------------------
(* Properties.                                                             *)

Called(names) == last # NoCall /\ last.call \in names

\* The call has come to its end, on a tree that had not gone astray.
Answered == last # NoCall /\ ~ Ended(last.code) /\ last.on # "astray"

\* Type invariant: nodes are named by their path from the root and have one or
\* two keys, and their pointers are null or lead to allocated nodes.
TypeOK ==
  /\ \A p \in DOMAIN heap :
       /\ p \in Seq({left, middle, right})
       /\ heap[p].keys \in Seq(Keys) /\ Len(heap[p].keys) \in {1, 2}
       /\ Range(heap[p].kids) \cup {heap[p].parent} \subseteq DOMAIN heap \cup {NULL}
  /\ linked \in BOOLEAN /\ lopsided \in 0 .. MaxCalls + 1
  /\ Called({"insert", "deleteItem"}) => last.key \in Nat

\* insert adds exactly its key and deleteItem takes exactly its key, the others
\* stay in order, and a key that is there already, or is not there, is reported
\* and changes nothing; find finds the keys that are there.
SetOfKeys ==
  LET k == last.key
      after == CASE last.call = "insert" -> last.before \cup {k}
                 [] last.call = "deleteItem" -> last.before \ {k}
                 [] last.call = "find" -> last.before
                 [] last.call = "removeAll" -> {}
  IN  Answered /\ Called({"insert", "deleteItem", "find", "removeAll"}) =>
        /\ Range(last.keys) = after
        /\ \A i, j \in 1..Len(last.keys) : i < j => last.keys[i] < last.keys[j]
        /\ last.call = "insert" => (last.code = "SUCCESS" <=> k \notin last.before)
        /\ last.call \in {"deleteItem", "find"} => (last.code = "SUCCESS" <=> k \in last.before)

\* Splits, rotations and mergers keep the shape of a 2-3 tree, with all leaves
\* equally deep, but for a global rotation around a node that is no leaf.
ShapeKept ==
  lopsided = 0 =>
    /\ Shape(heap) = "full"
    /\ \A p, q \in DOMAIN heap : isLeaf(heap[p]) /\ isLeaf(heap[q]) => Len(p) = Len(q)

\* After every call the nodes allocated are exactly the nodes of the tree, each
\* the child of one node, which is its parent; after removeAll none is left.
\* Only on a tree that has gone astray may a call lose nodes.
NoStrayNodes == last # NoCall /\ last.on # "astray" => linked

\* The heap after every call.
TreeInv == TypeOK /\ NoStrayNodes /\ ShapeKept

\* The order in which each traversal should give the keys below n.
RECURSIVE Visits(_, _, _)
Visits(order, h, n) ==
  IF n = NULL THEN <<>>
  ELSE LET K(i) == IF i <= Len(h[n].keys) THEN <<h[n].keys[i]>> ELSE <<>>
           B(d) == Visits(order, h, h[n].kids[d])
       IN  CASE order = "inorder" -> B(left) \o K(1) \o B(middle) \o K(2) \o B(right)
             [] order = "preorder" -> K(1) \o B(left) \o K(2) \o B(middle) \o B(right)
             [] order = "postorder" ->
                  IF TwoNode(h[n]) THEN B(left) \o B(right) \o K(1)
                  ELSE B(left) \o B(middle) \o K(1) \o B(right) \o K(2)

\* print, which goes from key to key along parent pointers without a stack,
\* writes every key once, in the order of a recursive traversal.  It then returns
\* FAILURE, where its comment (CTree.h:1000) promises SUCCESS.
PrintsAll ==
  Answered /\ Called(Orders) =>
    /\ last.keys = Visits(last.call, heap, Tree.root)
    /\ last.code = IF last.before = {} THEN "IS_EMPTY" ELSE "FAILURE"

\* Which calls follow a null pointer: none on a tree whose nodes have all their
\* children; every print and every removeAll once a node misses its right child;
\* never an insert or a find.  A key that is no longer in its node is used only
\* once the tree has gone astray.
Faults ==
  last # NoCall =>
    /\ last.on = "full" \/ last.call \in {"insert", "find"} => ~ Ended(last.code)
    /\ last.on = "short" /\ last.call \in Orders \cup {"removeAll"} => last.code = "FAULT"
    /\ last.code = "STALE" => last.on = "astray"

\* Every call that returns answers, and changes the keys, as a set of keys in
\* order would, by whichever of the 19 cases of deletion and the splits of
\* insertion it went, while no more is wrong with the tree than right children
\* missing.  A global rotation around an inner node leaves such a tree: inserts
\* and searches still work on it, a deletion may end the program, and the print
\* that the driver makes after each deletion always does.
SetOfKeysKept == SetOfKeys /\ PrintsAll /\ Faults
=============================================================================
