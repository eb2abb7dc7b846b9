---------------------------- MODULE RedBlackTree ----------------------------
(***************************************************************************)
(* RedBlackTree.cpp.  The node of a key is at the address that is the key, *)
(* so no field says its data; the node of a key that is there already is   *)
(* linked nowhere and at the address DUPLICATE.  s.kid["left"][a] is the   *)
(* left child of the node at a in s, s.parent[a] its parent and s.color[a] *)
(* its color; s is not ok once a null pointer has been followed.           *)
(*                                                                         *)
(* The constructor does not set a node's color: it is what the memory held *)
(* before, RED, BLACK or a byte that equals neither.                       *)
(***************************************************************************)
EXTENDS Structures

CONSTANTS
  RbKeys,       \* keys to insert
  MaxGarbage    \* nodes whose memory does not happen to say RED

ASSUME RbAssumption == RbKeys \subseteq Nat \ {0} /\ IsFiniteSet(RbKeys) /\ MaxGarbage \in Nat

RED == 0
BLACK == 1
NEITHER == 2
Color == {RED, BLACK, NEITHER}

DUPLICATE == -1

Side == {"left", "right"}
RbAddress == RbKeys \cup {DUPLICATE}
RbPointer == RbAddress \cup {Null}
RBTree == [kid : [Side -> [RbAddress -> RbPointer]], parent : [RbAddress -> RbPointer],
           color : [RbAddress -> Color], root : RbPointer, ok : BOOLEAN]

\* A way down or up, and the nodes printed, are no more than these.
RbRounds == Cardinality(RbKeys) + 1

Other(side) == IF side = "left" THEN "right" ELSE "left"

\* The constructor of Node, for the node at pt that finds color c in its memory.
Node(s, pt, c) ==
  [s EXCEPT !.kid = [side \in Side |-> [@[side] EXCEPT ![pt] = Null]], !.parent[pt] = Null, !.color[pt] = c]

\* Faulty variant: the child does not learn its parent.
LinkDown(s, a, side, b) == [s EXCEPT !.kid[side][a] = b]

\* Tree s with b as the child of a on side.
Link(s, a, side, b) == [s EXCEPT !.kid[side][a] = b, !.parent[b] = a]

\* BSTInsert of the node pt, whose key is data, below root: every child on the way
\* is told its parent again.  Nothing, where the key is there.
BSTInsert(s, root, pt, data) ==
  LET inserted[n \in Nat] == IF n = 0 THEN [a \in RbAddress |-> s]
        ELSE [a \in RbAddress |->
               LET side == IF data < a THEN "left" ELSE "right"
                   child == s.kid[side][a]
               IN  IF data = a THEN s
                   ELSE IF child = Null THEN Link(s, a, side, pt)
                   ELSE Link(inserted[n - 1][child], a, side, child)]
  IN  inserted[RbRounds][root]

\* rotateLeft and rotateRight: pt goes down to its side, and its other child up
\* in its place.
rotate(s, pt, side) ==
  LET up == s.kid[Other(side)][pt]
      inner == s.kid[side][up]
      above == s.parent[pt]
      from == IF above # Null /\ pt = s.kid["left"][above] THEN "left" ELSE "right"
  IN  [s EXCEPT
        !.kid = [d \in Side |-> [a \in RbAddress |->
                  IF a = pt /\ d = Other(side) THEN inner
                  ELSE IF a = up /\ d = side THEN pt
                  ELSE IF a = above /\ d = from THEN up ELSE s.kid[d][a]]],
        !.parent = [a \in RbAddress |->
                     IF a = inner THEN pt ELSE IF a = up THEN above ELSE IF a = pt THEN up ELSE s.parent[a]],
        !.root = IF above = Null THEN up ELSE s.root]

Coloured(s, a, c) == [s EXCEPT !.color[a] = c]

swapColors(s, a, b) == Coloured(Coloured(s, a, s.color[b]), b, s.color[a])

\* The loop of fixViolation goes on at pt.
Violated(s, pt) == pt # s.root /\ s.color[pt] # BLACK /\ s.parent[pt] # Null /\ s.color[s.parent[pt]] = RED

\* The loop's body: the tree and the node it goes on with.
Repaired(s, pt) ==
  LET parent_pt == s.parent[pt]
      grand_parent_pt == s.parent[parent_pt]
      side == IF parent_pt = s.kid["left"][grand_parent_pt] THEN "left" ELSE "right"
      uncle_pt == s.kid[Other(side)][grand_parent_pt]
      inside == pt = s.kid[Other(side)][parent_pt]
      straight == IF inside THEN rotate(s, parent_pt, side) ELSE s
      upper == IF inside THEN pt ELSE parent_pt
  IN  IF uncle_pt # Null /\ s.color[uncle_pt] = RED
      THEN <<Coloured(Coloured(Coloured(s, grand_parent_pt, RED), parent_pt, BLACK), uncle_pt, BLACK), grand_parent_pt>>
      ELSE <<swapColors(rotate(straight, grand_parent_pt, Other(side)), upper, grand_parent_pt), upper>>

\* One round of the loop from the tree c[1] and the node c[2], if there is one.
FixRound(c) == IF Violated(c[1], c[2]) THEN Repaired(c[1], c[2]) ELSE c

\* The end of fixViolation at c[2]: a node that is not the root and has no parent
\* makes the loop's condition follow a null pointer.
Fixed(c) ==
  LET s == c[1]
      pt == c[2]
  IN  IF pt # s.root /\ s.color[pt] # BLACK /\ s.parent[pt] = Null THEN [s EXCEPT !.ok = FALSE]
      ELSE Coloured(s, s.root, BLACK)

fixViolation(s, pt) ==
  LET c[n \in Nat] == IF n = 0 THEN <<s, pt>> ELSE FixRound(c[n - 1])
  IN  Fixed(c[RbRounds])

\* RBTree::insert of data, in a tree that holds the keys in given, in a node of
\* color c.
RbInsert(s, given, data, c) ==
  LET pt == IF data \in given THEN DUPLICATE ELSE data
      t == Node(s, pt, c)
  IN  fixViolation(IF t.root = Null THEN [t EXCEPT !.root = pt] ELSE BSTInsert(t, t.root, pt, data), pt)

inorderHelper(s) ==
  LET printed[n \in Nat] == IF n = 0 THEN [a \in RbPointer |-> <<>>]
        ELSE [a \in RbPointer |-> IF a = Null THEN <<>>
                ELSE printed[n - 1][s.kid["left"][a]] \o <<a>> \o printed[n - 1][s.kid["right"][a]]]
  IN  printed[RbRounds][s.root]

\* The queue q with a in it, if a is a node.
Pushed(q, a) == IF a # Null THEN Append(q, a) ELSE q

\* One round of levelOrderHelper, if there is one, with the queue c[1] and what
\* has been printed in c[2].
LevelRound(s, c) ==
  LET temp == Head(c[1])
  IN  IF c[1] = <<>> THEN c
      ELSE <<Pushed(Pushed(Tail(c[1]), s.kid["left"][temp]), s.kid["right"][temp]), Append(c[2], temp)>>

levelOrderHelper(s) ==
  LET c[n \in Nat] == IF n = 0 THEN <<IF s.root = Null THEN <<>> ELSE <<s.root>>, <<>>>> ELSE LevelRound(s, c[n - 1])
  IN  c[RbRounds][2]

-----------------------------------------------------------------------------
RbInit ==
  Begin("red-black", [tree |-> [kid |-> [side \in Side |-> [a \in RbAddress |-> Null]], parent |-> [a \in RbAddress |-> Null],
                                color |-> [a \in RbAddress |-> RED], root |-> Null, ok |-> TRUE],
                      given |-> {}, garbage |-> 0, again |-> FALSE])

\* main inserts one key after the other.  Nothing refers to the node of a
\* duplicate afterwards.
RbNext ==
  /\ structure = "red-black" /\ store.tree.ok
  /\ \E data \in RbKeys, c \in Color :
       /\ c # RED => store.garbage < MaxGarbage
       /\ store' = [tree |-> Coloured(RbInsert(store.tree, store.given, data, c), DUPLICATE, RED),
                    given |-> store.given \cup {data},
                    garbage |-> IF c = RED THEN store.garbage ELSE store.garbage + 1,
                    again |-> data \in store.given]
  /\ UNCHANGED structure

RbSpec == RbInit /\ [][RbNext]_<<structure, store>>

-----------------------------------------------------------------------------
\* The steps from node a of the tree s up to the root.
RbDepth(s, a) ==
  LET depth[n \in Nat] == IF n = 0 THEN [b \in RbPointer |-> 0]
        ELSE [b \in RbPointer |-> IF b \in {s.root, Null} THEN 0 ELSE depth[n - 1][s.parent[b]] + 1]
  IN  depth[RbRounds][a]

\* The black nodes on the ways from the root down to null pointers.
BlackHeights(s) ==
  LET heights[n \in Nat] == IF n = 0 THEN [a \in RbPointer |-> {0}]
        ELSE [a \in RbPointer |-> IF a = Null THEN {0}
               ELSE {h + (IF s.color[a] = BLACK THEN 1 ELSE 0) :
                      h \in heights[n - 1][s.kid["left"][a]] \cup heights[n - 1][s.kid["right"][a]]}]
  IN  heights[RbRounds][s.root]

\* insert follows a null pointer only when its key is there already: it then
\* repairs around a node it has not linked.
RbNoFault == ~ store.tree.ok => store.again

\* Whatever memory new nodes came in, the tree holds the keys inserted in order,
\* parents and children agree, the root is black, and levelOrder prints every
\* key once, the upper levels first.
RbComplete ==
  store.tree.ok =>
    LET s == store.tree
        keys == inorderHelper(s)
        levels == levelOrderHelper(s)
    IN  /\ Ascending(keys) /\ ToSet(keys) = store.given /\ Len(keys) = Cardinality(store.given)
        /\ \A a \in store.given :
             IF a = s.root THEN s.parent[a] = Null /\ s.color[a] = BLACK
             ELSE s.parent[a] \in store.given /\ \E side \in Side : a = s.kid[side][s.parent[a]]
        /\ ToSet(levels) = store.given /\ Len(levels) = Len(keys)
        /\ Ascending([i \in DOMAIN levels |-> RbDepth(s, levels[i])])

\* As long as each node's memory said RED, no red node has a red child, and all
\* ways down pass the same number of black nodes.
RedBlack ==
  store.tree.ok /\ store.garbage = 0 =>
    LET s == store.tree
    IN  /\ \A a \in store.given : a # s.root /\ s.color[a] = RED => s.color[s.parent[a]] = BLACK
        /\ Cardinality(BlackHeights(s)) = 1

\* The red-black tree after every insertion.
RbInv == structure = "red-black" => RbNoFault /\ RbComplete /\ RedBlack
=============================================================================
