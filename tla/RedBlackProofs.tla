--------------------------- MODULE RedBlackProofs ---------------------------
(***************************************************************************)
(* Proofs about RedBlackTree, for any finite set of keys and whatever      *)
(* colors new nodes find in their memory.                                  *)
(***************************************************************************)
EXTENDS StructuresProofs, RedBlackTree

-----------------------------------------------------------------------------
(* The red-black tree: nodes, sides and the nodes below a node.            *)

\* b belongs on the side d of a.
Beside(d, b, a) == IF d = "left" THEN b < a ELSE b > a

\* The links of s make a search tree of the nodes X, in which B[a] are the nodes
\* from a downwards.
Links(s, X, B) ==
  /\ X \in SUBSET RbKeys
  /\ B \in [X \cup {Null} -> SUBSET X] /\ B[Null] = {}
  /\ s.root \in X \cup {Null} /\ B[s.root] = X
  /\ \A a \in X, d \in Side : s.kid[d][a] \in X \cup {Null}
  /\ \A a \in X : B[a] = {a} \cup B[s.kid["left"][a]] \cup B[s.kid["right"][a]]
  /\ \A a \in X, d \in Side : \A b \in B[s.kid[d][a]] : Beside(d, b, a)
  /\ \A a \in X, b \in X : b \in B[a] => B[b] \subseteq B[a]

\* Parents and children agree.
Parents(s, X) ==
  /\ s.root # Null => s.parent[s.root] = Null
  /\ \A a \in X : a # s.root => s.parent[a] \in X /\ \E d \in Side : a = s.kid[d][s.parent[a]]
  /\ \A a \in X, d \in Side : s.kid[d][a] # Null => s.parent[s.kid[d][a]] = a

\* Addresses are keys, and pointers are addresses or null.
LEMMA RbAddresses ==
  /\ RbKeys \subseteq RbAddress /\ RbAddress \subseteq RbPointer /\ Null \in RbPointer /\ Null \notin RbAddress
  /\ RbKeys \subseteq Int /\ Null \notin RbKeys /\ DUPLICATE \notin RbKeys /\ DUPLICATE \in RbAddress
  /\ RbAddress = RbKeys \cup {DUPLICATE} /\ RbPointer = RbAddress \cup {Null}
  BY RbAssumption DEF RbAddress, RbPointer, Null, DUPLICATE

\* The two sides, and the order of keys on one of them.
LEMMA Sides ==
  /\ "left" \in Side /\ "right" \in Side
  /\ \A d \in Side : Other(d) \in Side /\ Other(d) # d /\ Other(Other(d)) = d
  /\ \A d \in Side, e \in Side : e = d \/ e = Other(d)
  BY DEF Side, Other

\* What is beside what, as an order.
LEMMA BesideOrder ==
  ASSUME NEW d \in Side
  PROVE  /\ \A a \in Int : ~ Beside(d, a, a)
         /\ \A a, b \in Int : Beside(d, a, b) <=> Beside(Other(d), b, a)
         /\ \A a, b \in Int : ~ (Beside(d, a, b) /\ Beside(Other(d), a, b))
         /\ \A a, b, c \in Int : Beside(d, a, b) /\ Beside(d, b, c) => Beside(d, a, c)
  BY DEF Beside, Side, Other

\* The fields of a tree.
LEMMA RbFields ==
  ASSUME NEW s \in RBTree
  PROVE  /\ s.kid \in [Side -> [RbAddress -> RbPointer]] /\ \A d \in Side : s.kid[d] \in [RbAddress -> RbPointer]
         /\ \A d \in Side, a \in RbAddress : s.kid[d][a] \in RbPointer
         /\ s.parent \in [RbAddress -> RbPointer] /\ \A a \in RbAddress : s.parent[a] \in RbPointer
         /\ s.color \in [RbAddress -> Color] /\ \A a \in RbAddress : s.color[a] \in Color
         /\ s.root \in RbPointer /\ s.ok \in BOOLEAN
  BY DEF RBTree

\* The nodes below a node, seen from either side.
LEMMA LinksBelow ==
  ASSUME NEW s, NEW X, NEW B, Links(s, X, B), NEW a \in X, NEW d \in Side
  PROVE  /\ B[a] = {a} \cup B[s.kid[d][a]] \cup B[s.kid[Other(d)][a]]
         /\ a \in B[a] /\ a \in Int /\ a # Null
         /\ B[s.kid[d][a]] \subseteq B[a] /\ a \notin B[s.kid[d][a]]
         /\ B[s.kid[d][a]] \cap B[s.kid[Other(d)][a]] = {}
         /\ s.kid[d][a] # Null => s.kid[d][a] \in X /\ s.kid[d][a] \in B[s.kid[d][a]] /\ s.kid[d][a] # a
                                  /\ s.kid[d][a] # s.kid[Other(d)][a]
  <1>1. B[a] = {a} \cup B[s.kid[d][a]] \cup B[s.kid[Other(d)][a]]
    BY DEF Links, Side, Other
  <1>2. \A c \in X : c \in B[c] /\ c \in Int /\ c # Null
    BY RbAddresses DEF Links
  <1>3. \A e \in Side : a \notin B[s.kid[e][a]]
    BY <1>2, BesideOrder DEF Links
  <1>4. s.kid[d][a] \in X \cup {Null} /\ s.kid[Other(d)][a] \in X \cup {Null} /\ B \in [X \cup {Null} -> SUBSET X]
    BY Sides DEF Links
  <1>5. B[s.kid[d][a]] \cap B[s.kid[Other(d)][a]] = {}
    <2> SUFFICES ASSUME NEW b \in B[s.kid[d][a]], b \in B[s.kid[Other(d)][a]] PROVE FALSE
      OBVIOUS
    <2>1. Beside(d, b, a) /\ Beside(Other(d), b, a)
      BY Sides DEF Links
    <2>2. b \in Int
      BY <1>2, <1>4
    <2> QED  BY <1>2, <2>1, <2>2, BesideOrder
  <1> QED  BY <1>1, <1>2, <1>3, <1>4, <1>5, Sides

\* A child and the nodes below it.
LEMMA ChildBelow ==
  ASSUME NEW s, NEW X, NEW B, Links(s, X, B), NEW a \in X, NEW d \in Side, NEW k \in X, k = s.kid[d][a]
  PROVE  /\ k \in B[a] /\ k # a /\ a \notin B[k] /\ k \in B[k] /\ a \in B[a] /\ B[k] \subseteq B[a]
         /\ k # s.kid[Other(d)][a] /\ B[k] \cap B[s.kid[Other(d)][a]] = {}
  <1>1. k # Null
    BY RbAddresses DEF Links
  <1> QED  BY <1>1, LinksBelow

\* The nodes below a node are finitely many, and fewer than those below its parent.
LEMMA LinksFinite ==
  ASSUME NEW s, NEW X, NEW B, Links(s, X, B), NEW a \in X \cup {Null}
  PROVE  IsFiniteSet(B[a]) /\ Cardinality(B[a]) \in Nat /\ IsFiniteSet(X) /\ Cardinality(B[a]) <= Cardinality(X)
  <1>1. B[a] \subseteq X /\ X \subseteq RbKeys
    BY DEF Links
  <1>2. IsFiniteSet(X)
    BY <1>1, RbAssumption, FS_Subset
  <1> QED  BY <1>1, <1>2, FS_Subset, FS_CardinalityType

\* Below a child are fewer nodes.
LEMMA FewerBelow ==
  ASSUME NEW s, NEW X, NEW B, Links(s, X, B), NEW a \in X, NEW d \in Side
  PROVE  Cardinality(B[s.kid[d][a]]) < Cardinality(B[a])
  <1>1. B[s.kid[d][a]] \subseteq B[a] /\ B[s.kid[d][a]] # B[a] /\ s.kid[d][a] \in X \cup {Null}
    <2>1. a \in B[a] /\ B[s.kid[d][a]] \subseteq B[a] /\ a \notin B[s.kid[d][a]]
      BY LinksBelow
    <2>2. s.kid[d][a] \in X \cup {Null}
      BY DEF Links
    <2> QED  BY <2>1, <2>2
  <1> QED  BY <1>1, LinksFinite, FS_Subset, FS_CardinalityType

\* The parent of a node below a is below a.
LEMMA ParentBelow ==
  ASSUME NEW s, NEW X, NEW B, Links(s, X, B), Parents(s, X), NEW a \in X, NEW b \in X, b \in B[a], b # a
  PROVE  s.parent[b] \in B[a]
  <1> DEFINE W == {c \in B[a] : b \in B[c] /\ b # c}
             S == {Cardinality(B[c]) : c \in W}
  <1>1. \A c \in W : c \in X /\ Cardinality(B[c]) \in Nat
    <2> SUFFICES ASSUME NEW c \in W PROVE c \in X /\ Cardinality(B[c]) \in Nat
      OBVIOUS
    <2>1. c \in X
      BY DEF Links
    <2> QED  BY <2>1, LinksFinite
  <1>2. a \in W
    BY LinksBelow, Sides
  <1>3. S \in SUBSET Nat /\ S # {}
    BY <1>1, <1>2
  <1>4. PICK c \in W : \A e \in W : Cardinality(B[c]) <= Cardinality(B[e])
    <2>1. Min(S) \in S /\ \A x \in S : Min(S) <= x
      BY <1>3, MinProperties
    <2> QED  BY <2>1
  <1>5. c \in X /\ c \in B[a] /\ B[c] \subseteq B[a]
    BY <1>1 DEF Links
  <1>6. PICK d \in Side : b \in B[s.kid[d][c]]
    <2>1. B[c] = {c} \cup B[s.kid["left"][c]] \cup B[s.kid["right"][c]]
      BY <1>5 DEF Links
    <2> QED  BY <1>4, <2>1, Sides
  <1>7. s.kid[d][c] \in X /\ s.kid[d][c] \in B[a] /\ s.kid[d][c] # Null
    <2>1. s.kid[d][c] \in X \cup {Null} /\ B[Null] = {}
      BY <1>5 DEF Links
    <2>2. s.kid[d][c] # Null /\ s.kid[d][c] \in X
      BY <1>6, <2>1
    <2>3. s.kid[d][c] \in B[s.kid[d][c]] /\ B[s.kid[d][c]] \subseteq B[c]
      BY <1>5, <2>2, LinksBelow
    <2> QED  BY <1>5, <2>2, <2>3
  <1>8. s.kid[d][c] \notin W
    BY <1>1, <1>4, <1>5, <1>7, FewerBelow
  <1>9. b = s.kid[d][c]
    BY <1>6, <1>7, <1>8
  <1>10. s.parent[b] = c
    BY <1>5, <1>7, <1>9 DEF Parents
  <1> QED  BY <1>5, <1>10

-----------------------------------------------------------------------------
(* Rotations.                                                              *)

\* r has the links of s, but for p below up, on the side d: inner has changed sides,
\* and above has up as its child on the side from.
Moved(s, r, p, up, inner, above, d, from) ==
  /\ r.root = IF above = Null THEN up ELSE s.root
  /\ r.kid[d][up] = p /\ r.kid[Other(d)][p] = inner
  /\ above # Null => r.kid[from][above] = up
  /\ \A e \in Side, a \in RbAddress : <<e, a>> \notin {<<d, up>>, <<Other(d), p>>, <<from, above>>} => r.kid[e][a] = s.kid[e][a]
  /\ r.parent[up] = above /\ r.parent[p] = up
  /\ inner # Null => r.parent[inner] = p
  /\ \A a \in RbAddress : a \notin {up, p, inner} => r.parent[a] = s.parent[a]

\* The tree r is s with these links.
Rotated(s, r, p, up, inner, above, d, from) ==
  r \in RBTree /\ r.color = s.color /\ r.ok = s.ok /\ Moved(s, r, p, up, inner, above, d, from)

\* The nodes of a rotation at p: up goes up, inner changes sides, above is p's parent.
Turning(s, p, up, inner, above, d, from) ==
  /\ d \in Side /\ from \in Side
  /\ up = s.kid[Other(d)][p] /\ inner = s.kid[d][up] /\ above = s.parent[p]
  /\ above # Null => p = s.kid[from][above]
  /\ p # up /\ up # inner /\ p # inner /\ up # above /\ p # above
  /\ above \in RbPointer /\ inner \in RbPointer /\ p \in RbAddress /\ up \in RbAddress

\* rotate turns these nodes around.
LEMMA RotateFields ==
  ASSUME NEW s \in RBTree, NEW p, NEW up, NEW inner, NEW above, NEW d, NEW from,
         Turning(s, p, up, inner, above, d, from),
         above # Null => s.kid["left"][above] # s.kid["right"][above]
  PROVE  Rotated(s, rotate(s, p, d), p, up, inner, above, d, from)
  <1> DEFINE f == IF above # Null /\ p = s.kid["left"][above] THEN "left" ELSE "right"
             kid == [e \in Side |-> [a \in RbAddress |->
                      IF a = p /\ e = Other(d) THEN inner
                      ELSE IF a = up /\ e = d THEN p
                      ELSE IF a = above /\ e = f THEN up ELSE s.kid[e][a]]]
             parent == [a \in RbAddress |->
                         IF a = inner THEN p ELSE IF a = up THEN above ELSE IF a = p THEN up ELSE s.parent[a]]
             root == IF above = Null THEN up ELSE s.root
  <1>1. above # Null => f = from
    BY DEF Turning, Side
  <1>2. rotate(s, p, d) = [s EXCEPT !.kid = kid, !.parent = parent, !.root = root]
    BY Zenon DEF rotate, Turning
  <1>3. f \in Side
    BY DEF Side
  <1> HIDE DEF f
  <1>4. kid \in [Side -> [RbAddress -> RbPointer]] /\ parent \in [RbAddress -> RbPointer] /\ root \in RbPointer
    BY RbFields, RbAddresses DEF Turning
  <1>5. /\ kid[d][up] = p /\ kid[Other(d)][p] = inner /\ (above # Null => kid[from][above] = up)
        /\ \A e \in Side, a \in RbAddress :
             <<e, a>> \notin {<<d, up>>, <<Other(d), p>>, <<from, above>>} => kid[e][a] = s.kid[e][a]
    BY <1>1, Sides, RbAddresses DEF Turning
  <1>6. /\ parent[up] = above /\ parent[p] = up /\ (inner # Null => parent[inner] = p)
        /\ \A a \in RbAddress : a \notin {up, p, inner} => parent[a] = s.parent[a]
    BY RbAddresses DEF Turning
  <1> HIDE DEF kid, parent, root
  <1>7. /\ rotate(s, p, d) \in RBTree /\ rotate(s, p, d).kid = kid /\ rotate(s, p, d).parent = parent
        /\ rotate(s, p, d).root = root /\ rotate(s, p, d).color = s.color /\ rotate(s, p, d).ok = s.ok
    BY <1>2, <1>4 DEF RBTree
  <1> QED  BY <1>5, <1>6, <1>7, Zenon DEF Rotated, Moved, root

\* The nodes around a node p of a search tree with a child up.
LEMMA LinksTurning ==
  ASSUME NEW s \in RBTree, NEW X, NEW B, Links(s, X, B), Parents(s, X), NEW p \in X, NEW d \in Side,
         s.kid[Other(d)][p] # Null
  PROVE  \E from \in Side :
           /\ Turning(s, p, s.kid[Other(d)][p], s.kid[d][s.kid[Other(d)][p]], s.parent[p], d, from)
           /\ s.parent[p] # Null => s.parent[p] \in X
           /\ s.parent[p] = Null <=> p = s.root
  <1> DEFINE up == s.kid[Other(d)][p]
             inner == s.kid[d][up]
             above == s.parent[p]
  <1>1. up \in X /\ up \in B[p] /\ up # p /\ Other(d) \in Side /\ p \notin B[up]
    BY LinksBelow, Sides
  <1>2. inner # Null => inner \in X /\ inner \in B[up] /\ inner # up /\ up \notin B[inner]
    BY <1>1, LinksBelow
  <1>3. p \in RbKeys /\ up \in RbKeys /\ p \in RbAddress /\ up \in RbAddress /\ p # Null /\ up # Null
    BY <1>1, RbAddresses DEF Links
  <1>4. inner \in RbPointer /\ above \in RbPointer
    BY <1>3, RbFields
  <1>5. inner # p
    BY <1>1, <1>2, <1>3
  <1>6. CASE p = s.root
    <2>1. above = Null
      BY <1>3, <1>6 DEF Parents
    <2>2. Turning(s, p, up, inner, above, d, "left")
      BY <1>1, <1>2, <1>3, <1>4, <1>5, <2>1, Sides DEF Turning
    <2> QED  BY <1>6, <2>1, <2>2, Sides
  <1>7. CASE p # s.root
    <2>1. PICK from \in Side : p = s.kid[from][above]
      BY <1>7 DEF Parents
    <2>2. above \in X
      BY <1>7 DEF Parents
    <2>3. above # p /\ above # Null /\ above \notin B[p]
      BY <2>1, <2>2, <1>3, LinksBelow
    <2>4. Turning(s, p, up, inner, above, d, from)
      BY <1>1, <1>2, <1>3, <1>4, <1>5, <2>1, <2>3, Sides DEF Turning
    <2> QED  BY <1>7, <2>2, <2>3, <2>4
  <1> QED  BY <1>6, <1>7

\* The nodes below each node when up has gone up.
Lowered(s, B, p, up, inner, d) == [B EXCEPT ![up] = B[p], ![p] = {p} \cup B[s.kid[d][p]] \cup B[inner]]

\* A rotation keeps the search tree.
LEMMA RotatedLinks ==
  ASSUME NEW s \in RBTree, NEW X, NEW B, Links(s, X, B), Parents(s, X), NEW p \in X, NEW up \in X, NEW inner, NEW above, NEW d, NEW from,
         Turning(s, p, up, inner, above, d, from), above # Null => above \in X, above = Null <=> p = s.root,
         NEW r, Rotated(s, r, p, up, inner, above, d, from)
  PROVE  Links(r, X, Lowered(s, B, p, up, inner, d))
  <1> DEFINE x == s.kid[d][p]
             o == Other(d)
             y == s.kid[o][up]
             C == Lowered(s, B, p, up, inner, d)
  <1>1. d \in Side /\ o \in Side /\ o # d /\ Other(o) = d /\ from \in Side
    BY Sides DEF Turning
  <1>2. X \subseteq RbAddress /\ X \subseteq Int /\ Null \notin X /\ p \in X /\ up \in X /\ p # up
    BY RbAddresses DEF Links, Turning
  <1>3. inner \in X \cup {Null} /\ x \in X \cup {Null} /\ y \in X \cup {Null} /\ s.kid[o][p] = up /\ inner = s.kid[d][up]
    BY <1>1 DEF Links, Turning
  <1>4. /\ B[p] = {p} \cup B[x] \cup B[up] /\ B[up] = {up} \cup B[inner] \cup B[y]
        /\ p \notin B[x] /\ p \notin B[up] /\ up \notin B[inner] /\ up \notin B[y]
        /\ B[x] \cap B[up] = {} /\ B[inner] \cap B[y] = {}
        /\ p \in B[p] /\ up \in B[up] /\ (x # Null => x # p /\ x \in B[x] /\ x # up) /\ (inner # Null => inner # up /\ inner \in B[inner])
        /\ (y # Null => y # up /\ y \in B[y])
    <2>1. /\ B[p] = {p} \cup B[x] \cup B[up] /\ p \notin B[x] /\ B[x] \cap B[up] = {} /\ p \in B[p]
          /\ x # Null => x # p /\ x \in B[x] /\ x # up
      BY <1>1, <1>3, LinksBelow
    <2>2. p \notin B[up]
      BY <1>1, <1>3, LinksBelow
    <2>3. /\ B[up] = {up} \cup B[inner] \cup B[y] /\ up \notin B[inner] /\ B[inner] \cap B[y] = {} /\ up \in B[up]
          /\ inner # Null => inner # up /\ inner \in B[inner]
      BY <1>1, <1>3, LinksBelow
    <2>4. up \notin B[y] /\ (y # Null => y # up /\ y \in B[y])
      BY <1>1, <1>3, LinksBelow
    <2> QED  BY <2>1, <2>2, <2>3, <2>4
  <1>5. B \in [X \cup {Null} -> SUBSET X] /\ B[Null] = {}
    BY Zenon DEF Links
  <1>6. /\ C \in [X \cup {Null} -> SUBSET X] /\ C[up] = B[p] /\ C[p] = {p} \cup B[x] \cup B[inner]
        /\ \A a \in X \cup {Null} : a # p /\ a # up => C[a] = B[a]
    BY <1>2, <1>3, <1>4, <1>5, Zenon DEF Lowered
  <1> HIDE DEF C
  <1>7. C[Null] = {}
    BY <1>2, <1>5, <1>6
  <1>8. inner # p /\ inner # up /\ x # p /\ x # up /\ y # p /\ y # up /\ above # p /\ above # up
    <2>1. p # Null /\ up # Null
      BY <1>2
    <2>2. inner # p /\ inner # up /\ above # p /\ above # up
      BY DEF Turning
    <2>3. x # p /\ x # up /\ y # up
      BY <1>4, <2>1
    <2>4. y # p
      BY <1>4, <2>1
    <2> QED  BY <2>2, <2>3, <2>4
  <1>9. C[inner] = B[inner] /\ C[x] = B[x] /\ C[y] = B[y]
    BY <1>3, <1>6, <1>8
  <1>10. /\ r.kid[d][up] = p /\ r.kid[o][up] = y /\ r.kid[o][p] = inner /\ r.kid[d][p] = x
    BY <1>1, <1>2, <1>8 DEF Rotated, Moved
  <1>11. ASSUME NEW a \in X, a # p, a # up, NEW e \in Side
         PROVE  /\ r.kid[e][a] \in X \cup {Null} /\ C[a] = B[a]
                /\ C[r.kid[e][a]] = B[s.kid[e][a]]
    <2>1. CASE a = above /\ e = from
      <3>1. r.kid[e][a] = up /\ s.kid[e][a] = p
        BY <1>2, <1>11, <2>1 DEF Rotated, Moved, Turning
      <3> QED  BY <1>2, <1>6, <1>11, <3>1
    <2>2. CASE ~ (a = above /\ e = from)
      <3>1. <<e, a>> \notin {<<d, up>>, <<o, p>>, <<from, above>>}
        BY <1>11, <2>2
      <3>2. r.kid[e][a] = s.kid[e][a]
        BY <1>2, <3>1, Zenon DEF Rotated, Moved
      <3>3. s.kid[e][a] \in X \cup {Null}
        BY <1>11 DEF Links
      <3>4. s.kid[e][a] # p
        <4> SUFFICES ASSUME s.kid[e][a] = p PROVE FALSE
          OBVIOUS
        <4>1. s.parent[p] = a
          BY <1>2, <1>11 DEF Parents
        <4>2. a = above /\ above # Null /\ s.kid[from][a] = p
          BY <1>2, <4>1 DEF Turning
        <4>3. e = Other(from)
          BY <1>1, <2>2, <4>2, Sides
        <4> QED  BY <1>1, <1>2, <1>11, <4>2, <4>3, LinksBelow
      <3>5. s.kid[e][a] # up
        BY <1>1, <1>2, <1>3, <1>11 DEF Parents
      <3> QED  BY <1>6, <1>11, <3>2, <3>3, <3>4, <3>5
    <2> QED  BY <2>1, <2>2
  <1>12. \A a \in X, e \in Side : r.kid[e][a] \in X \cup {Null}
    <2> SUFFICES ASSUME NEW a \in X, NEW e \in Side PROVE r.kid[e][a] \in X \cup {Null}
      OBVIOUS
    <2>1. CASE a = p \/ a = up
      BY <1>1, <1>2, <1>3, <1>10, <2>1, Sides
    <2>2. CASE a # p /\ a # up
      BY <1>11, <2>2
    <2> QED  BY <2>1, <2>2
  <1>13. r.root \in X \cup {Null} /\ C[r.root] = X
    <2>1. CASE above = Null
      BY <1>2, <1>6, <2>1 DEF Links, Rotated, Moved
    <2>2. CASE above # Null
      <3>1. r.root = s.root /\ s.root # p /\ s.root \in X \cup {Null} /\ B[s.root] = X
        BY <2>2 DEF Links, Rotated, Moved
      <3>2. s.root # up
        BY <1>4, <3>1
      <3> QED  BY <1>6, <3>1, <3>2
    <2> QED  BY <2>1, <2>2
  <1>14. ASSUME NEW a \in X PROVE C[a] = {a} \cup C[r.kid["left"][a]] \cup C[r.kid["right"][a]]
    <2>1. CASE a = p \/ a = up
      <3>1. C[p] = {p} \cup C[r.kid[d][p]] \cup C[r.kid[o][p]]
        BY <1>6, <1>9, <1>10
      <3>2. C[up] = {up} \cup C[r.kid[d][up]] \cup C[r.kid[o][up]]
        BY <1>4, <1>6, <1>9, <1>10
      <3> QED  BY <1>1, <2>1, <3>1, <3>2 DEF Side, Other
    <2>2. CASE a # p /\ a # up
      <3>1. C[a] = B[a] /\ \A e \in Side : C[r.kid[e][a]] = B[s.kid[e][a]]
        BY <1>11, <2>2, Sides
      <3>2. B[a] = {a} \cup B[s.kid["left"][a]] \cup B[s.kid["right"][a]]
        BY DEF Links
      <3> QED  BY <3>1, <3>2, Sides
    <2> QED  BY <2>1, <2>2
  <1>15. ASSUME NEW a \in X, NEW e \in Side, NEW b \in C[r.kid[e][a]] PROVE Beside(e, b, a)
    <2>1. \A c \in X, f \in Side : \A z \in B[s.kid[f][c]] : Beside(f, z, c)
      BY DEF Links
    <2>2. CASE a = p
      <3>1. CASE e = d
        BY <1>1, <1>9, <1>10, <1>15, <2>1, <2>2, <3>1
      <3>2. CASE e = o
        <4>1. b \in B[inner] /\ b \in B[up]
          BY <1>4, <1>9, <1>10, <1>15, <2>2, <3>2
        <4>2. b \in B[s.kid[o][p]]
          BY <1>3, <4>1
        <4> QED  BY <1>1, <2>1, <2>2, <3>2, <4>2
      <3> QED  BY <1>1, <3>1, <3>2, Sides
    <2>3. CASE a = up
      <3>1. CASE e = d
        <4>1. Beside(d, p, up)
          BY <1>1, <1>2, <1>3, <1>4, <2>1, BesideOrder
        <4>2. b \in {p} \cup B[x] \cup B[inner]
          BY <1>6, <1>10, <1>15, <2>3, <3>1
        <4>3. b \in B[x] => Beside(d, b, p)
          BY <1>1, <2>1
        <4>4. b \in B[inner] => Beside(d, b, up)
          BY <1>1, <1>3, <2>1
        <4>5. b \in Int
          BY <1>2, <1>3, <1>5, <4>2
        <4> QED  BY <1>1, <1>2, <2>3, <3>1, <4>1, <4>2, <4>3, <4>4, <4>5, BesideOrder
      <3>2. CASE e = o
        BY <1>1, <1>9, <1>10, <1>15, <2>1, <2>3, <3>2
      <3> QED  BY <1>1, <3>1, <3>2, Sides
    <2>4. CASE a # p /\ a # up
      BY <1>11, <1>15, <2>1, <2>4
    <2> QED  BY <2>2, <2>3, <2>4
  <1>16. ASSUME NEW a \in X, NEW b \in X, b \in C[a] PROVE C[b] \subseteq C[a]
    <2>1. \A c \in X, z \in X : z \in B[c] => B[z] \subseteq B[c]
      BY DEF Links
    <2>2. C[p] \subseteq B[p] /\ C[up] = B[p] /\ B[up] \subseteq B[p]
      BY <1>4, <1>6
    <2>3. CASE a = p
      <3>1. b = p \/ b \in B[x] \/ b \in B[inner]
        BY <1>6, <1>16, <2>3
      <3>2. b \in B[x] => x \in X /\ b # p /\ b # up /\ C[b] = B[b] /\ B[b] \subseteq B[x]
        <4> SUFFICES ASSUME b \in B[x] PROVE x \in X /\ b # p /\ b # up /\ C[b] = B[b] /\ B[b] \subseteq B[x]
          OBVIOUS
        <4>1. x \in X
          BY <1>3, <1>5
        <4>2. b # p /\ b # up
          BY <1>4
        <4> QED  BY <1>6, <1>16, <2>1, <4>1, <4>2
      <3>3. b \in B[inner] => inner \in X /\ b # p /\ b # up /\ C[b] = B[b] /\ B[b] \subseteq B[inner]
        <4> SUFFICES ASSUME b \in B[inner] PROVE inner \in X /\ b # p /\ b # up /\ C[b] = B[b] /\ B[b] \subseteq B[inner]
          OBVIOUS
        <4>1. inner \in X
          BY <1>3, <1>5
        <4>2. b # p /\ b # up
          BY <1>4
        <4> QED  BY <1>6, <1>16, <2>1, <4>1, <4>2
      <3> QED  BY <1>6, <2>3, <3>1, <3>2, <3>3
    <2>4. CASE a = up
      BY <1>2, <1>4, <1>6, <1>16, <2>1, <2>2, <2>4
    <2>5. CASE a # p /\ a # up
      <3>1. C[a] = B[a] /\ b \in B[a] /\ B[b] \subseteq B[a]
        BY <1>6, <1>16, <2>1, <2>5
      <3>2. b = p \/ b = up => p \in B[a]
        <4>1. s.parent[up] = p
          BY <1>1, <1>2, <1>3 DEF Parents
        <4>2. b = up => p \in B[a]
          BY <1>16, <2>5, <3>1, <4>1, ParentBelow
        <4> QED  BY <3>1, <4>2
      <3> QED  BY <1>6, <2>1, <2>2, <2>5, <3>1, <3>2
    <2> QED  BY <2>3, <2>4, <2>5
  <1>17. X \in SUBSET RbKeys
    BY DEF Links
  <1>18. C \in [X \cup {Null} -> SUBSET X]
    BY <1>6
  <1> QED  BY <1>7, <1>12, <1>13, <1>14, <1>15, <1>16, <1>17, <1>18, Zenon DEF Links, C

\* A rotation keeps parents and children in agreement.
LEMMA RotatedParents ==
  ASSUME NEW s \in RBTree, NEW X, NEW B, Links(s, X, B), Parents(s, X), NEW p \in X, NEW up \in X, NEW inner, NEW above,
         NEW d, NEW from, Turning(s, p, up, inner, above, d, from), above # Null => above \in X, above = Null <=> p = s.root,
         NEW r, Rotated(s, r, p, up, inner, above, d, from)
  PROVE  Parents(r, X)
  <1> DEFINE o == Other(d)
  <1>1. d \in Side /\ o \in Side /\ o # d /\ Other(o) = d /\ from \in Side
    BY Sides DEF Turning
  <1>2. X \subseteq RbAddress /\ Null \notin X
    BY RbAddresses DEF Links
  <1>3. inner \in X \cup {Null} /\ s.kid[o][p] = up /\ inner = s.kid[d][up]
    BY <1>1 DEF Links, Turning
  <1>4. p # up /\ up # inner /\ p # inner /\ up # above /\ p # above
    BY DEF Turning
  <1>5. s.parent[up] = p /\ (inner # Null => s.parent[inner] = up) /\ s.parent[p] = above
    BY <1>1, <1>2, <1>3 DEF Parents, Turning
  <1>6. up # s.root /\ (inner # Null => inner # s.root)
    BY <1>2, <1>3, <1>5 DEF Parents
  <1>7. r.kid[d][up] = p /\ r.kid[o][p] = inner /\ (above # Null => r.kid[from][above] = up)
    BY DEF Rotated, Moved
  <1>8. r.parent[up] = above /\ r.parent[p] = up /\ (inner # Null => r.parent[inner] = p)
    BY DEF Rotated, Moved
  <1>9. \A a \in X : a \notin {up, p, inner} => r.parent[a] = s.parent[a]
    BY <1>2 DEF Rotated, Moved
  <1>10. \A e \in Side, a \in X : <<e, a>> \notin {<<d, up>>, <<o, p>>, <<from, above>>} => r.kid[e][a] = s.kid[e][a]
    BY <1>2 DEF Rotated, Moved
  <1>11. r.root = IF above = Null THEN up ELSE s.root
    BY DEF Rotated, Moved
  <1>12. s.root \in X \cup {Null}
    BY DEF Links
  <1>13. r.root # Null => r.parent[r.root] = Null
    <2>1. CASE above = Null
      BY <1>8, <1>11, <2>1
    <2>2. CASE above # Null
      <3>1. r.root = s.root /\ (s.root # Null => s.root \notin {up, p, inner})
        BY <1>6, <1>11, <2>2
      <3> QED  BY <1>9, <1>12, <3>1 DEF Parents
    <2> QED  BY <2>1, <2>2
  <1>14. ASSUME NEW a \in X, a # r.root PROVE r.parent[a] \in X /\ \E e \in Side : a = r.kid[e][r.parent[a]]
    <2>1. CASE a = up
      BY <1>1, <1>7, <1>8, <1>11, <1>14, <2>1
    <2>2. CASE a = p
      BY <1>1, <1>7, <1>8, <2>2
    <2>3. CASE a = inner
      BY <1>1, <1>2, <1>7, <1>8, <1>14, <2>3
    <2>4. CASE a \notin {up, p, inner}
      <3>1. a # s.root
        BY <1>11, <1>14, <2>4
      <3>2. PICK e \in Side : a = s.kid[e][s.parent[a]]
        BY <3>1 DEF Parents
      <3>3. s.parent[a] \in X /\ r.parent[a] = s.parent[a]
        BY <1>9, <2>4, <3>1 DEF Parents
      <3>4. <<e, s.parent[a]>> \notin {<<d, up>>, <<o, p>>}
        BY <1>3, <2>4, <3>2
      <3>5. <<e, s.parent[a]>> # <<from, above>>
        <4> SUFFICES ASSUME e = from, s.parent[a] = above PROVE FALSE
          OBVIOUS
        <4>1. above # Null /\ s.kid[from][above] = p
          BY <1>2, <3>3 DEF Turning
        <4> QED  BY <2>4, <3>2, <4>1
      <3>6. r.kid[e][s.parent[a]] = s.kid[e][s.parent[a]]
        BY <1>10, <3>3, <3>4, <3>5
      <3> QED  BY <3>2, <3>3, <3>6
    <2> QED  BY <2>1, <2>2, <2>3, <2>4
  <1>15. ASSUME NEW a \in X, NEW e \in Side, r.kid[e][a] # Null PROVE r.parent[r.kid[e][a]] = a
    <2>1. CASE <<e, a>> = <<d, up>>
      BY <1>7, <1>8, <2>1
    <2>2. CASE <<e, a>> = <<o, p>>
      BY <1>7, <1>8, <1>15, <2>2
    <2>3. CASE <<e, a>> = <<from, above>>
      BY <1>2, <1>7, <1>8, <2>3
    <2>4. CASE <<e, a>> \notin {<<d, up>>, <<o, p>>, <<from, above>>}
      <3> DEFINE k == s.kid[e][a]
      <3>1. r.kid[e][a] = k /\ k # Null
        BY <1>10, <1>15, <2>4
      <3>2. k \in X /\ s.parent[k] = a
        BY <3>1 DEF Links, Parents
      <3>3. k # up
        <4> SUFFICES ASSUME k = up PROVE FALSE
          OBVIOUS
        <4>1. a = p /\ e # o
          BY <1>5, <2>4, <3>2
        <4>2. e = Other(o)
          BY <1>1, <4>1, Sides
        <4> QED  BY <1>1, <1>2, <1>3, <4>1, <4>2, LinksBelow
      <3>4. k # inner
        <4> SUFFICES ASSUME k = inner PROVE FALSE
          OBVIOUS
        <4>1. a = up /\ e # d
          BY <1>5, <2>4, <3>1, <3>2
        <4>2. e = Other(d)
          BY <1>1, <4>1, Sides
        <4> QED  BY <1>1, <1>3, <3>1, <4>1, <4>2, LinksBelow
      <3>5. k # p
        <4> SUFFICES ASSUME k = p PROVE FALSE
          OBVIOUS
        <4>1. a = above /\ e # from /\ above # Null
          BY <1>2, <1>5, <2>4, <3>2
        <4>2. e = Other(from) /\ s.kid[from][above] = p
          BY <1>1, <4>1, Sides DEF Turning
        <4> QED  BY <1>1, <1>2, <4>1, <4>2, LinksBelow
      <3> QED  BY <1>9, <3>1, <3>2, <3>3, <3>4, <3>5
    <2> QED  BY <2>1, <2>2, <2>3, <2>4
  <1> QED  BY <1>13, <1>14, <1>15, Zenon DEF Parents

\* rotate keeps the search tree, with up in the place of p.
LEMMA RotateKeeps ==
  ASSUME NEW s \in RBTree, NEW X, NEW B, Links(s, X, B), Parents(s, X), NEW p \in X, NEW d \in Side,
         NEW up, up = s.kid[Other(d)][p], up # Null
  PROVE  \E from \in Side :
           /\ up \in X
           /\ Turning(s, p, up, s.kid[d][up], s.parent[p], d, from)
           /\ Rotated(s, rotate(s, p, d), p, up, s.kid[d][up], s.parent[p], d, from)
           /\ Links(rotate(s, p, d), X, Lowered(s, B, p, up, s.kid[d][up], d)) /\ Parents(rotate(s, p, d), X)
  <1>1. up \in X
    BY LinksBelow, Sides
  <1>2. PICK from \in Side :
           /\ Turning(s, p, up, s.kid[d][up], s.parent[p], d, from)
           /\ s.parent[p] # Null => s.parent[p] \in X
           /\ s.parent[p] = Null <=> p = s.root
    BY LinksTurning
  <1>3. s.parent[p] # Null => s.kid["left"][s.parent[p]] # s.kid["right"][s.parent[p]]
    <2> SUFFICES ASSUME s.parent[p] # Null PROVE s.kid["left"][s.parent[p]] # s.kid["right"][s.parent[p]]
      OBVIOUS
    <2>1. s.kid[from][s.parent[p]] # s.kid[Other(from)][s.parent[p]]
      <3>1. p = s.kid[from][s.parent[p]] /\ p # Null
        BY <1>2, RbAddresses DEF Turning, Links
      <3> QED  BY <1>2, <3>1, LinksBelow
    <2> QED  BY <2>1 DEF Side, Other
  <1>4. Rotated(s, rotate(s, p, d), p, up, s.kid[d][up], s.parent[p], d, from)
    BY <1>2, <1>3, RotateFields
  <1> QED  BY <1>1, <1>2, <1>4, RotatedLinks, RotatedParents

-----------------------------------------------------------------------------
(* The loop of fixViolation.                                               *)

\* r has the links of s.
SameLinks(s, r) == r \in RBTree /\ r.kid = s.kid /\ r.parent = s.parent /\ r.root = s.root /\ r.ok = s.ok

\* Colouring a node.
LEMMA ColouredFields ==
  ASSUME NEW s \in RBTree, NEW a \in RbAddress, NEW c \in Color
  PROVE  SameLinks(s, Coloured(s, a, c)) /\ Coloured(s, a, c).color = [s.color EXCEPT ![a] = c]
  BY DEF Coloured, SameLinks, RBTree

\* Swapping the colors of two nodes.
LEMMA SwappedFields ==
  ASSUME NEW s \in RBTree, NEW a \in RbAddress, NEW b \in RbAddress
  PROVE  /\ SameLinks(s, swapColors(s, a, b))
         /\ swapColors(s, a, b).color = [s.color EXCEPT ![a] = s.color[b], ![b] = s.color[a]]
  <1>1. s.color[a] \in Color /\ s.color[b] \in Color
    BY RbFields
  <1> DEFINE t == Coloured(s, a, s.color[b])
  <1>2. t \in RBTree /\ SameLinks(s, t) /\ t.color = [s.color EXCEPT ![a] = s.color[b]]
    BY <1>1, ColouredFields DEF SameLinks
  <1> HIDE DEF t
  <1>3. SameLinks(t, Coloured(t, b, s.color[a])) /\ Coloured(t, b, s.color[a]).color = [t.color EXCEPT ![b] = s.color[a]]
    BY <1>1, <1>2, ColouredFields
  <1> QED  BY <1>2, <1>3 DEF SameLinks, swapColors, t

\* The search tree is in the links alone.
LEMMA SameLinksKeep ==
  ASSUME NEW s, NEW r, NEW X, NEW B, SameLinks(s, r), Links(s, X, B), Parents(s, X)
  PROVE  Links(r, X, B) /\ Parents(r, X)
  BY DEF SameLinks, Links, Parents

\* A search tree on the nodes X with the node pt, where fixViolation is.
Linked(s, X, B, pt) == s \in RBTree /\ s.ok /\ Links(s, X, B) /\ Parents(s, X) /\ pt \in X

\* The root is black, unless fixViolation has come to it.
Rooted(s, pt) == s.color[s.root] = BLACK \/ pt = s.root

\* Below each node a there are H[a] black nodes on every way, a itself among them,
\* and no red node but pt has a parent that is not black.
Plain(s, X, H, pt) ==
  /\ \A a \in X : s.color[a] \in {RED, BLACK}
  /\ H \in [X \cup {Null} -> Nat] /\ H[Null] = 0
  /\ \A a \in X, d \in Side : H[a] = H[s.kid[d][a]] + (IF s.color[a] = BLACK THEN 1 ELSE 0)
  /\ \A a \in X : a # s.root /\ a # pt /\ s.color[a] = RED => s.color[s.parent[a]] = BLACK

\* The nodes around pt when the loop goes on there.
Family(s, X, B, pt, par, gp, side, uncle) ==
  /\ side \in Side /\ par \in X /\ gp \in X /\ uncle \in X \cup {Null}
  /\ par = s.parent[pt] /\ gp = s.parent[par] /\ par # s.root
  /\ par = s.kid[side][gp] /\ uncle = s.kid[Other(side)][gp]
  /\ pt \in {s.kid[side][par], s.kid[Other(side)][par]}
  /\ pt # s.root /\ s.color[par] = RED /\ s.color[s.root] = BLACK /\ s.root \in X
  /\ gp # par /\ gp # pt /\ pt # par /\ uncle # par /\ uncle # pt /\ uncle # gp
  /\ B[pt] \subseteq B[gp] /\ gp \notin B[pt] /\ gp \in B[gp]

\* What the body of the loop reads.
Around(s, pt, par, gp, side, uncle) ==
  /\ par = s.parent[pt] /\ gp = s.parent[par]
  /\ side = IF par = s.kid["left"][gp] THEN "left" ELSE "right"
  /\ uncle = s.kid[Other(side)][gp]

\* These are the nodes that the body of the loop finds.
LEMMA FamilyOf ==
  ASSUME NEW s, NEW X, NEW B, NEW pt, Linked(s, X, B, pt), Rooted(s, pt), Violated(s, pt),
         NEW par, NEW gp, NEW side, NEW uncle, Around(s, pt, par, gp, side, uncle)
  PROVE  Family(s, X, B, pt, par, gp, side, uncle)
  <1>1. Links(s, X, B)
    BY DEF Linked
  <1>2. pt # s.root /\ s.color[par] = RED /\ s.color[s.root] = BLACK /\ pt \in X
    BY DEF Violated, Rooted, Linked, Around
  <1>3. par \in X /\ \E d \in Side : pt = s.kid[d][par]
    BY <1>2 DEF Linked, Parents, Around
  <1>4. par # s.root
    BY <1>2 DEF RED, BLACK
  <1>5. gp \in X /\ \E d \in Side : par = s.kid[d][gp]
    BY <1>3, <1>4 DEF Linked, Parents, Around
  <1>6. side \in Side /\ Other(side) \in Side
    BY Sides, Zenon DEF Around
  <1>7. par = s.kid[side][gp]
    BY <1>5 DEF Side, Around
  <1>8. pt \in {s.kid[side][par], s.kid[Other(side)][par]}
    BY <1>3, <1>6, Sides
  <1>9. uncle = s.kid[Other(side)][gp]
    BY Zenon DEF Around
  <1>10. uncle \in X \cup {Null} /\ s.root \in X \cup {Null} /\ B[s.root] = X /\ B[Null] = {}
    BY <1>5, <1>6 DEF Linked, Links, Around
  <1>11. Null \notin X
    BY RbAddresses DEF Linked, Links
  <1>12. s.root \in X
    BY <1>2, <1>10, <1>11
  <1>13. par \in B[gp] /\ par # gp /\ gp \notin B[par] /\ gp \in B[gp] /\ par # uncle /\ B[par] \subseteq B[gp]
    BY <1>1, <1>3, <1>5, <1>6, <1>7, <1>9, ChildBelow
  <1>14. pt \in B[par] /\ pt # par /\ par \notin B[pt] /\ pt \in B[pt] /\ B[pt] \subseteq B[par]
    <2>1. PICK d \in Side : pt = s.kid[d][par]
      BY <1>3
    <2> QED  BY <1>1, <1>2, <1>3, <2>1, ChildBelow
  <1>15. uncle # gp /\ uncle # pt
    <2>1. uncle # Null => uncle \in B[uncle] /\ uncle # gp
      <3>1. uncle \in X => uncle \in B[uncle] /\ uncle # gp
        BY <1>1, <1>5, <1>6, <1>9, ChildBelow
      <3> QED  BY <1>10, <3>1
    <2>2. B[par] \cap B[uncle] = {}
      BY <1>1, <1>3, <1>5, <1>6, <1>7, <1>9, ChildBelow
    <2> QED  BY <1>2, <1>5, <1>11, <1>14, <2>1, <2>2
  <1> QED  BY <1>2, <1>3, <1>4, <1>5, <1>6, <1>7, <1>8, <1>10, <1>12, <1>13, <1>14, <1>15 DEF Family, Around

\* What a round of the loop does: the links of a search tree, and the same number of
\* black nodes on all ways, with more nodes below the node it goes on with.
Progress(X, B, pt, r, C, next) ==
  /\ Linked(r, X, C, next) /\ Rooted(r, next)
  /\ Cardinality(B[pt]) < Cardinality(C[next])

\* Colors RED, BLACK and BLACK for three nodes.
Recoloured(s, gp, par, uncle) == Coloured(Coloured(Coloured(s, gp, RED), par, BLACK), uncle, BLACK)

\* The three nodes differ, and so their colors are these.
LEMMA RecolouredFields ==
  ASSUME NEW s \in RBTree, NEW gp \in RbAddress, NEW par \in RbAddress, NEW uncle \in RbAddress,
         gp # par, gp # uncle, par # uncle
  PROVE  /\ SameLinks(s, Recoloured(s, gp, par, uncle))
         /\ Recoloured(s, gp, par, uncle).color[gp] = RED /\ Recoloured(s, gp, par, uncle).color[par] = BLACK
         /\ Recoloured(s, gp, par, uncle).color[uncle] = BLACK
         /\ \A a \in RbAddress : a \notin {gp, par, uncle} => Recoloured(s, gp, par, uncle).color[a] = s.color[a]
  <1>1. RED \in Color /\ BLACK \in Color
    BY DEF Color
  <1> DEFINE t == Coloured(s, gp, RED)
             u == Coloured(t, par, BLACK)
             v == Coloured(u, uncle, BLACK)
  <1>2. t \in RBTree /\ SameLinks(s, t) /\ t.color = [s.color EXCEPT ![gp] = RED]
    BY <1>1, ColouredFields DEF SameLinks
  <1> HIDE DEF t
  <1>3. u \in RBTree /\ SameLinks(t, u) /\ u.color = [t.color EXCEPT ![par] = BLACK]
    BY <1>1, <1>2, ColouredFields DEF SameLinks
  <1> HIDE DEF u
  <1>4. SameLinks(u, v) /\ v.color = [u.color EXCEPT ![uncle] = BLACK]
    BY <1>1, <1>3, ColouredFields
  <1> HIDE DEF v
  <1>5. SameLinks(s, v)
    BY <1>2, <1>3, <1>4 DEF SameLinks
  <1>6. s.color \in [RbAddress -> Color]
    BY RbFields
  <1>7. v.color[gp] = RED /\ v.color[par] = BLACK /\ v.color[uncle] = BLACK /\ \A a \in RbAddress : a \notin {gp, par, uncle} => v.color[a] = s.color[a]
    BY <1>1, <1>2, <1>3, <1>4, <1>6
  <1>8. v = Recoloured(s, gp, par, uncle)
    BY DEF v, u, t, Recoloured
  <1> QED  BY <1>5, <1>7, <1>8

\* Below gp are more nodes than below pt.
LEMMA MoreBelow ==
  ASSUME NEW s, NEW X, NEW B, Links(s, X, B), NEW a \in X, NEW c, NEW Y, IsFiniteSet(Y), B[a] \subseteq Y,
         c \in Y, c \notin B[a]
  PROVE  Cardinality(B[a]) < Cardinality(Y)
  <1>1. Cardinality(B[a]) \in Nat /\ Cardinality(Y) \in Nat
    BY LinksFinite, FS_CardinalityType
  <1>2. Cardinality(B[a]) < Cardinality(Y) \/ B[a] = Y
    BY FS_Subset, <1>1
  <1> QED  BY <1>2

\* When the uncle is red, the loop goes on with the grandparent.
LEMMA RecolouredKeeps ==
  ASSUME NEW s, NEW X, NEW B, NEW pt, Linked(s, X, B, pt), NEW par, NEW gp, NEW side, NEW uncle,
         Family(s, X, B, pt, par, gp, side, uncle), uncle # Null
  PROVE  Progress(X, B, pt, Recoloured(s, gp, par, uncle), B, gp)
  <1> DEFINE r == Recoloured(s, gp, par, uncle)
  <1>1. s \in RBTree /\ s.ok /\ Links(s, X, B) /\ Parents(s, X) /\ pt \in X /\ X \subseteq RbAddress
    BY RbAddresses, Zenon DEF Linked, Links
  <1>2. par \in X /\ gp \in X /\ uncle \in X /\ gp # par /\ uncle # par /\ uncle # gp
    BY DEF Family
  <1>3. /\ SameLinks(s, r) /\ r.color[gp] = RED /\ r.color[par] = BLACK /\ r.color[uncle] = BLACK
        /\ \A a \in RbAddress : a \notin {gp, par, uncle} => r.color[a] = s.color[a]
    BY <1>1, <1>2, RecolouredFields
  <1> HIDE DEF r
  <1>4. Links(r, X, B) /\ Parents(r, X) /\ r \in RBTree /\ r.ok /\ r.root = s.root
    BY <1>1, <1>3, SameLinksKeep DEF SameLinks
  <1>5. Rooted(r, gp)
    <2>1. s.root \in X /\ s.color[s.root] = BLACK
      BY DEF Family
    <2>2. s.root \in {gp, uncle} \/ r.color[s.root] = BLACK
      BY <1>1, <1>3, <2>1
    <2>3. CASE s.root = uncle
      BY <1>3, <1>4, <2>3 DEF Rooted
    <2> QED  BY <1>4, <2>2, <2>3 DEF Rooted
  <1>6. Cardinality(B[pt]) < Cardinality(B[gp])
    <2>1. B[pt] \subseteq B[gp] /\ gp \notin B[pt] /\ gp \in B[gp]
      BY DEF Family
    <2>2. IsFiniteSet(B[gp])
      BY <1>1, <1>2, LinksFinite
    <2> QED  BY <1>1, <2>1, <2>2, MoreBelow, Zenon
  <1> QED  BY <1>2, <1>4, <1>5, <1>6 DEF Progress, Linked, r

\* It keeps the number of black nodes, and only the grandparent may be below a red node.
LEMMA RecolouredPlain ==
  ASSUME NEW s, NEW X, NEW B, NEW pt, Linked(s, X, B, pt), NEW par, NEW gp, NEW side, NEW uncle,
         Family(s, X, B, pt, par, gp, side, uncle), uncle # Null, s.color[uncle] = RED, NEW H, Plain(s, X, H, pt)
  PROVE  \E G : Plain(Recoloured(s, gp, par, uncle), X, G, gp)
  <1> DEFINE r == Recoloured(s, gp, par, uncle)
             G == [H EXCEPT ![par] = H[par] + 1, ![uncle] = H[uncle] + 1]
  <1>1. s \in RBTree /\ Links(s, X, B) /\ Parents(s, X) /\ pt \in X /\ X \subseteq RbAddress /\ Null \notin X
    BY RbAddresses, Zenon DEF Linked, Links
  <1>2. par \in X /\ gp \in X /\ uncle \in X /\ gp # par /\ uncle # par /\ uncle # gp
    BY Zenon DEF Family
  <1>3. /\ side \in Side /\ Other(side) \in Side /\ s.kid[side][gp] = par /\ s.kid[Other(side)][gp] = uncle
        /\ s.color[par] = RED /\ par # s.root /\ s.parent[par] = gp /\ par # pt
    BY Sides DEF Family
  <1>4. /\ SameLinks(s, r) /\ r.color[gp] = RED /\ r.color[par] = BLACK /\ r.color[uncle] = BLACK
        /\ \A a \in RbAddress : a \notin {gp, par, uncle} => r.color[a] = s.color[a]
    BY <1>1, <1>2, RecolouredFields
  <1> HIDE DEF r
  <1>5. r.kid = s.kid /\ r.parent = s.parent /\ r.root = s.root
    BY <1>4 DEF SameLinks
  <1>6. s.color[gp] = BLACK
    <2>1. s.color[s.parent[par]] = BLACK
      BY <1>2, <1>3, Zenon DEF Plain
    <2> QED  BY <1>3, <2>1
  <1>7. H \in [X \cup {Null} -> Nat] /\ H[Null] = 0
    BY DEF Plain
  <1>8. /\ G \in [X \cup {Null} -> Nat] /\ G[Null] = 0 /\ G[par] = H[par] + 1 /\ G[uncle] = H[uncle] + 1
        /\ \A a \in X \cup {Null} : a # par /\ a # uncle => G[a] = H[a]
    BY <1>1, <1>2, <1>7
  <1> HIDE DEF G
  <1>9. \A a \in X, d \in Side : /\ H[a] = H[s.kid[d][a]] + (IF s.color[a] = BLACK THEN 1 ELSE 0)
                                 /\ s.kid[d][a] \in X \cup {Null}
    <2>1. \A a \in X, d \in Side : H[a] = H[s.kid[d][a]] + (IF s.color[a] = BLACK THEN 1 ELSE 0)
      BY Zenon DEF Plain
    <2>2. \A a \in X, d \in Side : s.kid[d][a] \in X \cup {Null}
      BY <1>1 DEF Links
    <2> QED  BY <2>1, <2>2, Zenon
  <1>10. \A a \in X, d \in Side : a # gp => s.kid[d][a] # par /\ s.kid[d][a] # uncle
    <2>1. s.parent[uncle] = gp /\ s.parent[par] = gp
      BY <1>1, <1>2, <1>3 DEF Parents
    <2>2. \A a \in X, d \in Side : s.kid[d][a] # Null => s.parent[s.kid[d][a]] = a
      BY <1>1 DEF Parents
    <2> QED  BY <1>1, <1>2, <2>1, <2>2
  <1>11. ASSUME NEW a \in X, NEW d \in Side
         PROVE  G[a] = G[r.kid[d][a]] + (IF r.color[a] = BLACK THEN 1 ELSE 0)
    <2>1. H[a] \in Nat /\ H[s.kid[d][a]] \in Nat /\ RED # BLACK
      BY <1>7, <1>9 DEF RED, BLACK
    <2>2. CASE a = gp
      <3>1. s.kid[d][a] = par \/ s.kid[d][a] = uncle
        BY <1>3, <2>2, Sides
      <3>2. G[gp] = H[gp] /\ H[a] = H[s.kid[d][a]] + 1 /\ G[s.kid[d][a]] = H[s.kid[d][a]] + 1
        BY <1>2, <1>6, <1>8, <1>9, <2>2, <3>1
      <3> QED  BY <1>4, <1>5, <2>1, <2>2, <3>2
    <2>3. CASE a = par \/ a = uncle
      <3>1. s.color[a] = RED /\ r.color[a] = BLACK /\ G[a] = H[a] + 1 /\ H[a] = H[s.kid[d][a]]
        BY <1>2, <1>3, <1>4, <1>8, <1>9, <2>1, <2>3
      <3>2. G[s.kid[d][a]] = H[s.kid[d][a]]
        BY <1>2, <1>8, <1>9, <1>10, <2>3
      <3> QED  BY <1>5, <2>1, <3>1, <3>2
    <2>4. CASE a \notin {gp, par, uncle}
      <3>1. r.color[a] = s.color[a] /\ G[a] = H[a] /\ G[s.kid[d][a]] = H[s.kid[d][a]]
        BY <1>1, <1>4, <1>8, <1>9, <1>10, <2>4
      <3> QED  BY <1>5, <1>9, <3>1
    <2> QED  BY <2>2, <2>3, <2>4
  <1>12. \A a \in X : r.color[a] \in {RED, BLACK}
    BY <1>1, <1>4 DEF Plain
  <1>13. ASSUME NEW a \in X, a # r.root, a # gp, r.color[a] = RED PROVE r.color[r.parent[a]] = BLACK
    <2>1. a \notin {gp, par, uncle} /\ s.color[a] = RED
      BY <1>1, <1>4, <1>13 DEF RED, BLACK
    <2>2. CASE a = pt
      <3>1. r.parent[a] = par
        BY <1>5, <2>2 DEF Family
      <3> QED  BY <1>4, <3>1, Zenon
    <2>3. CASE a # pt
      <3>1. s.color[s.parent[a]] = BLACK /\ s.parent[a] \in X
        BY <1>1, <1>5, <1>13, <2>1, <2>3 DEF Plain, Parents
      <3>2. s.parent[a] # gp
        <4> SUFFICES ASSUME s.parent[a] = gp PROVE FALSE
          OBVIOUS
        <4>1. PICK d \in Side : a = s.kid[d][gp]
          BY <1>1, <1>5, <1>13 DEF Parents
        <4> QED  BY <1>2, <1>3, <2>1, <4>1, Sides
      <3> QED  BY <1>1, <1>4, <1>5, <3>1, <3>2
    <2> QED  BY <2>2, <2>3
  <1>14. Plain(r, X, G, gp)
    BY <1>8, <1>11, <1>12, <1>13, Zenon DEF Plain
  <1> QED  BY <1>14 DEF r

\* The tree in which gp and its child up on that side are to change places.
Lined(s, X, B, up, gp, side) ==
  /\ s \in RBTree /\ s.ok /\ Links(s, X, B) /\ Parents(s, X) /\ s.root \in X /\ s.color[s.root] = BLACK
  /\ gp \in X /\ up \in X /\ side \in Side /\ s.kid[side][gp] = up

\* gp turned down from up, with their colors swapped.
Toppled(s, up, gp, side) == swapColors(rotate(s, gp, Other(side)), up, gp)

\* r is such a tree, with the nodes C below each node.
ToppledTo(s, X, B, up, gp, side, r, inner, C, from) ==
  /\ r \in RBTree /\ r.ok /\ Links(r, X, C) /\ Parents(r, X)
  /\ r.color[up] = s.color[gp] /\ r.color[gp] = s.color[up]
  /\ \A a \in RbAddress : a \notin {up, gp} => r.color[a] = s.color[a]
  /\ C[up] = B[gp]
  /\ Turning(s, gp, up, inner, s.parent[gp], Other(side), from)
  /\ Moved(s, r, gp, up, inner, s.parent[gp], Other(side), from)

\* The rotation and the swap have these effects.
LEMMA ToppledFields ==
  ASSUME NEW s, NEW X, NEW B, NEW up, NEW gp, NEW side, Lined(s, X, B, up, gp, side)
  PROVE  \E from \in Side : ToppledTo(s, X, B, up, gp, side, Toppled(s, up, gp, side), s.kid[Other(side)][up],
                                      Lowered(s, B, gp, up, s.kid[Other(side)][up], Other(side)), from)
  <1> DEFINE r == Toppled(s, up, gp, side)
             t == rotate(s, gp, Other(side))
             inner == s.kid[Other(side)][up]
             C == Lowered(s, B, gp, up, inner, Other(side))
  <1>1. s \in RBTree /\ s.ok /\ Links(s, X, B) /\ Parents(s, X) /\ gp \in X /\ up \in X /\ X \subseteq RbAddress /\ Null \notin X
    BY RbAddresses DEF Lined, Links
  <1>2. Other(side) \in Side /\ up = s.kid[Other(Other(side))][gp] /\ up # Null /\ Other(Other(side)) = side
    BY <1>1, Sides DEF Lined
  <1>3. PICK from \in Side :
           /\ Turning(s, gp, up, inner, s.parent[gp], Other(side), from)
           /\ Rotated(s, t, gp, up, inner, s.parent[gp], Other(side), from)
           /\ Links(t, X, C) /\ Parents(t, X)
    BY <1>1, <1>2, RotateKeeps, Zenon
  <1>4. t \in RBTree /\ t.ok /\ t.color = s.color
    BY <1>1, <1>3 DEF Rotated
  <1> HIDE DEF t
  <1>5. SameLinks(t, r) /\ r.color = [s.color EXCEPT ![up] = s.color[gp], ![gp] = s.color[up]]
    <2>1. r = swapColors(t, up, gp)
      BY DEF Toppled, t
    <2>2. up \in RbAddress /\ gp \in RbAddress
      BY <1>1
    <2>3. SameLinks(t, swapColors(t, up, gp)) /\ swapColors(t, up, gp).color = [t.color EXCEPT ![up] = t.color[gp], ![gp] = t.color[up]]
      BY <1>4, <2>2, SwappedFields
    <2> QED  BY <1>4, <2>1, <2>3
  <1> HIDE DEF r
  <1>6. Links(r, X, C) /\ Parents(r, X)
    BY <1>3, <1>5, SameLinksKeep, Zenon
  <1>7. r \in RBTree /\ r.ok
    BY <1>4, <1>5 DEF SameLinks
  <1>8. gp # up
    BY <1>3 DEF Turning
  <1>9. r.color[up] = s.color[gp] /\ r.color[gp] = s.color[up] /\ \A a \in RbAddress : a \notin {up, gp} => r.color[a] = s.color[a]
    <2>1. s.color \in [RbAddress -> Color] /\ up \in RbAddress /\ gp \in RbAddress
      BY <1>1, RbFields
    <2> QED  BY <1>5, <1>8, <2>1
  <1>10. C[up] = B[gp]
    <2>1. B \in [X \cup {Null} -> SUBSET X]
      BY <1>1 DEF Links
    <2> QED  BY <1>1, <1>8, <2>1 DEF Lowered
  <1> HIDE DEF C, inner
  <1>11. Moved(s, r, gp, up, inner, s.parent[gp], Other(side), from)
    <2>1. r.kid = t.kid /\ r.parent = t.parent /\ r.root = t.root
      BY <1>5 DEF SameLinks
    <2>2. Moved(s, t, gp, up, inner, s.parent[gp], Other(side), from)
      BY <1>3 DEF Rotated
    <2> QED  BY <2>1, <2>2, Zenon DEF Moved
  <1>12. ToppledTo(s, X, B, up, gp, side, r, inner, C, from)
    BY <1>3, <1>6, <1>7, <1>9, <1>10, <1>11, Zenon DEF ToppledTo
  <1> QED  BY <1>12 DEF r, C, inner

\* The loop goes on with up, in the place of gp.
LEMMA ToppledKeeps ==
  ASSUME NEW s, NEW X, NEW B, NEW up, NEW gp, NEW side, Lined(s, X, B, up, gp, side)
  PROVE  \E C : Linked(Toppled(s, up, gp, side), X, C, up) /\ Rooted(Toppled(s, up, gp, side), up) /\ C[up] = B[gp]
  <1> DEFINE r == Toppled(s, up, gp, side)
             inner == s.kid[Other(side)][up]
             C == Lowered(s, B, gp, up, inner, Other(side))
  <1>1. PICK from \in Side : ToppledTo(s, X, B, up, gp, side, r, inner, C, from)
    BY ToppledFields, Zenon
  <1> HIDE DEF r, C, inner
  <1>2. s.root \in X /\ s.color[s.root] = BLACK /\ Parents(s, X) /\ up \in X /\ gp \in X /\ X \subseteq RbAddress /\ Null \notin X
    BY RbAddresses DEF Lined, Links
  <1>3. s.parent[up] = gp
    BY <1>2 DEF Lined, Parents
  <1>4. up # s.root
    BY <1>2, <1>3 DEF Parents
  <1>5. r.root = IF s.parent[gp] = Null THEN up ELSE s.root
    BY <1>1 DEF ToppledTo, Moved
  <1>6. Rooted(r, up)
    <2>1. CASE s.parent[gp] = Null
      BY <1>5, <2>1 DEF Rooted
    <2>2. CASE s.parent[gp] # Null
      <3>1. s.root # gp
        BY <1>2, <2>2 DEF Parents
      <3>2. r.color[s.root] = s.color[s.root]
        BY <1>1, <1>2, <1>4, <3>1 DEF ToppledTo
      <3> QED  BY <1>2, <1>5, <2>2, <3>2 DEF Rooted
    <2> QED  BY <2>1, <2>2
  <1>7. Linked(r, X, C, up) /\ C[up] = B[gp]
    BY <1>1, <1>2 DEF Linked, ToppledTo
  <1> QED  BY <1>6, <1>7 DEF r

\* When up and its child e on that side are the only red nodes one above the other,
\* and the other child of gp is not red, all is well when gp is below up.
LEMMA ToppledPlain ==
  ASSUME NEW s, NEW X, NEW B, NEW up, NEW gp, NEW side, Lined(s, X, B, up, gp, side), NEW H, NEW e \in X,
         s.kid[side][up] = e, Plain(s, X, H, e), s.color[up] = RED,
         s.kid[Other(side)][gp] # Null => s.color[s.kid[Other(side)][gp]] # RED
  PROVE  \E G : Plain(Toppled(s, up, gp, side), X, G, up)
  <1> DEFINE r == Toppled(s, up, gp, side)
             o == Other(side)
             inner == s.kid[o][up]
             uncle == s.kid[o][gp]
             above == s.parent[gp]
             C == Lowered(s, B, gp, up, inner, o)
             G == [H EXCEPT ![up] = H[gp], ![gp] = H[up]]
  <1>1. PICK from \in Side : ToppledTo(s, X, B, up, gp, side, r, inner, C, from)
    BY ToppledFields, Zenon
  <1> HIDE DEF r, C
  <1>2. /\ Links(s, X, B) /\ Parents(s, X) /\ up \in X /\ gp \in X /\ X \subseteq RbAddress /\ Null \notin X
        /\ side \in Side /\ o \in Side /\ o # side /\ Other(o) = side /\ s.kid[side][gp] = up
    BY RbAddresses, Sides DEF Lined, Links
  <1>3. inner \in X \cup {Null} /\ uncle \in X \cup {Null} /\ \A a \in X, d \in Side : s.kid[d][a] \in X \cup {Null}
    BY <1>2 DEF Links
  <1>4. /\ r.color[up] = s.color[gp] /\ r.color[gp] = s.color[up] /\ \A a \in X : a \notin {up, gp} => r.color[a] = s.color[a]
    BY <1>1, <1>2 DEF ToppledTo
  <1>5. gp # up /\ up # inner /\ gp # inner /\ up # above /\ gp # above
    BY <1>1 DEF ToppledTo, Turning
  <1>6. /\ r.kid[o][up] = gp /\ r.kid[side][gp] = inner /\ (above # Null => r.kid[from][above] = up)
        /\ \A f \in Side, a \in X : <<f, a>> \notin {<<o, up>>, <<side, gp>>, <<from, above>>} => r.kid[f][a] = s.kid[f][a]
        /\ r.parent[up] = above /\ r.parent[gp] = up /\ (inner # Null => r.parent[inner] = gp)
        /\ \A a \in X : a \notin {up, gp, inner} => r.parent[a] = s.parent[a]
        /\ r.root = IF above = Null THEN up ELSE s.root
    BY <1>1, <1>2 DEF ToppledTo, Moved
  <1>7. above # Null => s.kid[from][above] = gp
    BY <1>1 DEF ToppledTo, Turning
  <1>8. \A a \in X, d \in Side : s.kid[d][a] # Null => s.parent[s.kid[d][a]] = a
    BY <1>2 DEF Parents
  <1>9. s.parent[up] = gp /\ s.parent[e] = up /\ (inner # Null => s.parent[inner] = up) /\ (uncle # Null => s.parent[uncle] = gp)
    BY <1>2, <1>8
  <1>10. up # s.root
    BY <1>2, <1>9 DEF Parents
  <1>11. e # up /\ e # gp /\ e # inner /\ uncle # up /\ uncle # gp
    <2>1. e \in B[e] /\ e \in B[up] /\ e # up /\ e # inner
      BY <1>2, ChildBelow
    <2>2. up # uncle /\ gp \notin B[up]
      BY <1>2, ChildBelow
    <2>3. uncle # Null => uncle # gp
      BY <1>2, LinksBelow
    <2> QED  BY <1>2, <2>1, <2>2, <2>3
  <1>12. s.color[gp] = BLACK
    <2>1. s.color[s.parent[up]] = BLACK
      BY <1>2, <1>10, <1>11, Zenon DEF Plain
    <2> QED  BY <1>9, <2>1
  <1>13. /\ \A a \in X : s.color[a] \in {RED, BLACK}
         /\ H \in [X \cup {Null} -> Nat] /\ H[Null] = 0
         /\ \A a \in X, d \in Side : H[a] = H[s.kid[d][a]] + (IF s.color[a] = BLACK THEN 1 ELSE 0)
         /\ \A a \in X : a # s.root /\ a # e /\ s.color[a] = RED => s.color[s.parent[a]] = BLACK
    BY Zenon DEF Plain
  <1>14. /\ G \in [X \cup {Null} -> Nat] /\ G[up] = H[gp] /\ G[gp] = H[up]
         /\ \A a \in X \cup {Null} : a # up /\ a # gp => G[a] = H[a]
    BY <1>2, <1>5, <1>13
  <1> HIDE DEF G
  <1>15. RED # BLACK /\ H[up] \in Nat
    BY <1>2, <1>13 DEF RED, BLACK
  <1>16. H[up] = H[e] /\ H[up] = H[inner] /\ H[gp] = H[up] + 1 /\ H[gp] = H[uncle] + 1
    <2>1. H[up] = H[s.kid[side][up]] + 0 /\ H[up] = H[s.kid[o][up]] + 0
      BY <1>2, <1>13, <1>15
    <2>2. H[gp] = H[s.kid[side][gp]] + 1 /\ H[gp] = H[s.kid[o][gp]] + 1
      BY <1>2, <1>12, <1>13
    <2>3. H[e] \in Nat /\ H[inner] \in Nat
      BY <1>3, <1>13
    <2> QED  BY <1>2, <2>1, <2>2, <2>3
  <1>17. G[Null] = 0 /\ G[e] = H[e] /\ G[inner] = H[inner] /\ G[uncle] = H[uncle]
    BY <1>2, <1>3, <1>5, <1>11, <1>13, <1>14
  <1>18. ASSUME NEW a \in X, NEW d \in Side PROVE G[a] = G[r.kid[d][a]] + (IF r.color[a] = BLACK THEN 1 ELSE 0)
    <2>1. CASE a = up
      <3>1. r.kid[side][up] = e
        BY <1>2, <1>5, <1>6
      <3>2. r.kid[d][a] \in {e, gp}
        BY <1>2, <1>6, <2>1, <3>1, Sides
      <3>3. G[r.kid[d][a]] = H[up] /\ r.color[a] = BLACK /\ G[a] = H[up] + 1
        BY <1>4, <1>12, <1>14, <1>16, <1>17, <2>1, <3>2
      <3> QED  BY <3>3
    <2>2. CASE a = gp
      <3>1. r.kid[o][gp] = uncle
        BY <1>2, <1>5, <1>6
      <3>2. r.kid[d][a] \in {inner, uncle}
        BY <1>2, <1>6, <2>2, <3>1, Sides
      <3>3. H[uncle] = H[up]
        BY <1>3, <1>13, <1>15, <1>16
      <3>4. G[r.kid[d][a]] = H[up] /\ r.color[a] # BLACK /\ G[a] = H[up]
        BY <1>4, <1>14, <1>15, <1>16, <1>17, <2>2, <3>2, <3>3
      <3> QED  BY <1>15, <3>4
    <2>3. CASE a \notin {up, gp}
      <3>1. G[a] = H[a] /\ r.color[a] = s.color[a]
        BY <1>4, <1>14, <2>3
      <3>2. G[r.kid[d][a]] = H[s.kid[d][a]]
        <4>1. CASE <<d, a>> = <<from, above>>
          BY <1>2, <1>6, <1>7, <1>14, <4>1
        <4>2. CASE <<d, a>> # <<from, above>>
          <5>1. r.kid[d][a] = s.kid[d][a]
            BY <1>6, <2>3, <4>2
          <5>2. s.kid[d][a] # up
            BY <1>2, <1>8, <1>9, <2>3
          <5>3. s.kid[d][a] # gp
            <6> SUFFICES ASSUME s.kid[d][a] = gp PROVE FALSE
              OBVIOUS
            <6>1. above = a /\ above # Null
              BY <1>2, <1>8
            <6>2. d = Other(from) /\ s.kid[from][a] = gp
              BY <1>7, <4>2, <6>1, Sides
            <6> QED  BY <1>2, <6>2, ChildBelow
          <5> QED  BY <1>3, <1>14, <5>1, <5>2, <5>3
        <4> QED  BY <4>1, <4>2
      <3> QED  BY <1>13, <3>1, <3>2
    <2> QED  BY <2>1, <2>2, <2>3
  <1>19. \A a \in X : r.color[a] \in {RED, BLACK}
    BY <1>4, <1>12, <1>13, <1>15
  <1>20. ASSUME NEW a \in X, a # r.root, a # up, r.color[a] = RED PROVE r.color[r.parent[a]] = BLACK
    <2>1. CASE a = gp \/ a = e
      <3>1. r.parent[a] = up
        BY <1>6, <1>9, <1>11, <2>1
      <3> QED  BY <1>4, <1>12, <3>1
    <2>2. CASE a \notin {gp, e}
      <3>1. s.color[a] = RED
        BY <1>4, <1>20, <2>2
      <3>2. a # s.root
        <4>1. above = Null => s.root = gp
          BY <1>2 DEF Parents
        <4> QED  BY <1>6, <1>20, <2>2, <4>1
      <3>3. s.color[s.parent[a]] = BLACK /\ s.parent[a] \in X
        BY <1>2, <1>13, <2>2, <3>1, <3>2 DEF Parents
      <3>4. s.parent[a] # up
        BY <1>15, <3>3
      <3>5. a # inner
        BY <1>2, <1>9, <3>4
      <3>6. s.parent[a] # gp
        <4> SUFFICES ASSUME s.parent[a] = gp PROVE FALSE
          OBVIOUS
        <4>1. PICK d \in Side : a = s.kid[d][gp]
          BY <1>2, <3>2 DEF Parents
        <4>2. a = uncle
          BY <1>2, <1>20, <4>1, Sides
        <4> QED  BY <1>2, <3>1, <4>2
      <3> QED  BY <1>4, <1>6, <1>20, <2>2, <3>3, <3>4, <3>5, <3>6
    <2> QED  BY <2>1, <2>2
  <1>21. Plain(r, X, G, up)
    BY <1>14, <1>17, <1>18, <1>19, <1>20, Zenon DEF Plain
  <1> QED  BY <1>21 DEF r

\* When pt is on the inner side of its parent, the first rotation brings it up.
Straight(s, t, X, B, C, pt, par, gp, side, uncle) ==
  /\ Lined(t, X, C, pt, gp, side) /\ C[gp] = B[gp] /\ t.color = s.color
  /\ t.kid[side][pt] = par /\ t.kid[Other(side)][gp] = uncle
  /\ Rotated(s, t, par, pt, s.kid[side][pt], gp, side, side)

\* The loop's second rotation then finds pt where its parent was.
LEMMA Straightened ==
  ASSUME NEW s, NEW X, NEW B, NEW pt, Linked(s, X, B, pt), NEW par, NEW gp, NEW side, NEW uncle,
         Family(s, X, B, pt, par, gp, side, uncle), pt = s.kid[Other(side)][par]
  PROVE  \E C : Straight(s, rotate(s, par, side), X, B, C, pt, par, gp, side, uncle)
  <1> DEFINE t == rotate(s, par, side)
             inner == s.kid[side][pt]
             C == Lowered(s, B, par, pt, inner, side)
  <1>1. s \in RBTree /\ s.ok /\ Links(s, X, B) /\ Parents(s, X) /\ pt \in X /\ X \subseteq RbAddress /\ Null \notin X
    BY RbAddresses, Zenon DEF Linked, Links
  <1>2. /\ side \in Side /\ Other(side) \in Side /\ Other(side) # side /\ par \in X /\ gp \in X
        /\ gp # par /\ gp # pt /\ pt # par
    BY Sides, Zenon DEF Family
  <1>3. s.parent[par] = gp /\ s.kid[side][gp] = par /\ s.kid[Other(side)][gp] = uncle
    BY DEF Family
  <1>4. PICK from \in Side :
           /\ Turning(s, par, pt, inner, s.parent[par], side, from)
           /\ Rotated(s, t, par, pt, inner, s.parent[par], side, from)
           /\ Links(t, X, C) /\ Parents(t, X)
    <2>1. pt # Null
      BY <1>1
    <2> QED  BY <1>1, <1>2, <2>1, RotateKeeps, Zenon
  <1> HIDE DEF t
  <1>5. from = side
    <2> SUFFICES ASSUME from # side PROVE FALSE
      OBVIOUS
    <2>1. from = Other(side)
      BY <1>2, Sides
    <2>2. s.kid[from][gp] = par
      BY <1>1, <1>2, <1>3, <1>4 DEF Turning
    <2> QED  BY <1>1, <1>2, <1>3, <2>1, <2>2, ChildBelow
  <1>6. Rotated(s, t, par, pt, inner, gp, side, side)
    BY <1>3, <1>4, <1>5
  <1>7. C[gp] = B[gp]
    <2>1. B \in [X \cup {Null} -> SUBSET X]
      BY <1>1 DEF Links
    <2> QED  BY <1>2, <2>1 DEF Lowered
  <1> HIDE DEF C
  <1>8. t \in RBTree /\ t.color = s.color /\ t.ok = s.ok /\ t.root = s.root /\ t.kid[side][pt] = par /\ t.kid[side][gp] = pt
    BY <1>1, <1>2, <1>6 DEF Rotated, Moved
  <1>9. t.kid[Other(side)][gp] = uncle
    BY <1>1, <1>2, <1>3, <1>6, Zenon DEF Rotated, Moved
  <1>10. s.root \in X /\ s.color[s.root] = BLACK
    BY DEF Family
  <1>11. Lined(t, X, C, pt, gp, side)
    BY <1>1, <1>2, <1>4, <1>8, <1>10 DEF Lined
  <1>12. Straight(s, t, X, B, C, pt, par, gp, side, uncle)
    BY <1>6, <1>7, <1>8, <1>9, <1>11 DEF Straight
  <1> QED  BY <1>12 DEF t

\* The first rotation exchanges two red nodes.
LEMMA StraightPlain ==
  ASSUME NEW s, NEW X, NEW B, NEW pt, Linked(s, X, B, pt), NEW par, NEW gp, NEW side, NEW uncle,
         Family(s, X, B, pt, par, gp, side, uncle), pt = s.kid[Other(side)][par], s.color[pt] = RED,
         NEW t, NEW C, Straight(s, t, X, B, C, pt, par, gp, side, uncle), NEW H, Plain(s, X, H, pt)
  PROVE  Plain(t, X, H, par)
  <1> DEFINE o == Other(side)
             inner == s.kid[side][pt]
  <1>1. s \in RBTree /\ Links(s, X, B) /\ Parents(s, X) /\ pt \in X /\ X \subseteq RbAddress /\ Null \notin X
    BY RbAddresses, Zenon DEF Linked, Links
  <1>2. /\ side \in Side /\ o \in Side /\ o # side /\ par \in X /\ gp \in X
        /\ gp # par /\ gp # pt /\ pt # par /\ s.color[par] = RED /\ par # s.root
    BY Sides, Zenon DEF Family
  <1>3. s.parent[par] = gp /\ s.kid[side][gp] = par /\ s.kid[o][par] = pt /\ s.parent[pt] = par
    BY DEF Family
  <1>4. /\ t.color = s.color /\ t.root = s.root
        /\ t.kid[side][pt] = par /\ t.kid[o][par] = inner /\ t.kid[side][gp] = pt
        /\ \A e \in Side, a \in X : <<e, a>> \notin {<<side, pt>>, <<o, par>>, <<side, gp>>} => t.kid[e][a] = s.kid[e][a]
        /\ t.parent[pt] = gp /\ t.parent[par] = pt /\ (inner # Null => t.parent[inner] = par)
        /\ \A a \in X : a \notin {pt, par, inner} => t.parent[a] = s.parent[a]
    BY <1>1, <1>2 DEF Straight, Rotated, Moved
  <1>5. /\ \A a \in X : s.color[a] \in {RED, BLACK}
        /\ H \in [X \cup {Null} -> Nat] /\ H[Null] = 0
        /\ \A a \in X, d \in Side : H[a] = H[s.kid[d][a]] + (IF s.color[a] = BLACK THEN 1 ELSE 0)
        /\ \A a \in X : a # s.root /\ a # pt /\ s.color[a] = RED => s.color[s.parent[a]] = BLACK
    BY Zenon DEF Plain
  <1>6. RED # BLACK
    BY DEF RED, BLACK
  <1>7. inner \in X \cup {Null}
    BY <1>1, <1>2 DEF Links
  <1>8. H[pt] = H[inner] /\ H[par] = H[pt]
    <2>1. H[pt] = H[inner] + 0 /\ H[par] = H[s.kid[o][par]] + 0
      BY <1>1, <1>2, <1>5, <1>6
    <2>2. H[inner] \in Nat /\ H[pt] \in Nat
      BY <1>1, <1>5, <1>7
    <2> QED  BY <1>3, <2>1, <2>2
  <1>9. \A a \in X, d \in Side : H[t.kid[d][a]] = H[s.kid[d][a]]
    <2> SUFFICES ASSUME NEW a \in X, NEW d \in Side PROVE H[t.kid[d][a]] = H[s.kid[d][a]]
      OBVIOUS
    <2>1. CASE <<d, a>> = <<side, pt>>
      BY <1>4, <1>8, <2>1
    <2>2. CASE <<d, a>> = <<o, par>>
      BY <1>3, <1>4, <1>8, <2>2
    <2>3. CASE <<d, a>> = <<side, gp>>
      BY <1>3, <1>4, <1>8, <2>3
    <2> QED  BY <1>4, <2>1, <2>2, <2>3
  <1>10. \A a \in X, d \in Side : H[a] = H[t.kid[d][a]] + (IF t.color[a] = BLACK THEN 1 ELSE 0)
    BY <1>4, <1>5, <1>9
  <1>11. ASSUME NEW a \in X, a # t.root, a # par, t.color[a] = RED PROVE t.color[t.parent[a]] = BLACK
    <2>1. s.color[gp] = BLACK
      BY <1>2, <1>3, <1>5
    <2>2. CASE a = pt
      BY <1>4, <2>1, <2>2
    <2>3. CASE a = inner
      <3>1. s.parent[a] = pt
        BY <1>1, <1>2, <2>3 DEF Parents
      <3>2. a # pt
        BY <1>1, <1>2, <2>3, ChildBelow
      <3> QED  BY <1>4, <1>5, <1>6, <1>11, <3>1, <3>2
    <2>4. CASE a \notin {pt, inner}
      BY <1>4, <1>5, <1>11, <2>4
    <2> QED  BY <2>2, <2>3, <2>4
  <1> QED  BY <1>4, <1>5, <1>10, <1>11, Zenon DEF Plain

\* The three ways through the body of the loop.
Ways(s, pt, par, gp, side, uncle) ==
  /\ Around(s, pt, par, gp, side, uncle)
  /\ uncle # Null /\ s.color[uncle] = RED => Repaired(s, pt) = <<Recoloured(s, gp, par, uncle), gp>>
  /\ ~ (uncle # Null /\ s.color[uncle] = RED) /\ pt = s.kid[Other(side)][par]
       => Repaired(s, pt) = <<Toppled(rotate(s, par, side), pt, gp, side), pt>>
  /\ ~ (uncle # Null /\ s.color[uncle] = RED) /\ pt # s.kid[Other(side)][par]
       => Repaired(s, pt) = <<Toppled(s, par, gp, side), par>>

\* It takes one of them.
LEMMA RepairedCases ==
  ASSUME NEW s, NEW pt
  PROVE  \E par, gp, side, uncle : Ways(s, pt, par, gp, side, uncle)
  <1> DEFINE par == s.parent[pt]
             gp == s.parent[par]
             side == IF par = s.kid["left"][gp] THEN "left" ELSE "right"
             uncle == s.kid[Other(side)][gp]
             straight == IF pt = s.kid[Other(side)][par] THEN rotate(s, par, side) ELSE s
             upper == IF pt = s.kid[Other(side)][par] THEN pt ELSE par
  <1>1. Around(s, pt, par, gp, side, uncle)
    BY DEF Around
  <1>2. Repaired(s, pt) = IF uncle # Null /\ s.color[uncle] = RED THEN <<Recoloured(s, gp, par, uncle), gp>>
                          ELSE <<Toppled(straight, upper, gp, side), upper>>
    BY Zenon DEF Repaired, Recoloured, Toppled
  <1>3. pt = s.kid[Other(side)][par] => straight = rotate(s, par, side) /\ upper = pt
    BY Zenon
  <1>4. pt # s.kid[Other(side)][par] => straight = s /\ upper = par
    BY Zenon
  <1> HIDE DEF par, gp, side, uncle, straight, upper
  <1>5. uncle # Null /\ s.color[uncle] = RED => Repaired(s, pt) = <<Recoloured(s, gp, par, uncle), gp>>
    BY <1>2
  <1>6. ~ (uncle # Null /\ s.color[uncle] = RED) => Repaired(s, pt) = <<Toppled(straight, upper, gp, side), upper>>
    BY <1>2
  <1> QED  BY <1>1, <1>3, <1>4, <1>5, <1>6, Zenon DEF Ways

\* c is where the loop has come to in a tree of the nodes X, and if clean says so no
\* node's color was ever anything but RED and BLACK.
Fixing(c, X, clean, B) ==
  /\ c = <<c[1], c[2]>> /\ Linked(c[1], X, B, c[2]) /\ Rooted(c[1], c[2])
  /\ clean => \E H : Plain(c[1], X, H, c[2])

\* A round of the loop keeps the tree and comes to a node with more below it.
LEMMA RepairedKeeps ==
  ASSUME NEW c, NEW X, NEW clean, NEW B, Fixing(c, X, clean, B), Violated(c[1], c[2])
  PROVE  \E C : Fixing(Repaired(c[1], c[2]), X, clean, C) /\ Cardinality(B[c[2]]) < Cardinality(C[Repaired(c[1], c[2])[2]])
  <1> DEFINE s == c[1]
             pt == c[2]
             r == Repaired(s, pt)
  <1> HIDE DEF s, pt, r
  <1>1. Linked(s, X, B, pt) /\ Rooted(s, pt) /\ Violated(s, pt) /\ (clean => \E H : Plain(s, X, H, pt))
    BY DEF Fixing, s, pt
  <1>2. Links(s, X, B) /\ pt \in X /\ s \in RBTree /\ s.ok /\ Parents(s, X)
    BY <1>1 DEF Linked
  <1>3. PICK par, gp, side, uncle : Ways(s, pt, par, gp, side, uncle)
    BY RepairedCases, Zenon
  <1>4. Family(s, X, B, pt, par, gp, side, uncle)
    BY <1>1, <1>3, FamilyOf, Zenon DEF Ways
  <1>5. B[pt] \subseteq B[gp] /\ gp \notin B[pt] /\ gp \in B[gp] /\ gp \in X /\ par \in X /\ side \in Side
    BY <1>4, Zenon DEF Family
  <1>6. Cardinality(B[pt]) < Cardinality(B[gp])
    <2>1. IsFiniteSet(B[gp])
      BY <1>2, <1>5, LinksFinite
    <2> QED  BY <1>2, <1>5, <2>1, MoreBelow
  <1>7. ASSUME NEW H, Plain(s, X, H, pt) PROVE s.color[pt] = RED
    BY <1>1, <1>2, <1>7 DEF Plain, Violated
  <1> SUFFICES \E C : Fixing(r, X, clean, C) /\ Cardinality(B[pt]) < Cardinality(C[r[2]])
    BY DEF r, s, pt
  <1>8. CASE uncle # Null /\ s.color[uncle] = RED
    <2>1. r = <<Recoloured(s, gp, par, uncle), gp>> /\ r[1] = Recoloured(s, gp, par, uncle) /\ r[2] = gp
      BY <1>3, <1>8 DEF r, Ways
    <2>2. Progress(X, B, pt, r[1], B, r[2])
      BY <1>1, <1>4, <1>8, <2>1, RecolouredKeeps, Zenon
    <2>3. ASSUME clean PROVE \E G : Plain(r[1], X, G, r[2])
      BY <1>1, <1>4, <1>8, <2>1, <2>3, RecolouredPlain, Zenon
    <2>4. Fixing(r, X, clean, B) /\ Cardinality(B[pt]) < Cardinality(B[r[2]])
      BY <2>1, <2>2, <2>3 DEF Fixing, Progress
    <2> QED  BY <2>4
  <1>9. CASE ~ (uncle # Null /\ s.color[uncle] = RED) /\ pt = s.kid[Other(side)][par]
    <2> DEFINE t == rotate(s, par, side)
    <2>1. r = <<Toppled(t, pt, gp, side), pt>> /\ r[1] = Toppled(t, pt, gp, side) /\ r[2] = pt
      BY <1>3, <1>9 DEF r, Ways
    <2>2. PICK C : Straight(s, t, X, B, C, pt, par, gp, side, uncle)
      BY <1>1, <1>4, <1>9, Straightened, Zenon
    <2> HIDE DEF t
    <2>3. Lined(t, X, C, pt, gp, side) /\ C[gp] = B[gp]
      BY <2>2, Zenon DEF Straight
    <2>4. PICK D : Linked(r[1], X, D, pt) /\ Rooted(r[1], pt) /\ D[pt] = C[gp]
      <3>1. \E D : Linked(Toppled(t, pt, gp, side), X, D, pt) /\ Rooted(Toppled(t, pt, gp, side), pt) /\ D[pt] = C[gp]
        BY <2>3, ToppledKeeps
      <3> QED  BY <2>1, <3>1
    <2>5. ASSUME clean PROVE \E G : Plain(r[1], X, G, r[2])
      <3>1. PICK H : Plain(s, X, H, pt)
        BY <1>1, <2>5
      <3>2. s.color[pt] = RED
        BY <1>7, <3>1
      <3>3. Plain(t, X, H, par)
        BY <1>1, <1>4, <1>9, <2>2, <3>1, <3>2, StraightPlain
      <3>4. t.kid[side][pt] = par /\ t.kid[Other(side)][gp] = uncle /\ t.color = s.color
        BY <2>2, Zenon DEF Straight
      <3>5. t.color[pt] = RED /\ (t.kid[Other(side)][gp] # Null => t.color[t.kid[Other(side)][gp]] # RED)
        BY <1>9, <3>2, <3>4
      <3> QED  BY <1>5, <2>1, <2>3, <3>3, <3>4, <3>5, ToppledPlain, Zenon
    <2>6. Fixing(r, X, clean, D) /\ Cardinality(B[pt]) < Cardinality(D[r[2]])
      BY <1>6, <2>1, <2>3, <2>4, <2>5 DEF Fixing
    <2> QED  BY <2>6
  <1>10. CASE ~ (uncle # Null /\ s.color[uncle] = RED) /\ pt # s.kid[Other(side)][par]
    <2>1. r = <<Toppled(s, par, gp, side), par>> /\ r[1] = Toppled(s, par, gp, side) /\ r[2] = par
      BY <1>3, <1>10 DEF r, Ways
    <2>2. pt = s.kid[side][par]
      BY <1>4, <1>10, Zenon DEF Family
    <2>3. Lined(s, X, B, par, gp, side)
      BY <1>2, <1>4 DEF Lined, Family
    <2>4. PICK D : Linked(r[1], X, D, par) /\ Rooted(r[1], par) /\ D[par] = B[gp]
      <3>1. \E D : Linked(Toppled(s, par, gp, side), X, D, par) /\ Rooted(Toppled(s, par, gp, side), par) /\ D[par] = B[gp]
        BY <2>3, ToppledKeeps
      <3> QED  BY <2>1, <3>1
    <2>5. ASSUME clean PROVE \E G : Plain(r[1], X, G, r[2])
      <3>1. PICK H : Plain(s, X, H, pt)
        BY <1>1, <2>5
      <3>2. s.color[par] = RED /\ s.kid[Other(side)][gp] = uncle
        BY <1>4, Zenon DEF Family
      <3>3. s.kid[Other(side)][gp] # Null => s.color[s.kid[Other(side)][gp]] # RED
        BY <1>10, <3>2
      <3>4. s.kid[side][par] = pt
        BY <2>2
      <3> QED  BY <1>2, <2>1, <2>3, <3>1, <3>2, <3>3, <3>4, ToppledPlain, Zenon
    <2>6. Fixing(r, X, clean, D) /\ Cardinality(B[pt]) < Cardinality(D[r[2]])
      BY <1>6, <2>1, <2>4, <2>5 DEF Fixing
    <2> QED  BY <2>6
  <1> QED  BY <1>8, <1>9, <1>10

\* The rounds of fixViolation from s and pt.
FixRounds(s, pt, C) == C = [n \in Nat |-> IF n = 0 THEN <<s, pt>> ELSE FixRound(C[n - 1])]

\* The loop ends, within RbRounds rounds, with a search tree of the same nodes.
LEMMA FixEnds ==
  ASSUME NEW s, NEW pt, NEW X, NEW clean, NEW A, Fixing(<<s, pt>>, X, clean, A)
  PROVE  \E c, B : Fixing(c, X, clean, B) /\ ~ Violated(c[1], c[2]) /\ fixViolation(s, pt) = Fixed(c)
  <1> DEFINE Y == {c \in RBTree \X RbAddress : \E B : Fixing(c, X, clean, B)}
             F == [c \in Y |-> FixRound(c)]
             x == <<s, pt>>
             C == CHOOSE D : FixRounds(s, pt, D)
  <1>1. ASSUME NEW c, NEW B, Fixing(c, X, clean, B) PROVE c \in Y /\ c[2] \in X
    <2>1. c[1] \in RBTree /\ c[2] \in RbAddress /\ c[2] \in X
      BY <1>1, RbAddresses DEF Fixing, Linked, Links
    <2>2. c = <<c[1], c[2]>>
      BY <1>1 DEF Fixing
    <2>3. c \in RBTree \X RbAddress
      BY <2>1, <2>2
    <2> QED  BY <1>1, <2>1, <2>3
  <1>2. ASSUME NEW c \in Y PROVE FixRound(c) \in Y
    <2>1. PICK B : Fixing(c, X, clean, B)
      OBVIOUS
    <2>2. CASE Violated(c[1], c[2])
      <3>1. FixRound(c) = Repaired(c[1], c[2])
        BY <2>2 DEF FixRound
      <3>2. PICK D : Fixing(Repaired(c[1], c[2]), X, clean, D)
        BY <2>1, <2>2, RepairedKeeps
      <3> QED  BY <1>1, <3>1, <3>2
    <2>3. CASE ~ Violated(c[1], c[2])
      BY <2>3 DEF FixRound
    <2> QED  BY <2>2, <2>3
  <1>3. x \in Y
    BY <1>1
  <1>4. fixViolation(s, pt) = Fixed(C[RbRounds])
    BY Zenon DEF fixViolation, FixRounds
  <1>5. F \in [Y -> Y] /\ \A c \in Y : F[c] = FixRound(c)
    BY <1>2
  <1> HIDE DEF F, Y
  <1>6. \E D : FixRounds(s, pt, D)
    <2>1. PICK D \in [Nat -> Y] : Recursion(F, x, D)
      BY <1>3, <1>5, RecursionExists
    <2>2. \A n \in Nat : n # 0 => F[D[n - 1]] = FixRound(D[n - 1])
      BY <1>5
    <2>3. D = [n \in Nat |-> IF n = 0 THEN x ELSE FixRound(D[n - 1])]
      BY <2>1, <2>2 DEF Recursion
    <2> QED  BY <2>3 DEF FixRounds
  <1>7. FixRounds(s, pt, C)
    BY <1>6, Zenon
  <1> HIDE DEF C
  <1>8. C[0] = x /\ \A n \in Nat : C[n + 1] = FixRound(C[n])
    <2>1. C = [n \in Nat |-> IF n = 0 THEN x ELSE FixRound(C[n - 1])]
      BY <1>7 DEF FixRounds
    <2>2. ASSUME NEW n \in Nat PROVE C[n + 1] = FixRound(C[n])
      <3>1. n + 1 \in Nat /\ n + 1 # 0 /\ (n + 1) - 1 = n
        OBVIOUS
      <3>2. C[n + 1] = FixRound(C[(n + 1) - 1])
        BY <2>1, <3>1
      <3> QED  BY <3>1, <3>2
    <2> QED  BY <2>1, <2>2
  <1> DEFINE Done(n, B) == Fixing(C[n], X, clean, B) /\ (Violated(C[n][1], C[n][2]) => n < Cardinality(B[C[n][2]]))
             S == {n \in Nat : \E B : Done(n, B)}
  <1>9. 0 \in S
    <2>1. pt \in X /\ Links(s, X, A)
      BY DEF Fixing, Linked
    <2>2. pt \in A[pt] /\ IsFiniteSet(A[pt])
      BY <2>1, LinksBelow, LinksFinite, Sides
    <2>3. Cardinality(A[pt]) \in Nat /\ Cardinality(A[pt]) # 0
      BY <2>2, FS_CardinalityType, FS_EmptySet
    <2>4. Done(0, A)
      BY <1>8, <2>3
    <2> QED  BY <2>4
  <1>10. ASSUME NEW n \in Nat, n \in S PROVE n + 1 \in S
    <2>1. PICK B : Done(n, B)
      BY <1>10
    <2>2. CASE Violated(C[n][1], C[n][2])
      <3>1. C[n + 1] = Repaired(C[n][1], C[n][2])
        BY <1>8, <2>2 DEF FixRound
      <3>2. PICK D : Fixing(C[n + 1], X, clean, D) /\ Cardinality(B[C[n][2]]) < Cardinality(D[C[n + 1][2]])
        BY <2>1, <2>2, <3>1, RepairedKeeps
      <3>3. Cardinality(D[C[n + 1][2]]) \in Nat /\ Cardinality(B[C[n][2]]) \in Nat
        <4>1. Links(C[n + 1][1], X, D) /\ C[n + 1][2] \in X /\ Links(C[n][1], X, B) /\ C[n][2] \in X
          BY <2>1, <3>2 DEF Fixing, Linked
        <4> QED  BY <4>1, LinksFinite
      <3>4. Done(n + 1, D)
        BY <2>1, <2>2, <3>2, <3>3
      <3> QED  BY <3>4
    <2>3. CASE ~ Violated(C[n][1], C[n][2])
      <3>1. C[n + 1] = C[n]
        BY <1>8, <2>3 DEF FixRound
      <3>2. Done(n + 1, B)
        BY <2>1, <2>3, <3>1
      <3> QED  BY <3>2
    <2> QED  BY <2>2, <2>3
  <1>11. \A n \in Nat : n \in S
    <2> HIDE DEF S
    <2> QED  BY <1>9, <1>10, AllNaturals
  <1>12. RbRounds \in Nat /\ RbRounds = Cardinality(RbKeys) + 1 /\ Cardinality(RbKeys) \in Nat
    BY RbAssumption, FS_CardinalityType DEF RbRounds
  <1>13. PICK B : Done(RbRounds, B)
    BY <1>11, <1>12
  <1>14. ~ Violated(C[RbRounds][1], C[RbRounds][2])
    <2>1. Links(C[RbRounds][1], X, B) /\ C[RbRounds][2] \in X /\ X \subseteq RbKeys
      BY <1>13 DEF Fixing, Linked, Links
    <2>2. Cardinality(B[C[RbRounds][2]]) <= Cardinality(X) /\ Cardinality(X) <= Cardinality(RbKeys) /\ Cardinality(X) \in Nat
          /\ Cardinality(B[C[RbRounds][2]]) \in Nat
      BY <2>1, LinksFinite, RbAssumption, FS_Subset, FS_CardinalityType
    <2> QED  BY <1>12, <1>13, <2>2
  <1> QED  BY <1>4, <1>13, <1>14

\* A search tree of the nodes X with a black root, in which no red node has a red
\* parent and all ways have the same number of black nodes, if clean.
Sound(s, X, clean) ==
  /\ s \in RBTree /\ s.ok /\ Parents(s, X) /\ \E B : Links(s, X, B)
  /\ s.root # Null => s.color[s.root] = BLACK
  /\ clean => \E H : Plain(s, X, H, s.root)

\* Such a tree is what the loop leaves.
LEMMA FixedSound ==
  ASSUME NEW c, NEW X, NEW clean, NEW B, Fixing(c, X, clean, B), ~ Violated(c[1], c[2])
  PROVE  Sound(Fixed(c), X, clean)
  <1> DEFINE s == c[1]
             pt == c[2]
             r == Coloured(s, s.root, BLACK)
  <1> HIDE DEF s, pt
  <1>1. /\ s \in RBTree /\ s.ok /\ Links(s, X, B) /\ Parents(s, X) /\ pt \in X /\ Rooted(s, pt) /\ ~ Violated(s, pt)
        /\ clean => \E H : Plain(s, X, H, pt)
    BY DEF Fixing, Linked, s, pt
  <1>2. Null \notin X /\ X \subseteq RbAddress /\ s.root \in X \cup {Null} /\ B[s.root] = X /\ B[Null] = {}
    BY <1>1, RbAddresses DEF Links
  <1>3. s.root \in X /\ s.root \in RbAddress /\ s.root # Null
    BY <1>1, <1>2
  <1>4. pt # s.root => s.parent[pt] \in X /\ s.parent[pt] # Null
    BY <1>1, <1>2 DEF Parents
  <1>5. Fixed(c) = r
    <2>1. Fixed(c) = IF pt # s.root /\ s.color[pt] # BLACK /\ s.parent[pt] = Null THEN [s EXCEPT !.ok = FALSE] ELSE r
      BY Zenon DEF Fixed, s, pt
    <2> QED  BY <1>4, <2>1
  <1>6. SameLinks(s, r) /\ r.color = [s.color EXCEPT ![s.root] = BLACK]
    BY <1>1, <1>3, ColouredFields DEF Color
  <1> HIDE DEF r
  <1>7. /\ r \in RBTree /\ r.ok /\ r.root = s.root /\ r.kid = s.kid /\ r.parent = s.parent
        /\ r.color[s.root] = BLACK /\ \A a \in X : a # s.root => r.color[a] = s.color[a]
    <2>1. s.color \in [RbAddress -> Color]
      BY <1>1, RbFields
    <2> QED  BY <1>1, <1>2, <1>3, <1>6, <2>1 DEF SameLinks
  <1>8. Links(r, X, B) /\ Parents(r, X)
    BY <1>1, <1>6, SameLinksKeep
  <1>9. ASSUME NEW H, Plain(s, X, H, pt) PROVE \E G : Plain(r, X, G, r.root)
    <2>1. /\ \A a \in X : s.color[a] \in {RED, BLACK}
          /\ H \in [X \cup {Null} -> Nat] /\ H[Null] = 0
          /\ \A a \in X, d \in Side : H[a] = H[s.kid[d][a]] + (IF s.color[a] = BLACK THEN 1 ELSE 0)
          /\ \A a \in X : a # s.root /\ a # pt /\ s.color[a] = RED => s.color[s.parent[a]] = BLACK
      BY <1>9, Zenon DEF Plain
    <2> DEFINE k == IF s.color[s.root] = BLACK THEN 0 ELSE 1
               G == [H EXCEPT ![s.root] = H[s.root] + k]
    <2>2. G \in [X \cup {Null} -> Nat] /\ G[s.root] = H[s.root] + k /\ \A a \in X \cup {Null} : a # s.root => G[a] = H[a]
      BY <1>3, <2>1
    <2>3. \A a \in X, d \in Side : s.kid[d][a] # s.root /\ s.kid[d][a] \in X \cup {Null}
      <3>1. \A a \in X, d \in Side : s.kid[d][a] \in X \cup {Null}
        BY <1>1 DEF Links
      <3>2. s.parent[s.root] = Null
        BY <1>1, <1>3 DEF Parents
      <3>3. \A a \in X, d \in Side : s.kid[d][a] # Null => s.parent[s.kid[d][a]] = a
        BY <1>1 DEF Parents
      <3> QED  BY <1>2, <1>3, <3>1, <3>2, <3>3
    <2> HIDE DEF G
    <2>4. ASSUME NEW a \in X, NEW d \in Side PROVE G[a] = G[r.kid[d][a]] + (IF r.color[a] = BLACK THEN 1 ELSE 0)
      <3>1. G[r.kid[d][a]] = H[s.kid[d][a]] /\ H[s.kid[d][a]] \in Nat
        BY <1>7, <2>1, <2>2, <2>3
      <3>2. CASE a = s.root
        <4>1. H[a] = H[s.kid[d][a]] + (IF s.color[a] = BLACK THEN 1 ELSE 0)
          BY <2>1
        <4>2. H[a] + k = H[s.kid[d][a]] + 1
          BY <3>1, <3>2, <4>1
        <4> QED  BY <1>7, <2>2, <3>1, <3>2, <4>2
      <3>3. CASE a # s.root
        BY <1>7, <2>1, <2>2, <3>1, <3>3
      <3> QED  BY <3>2, <3>3
    <2>5. \A a \in X : r.color[a] \in {RED, BLACK}
      BY <1>7, <2>1
    <2>6. ASSUME NEW a \in X, a # r.root, r.color[a] = RED PROVE r.color[r.parent[a]] = BLACK
      <3>1. s.color[a] = RED /\ a # s.root /\ s.parent[a] \in X
        BY <1>1, <1>7, <2>6 DEF Parents
      <3>2. s.color[s.parent[a]] = BLACK
        <4>1. CASE a = pt
          <5>1. s.color[s.parent[pt]] # RED
            BY <1>1, <1>4, <3>1, <4>1 DEF Violated, RED, BLACK
          <5> QED  BY <2>1, <3>1, <4>1, <5>1
        <4> QED  BY <2>1, <3>1, <4>1
      <3> QED  BY <1>7, <3>1, <3>2
    <2>7. G[Null] = 0
      BY <1>3, <2>1, <2>2
    <2>8. Plain(r, X, G, r.root)
      BY <2>2, <2>4, <2>5, <2>6, <2>7, Zenon DEF Plain
    <2> QED  BY <2>8
  <1>10. Sound(r, X, clean)
    BY <1>1, <1>7, <1>8, <1>9 DEF Sound
  <1> QED  BY <1>5, <1>10

-----------------------------------------------------------------------------
(* Inserting a node in the search tree.                                    *)

\* p has no child on the side d, which is the place for the key pt in the tree.
Place(s, X, B, p, d, pt) ==
  /\ p \in X /\ d \in Side /\ s.kid[d][p] = Null /\ Beside(d, pt, p)
  /\ \A a \in X, e \in Side : p \in B[s.kid[e][a]] => Beside(e, pt, a)

\* The nodes below each node when pt is at the place p.
Extended(X, B, p, pt) ==
  [a \in X \cup {pt, Null} |-> IF a = pt THEN {pt} ELSE IF p \in B[a] THEN B[a] \cup {pt} ELSE B[a]]

\* r is s with pt at this place.
LinkedAt(s, r, X, B, p, d, pt) ==
  /\ r \in RBTree /\ r.color = s.color /\ r.ok = s.ok /\ r.root = s.root
  /\ Links(r, X \cup {pt}, Extended(X, B, p, pt)) /\ Parents(r, X \cup {pt})
  /\ r.kid[d][p] = pt /\ r.parent[pt] = p
  /\ \A e \in Side, a \in RbAddress : <<e, a>> # <<d, p>> => r.kid[e][a] = s.kid[e][a]
  /\ \A a \in RbAddress : a # pt => r.parent[a] = s.parent[a]

\* A new node, linked at its place, makes a search tree with one more node.
LEMMA LinkKeeps ==
  ASSUME NEW s \in RBTree, NEW X, NEW B, Links(s, X, B), Parents(s, X), NEW pt \in RbKeys, pt \notin X,
         s.kid["left"][pt] = Null, s.kid["right"][pt] = Null, NEW p, NEW d, Place(s, X, B, p, d, pt)
  PROVE  LinkedAt(s, Link(s, p, d, pt), X, B, p, d, pt)
  <1> DEFINE r == Link(s, p, d, pt)
             Z == X \cup {pt}
             C == Extended(X, B, p, pt)
  <1>1. p \in X /\ d \in Side /\ X \subseteq RbAddress /\ X \subseteq RbKeys /\ Null \notin Z /\ p # pt /\ pt \in RbAddress /\ p \in RbAddress
        /\ pt \in RbPointer /\ p \in RbPointer
    BY RbAddresses DEF Place, Links
  <1>2. /\ r \in RBTree /\ r.color = s.color /\ r.ok = s.ok /\ r.root = s.root
        /\ r.kid = [s.kid EXCEPT ![d] = [s.kid[d] EXCEPT ![p] = pt]] /\ r.parent = [s.parent EXCEPT ![pt] = p]
    BY <1>1, RbFields DEF Link, RBTree
  <1>3. s.kid \in [Side -> [RbAddress -> RbPointer]] /\ s.parent \in [RbAddress -> RbPointer]
    BY RbFields
  <1> HIDE DEF r
  <1>4. /\ r.kid[d][p] = pt /\ r.parent[pt] = p
        /\ \A e \in Side, a \in RbAddress : <<e, a>> # <<d, p>> => r.kid[e][a] = s.kid[e][a]
        /\ \A a \in RbAddress : a # pt => r.parent[a] = s.parent[a]
    BY <1>1, <1>2, <1>3
  <1>5. /\ B \in [X \cup {Null} -> SUBSET X] /\ B[Null] = {} /\ s.root \in X \cup {Null} /\ B[s.root] = X
        /\ \A a \in X, e \in Side : s.kid[e][a] \in X \cup {Null}
        /\ \A a \in X : B[a] = {a} \cup B[s.kid["left"][a]] \cup B[s.kid["right"][a]]
        /\ \A a \in X, e \in Side : \A b \in B[s.kid[e][a]] : Beside(e, b, a)
        /\ \A a \in X, b \in X : b \in B[a] => B[b] \subseteq B[a]
    BY DEF Links
  <1>6. /\ C \in [Z \cup {Null} -> SUBSET Z] /\ C[pt] = {pt} /\ C[Null] = {}
        /\ \A a \in X : C[a] = IF p \in B[a] THEN B[a] \cup {pt} ELSE B[a]
    <2>1. Z \cup {Null} = X \cup {pt, Null}
      OBVIOUS
    <2> QED  BY <1>1, <1>5, <2>1 DEF Extended
  <1> HIDE DEF C
  <1>7. s.root \in X /\ C[s.root] = Z
    BY <1>1, <1>5, <1>6
  <1>8. \A e \in Side : r.kid[e][pt] = Null
    BY <1>1, <1>4 DEF Side
  <1>9. ASSUME NEW a \in X, NEW e \in Side
        PROVE  /\ r.kid[e][a] \in Z \cup {Null}
               /\ C[r.kid[e][a]] = B[s.kid[e][a]] \cup (IF p \in B[s.kid[e][a]] \/ <<e, a>> = <<d, p>> THEN {pt} ELSE {})
    <2>1. CASE <<e, a>> = <<d, p>>
      <3>1. r.kid[e][a] = pt /\ s.kid[e][a] = Null
        BY <1>4, <2>1 DEF Place
      <3> QED  BY <1>5, <1>6, <2>1, <3>1
    <2>2. CASE <<e, a>> # <<d, p>>
      <3>1. r.kid[e][a] = s.kid[e][a] /\ s.kid[e][a] \in X \cup {Null}
        BY <1>1, <1>4, <1>5, <2>2
      <3>2. C[s.kid[e][a]] = IF p \in B[s.kid[e][a]] THEN B[s.kid[e][a]] \cup {pt} ELSE B[s.kid[e][a]]
        BY <1>5, <1>6, <3>1
      <3> QED  BY <2>2, <3>1, <3>2
    <2> QED  BY <2>1, <2>2
  <1>10. ASSUME NEW a \in Z PROVE C[a] = {a} \cup C[r.kid["left"][a]] \cup C[r.kid["right"][a]]
    <2>1. CASE a = pt
      BY <1>6, <1>8, <2>1, Sides
    <2>2. CASE a # pt
      <3>1. a \in X
        BY <2>2
      <3>2. B[a] = {a} \cup B[s.kid["left"][a]] \cup B[s.kid["right"][a]]
        BY <1>5, <3>1
      <3>3. p \in B[a] <=> \E e \in Side : p \in B[s.kid[e][a]] \/ <<e, a>> = <<d, p>>
        BY <1>1, <3>2 DEF Side
      <3>4. /\ C[r.kid["left"][a]] = B[s.kid["left"][a]] \cup (IF p \in B[s.kid["left"][a]] \/ <<"left", a>> = <<d, p>> THEN {pt} ELSE {})
            /\ C[r.kid["right"][a]] = B[s.kid["right"][a]] \cup (IF p \in B[s.kid["right"][a]] \/ <<"right", a>> = <<d, p>> THEN {pt} ELSE {})
        BY <1>9, <3>1, Sides
      <3>5. C[a] = IF p \in B[a] THEN B[a] \cup {pt} ELSE B[a]
        BY <1>6, <3>1
      <3> QED  BY <1>1, <3>2, <3>3, <3>4, <3>5 DEF Side
    <2> QED  BY <2>1, <2>2
  <1>11. ASSUME NEW a \in Z, NEW e \in Side, NEW b \in C[r.kid[e][a]] PROVE Beside(e, b, a)
    <2>1. CASE a = pt
      BY <1>6, <1>8, <1>11, <2>1
    <2>2. CASE a # pt
      <3>1. b \in B[s.kid[e][a]] \/ (b = pt /\ (p \in B[s.kid[e][a]] \/ <<e, a>> = <<d, p>>))
        BY <1>9, <1>11, <2>2
      <3> QED  BY <1>5, <2>2, <3>1 DEF Place
    <2> QED  BY <2>1, <2>2
  <1>12. ASSUME NEW a \in Z, NEW b \in Z, b \in C[a] PROVE C[b] \subseteq C[a]
    BY <1>5, <1>6, <1>12
  <1>13. \A a \in Z, e \in Side : r.kid[e][a] \in Z \cup {Null}
    BY <1>8, <1>9
  <1>14. Links(r, Z, C)
    <2>1. Z \in SUBSET RbKeys
      BY <1>1
    <2>2. r.root \in Z \cup {Null} /\ C[r.root] = Z
      BY <1>2, <1>7
    <2>3. C \in [Z \cup {Null} -> SUBSET Z] /\ C[Null] = {}
      BY <1>6
    <2> QED  BY <1>10, <1>11, <1>12, <1>13, <2>1, <2>2, <2>3, Zenon DEF Links
  <1>15. Parents(r, Z)
    <2>1. r.root # Null => r.parent[r.root] = Null
      BY <1>1, <1>2, <1>4, <1>7 DEF Parents
    <2>2. ASSUME NEW a \in Z, a # r.root PROVE r.parent[a] \in Z /\ \E e \in Side : a = r.kid[e][r.parent[a]]
      <3>1. CASE a = pt
        BY <1>1, <1>4, <3>1
      <3>2. CASE a # pt
        <4>1. s.parent[a] \in X /\ \E e \in Side : a = s.kid[e][s.parent[a]]
          BY <1>2, <2>2, <3>2 DEF Parents
        <4>2. PICK e \in Side : a = s.kid[e][s.parent[a]]
          BY <4>1
        <4>3. <<e, s.parent[a]>> # <<d, p>>
          BY <1>1, <4>2 DEF Place
        <4>4. r.kid[e][s.parent[a]] = a /\ r.parent[a] = s.parent[a]
          BY <1>1, <1>4, <3>2, <4>1, <4>2, <4>3
        <4> QED  BY <4>1, <4>4
      <3> QED  BY <3>1, <3>2
    <2>3. ASSUME NEW a \in Z, NEW e \in Side, r.kid[e][a] # Null PROVE r.parent[r.kid[e][a]] = a
      <3>1. a \in X
        BY <1>8, <2>3
      <3>2. CASE <<e, a>> = <<d, p>>
        BY <1>4, <3>2
      <3>3. CASE <<e, a>> # <<d, p>>
        <4>1. r.kid[e][a] = s.kid[e][a] /\ s.kid[e][a] \in X
          BY <1>1, <1>4, <1>5, <2>3, <3>1, <3>3
        <4>2. s.parent[s.kid[e][a]] = a
          BY <1>1, <3>1, <4>1 DEF Parents
        <4> QED  BY <1>1, <1>4, <4>1, <4>2
      <3> QED  BY <3>2, <3>3
    <2> QED  BY <2>1, <2>2, <2>3, Zenon DEF Parents
  <1> HIDE DEF Z
  <1>16. LinkedAt(s, r, X, B, p, d, pt)
    BY <1>2, <1>4, <1>14, <1>15, Zenon DEF LinkedAt, C, Z
  <1> QED  BY <1>16 DEF r

\* The side of a where the key data belongs.
Toward(data, a) == IF data < a THEN "left" ELSE "right"

\* Keys belong on one side of a node.
LEMMA TowardSide ==
  ASSUME NEW data \in Int, NEW a \in Int
  PROVE  /\ Toward(data, a) \in Side
         /\ data # a => Beside(Toward(data, a), data, a)
         /\ \A d \in Side : Beside(d, data, a) => d = Toward(data, a)
  BY DEF Toward, Beside, Side

\* The calls of BSTInsert.
InsertRound(s, pt, data, g, a) ==
  LET side == Toward(data, a)
      child == s.kid[side][a]
  IN  IF data = a THEN s
      ELSE IF child = Null THEN Link(s, a, side, pt)
      ELSE Link(g[child], a, side, child)

\* C[n][a] is what a call with the node a returns, n calls deep.
Inserting(s, pt, data, C) ==
  C = [n \in Nat |-> IF n = 0 THEN [a \in RbAddress |-> s] ELSE [a \in RbAddress |-> InsertRound(s, pt, data, C[n - 1], a)]]

\* Linking gives a tree.
LEMMA LinkFields ==
  ASSUME NEW s \in RBTree, NEW a \in RbAddress, NEW d \in Side, NEW b \in RbAddress
  PROVE  LET r == Link(s, a, d, b)
         IN  /\ r \in RBTree /\ r.color = s.color /\ r.ok = s.ok /\ r.root = s.root
             /\ r.kid[d][a] = b /\ r.parent[b] = a
             /\ \A e \in Side, x \in RbAddress : <<e, x>> # <<d, a>> => r.kid[e][x] = s.kid[e][x]
             /\ \A x \in RbAddress : x # b => r.parent[x] = s.parent[x]
  <1> DEFINE r == Link(s, a, d, b)
  <1>1. b \in RbPointer /\ a \in RbPointer
    BY RbAddresses
  <1>2. /\ r \in RBTree /\ r.color = s.color /\ r.ok = s.ok /\ r.root = s.root
        /\ r.kid = [s.kid EXCEPT ![d] = [s.kid[d] EXCEPT ![a] = b]] /\ r.parent = [s.parent EXCEPT ![b] = a]
    BY <1>1, RbFields DEF Link, RBTree
  <1>3. s.kid \in [Side -> [RbAddress -> RbPointer]] /\ s.parent \in [RbAddress -> RbPointer]
    BY RbFields
  <1> HIDE DEF r
  <1>4. /\ r.kid[d][a] = b /\ r.parent[b] = a
        /\ \A e \in Side, x \in RbAddress : <<e, x>> # <<d, a>> => r.kid[e][x] = s.kid[e][x]
        /\ \A x \in RbAddress : x # b => r.parent[x] = s.parent[x]
    BY <1>2, <1>3
  <1> QED  BY <1>2, <1>4 DEF r

\* Linking a child to its parent again changes nothing.
LEMMA Relinked ==
  ASSUME NEW s \in RBTree, NEW a \in RbAddress, NEW d \in Side, NEW b \in RbAddress, s.kid[d][a] = b, s.parent[b] = a
  PROVE  Link(s, a, d, b) = s
  <1>1. s.kid \in [Side -> [RbAddress -> RbPointer]] /\ s.parent \in [RbAddress -> RbPointer] /\ s.kid[d] \in [RbAddress -> RbPointer]
    BY RbFields
  <1>2. [s.kid[d] EXCEPT ![a] = b] = s.kid[d] /\ [s.parent EXCEPT ![b] = a] = s.parent
    BY <1>1
  <1>3. [s.kid EXCEPT ![d] = s.kid[d]] = s.kid
    BY <1>1
  <1>4. Link(s, a, d, b) = [s EXCEPT !.kid = [s.kid EXCEPT ![d] = [s.kid[d] EXCEPT ![a] = b]], !.parent = [s.parent EXCEPT ![b] = a]]
    BY DEF Link
  <1>5. Link(s, a, d, b) = [s EXCEPT !.kid = s.kid, !.parent = s.parent]
    BY <1>2, <1>3, <1>4
  <1> QED  BY <1>5 DEF RBTree

\* What the calls of BSTInsert return.
LEMMA InsertingValues ==
  ASSUME NEW s \in RBTree, NEW pt \in RbAddress, NEW data \in RbKeys
  PROVE  \E C : /\ \A root : BSTInsert(s, root, pt, data) = C[RbRounds][root]
                /\ \A n \in Nat, a \in RbAddress : C[n + 1][a] = InsertRound(s, pt, data, C[n], a)
  <1> DEFINE Y == [RbAddress -> RBTree]
             x == [a \in RbAddress |-> s]
             F == [g \in Y |-> [a \in RbAddress |-> InsertRound(s, pt, data, g, a)]]
             C == CHOOSE D : Inserting(s, pt, data, D)
  <1>1. ASSUME NEW root PROVE BSTInsert(s, root, pt, data) = C[RbRounds][root]
    BY Zenon DEF BSTInsert, Inserting, InsertRound, Toward
  <1>2. ASSUME NEW g \in Y, NEW a \in RbAddress PROVE InsertRound(s, pt, data, g, a) \in RBTree
    <2> DEFINE side == Toward(data, a)
               child == s.kid[side][a]
    <2>1. side \in Side
      BY DEF Toward, Side
    <2>2. child \in RbPointer
      BY <2>1, RbFields
    <2>3. CASE child = Null
      <3>1. Link(s, a, side, pt) \in RBTree
        BY <2>1, LinkFields
      <3> QED  BY <2>3, <3>1 DEF InsertRound
    <2>4. CASE child # Null
      <3>1. child \in RbAddress
        BY <2>2, <2>4, RbAddresses
      <3>2. Link(g[child], a, side, child) \in RBTree
        BY <2>1, <3>1, LinkFields
      <3> QED  BY <2>4, <3>2 DEF InsertRound
    <2> QED  BY <2>3, <2>4
  <1>3. F \in [Y -> Y] /\ x \in Y /\ \A g \in Y : F[g] = [a \in RbAddress |-> InsertRound(s, pt, data, g, a)]
    BY <1>2
  <1> HIDE DEF F, Y, x
  <1>4. \E D : Inserting(s, pt, data, D)
    <2>1. PICK D \in [Nat -> Y] : Recursion(F, x, D)
      BY <1>3, RecursionExists
    <2>2. \A n \in Nat : n # 0 => F[D[n - 1]] = [a \in RbAddress |-> InsertRound(s, pt, data, D[n - 1], a)]
      BY <1>3
    <2>3. D = [n \in Nat |-> IF n = 0 THEN x ELSE [a \in RbAddress |-> InsertRound(s, pt, data, D[n - 1], a)]]
      BY <2>1, <2>2 DEF Recursion
    <2> QED  BY <2>3 DEF Inserting, x
  <1>5. Inserting(s, pt, data, C)
    BY <1>4, Zenon
  <1> HIDE DEF C
  <1>6. ASSUME NEW n \in Nat, NEW a \in RbAddress PROVE C[n + 1][a] = InsertRound(s, pt, data, C[n], a)
    <2>1. n + 1 \in Nat /\ n + 1 # 0 /\ (n + 1) - 1 = n
      OBVIOUS
    <2>2. C[n + 1] = [b \in RbAddress |-> InsertRound(s, pt, data, C[(n + 1) - 1], b)]
      BY <1>5, <2>1 DEF Inserting
    <2>3. C[n + 1][a] = InsertRound(s, pt, data, C[(n + 1) - 1], a)
      BY <2>2
    <2> QED  BY <2>1, <2>3
  <1> QED  BY <1>1, <1>6

\* A call with the node a, when there are B[a] below it, links pt at the place of
\* data among them, or nothing where the key is there.
Descends(s, X, B, a, pt, data, t) ==
  \/ data \in B[a] /\ t = s
  \/ /\ data \notin B[a]
     /\ \E p \in B[a], d \in Side :
          /\ s.kid[d][p] = Null /\ Beside(d, data, p) /\ t = Link(s, p, d, pt)
          /\ \A c \in B[a], e \in Side : p \in B[s.kid[e][c]] => Beside(e, data, c)

\* Every call of BSTInsert does that.
LEMMA DescendsRound ==
  ASSUME NEW s \in RBTree, NEW X, NEW B, Links(s, X, B), Parents(s, X), NEW pt \in RbAddress, pt \notin X,
         NEW data \in RbKeys, NEW g, NEW a \in X,
         \A d \in Side : s.kid[d][a] # Null => Descends(s, X, B, s.kid[d][a], pt, data, g[s.kid[d][a]])
  PROVE  Descends(s, X, B, a, pt, data, InsertRound(s, pt, data, g, a))
  <1> DEFINE side == Toward(data, a)
             child == s.kid[side][a]
             t == InsertRound(s, pt, data, g, a)
  <1>1. X \subseteq RbAddress /\ X \subseteq Int /\ Null \notin X /\ data \in Int /\ a \in Int /\ a \in RbAddress
    BY RbAddresses DEF Links
  <1>2. side \in Side /\ (data # a => Beside(side, data, a)) /\ \A d \in Side : Beside(d, data, a) => d = side
    BY <1>1, TowardSide
  <1>3. /\ B[a] = {a} \cup B[child] \cup B[s.kid[Other(side)][a]] /\ a \in B[a] /\ a \notin B[child]
        /\ B[child] \cap B[s.kid[Other(side)][a]] = {}
        /\ child # Null => child \in X
    BY <1>2, LinksBelow
  <1>4. /\ \A b \in X, e \in Side : s.kid[e][b] \in X \cup {Null}
        /\ \A b \in X, e \in Side : \A c \in B[s.kid[e][b]] : Beside(e, c, b)
        /\ \A b \in X, c \in X : c \in B[b] => B[c] \subseteq B[b]
        /\ B \in [X \cup {Null} -> SUBSET X] /\ B[Null] = {}
    BY DEF Links
  <1>5. data # a /\ data \in B[a] => data \in B[child]
    <2> SUFFICES ASSUME data # a, data \in B[s.kid[Other(side)][a]] PROVE FALSE
      BY <1>3
    <2>1. Beside(Other(side), data, a) /\ Other(side) \in Side /\ Other(side) # side
      BY <1>2, <1>4, Sides
    <2> QED  BY <1>2, <2>1
  <1>6. CASE data = a
    <2>1. t = s
      BY <1>6 DEF InsertRound
    <2> QED  BY <1>3, <1>6, <2>1 DEF Descends
  <1>7. CASE data # a /\ child = Null
    <2>1. t = Link(s, a, side, pt)
      BY <1>7 DEF InsertRound
    <2>2. data \notin B[a]
      BY <1>4, <1>5, <1>7
    <2>3. ASSUME NEW c \in B[a], NEW e \in Side, a \in B[s.kid[e][c]] PROVE FALSE
      <3>1. c \in X
        BY <1>4
      <3>2. s.kid[e][c] \in X \cup {Null} /\ c \notin B[s.kid[e][c]]
        BY <1>4, <3>1, LinksBelow
      <3>3. s.kid[e][c] \in X
        BY <1>4, <2>3, <3>2
      <3>4. B[a] \subseteq B[s.kid[e][c]]
        BY <1>4, <2>3, <3>3
      <3> QED  BY <2>3, <3>2, <3>4
    <2>4. s.kid[side][a] = Null
      BY <1>7
    <2> QED  BY <1>2, <1>3, <1>7, <2>1, <2>2, <2>3, <2>4 DEF Descends
  <1>8. CASE data # a /\ child # Null
    <2>1. t = Link(g[child], a, side, child)
      BY <1>8 DEF InsertRound
    <2>2. child \in X /\ child \in RbAddress /\ s.parent[child] = a /\ child # pt
      BY <1>1, <1>2, <1>3, <1>8 DEF Parents
    <2>3. Descends(s, X, B, child, pt, data, g[child])
      BY <1>2, <1>8
    <2>4. CASE data \in B[child]
      <3>1. g[child] = s
        BY <2>3, <2>4 DEF Descends
      <3>2. Link(s, a, side, child) = s
        BY <1>1, <1>2, <2>2, Relinked
      <3> QED  BY <1>3, <2>1, <2>4, <3>1, <3>2 DEF Descends
    <2>5. CASE data \notin B[child]
      <3>1. PICK p \in B[child], d \in Side :
              /\ s.kid[d][p] = Null /\ Beside(d, data, p) /\ g[child] = Link(s, p, d, pt)
              /\ \A c \in B[child], e \in Side : p \in B[s.kid[e][c]] => Beside(e, data, c)
        BY <2>3, <2>5 DEF Descends
      <3>2. p \in X /\ p \in RbAddress /\ p \in B[a] /\ p # a
        BY <1>1, <1>3, <1>4, <2>2
      <3>3. g[child] \in RBTree /\ g[child].kid[side][a] = child /\ g[child].parent[child] = a
        <4> DEFINE r == Link(s, p, d, pt)
        <4>1. /\ r \in RBTree
              /\ \A e \in Side, x \in RbAddress : <<e, x>> # <<d, p>> => r.kid[e][x] = s.kid[e][x]
              /\ \A x \in RbAddress : x # pt => r.parent[x] = s.parent[x]
          BY <3>2, LinkFields
        <4>2. r.kid[side][a] = child /\ r.parent[child] = a
          BY <1>1, <1>2, <2>2, <3>2, <4>1
        <4> QED  BY <3>1, <4>1, <4>2
      <3>4. t = g[child]
        BY <1>1, <1>2, <2>1, <2>2, <3>3, Relinked, Zenon
      <3>5. ASSUME NEW c \in B[a], NEW e \in Side, p \in B[s.kid[e][c]] PROVE Beside(e, data, c)
        <4>1. CASE c = a
          <5>1. e = side
            BY <1>2, <1>3, <3>1, <3>5, <4>1, Sides
          <5> QED  BY <1>2, <1>8, <4>1, <5>1
        <4>2. CASE c \in B[child]
          BY <3>1, <3>5, <4>2
        <4>3. CASE c \in B[s.kid[Other(side)][a]]
          <5> DEFINE o == s.kid[Other(side)][a]
          <5>1. o \in X \cup {Null} /\ c \in X
            BY <1>2, <1>4, Sides
          <5>2. o \in X
            BY <1>4, <4>3, <5>1
          <5>3. B[s.kid[e][c]] \subseteq B[c] /\ B[c] \subseteq B[o]
            BY <1>4, <4>3, <5>1, <5>2, LinksBelow
          <5> QED  BY <1>3, <3>1, <3>5, <5>3
        <4> QED  BY <1>3, <4>1, <4>2, <4>3
      <3>6. data \notin B[a]
        BY <1>5, <1>8, <2>5
      <3> QED  BY <3>1, <3>2, <3>4, <3>5, <3>6 DEF Descends
    <2> QED  BY <2>4, <2>5
  <1> QED  BY <1>6, <1>7, <1>8

\* BSTInsert from the root changes nothing where the key is there, and links pt at
\* its place where it is not.
LEMMA PlaceFound ==
  ASSUME NEW s \in RBTree, NEW X, NEW B, Links(s, X, B), Parents(s, X), NEW pt \in RbAddress, pt \notin X,
         NEW data \in RbKeys, s.root # Null
  PROVE  LET r == BSTInsert(s, s.root, pt, data)
         IN  IF data \in X THEN r = s ELSE \E p, d : Place(s, X, B, p, d, data) /\ r = Link(s, p, d, pt)
  <1> DEFINE r == BSTInsert(s, s.root, pt, data)
  <1>1. PICK C : /\ \A root : BSTInsert(s, root, pt, data) = C[RbRounds][root]
                 /\ \A n \in Nat, a \in RbAddress : C[n + 1][a] = InsertRound(s, pt, data, C[n], a)
    BY InsertingValues
  <1>2. X \subseteq RbAddress /\ s.root \in X /\ B[s.root] = X /\ \A a \in X, d \in Side : s.kid[d][a] \in X \cup {Null}
    BY RbAddresses DEF Links
  <1>3. \A a \in X : Cardinality(B[a]) \in Nat /\ Cardinality(B[a]) # 0
    <2> SUFFICES ASSUME NEW a \in X PROVE Cardinality(B[a]) \in Nat /\ Cardinality(B[a]) # 0
      OBVIOUS
    <2>1. a \in B[a] /\ IsFiniteSet(B[a])
      BY LinksBelow, LinksFinite, Sides
    <2> QED  BY <2>1, FS_CardinalityType, FS_EmptySet
  <1> DEFINE S == {n \in Nat : \A a \in X : Cardinality(B[a]) <= n => Descends(s, X, B, a, pt, data, C[n][a])}
  <1>4. 0 \in S
    BY <1>3
  <1>5. ASSUME NEW n \in Nat, n \in S PROVE n + 1 \in S
    <2> SUFFICES ASSUME NEW a \in X, Cardinality(B[a]) <= n + 1 PROVE Descends(s, X, B, a, pt, data, C[n + 1][a])
      OBVIOUS
    <2>1. C[n + 1][a] = InsertRound(s, pt, data, C[n], a)
      BY <1>1, <1>2
    <2>2. ASSUME NEW d \in Side, s.kid[d][a] # Null PROVE Descends(s, X, B, s.kid[d][a], pt, data, C[n][s.kid[d][a]])
      <3>1. s.kid[d][a] \in X
        BY <1>2, <2>2
      <3>2. Cardinality(B[s.kid[d][a]]) <= n
        BY <1>3, <3>1, FewerBelow
      <3> QED  BY <1>5, <3>1, <3>2
    <2> QED  BY <2>1, <2>2, DescendsRound
  <1>6. \A n \in Nat : n \in S
    <2> HIDE DEF S
    <2> QED  BY <1>4, <1>5, AllNaturals
  <1>7. RbRounds \in Nat /\ Cardinality(B[s.root]) <= RbRounds
    <2>1. Cardinality(B[s.root]) <= Cardinality(X) /\ X \subseteq RbKeys
      BY <1>2, LinksFinite DEF Links
    <2>2. Cardinality(X) <= Cardinality(RbKeys) /\ Cardinality(X) \in Nat /\ Cardinality(RbKeys) \in Nat
      BY <2>1, RbAssumption, FS_Subset, FS_CardinalityType
    <2> QED  BY <1>2, <1>3, <2>1, <2>2 DEF RbRounds
  <1>8. Descends(s, X, B, s.root, pt, data, r)
    BY <1>1, <1>2, <1>6, <1>7
  <1> HIDE DEF r
  <1>9. CASE data \in X
    BY <1>2, <1>8, <1>9 DEF Descends, r
  <1>10. CASE data \notin X
    <2>1. PICK p \in X, d \in Side :
            /\ s.kid[d][p] = Null /\ Beside(d, data, p) /\ r = Link(s, p, d, pt)
            /\ \A c \in X, e \in Side : p \in B[s.kid[e][c]] => Beside(e, data, c)
      BY <1>2, <1>8, <1>10 DEF Descends
    <2>2. Place(s, X, B, p, d, data)
      BY <2>1 DEF Place
    <2> QED  BY <1>10, <2>1, <2>2 DEF r
  <1> QED  BY <1>9, <1>10

-----------------------------------------------------------------------------
(* insert.                                                                 *)

\* The trees s and r are the same at the nodes X.
Agree(s, r, X) ==
  /\ r \in RBTree /\ r.root = s.root /\ r.ok = s.ok
  /\ \A a \in X : r.parent[a] = s.parent[a] /\ r.color[a] = s.color[a] /\ \A d \in Side : r.kid[d][a] = s.kid[d][a]

\* The search tree is in the fields of its nodes alone.
LEMMA AgreeLinks ==
  ASSUME NEW s, NEW r, NEW X, NEW B, Agree(s, r, X), Links(s, X, B), Parents(s, X)
  PROVE  Links(r, X, B) /\ Parents(r, X)
  <1>1. /\ X \in SUBSET RbKeys
        /\ B \in [X \cup {Null} -> SUBSET X] /\ B[Null] = {}
        /\ s.root \in X \cup {Null} /\ B[s.root] = X
        /\ \A a \in X, d \in Side : s.kid[d][a] \in X \cup {Null}
        /\ \A a \in X : B[a] = {a} \cup B[s.kid["left"][a]] \cup B[s.kid["right"][a]]
        /\ \A a \in X, d \in Side : \A b \in B[s.kid[d][a]] : Beside(d, b, a)
        /\ \A a \in X, b \in X : b \in B[a] => B[b] \subseteq B[a]
    BY DEF Links
  <1>2. /\ r.root = s.root /\ \A a \in X : r.parent[a] = s.parent[a] /\ \A d \in Side : r.kid[d][a] = s.kid[d][a]
    BY DEF Agree
  <1>3. Links(r, X, B)
    <2>1. \A a \in X : B[a] = {a} \cup B[r.kid["left"][a]] \cup B[r.kid["right"][a]]
      BY <1>1, <1>2, Sides
    <2>2. \A a \in X, d \in Side : \A b \in B[r.kid[d][a]] : Beside(d, b, a)
      BY <1>1, <1>2
    <2>3. \A a \in X, d \in Side : r.kid[d][a] \in X \cup {Null}
      BY <1>1, <1>2
    <2>4. r.root \in X \cup {Null} /\ B[r.root] = X
      BY <1>1, <1>2
    <2> QED  BY <1>1, <2>1, <2>2, <2>3, <2>4, Zenon DEF Links
  <1>4. Parents(r, X)
    <2>1. /\ s.root # Null => s.parent[s.root] = Null
          /\ \A a \in X : a # s.root => s.parent[a] \in X /\ \E d \in Side : a = s.kid[d][s.parent[a]]
          /\ \A a \in X, d \in Side : s.kid[d][a] # Null => s.parent[s.kid[d][a]] = a
      BY DEF Parents
    <2>2. r.root # Null => r.parent[r.root] = Null
      BY <1>1, <1>2, <2>1
    <2>3. \A a \in X : a # r.root => r.parent[a] \in X /\ \E d \in Side : a = r.kid[d][r.parent[a]]
      BY <1>2, <2>1
    <2>4. \A a \in X, d \in Side : r.kid[d][a] # Null => r.parent[r.kid[d][a]] = a
      BY <1>1, <1>2, <2>1
    <2> QED  BY <2>2, <2>3, <2>4 DEF Parents
  <1> QED  BY <1>3, <1>4

\* So are the ways and their black nodes.
LEMMA AgreePlain ==
  ASSUME NEW s, NEW r, NEW X, NEW H, NEW pt, Agree(s, r, X), Parents(s, X), Plain(s, X, H, pt)
  PROVE  Plain(r, X, H, pt)
  <1>1. /\ r.root = s.root
        /\ \A a \in X : r.parent[a] = s.parent[a] /\ r.color[a] = s.color[a] /\ \A d \in Side : r.kid[d][a] = s.kid[d][a]
        /\ \A a \in X : a # s.root => s.parent[a] \in X
    BY DEF Agree, Parents
  <1>2. /\ \A a \in X : s.color[a] \in {RED, BLACK}
        /\ H \in [X \cup {Null} -> Nat] /\ H[Null] = 0
        /\ \A a \in X, d \in Side : H[a] = H[s.kid[d][a]] + (IF s.color[a] = BLACK THEN 1 ELSE 0)
        /\ \A a \in X : a # s.root /\ a # pt /\ s.color[a] = RED => s.color[s.parent[a]] = BLACK
    BY Zenon DEF Plain
  <1>3. \A a \in X, d \in Side : H[a] = H[r.kid[d][a]] + (IF r.color[a] = BLACK THEN 1 ELSE 0)
    BY <1>1, <1>2
  <1>4. \A a \in X : a # r.root /\ a # pt /\ r.color[a] = RED => r.color[r.parent[a]] = BLACK
    BY <1>1, <1>2
  <1>5. \A a \in X : r.color[a] \in {RED, BLACK}
    BY <1>1, <1>2
  <1> QED  BY <1>2, <1>3, <1>4, <1>5, Zenon DEF Plain

\* Such trees are as good as each other.
LEMMA AgreeSound ==
  ASSUME NEW s, NEW r, NEW X, NEW clean, Agree(s, r, X), Sound(s, X, clean)
  PROVE  Sound(r, X, clean)
  <1>1. PICK B : Links(s, X, B)
    BY DEF Sound
  <1>2. Links(r, X, B) /\ Parents(r, X)
    BY <1>1, AgreeLinks DEF Sound
  <1>3. r.root = s.root /\ r.ok /\ r \in RBTree
    BY DEF Agree, Sound
  <1>4. r.root # Null => r.color[r.root] = BLACK
    BY <1>1, <1>3 DEF Agree, Sound, Links
  <1>5. ASSUME clean PROVE \E H : Plain(r, X, H, r.root)
    <2>1. PICK H : Plain(s, X, H, s.root)
      BY <1>5 DEF Sound
    <2>2. Plain(r, X, H, s.root)
      BY <2>1, AgreePlain DEF Sound
    <2> QED  BY <1>3, <2>2
  <1> QED  BY <1>2, <1>3, <1>4, <1>5 DEF Sound

\* A new node.
LEMMA NodeFields ==
  ASSUME NEW s \in RBTree, NEW pt \in RbAddress, NEW c \in Color, NEW X \in SUBSET RbAddress, pt \notin X
  PROVE  /\ Agree(s, Node(s, pt, c), X)
         /\ Node(s, pt, c).parent[pt] = Null /\ Node(s, pt, c).color[pt] = c
         /\ \A d \in Side : Node(s, pt, c).kid[d][pt] = Null
  <1> DEFINE t == Node(s, pt, c)
             kid == [d \in Side |-> [s.kid[d] EXCEPT ![pt] = Null]]
             parent == [s.parent EXCEPT ![pt] = Null]
             color == [s.color EXCEPT ![pt] = c]
  <1>1. t = [s EXCEPT !.kid = kid, !.parent = parent, !.color = color]
    BY DEF Node
  <1>2. kid \in [Side -> [RbAddress -> RbPointer]] /\ parent \in [RbAddress -> RbPointer] /\ color \in [RbAddress -> Color]
    BY RbFields, RbAddresses
  <1>3. /\ parent[pt] = Null /\ color[pt] = c /\ \A d \in Side : kid[d][pt] = Null
        /\ \A a \in X : parent[a] = s.parent[a] /\ color[a] = s.color[a] /\ \A d \in Side : kid[d][a] = s.kid[d][a]
    BY RbFields
  <1> HIDE DEF kid, parent, color
  <1>4. t \in RBTree /\ t.kid = kid /\ t.parent = parent /\ t.color = color /\ t.root = s.root /\ t.ok = s.ok
    BY <1>1, <1>2 DEF RBTree
  <1> QED  BY <1>3, <1>4, Zenon DEF Agree

\* fixViolation has nothing to do at a node without a parent.
LEMMA FixNothing ==
  ASSUME NEW s, NEW pt, s.parent[pt] = Null
  PROVE  fixViolation(s, pt) = Fixed(<<s, pt>>)
  <1> DEFINE x == <<s, pt>>
             Y == {x}
             F == [c \in Y |-> FixRound(c)]
             C == CHOOSE D : FixRounds(s, pt, D)
  <1>1. FixRound(x) = x
    BY DEF FixRound, Violated
  <1>2. fixViolation(s, pt) = Fixed(C[RbRounds])
    BY Zenon DEF fixViolation, FixRounds
  <1>3. F \in [Y -> Y] /\ x \in Y /\ \A c \in Y : F[c] = FixRound(c)
    BY <1>1
  <1> HIDE DEF F, Y
  <1>4. PICK D \in [Nat -> Y] : Recursion(F, x, D)
    BY <1>3, RecursionExists
  <1>5. \A n \in Nat : n # 0 => F[D[n - 1]] = FixRound(D[n - 1])
    BY <1>3
  <1>6. D = [n \in Nat |-> IF n = 0 THEN x ELSE FixRound(D[n - 1])]
    BY <1>4, <1>5 DEF Recursion
  <1>7. FixRounds(s, pt, D)
    BY <1>6 DEF FixRounds
  <1>8. FixRounds(s, pt, C)
    BY <1>7, Zenon
  <1> HIDE DEF C
  <1>9. C[0] = x /\ \A n \in Nat : C[n + 1] = FixRound(C[n])
    <2>1. C = [n \in Nat |-> IF n = 0 THEN x ELSE FixRound(C[n - 1])]
      BY <1>8 DEF FixRounds
    <2>2. ASSUME NEW n \in Nat PROVE C[n + 1] = FixRound(C[n])
      <3>1. n + 1 \in Nat /\ n + 1 # 0 /\ (n + 1) - 1 = n
        OBVIOUS
      <3>2. C[n + 1] = FixRound(C[(n + 1) - 1])
        BY <2>1, <3>1
      <3> QED  BY <3>1, <3>2
    <2> QED  BY <2>1, <2>2
  <1> DEFINE S == {n \in Nat : C[n] = x}
  <1>10. \A n \in Nat : n \in S
    <2>1. 0 \in S
      BY <1>9
    <2>2. \A n \in Nat : n \in S => n + 1 \in S
      BY <1>1, <1>9
    <2> HIDE DEF S
    <2> QED  BY <2>1, <2>2, AllNaturals
  <1>11. RbRounds \in Nat
    BY RbAssumption, FS_CardinalityType DEF RbRounds
  <1> QED  BY <1>2, <1>10, <1>11

\* insert of a key that is there already links nothing: it follows a null pointer, or
\* leaves the tree as it is.
LEMMA InsertAgain ==
  ASSUME NEW s, NEW X, NEW clean, Sound(s, X, clean), NEW data \in X, NEW c \in Color
  PROVE  LET r == RbInsert(s, X, data, c) IN r \in RBTree /\ (r.ok => Agree(s, r, X))
  <1> DEFINE pt == DUPLICATE
             t == Node(s, pt, c)
             r == RbInsert(s, X, data, c)
  <1>1. PICK B : Links(s, X, B)
    BY DEF Sound
  <1>2. s \in RBTree /\ s.ok /\ Parents(s, X) /\ (s.root # Null => s.color[s.root] = BLACK)
    BY DEF Sound
  <1>3. X \subseteq RbKeys /\ X \subseteq RbAddress /\ pt \notin X /\ pt \in RbAddress /\ Null \notin X /\ data \in RbKeys
    BY <1>1, RbAddresses DEF Links
  <1>4. s.root \in X /\ s.root # Null
    BY <1>1, <1>3 DEF Links
  <1>5. Agree(s, t, X) /\ t.parent[pt] = Null /\ t.color[pt] = c
    BY <1>2, <1>3, NodeFields
  <1>6. r = fixViolation(IF t.root = Null THEN [t EXCEPT !.root = pt] ELSE BSTInsert(t, t.root, pt, data), pt)
    BY Zenon DEF RbInsert
  <1> HIDE DEF t, r
  <1>7. t \in RBTree /\ t.root = s.root /\ t.root # Null /\ Links(t, X, B) /\ Parents(t, X)
    BY <1>1, <1>2, <1>4, <1>5, AgreeLinks DEF Agree
  <1>8. BSTInsert(t, t.root, pt, data) = t
    BY <1>3, <1>7, PlaceFound
  <1>9. r = Fixed(<<t, pt>>)
    BY <1>5, <1>6, <1>7, <1>8, FixNothing
  <1>10. r = IF pt # t.root /\ t.color[pt] # BLACK /\ t.parent[pt] = Null THEN [t EXCEPT !.ok = FALSE] ELSE Coloured(t, t.root, BLACK)
    BY <1>9 DEF Fixed
  <1>11. CASE r = [t EXCEPT !.ok = FALSE]
    <2>1. r \in RBTree /\ ~ r.ok
      BY <1>7, <1>11 DEF RBTree
    <2> QED  BY <2>1 DEF r
  <1>12. CASE r = Coloured(t, t.root, BLACK)
    <2>1. t.root \in RbAddress /\ BLACK \in Color /\ t.color[t.root] = BLACK
      BY <1>2, <1>3, <1>4, <1>5, <1>7 DEF Color, Agree
    <2>2. SameLinks(t, r) /\ r.color = [t.color EXCEPT ![t.root] = BLACK]
      BY <1>7, <1>12, <2>1, ColouredFields
    <2>3. t.color \in [RbAddress -> Color]
      BY <1>7, RbFields
    <2>4. r.color = t.color
      BY <2>1, <2>2, <2>3
    <2>5. r \in RBTree /\ Agree(s, r, X)
      BY <1>5, <2>2, <2>4 DEF Agree, SameLinks
    <2> QED  BY <2>5 DEF r
  <1> QED  BY <1>10, <1>11, <1>12

\* A tree of one node.
LEMMA OneNode ==
  ASSUME NEW s \in RBTree, NEW pt \in RbKeys, s.root = pt, s.parent[pt] = Null, \A d \in Side : s.kid[d][pt] = Null
  PROVE  \E B : Links(s, {pt}, B) /\ Parents(s, {pt})
  <1> DEFINE B == [a \in {pt, Null} |-> IF a = Null THEN {} ELSE {pt}]
  <1>1. pt # Null
    BY RbAddresses
  <1>2. B \in [{pt} \cup {Null} -> SUBSET {pt}] /\ B[Null] = {} /\ B[pt] = {pt}
    BY <1>1
  <1> HIDE DEF B
  <1>3. s.kid["left"][pt] = Null /\ s.kid["right"][pt] = Null
    BY Sides
  <1>4. Links(s, {pt}, B)
    BY <1>1, <1>2, <1>3 DEF Links
  <1>5. Parents(s, {pt})
    BY DEF Parents
  <1> QED  BY <1>4, <1>5

\* insert of a new key makes a good tree with it.
LEMMA InsertNew ==
  ASSUME NEW s, NEW X, NEW clean, Sound(s, X, clean), NEW data \in RbKeys, data \notin X, NEW c \in Color
  PROVE  Sound(RbInsert(s, X, data, c), X \cup {data}, clean /\ c = RED)
  <1> DEFINE t == Node(s, data, c)
             u == IF t.root = Null THEN [t EXCEPT !.root = data] ELSE BSTInsert(t, t.root, data, data)
             Z == X \cup {data}
             still == clean /\ c = RED
  <1>1. PICK B : Links(s, X, B)
    BY DEF Sound
  <1>2. s \in RBTree /\ s.ok /\ Parents(s, X) /\ (s.root # Null => s.color[s.root] = BLACK)
    BY DEF Sound
  <1>3. X \subseteq RbKeys /\ X \subseteq RbAddress /\ data \in RbAddress /\ data # Null /\ Null \notin X
    BY <1>1, RbAddresses DEF Links
  <1>4. /\ Agree(s, t, X) /\ t.parent[data] = Null /\ t.color[data] = c /\ \A d \in Side : t.kid[d][data] = Null
    BY <1>2, <1>3, NodeFields
  <1>5. RbInsert(s, X, data, c) = fixViolation(u, data)
    BY Zenon DEF RbInsert
  <1> HIDE DEF t
  <1>6. t \in RBTree /\ t.root = s.root /\ t.ok /\ Links(t, X, B) /\ Parents(t, X)
    BY <1>1, <1>2, <1>4, AgreeLinks DEF Agree
  <1>7. \E A : Fixing(<<u, data>>, Z, still, A)
    <2>1. CASE t.root = Null
      <3>1. u = [t EXCEPT !.root = data]
        BY <2>1
      <3>2. X = {}
        BY <1>6, <2>1 DEF Links
      <3>3. /\ u \in RBTree /\ u.root = data /\ u.ok /\ u.parent[data] = Null /\ u.color[data] = c /\ \A d \in Side : u.kid[d][data] = Null
        BY <1>3, <1>4, <1>6, <3>1, RbAddresses, Zenon DEF RBTree
      <3> HIDE DEF u
      <3>4. PICK A : Links(u, Z, A) /\ Parents(u, Z)
        <4>1. Z = {data}
          BY <3>2
        <4> QED  BY <3>3, <4>1, OneNode
      <3>5. ASSUME still PROVE \E H : Plain(u, Z, H, data)
        <4> DEFINE H == [a \in Z \cup {Null} |-> 0]
        <4>1. Z = {data} /\ u.color[data] = RED
          BY <3>2, <3>3, <3>5
        <4>2. H \in [Z \cup {Null} -> Nat] /\ H[Null] = 0 /\ H[data] = 0
          OBVIOUS
        <4> HIDE DEF H
        <4>3. Plain(u, Z, H, data)
          BY <3>3, <4>1, <4>2 DEF Plain, RED, BLACK
        <4> QED  BY <4>3
      <3>6. Linked(u, Z, A, data) /\ Rooted(u, data)
        BY <3>3, <3>4 DEF Linked, Rooted
      <3>7. Fixing(<<u, data>>, Z, still, A)
        BY <3>5, <3>6 DEF Fixing
      <3> QED  BY <3>7
    <2>2. CASE t.root # Null
      <3>1. PICK p, d : Place(t, X, B, p, d, data) /\ u = Link(t, p, d, data)
        <4>1. \E p, d : Place(t, X, B, p, d, data) /\ BSTInsert(t, t.root, data, data) = Link(t, p, d, data)
          BY <1>3, <1>6, <2>2, PlaceFound
        <4> QED  BY <2>2, <4>1
      <3> DEFINE A == Extended(X, B, p, data)
      <3>2. /\ u \in RBTree /\ u.color = t.color /\ u.ok = t.ok /\ u.root = t.root
            /\ Links(u, Z, A) /\ Parents(u, Z)
            /\ u.kid[d][p] = data /\ u.parent[data] = p
            /\ \A e \in Side, a \in RbAddress : <<e, a>> # <<d, p>> => u.kid[e][a] = t.kid[e][a]
            /\ \A a \in RbAddress : a # data => u.parent[a] = t.parent[a]
        <4>1. t.kid["left"][data] = Null /\ t.kid["right"][data] = Null
          BY <1>4, Sides
        <4> HIDE DEF u
        <4>2. LinkedAt(t, u, X, B, p, d, data)
          BY <1>6, <3>1, <4>1, LinkKeeps
        <4> QED  BY <4>2, Zenon DEF LinkedAt
      <3> HIDE DEF u, A
      <3>3. t.root \in X /\ t.color[t.root] = BLACK
        BY <1>2, <1>4, <1>6, <2>2 DEF Links, Agree
      <3>4. Linked(u, Z, A, data) /\ Rooted(u, data)
        BY <1>6, <3>2, <3>3 DEF Linked, Rooted
      <3>5. ASSUME still PROVE \E G : Plain(u, Z, G, data)
        <4>1. PICK K : Plain(s, X, K, s.root)
          BY <3>5 DEF Sound
        <4>2. Plain(t, X, K, s.root)
          BY <1>2, <1>4, <4>1, AgreePlain
        <4>3. /\ \A a \in X : t.color[a] \in {RED, BLACK}
              /\ K \in [X \cup {Null} -> Nat] /\ K[Null] = 0
              /\ \A a \in X, e \in Side : K[a] = K[t.kid[e][a]] + (IF t.color[a] = BLACK THEN 1 ELSE 0)
              /\ \A a \in X : a # t.root /\ a # s.root /\ t.color[a] = RED => t.color[t.parent[a]] = BLACK
          BY <4>2, Zenon DEF Plain
        <4> DEFINE G == [a \in Z \cup {Null} |-> IF a = data THEN 0 ELSE K[a]]
        <4>4. G \in [Z \cup {Null} -> Nat] /\ G[Null] = 0 /\ G[data] = 0 /\ \A a \in X \cup {Null} : G[a] = K[a]
          BY <1>3, <4>3
        <4> HIDE DEF G
        <4>5. p \in X /\ d \in Side /\ t.kid[d][p] = Null /\ p # data
          BY <3>1 DEF Place
        <4>6. \A a \in Z : u.color[a] \in {RED, BLACK}
          BY <1>4, <3>2, <3>5, <4>3
        <4>7. ASSUME NEW a \in Z, NEW e \in Side PROVE G[a] = G[u.kid[e][a]] + (IF u.color[a] = BLACK THEN 1 ELSE 0)
          <5>1. CASE a = data
            <6>1. u.kid[e][a] = Null /\ u.color[a] = RED
              BY <1>3, <1>4, <3>2, <3>5, <4>5, <5>1
            <6> QED  BY <4>4, <5>1, <6>1 DEF RED, BLACK
          <5>2. CASE a # data
            <6>1. a \in X
              BY <5>2
            <6>2. K[a] = K[t.kid[e][a]] + (IF t.color[a] = BLACK THEN 1 ELSE 0)
              BY <4>3, <6>1
            <6>3. G[u.kid[e][a]] = K[t.kid[e][a]]
              <7>1. CASE <<e, a>> = <<d, p>>
                BY <3>2, <4>3, <4>4, <4>5, <7>1
              <7>2. CASE <<e, a>> # <<d, p>>
                <8>1. u.kid[e][a] = t.kid[e][a] /\ t.kid[e][a] \in X \cup {Null}
                  BY <1>3, <1>6, <3>2, <6>1, <7>2 DEF Links
                <8> QED  BY <4>4, <8>1
              <7> QED  BY <7>1, <7>2
            <6> QED  BY <3>2, <4>4, <6>1, <6>2, <6>3
          <5> QED  BY <5>1, <5>2
        <4>8. ASSUME NEW a \in Z, a # u.root, a # data, u.color[a] = RED PROVE u.color[u.parent[a]] = BLACK
          <5>1. a \in X /\ a # t.root /\ a # s.root /\ t.color[a] = RED /\ u.parent[a] = t.parent[a]
            BY <1>3, <1>6, <3>2, <4>8
          <5>2. t.color[t.parent[a]] = BLACK
            BY <4>3, <5>1, Zenon
          <5> QED  BY <3>2, <5>1, <5>2, Zenon
        <4>9. Plain(u, Z, G, data)
          BY <4>4, <4>6, <4>7, <4>8, Zenon DEF Plain
        <4> QED  BY <4>9
      <3>6. Fixing(<<u, data>>, Z, still, A)
        BY <3>4, <3>5 DEF Fixing
      <3> QED  BY <3>6
    <2> QED  BY <2>1, <2>2
  <1> HIDE DEF u, Z, still
  <1>8. PICK v, D : Fixing(v, Z, still, D) /\ ~ Violated(v[1], v[2]) /\ fixViolation(u, data) = Fixed(v)
    BY <1>7, FixEnds
  <1>9. Sound(Fixed(v), Z, still)
    BY <1>8, FixedSound
  <1> QED  BY <1>5, <1>8, <1>9 DEF Z, still

\* insert, and the color that nothing reads.
LEMMA InsertSound ==
  ASSUME NEW s, NEW X, NEW clean, Sound(s, X, clean), NEW data \in RbKeys, NEW c \in Color
  PROVE  LET r == Coloured(RbInsert(s, X, data, c), DUPLICATE, RED)
         IN  /\ r.ok => Sound(r, X \cup {data}, clean /\ c = RED)
             /\ ~ r.ok => data \in X
  <1> DEFINE q == RbInsert(s, X, data, c)
             r == Coloured(q, DUPLICATE, RED)
  <1>1. X \subseteq RbKeys /\ DUPLICATE \in RbAddress /\ RED \in Color /\ DUPLICATE \notin X \cup {data} /\ X \cup {data} \subseteq RbAddress
    BY RbAddresses DEF Sound, Links, Color
  <1>2. ASSUME q \in RBTree PROVE Agree(q, r, X \cup {data})
    <2>1. SameLinks(q, r) /\ r.color = [q.color EXCEPT ![DUPLICATE] = RED]
      BY <1>1, <1>2, ColouredFields
    <2>2. q.color \in [RbAddress -> Color]
      BY <1>2, RbFields
    <2>3. \A a \in X \cup {data} : r.color[a] = q.color[a]
      BY <1>1, <2>1, <2>2
    <2> QED  BY <2>1, <2>3 DEF SameLinks, Agree
  <1> HIDE DEF r
  <1>3. CASE data \in X
    <2>1. q \in RBTree /\ (q.ok => Agree(s, q, X)) /\ X \cup {data} = X
      BY <1>3, InsertAgain
    <2> HIDE DEF q
    <2>2. r.ok = q.ok
      BY <1>2, <2>1 DEF Agree
    <2>3. ASSUME r.ok PROVE Sound(r, X \cup {data}, clean /\ c = RED)
      <3>1. Sound(q, X, clean)
        BY <2>1, <2>2, <2>3, AgreeSound
      <3>2. Sound(r, X, clean)
        BY <1>2, <2>1, <3>1, AgreeSound
      <3> QED  BY <2>1, <3>2 DEF Sound
    <2> QED  BY <1>3, <2>3 DEF r, q
  <1>4. CASE data \notin X
    <2>1. Sound(q, X \cup {data}, clean /\ c = RED)
      BY <1>4, InsertNew
    <2> HIDE DEF q
    <2>2. Sound(r, X \cup {data}, clean /\ c = RED)
      <3>1. q \in RBTree
        BY <2>1 DEF Sound
      <3>2. Agree(q, r, X \cup {data})
        BY <1>2, <3>1
      <3> QED  BY <2>1, <3>2, AgreeSound, Zenon
    <2> QED  BY <2>2 DEF Sound, r, q
  <1> QED  BY <1>3, <1>4

-----------------------------------------------------------------------------
(* What is printed and measured.                                           *)

\* The sequence q has the elements of S in order, each of them once.
Listed(q, S) == q \in Seq(Int) /\ Ascending(q) /\ ToSet(q) = S /\ Len(q) = Cardinality(S)

\* A sequence with a between p and q.
Joined(s, p, a, q) ==
  /\ s \in Seq(Int) /\ Len(s) = Len(p) + 1 + Len(q)
  /\ \A i \in 1 .. Len(p) : s[i] = p[i]
  /\ s[Len(p) + 1] = a
  /\ \A i \in 1 .. Len(q) : s[Len(p) + 1 + i] = q[i]

\* Such is what two concatenations make.
LEMMA JoinedSequence ==
  ASSUME NEW p \in Seq(Int), NEW q \in Seq(Int), NEW a \in Int
  PROVE  Joined(p \o <<a>> \o q, p, a, q)
  <1> DEFINE r == p \o <<a>>
             s == r \o q
             m == Len(p)
             n == Len(q)
  <1>1. r \in Seq(Int) /\ Len(r) = m + 1 /\ (\A i \in 1 .. m : r[i] = p[i]) /\ r[m + 1] = a /\ m \in Nat /\ n \in Nat
    OBVIOUS
  <1> HIDE DEF r
  <1>2. s \in Seq(Int) /\ Len(s) = Len(r) + Len(q) /\ \A i \in 1 .. Len(r) + Len(q) : s[i] = IF i <= Len(r) THEN r[i] ELSE q[i - Len(r)]
    BY <1>1, ConcatProperties
  <1> HIDE DEF s, m
  <1>3. Len(s) = m + 1 + n /\ \A i \in 1 .. m + 1 + n : s[i] = IF i <= m + 1 THEN r[i] ELSE q[i - (m + 1)]
    BY <1>1, <1>2
  <1> HIDE DEF n
  <1>4. (\A i \in 1 .. m : s[i] = p[i]) /\ s[m + 1] = a
    BY <1>1, <1>3
  <1>5. ASSUME NEW i \in 1 .. n PROVE s[m + 1 + i] = q[i]
    <2>1. m + 1 + i \in 1 .. m + 1 + n /\ ~ (m + 1 + i <= m + 1) /\ (m + 1 + i) - (m + 1) = i
      BY <1>1
    <2> QED  BY <1>3, <2>1
  <1>6. Joined(s, p, a, q)
    BY <1>2, <1>3, <1>4, <1>5, Zenon, Zenon DEF Joined, m, n
  <1> QED  BY <1>6 DEF s, r

\* The places of a listed element.
LEMMA ListedPlaces ==
  ASSUME NEW q, NEW S, Listed(q, S), NEW n, n = Len(q)
  PROVE  /\ q \in Seq(Int) /\ n \in Nat /\ n = Cardinality(S)
         /\ \A i \in 1 .. n : q[i] \in S
         /\ \A b \in S : \E i \in 1 .. n : q[i] = b
         /\ \A x, y \in 1 .. n : x < y => q[x] <= q[y]
  <1>1. q \in Seq(Int) /\ Ascending(q) /\ ToSet(q) = S /\ Len(q) = Cardinality(S)
    BY DEF Listed
  <1>2. DOMAIN q = 1 .. n /\ n \in Nat
    BY <1>1
  <1>3. S = {q[i] : i \in 1 .. n}
    BY <1>1, <1>2, Zenon DEF ToSet
  <1>4. \A x, y \in 1 .. n : x < y => q[x] <= q[y]
    BY <1>1, <1>2, Zenon DEF Ascending
  <1> QED  BY <1>1, <1>2, <1>3, <1>4

\* The elements of S are on the side d of a.
Under(d, S, a) == \A b \in S : b \in Int /\ Beside(d, b, a)

\* What is printed for a node: a between what is printed for its children.
LEMMA ListedNode ==
  ASSUME NEW L, NEW R, IsFiniteSet(L), IsFiniteSet(R), NEW a \in Int, Under("left", L, a), Under("right", R, a),
         NEW p, NEW q, Listed(p, L), Listed(q, R)
  PROVE  Listed(p \o <<a>> \o q, {a} \cup L \cup R)
  <1> DEFINE s == p \o <<a>> \o q
             m == Len(p)
             n == Len(q)
             S == {a} \cup L \cup R
  <1>1. /\ p \in Seq(Int) /\ m \in Nat /\ m = Cardinality(L) /\ (\A i \in 1 .. m : p[i] \in L)
        /\ (\A b \in L : \E i \in 1 .. m : p[i] = b) /\ (\A x, y \in 1 .. m : x < y => p[x] <= p[y])
    BY ListedPlaces
  <1>2. /\ q \in Seq(Int) /\ n \in Nat /\ n = Cardinality(R) /\ (\A i \in 1 .. n : q[i] \in R)
         /\ (\A b \in R : \E i \in 1 .. n : q[i] = b) /\ (\A x, y \in 1 .. n : x < y => q[x] <= q[y])
    BY ListedPlaces
  <1>3. p \in Seq(Int) /\ q \in Seq(Int) /\ m \in Nat /\ n \in Nat
    BY <1>1, <1>2
  <1>4. m = Cardinality(L) /\ n = Cardinality(R)
    BY <1>1, <1>2
  <1>5. /\ s \in Seq(Int) /\ Len(s) = m + 1 + n
        /\ \A i \in 1 .. m : s[i] = p[i]
        /\ s[m + 1] = a
        /\ \A i \in 1 .. n : s[m + 1 + i] = q[i]
    BY <1>3, JoinedSequence, Zenon DEF Joined
  <1> HIDE DEF s, m, n
  <1>6. (\A b \in L : b \in Int /\ b <= a /\ b < a) /\ (\A b \in R : b \in Int /\ a <= b /\ a < b)
    BY DEF Under, Beside
  <1>7. \A i \in 1 .. m + 1 + n : i \in 1 .. m \/ i = m + 1 \/ (i - m - 1 \in 1 .. n /\ m + 1 + (i - m - 1) = i)
    BY <1>3
  <1>8. \A i \in 1 .. m + 1 + n : \/ i \in 1 .. m /\ s[i] = p[i] /\ s[i] \in L
                                  \/ i = m + 1 /\ s[i] = a
                                  \/ i > m + 1 /\ i - m - 1 \in 1 .. n /\ s[i] = q[i - m - 1] /\ s[i] \in R
    <2> SUFFICES ASSUME NEW i \in 1 .. m + 1 + n
                 PROVE  \/ i \in 1 .. m /\ s[i] = p[i] /\ s[i] \in L
                        \/ i = m + 1 /\ s[i] = a
                        \/ i > m + 1 /\ i - m - 1 \in 1 .. n /\ s[i] = q[i - m - 1] /\ s[i] \in R
      OBVIOUS
    <2>1. CASE i \in 1 .. m
      BY <1>1, <1>5, <2>1
    <2>2. CASE i = m + 1
      BY <1>5, <2>2
    <2>3. CASE i - m - 1 \in 1 .. n /\ m + 1 + (i - m - 1) = i
      <3> DEFINE k == i - m - 1
      <3>1. k \in 1 .. n /\ m + 1 + k = i /\ i > m + 1
        BY <1>3, <2>3
      <3> HIDE DEF k
      <3>2. s[i] = q[k] /\ q[k] \in R
        BY <1>2, <1>5, <3>1
      <3> QED  BY <3>1, <3>2 DEF k
    <2> QED  BY <1>7, <2>1, <2>2, <2>3
  <1>9. Ascending(s)
    <2> SUFFICES ASSUME NEW i \in 1 .. m + 1 + n, NEW j \in 1 .. m + 1 + n, i < j PROVE s[i] <= s[j]
      BY <1>3, <1>5 DEF Ascending
    <2>1. CASE s[i] \in L /\ s[j] \in {a} \cup R
      <3>1. s[i] \in Int /\ s[i] <= a /\ s[j] \in Int /\ a <= s[j]
        BY <1>6, <2>1
      <3> QED  BY <3>1
    <2>2. CASE s[i] = a /\ s[j] \in R
      BY <1>6, <2>2
    <2>3. CASE i \in 1 .. m /\ j \in 1 .. m
      BY <1>1, <1>5, <2>3
    <2>4. CASE i > m + 1 /\ j > m + 1
      <3>1. i - m - 1 \in 1 .. n /\ j - m - 1 \in 1 .. n /\ s[i] = q[i - m - 1] /\ s[j] = q[j - m - 1] /\ i - m - 1 < j - m - 1
        <4>1. \A x \in 1 .. m + 1 + n : x > m + 1 => x \notin 1 .. m /\ x # m + 1
          BY <1>3
        <4>2. i - m - 1 \in 1 .. n /\ s[i] = q[i - m - 1]
          BY <1>8, <2>4, <4>1, Zenon
        <4>3. j - m - 1 \in 1 .. n /\ s[j] = q[j - m - 1]
          BY <1>8, <2>4, <4>1, Zenon
        <4>4. i - m - 1 < j - m - 1
          BY <1>3
        <4> QED  BY <4>2, <4>3, <4>4
      <3>2. \A x, y \in 1 .. n : x < y => q[x] <= q[y]
        BY <1>2
      <3>3. q[i - m - 1] <= q[j - m - 1]
        BY <3>1, <3>2, Zenon
      <3> QED  BY <3>1, <3>3
    <2> QED  BY <1>3, <1>8, <2>1, <2>2, <2>3, <2>4
  <1>10. ToSet(s) = S
    <2>1. \A i \in 1 .. m + 1 + n : s[i] \in S
      BY <1>8
    <2>2. ASSUME NEW b \in S PROVE \E i \in 1 .. m + 1 + n : s[i] = b
      <3>1. CASE b = a
        <4>1. m + 1 \in 1 .. m + 1 + n
          BY <1>3
        <4> QED  BY <1>5, <3>1, <4>1
      <3>2. CASE b \in L
        <4>1. PICK i \in 1 .. m : p[i] = b
          BY <1>1, <3>2
        <4>2. i \in 1 .. m + 1 + n
          BY <1>3
        <4> QED  BY <1>5, <4>1, <4>2
      <3>3. CASE b \in R
        <4>1. PICK i \in 1 .. n : q[i] = b
          BY <1>2, <3>3
        <4>2. m + 1 + i \in 1 .. m + 1 + n
          BY <1>3
        <4> QED  BY <1>5, <4>1, <4>2
      <3> QED  BY <3>1, <3>2, <3>3
    <2>3. DOMAIN s = 1 .. m + 1 + n
      BY <1>3, <1>5
    <2>4. ToSet(s) = {s[i] : i \in 1 .. m + 1 + n}
      BY <2>3, Zenon DEF ToSet
    <2> HIDE DEF S
    <2> QED  BY <2>1, <2>2, <2>4
  <1>11. Len(s) = Cardinality(S)
    <2>1. L \cap R = {} /\ a \notin L \cup R
      BY <1>6
    <2>2. Cardinality(L \cup R) = Cardinality(L) + Cardinality(R) /\ IsFiniteSet(L \cup R)
      <3>1. Cardinality(L \cap R) = 0
        BY <2>1, FS_EmptySet
      <3>2. /\ IsFiniteSet(L \cup R) /\ Cardinality(L \cup R) = Cardinality(L) + Cardinality(R) - Cardinality(L \cap R)
            /\ Cardinality(L) \in Nat /\ Cardinality(R) \in Nat
        BY FS_Union, FS_CardinalityType
      <3> QED  BY <3>1, <3>2
    <2>3. Cardinality((L \cup R) \cup {a}) = Cardinality(L \cup R) + 1
      BY <2>1, <2>2, FS_AddElement
    <2>4. S = (L \cup R) \cup {a}
      OBVIOUS
    <2>5. Cardinality(S) = m + n + 1
      BY <1>4, <2>2, <2>3, <2>4
    <2> QED  BY <1>3, <1>5, <2>5
  <1> QED  BY <1>5, <1>9, <1>10, <1>11 DEF Listed, s

\* A node without nodes below it is null, and there are enough rounds for the root.
LEMMA BelowRounds ==
  ASSUME NEW s, NEW X, NEW B, Links(s, X, B)
  PROVE  /\ \A a \in X \cup {Null} : Cardinality(B[a]) <= 0 => a = Null
         /\ RbRounds \in Nat /\ Cardinality(X) < RbRounds /\ Cardinality(X) \in Nat /\ Cardinality(B[s.root]) <= RbRounds
  <1>1. ASSUME NEW a \in X PROVE Cardinality(B[a]) \in Nat /\ Cardinality(B[a]) # 0
    <2>1. a \in B[a] /\ IsFiniteSet(B[a])
      BY LinksBelow, LinksFinite, Sides
    <2> QED  BY <2>1, FS_CardinalityType, FS_EmptySet
  <1>2. X \subseteq RbKeys /\ B[s.root] = X
    BY DEF Links
  <1>3. Cardinality(X) <= Cardinality(RbKeys) /\ Cardinality(X) \in Nat /\ Cardinality(RbKeys) \in Nat
    BY <1>2, RbAssumption, FS_Subset, FS_CardinalityType
  <1> QED  BY <1>1, <1>2, <1>3 DEF RbRounds

\* What inorderHelper prints for a, from what it prints for the nodes below.
InorderRound(s, g, a) == IF a = Null THEN <<>> ELSE g[s.kid["left"][a]] \o <<a>> \o g[s.kid["right"][a]]

\* C[n][a] is that, n calls deep.
InorderCalls(s, C) ==
  C = [n \in Nat |-> IF n = 0 THEN [a \in RbPointer |-> <<>>] ELSE [a \in RbPointer |-> InorderRound(s, C[n - 1], a)]]

\* inorderHelper prints the nodes in order.
LEMMA InorderTree ==
  ASSUME NEW s \in RBTree, NEW X, NEW B, Links(s, X, B)
  PROVE  Listed(inorderHelper(s), X)
  <1> DEFINE Y == [RbPointer -> Seq(RbPointer)]
             G(f) == [a \in RbPointer |-> InorderRound(s, f, a)]
             F == [f \in Y |-> G(f)]
             x == [a \in RbPointer |-> <<>>]
             C == CHOOSE D : InorderCalls(s, D)
  <1>1. \A f \in Y : G(f) \in Y
    <2> SUFFICES ASSUME NEW f \in Y, NEW a \in RbPointer PROVE InorderRound(s, f, a) \in Seq(RbPointer)
      OBVIOUS
    <2>1. CASE a = Null
      BY <2>1 DEF InorderRound
    <2>2. CASE a # Null
      <3>1. s.kid["left"][a] \in RbPointer /\ s.kid["right"][a] \in RbPointer
        BY <2>2, RbFields, RbAddresses, Sides
      <3>2. f[s.kid["left"][a]] \in Seq(RbPointer) /\ f[s.kid["right"][a]] \in Seq(RbPointer) /\ <<a>> \in Seq(RbPointer)
        BY <3>1
      <3> QED  BY <2>2, <3>2 DEF InorderRound
    <2> QED  BY <2>1, <2>2
  <1>2. x \in Y
    OBVIOUS
  <1>3. \A D : InorderCalls(s, D) <=> D = [n \in Nat |-> IF n = 0 THEN x ELSE G(D[n - 1])]
    BY DEF InorderCalls
  <1>4. inorderHelper(s) = C[RbRounds][s.root]
    BY Zenon DEF inorderHelper, InorderCalls, InorderRound
  <1>5. \A f : \A a \in RbPointer : G(f)[a] = InorderRound(s, f, a)
    OBVIOUS
  <1>6. \A a \in RbPointer : x[a] = <<>>
    OBVIOUS
  <1> HIDE DEF G, x
  <1>7. F \in [Y -> Y] /\ \A f \in Y : F[f] = G(f)
    BY <1>1
  <1> HIDE DEF F, Y
  <1>8. \E D : InorderCalls(s, D)
    <2>1. PICK D \in [Nat -> Y] : Recursion(F, x, D)
      BY <1>2, <1>7, RecursionExists
    <2>2. \A n \in Nat : n # 0 => F[D[n - 1]] = G(D[n - 1])
      BY <1>7
    <2>3. D = [n \in Nat |-> IF n = 0 THEN x ELSE G(D[n - 1])]
      BY <2>1, <2>2 DEF Recursion
    <2> QED  BY <1>3, <2>3
  <1>9. InorderCalls(s, C)
    BY <1>8, Zenon
  <1> HIDE DEF C
  <1>10. C[0] = x /\ \A n \in Nat : C[n + 1] = G(C[n])
    <2>1. C = [n \in Nat |-> IF n = 0 THEN x ELSE G(C[n - 1])]
      BY <1>3, <1>9
    <2>2. ASSUME NEW n \in Nat PROVE C[n + 1] = G(C[n])
      <3>1. n + 1 \in Nat /\ n + 1 # 0 /\ (n + 1) - 1 = n
        OBVIOUS
      <3>2. C[n + 1] = G(C[(n + 1) - 1])
        BY <2>1, <3>1
      <3> QED  BY <3>1, <3>2
    <2> QED  BY <2>1, <2>2
  <1>11. /\ X \subseteq RbKeys /\ X \subseteq RbAddress /\ X \subseteq Int /\ X \cup {Null} \subseteq RbPointer /\ s.root \in X \cup {Null}
         /\ B[s.root] = X /\ B \in [X \cup {Null} -> SUBSET X] /\ B[Null] = {} /\ Null \notin X
         /\ \A a \in X, d \in Side : s.kid[d][a] \in X \cup {Null}
    BY RbAddresses DEF Links
  <1>12. Listed(<<>>, {})
    BY FS_EmptySet DEF Listed, Ascending, ToSet
  <1> DEFINE S == {n \in Nat : \A a \in X \cup {Null} : Cardinality(B[a]) <= n => Listed(C[n][a], B[a])}
  <1>13. 0 \in S
    <2> SUFFICES ASSUME NEW a \in X \cup {Null}, Cardinality(B[a]) <= 0 PROVE Listed(C[0][a], B[a])
      OBVIOUS
    <2>1. a = Null
      BY BelowRounds
    <2>2. C[0][a] = <<>>
      BY <1>6, <1>10, <1>11
    <2> QED  BY <1>11, <1>12, <2>1, <2>2
  <1>14. ASSUME NEW n \in Nat, n \in S PROVE n + 1 \in S
    <2> SUFFICES ASSUME NEW a \in X \cup {Null}, Cardinality(B[a]) <= n + 1 PROVE Listed(C[n + 1][a], B[a])
      OBVIOUS
    <2>1. C[n + 1][a] = InorderRound(s, C[n], a)
      <3>1. a \in RbPointer
        BY <1>11
      <3> QED  BY <1>5, <1>10, <3>1
    <2>2. CASE a = Null
      <3>1. C[n + 1][a] = <<>>
        BY <2>1, <2>2 DEF InorderRound
      <3> QED  BY <1>11, <1>12, <2>2, <3>1
    <2>3. CASE a # Null
      <3> DEFINE l == s.kid["left"][a]
                 r == s.kid["right"][a]
      <3>1. a \in X /\ l \in X \cup {Null} /\ r \in X \cup {Null}
        BY <1>11, <2>3, Sides
      <3>2. Cardinality(B[l]) < Cardinality(B[a]) /\ Cardinality(B[r]) < Cardinality(B[a])
        BY <3>1, FewerBelow, Sides
      <3>3. /\ IsFiniteSet(B[l]) /\ IsFiniteSet(B[r]) /\ Cardinality(B[l]) \in Nat /\ Cardinality(B[r]) \in Nat
            /\ Cardinality(B[a]) \in Nat
        BY <3>1, LinksFinite
      <3>4. Cardinality(B[l]) <= n /\ Cardinality(B[r]) <= n
        BY <3>2, <3>3
      <3>5. Listed(C[n][l], B[l]) /\ Listed(C[n][r], B[r])
        BY <1>14, <3>1, <3>4
      <3>6. B[a] = {a} \cup B[l] \cup B[r] /\ (\A b \in B[l] : Beside("left", b, a)) /\ (\A b \in B[r] : Beside("right", b, a))
        BY <3>1, Sides DEF Links
      <3>7. Under("left", B[l], a) /\ Under("right", B[r], a) /\ a \in Int
        <4>1. B[l] \in SUBSET Int /\ B[r] \in SUBSET Int /\ a \in Int
          BY <1>11, <3>1
        <4> QED  BY <3>6, <4>1 DEF Under
      <3>8. C[n + 1][a] = C[n][l] \o <<a>> \o C[n][r]
        BY <2>1, <2>3 DEF InorderRound
      <3> HIDE DEF l, r
      <3> QED  BY <3>3, <3>5, <3>6, <3>7, <3>8, ListedNode
    <2> QED  BY <2>2, <2>3
  <1>15. \A n \in Nat : n \in S
    <2> HIDE DEF S
    <2> QED  BY <1>13, <1>14, AllNaturals
  <1>16. Listed(C[RbRounds][s.root], B[s.root])
    BY <1>11, <1>15, BelowRounds
  <1> QED  BY <1>4, <1>11, <1>16

\* The black nodes on the ways down from a, from those from its children.
HeightRound(s, g, a) ==
  IF a = Null THEN {0}
  ELSE {h + (IF s.color[a] = BLACK THEN 1 ELSE 0) : h \in g[s.kid["left"][a]] \cup g[s.kid["right"][a]]}

\* C[n][a] are those, as far as n levels go.
HeightCalls(s, C) ==
  C = [n \in Nat |-> IF n = 0 THEN [a \in RbPointer |-> {0}] ELSE [a \in RbPointer |-> HeightRound(s, C[n - 1], a)]]

\* All ways down have the same number of black nodes.
LEMMA HeightsTree ==
  ASSUME NEW s \in RBTree, NEW X, NEW B, Links(s, X, B), NEW H, NEW pt, Plain(s, X, H, pt)
  PROVE  BlackHeights(s) = {H[s.root]}
  <1> DEFINE Y == [RbPointer -> SUBSET Nat]
             G(f) == [a \in RbPointer |-> HeightRound(s, f, a)]
             F == [f \in Y |-> G(f)]
             x == [a \in RbPointer |-> {0}]
             C == CHOOSE D : HeightCalls(s, D)
  <1>1. \A f \in Y : G(f) \in Y
    <2> SUFFICES ASSUME NEW f \in Y, NEW a \in RbPointer PROVE HeightRound(s, f, a) \in SUBSET Nat
      OBVIOUS
    <2>1. CASE a = Null
      BY <2>1 DEF HeightRound
    <2>2. CASE a # Null
      <3>1. s.kid["left"][a] \in RbPointer /\ s.kid["right"][a] \in RbPointer
        BY <2>2, RbFields, RbAddresses, Sides
      <3>2. f[s.kid["left"][a]] \in SUBSET Nat /\ f[s.kid["right"][a]] \in SUBSET Nat
        BY <3>1
      <3> QED  BY <2>2, <3>2 DEF HeightRound
    <2> QED  BY <2>1, <2>2
  <1>2. x \in Y
    OBVIOUS
  <1>3. \A D : HeightCalls(s, D) <=> D = [n \in Nat |-> IF n = 0 THEN x ELSE G(D[n - 1])]
    BY DEF HeightCalls
  <1>4. BlackHeights(s) = C[RbRounds][s.root]
    BY Zenon DEF BlackHeights, HeightCalls, HeightRound
  <1>5. \A f : \A a \in RbPointer : G(f)[a] = HeightRound(s, f, a)
    OBVIOUS
  <1>6. \A a \in RbPointer : x[a] = {0}
    OBVIOUS
  <1> HIDE DEF G, x
  <1>7. F \in [Y -> Y] /\ \A f \in Y : F[f] = G(f)
    BY <1>1
  <1> HIDE DEF F, Y
  <1>8. \E D : HeightCalls(s, D)
    <2>1. PICK D \in [Nat -> Y] : Recursion(F, x, D)
      BY <1>2, <1>7, RecursionExists
    <2>2. \A n \in Nat : n # 0 => F[D[n - 1]] = G(D[n - 1])
      BY <1>7
    <2>3. D = [n \in Nat |-> IF n = 0 THEN x ELSE G(D[n - 1])]
      BY <2>1, <2>2 DEF Recursion
    <2> QED  BY <1>3, <2>3
  <1>9. HeightCalls(s, C)
    BY <1>8, Zenon
  <1> HIDE DEF C
  <1>10. C[0] = x /\ \A n \in Nat : C[n + 1] = G(C[n])
    <2>1. C = [n \in Nat |-> IF n = 0 THEN x ELSE G(C[n - 1])]
      BY <1>3, <1>9
    <2>2. ASSUME NEW n \in Nat PROVE C[n + 1] = G(C[n])
      <3>1. n + 1 \in Nat /\ n + 1 # 0 /\ (n + 1) - 1 = n
        OBVIOUS
      <3>2. C[n + 1] = G(C[(n + 1) - 1])
        BY <2>1, <3>1
      <3> QED  BY <3>1, <3>2
    <2> QED  BY <2>1, <2>2
  <1>11. /\ X \cup {Null} \subseteq RbPointer /\ s.root \in X \cup {Null} /\ Null \notin X
         /\ \A a \in X, d \in Side : s.kid[d][a] \in X \cup {Null}
    BY RbAddresses DEF Links
  <1>12. /\ H \in [X \cup {Null} -> Nat] /\ H[Null] = 0
         /\ \A a \in X, d \in Side : H[a] = H[s.kid[d][a]] + (IF s.color[a] = BLACK THEN 1 ELSE 0)
    BY Zenon DEF Plain
  <1> DEFINE S == {n \in Nat : \A a \in X \cup {Null} : Cardinality(B[a]) <= n => C[n][a] = {H[a]}}
  <1>13. 0 \in S
    <2> SUFFICES ASSUME NEW a \in X \cup {Null}, Cardinality(B[a]) <= 0 PROVE C[0][a] = {H[a]}
      OBVIOUS
    <2>1. a = Null
      BY BelowRounds
    <2>2. C[0][a] = {0}
      BY <1>6, <1>10, <1>11
    <2> QED  BY <1>12, <2>1, <2>2
  <1>14. ASSUME NEW n \in Nat, n \in S PROVE n + 1 \in S
    <2> SUFFICES ASSUME NEW a \in X \cup {Null}, Cardinality(B[a]) <= n + 1 PROVE C[n + 1][a] = {H[a]}
      OBVIOUS
    <2>1. C[n + 1][a] = HeightRound(s, C[n], a)
      <3>1. a \in RbPointer
        BY <1>11
      <3> QED  BY <1>5, <1>10, <3>1
    <2>2. CASE a = Null
      <3>1. C[n + 1][a] = {0}
        BY <2>1, <2>2 DEF HeightRound
      <3> QED  BY <1>12, <2>2, <3>1
    <2>3. CASE a # Null
      <3> DEFINE l == s.kid["left"][a]
                 r == s.kid["right"][a]
                 k == IF s.color[a] = BLACK THEN 1 ELSE 0
      <3>1. a \in X /\ l \in X \cup {Null} /\ r \in X \cup {Null}
        BY <1>11, <2>3, Sides
      <3>2. Cardinality(B[l]) < Cardinality(B[a]) /\ Cardinality(B[r]) < Cardinality(B[a])
        BY <3>1, FewerBelow, Sides
      <3>3. Cardinality(B[l]) \in Nat /\ Cardinality(B[r]) \in Nat /\ Cardinality(B[a]) \in Nat
        BY <3>1, LinksFinite
      <3>4. Cardinality(B[l]) <= n /\ Cardinality(B[r]) <= n
        BY <3>2, <3>3
      <3>5. C[n][l] = {H[l]} /\ C[n][r] = {H[r]}
        BY <1>14, <3>1, <3>4
      <3>6. H[a] = H[l] + k /\ H[a] = H[r] + k
        BY <1>12, <3>1, Sides, Zenon
      <3>7. C[n + 1][a] = {h + k : h \in C[n][l] \cup C[n][r]}
        BY <2>1, <2>3 DEF HeightRound
      <3> HIDE DEF l, r, k
      <3> QED  BY <3>5, <3>6, <3>7
    <2> QED  BY <2>2, <2>3
  <1>15. \A n \in Nat : n \in S
    <2> HIDE DEF S
    <2> QED  BY <1>13, <1>14, AllNaturals
  <1> QED  BY <1>4, <1>11, <1>15, BelowRounds

\* The steps up from b, from those from its parent.
DepthRound(s, g, b) == IF b \in {s.root, Null} THEN 0 ELSE g[s.parent[b]] + 1

\* C[n][b] are those, as far as n steps go.
DepthOf(s, C) ==
  C = [n \in Nat |-> IF n = 0 THEN [b \in RbPointer |-> 0] ELSE [b \in RbPointer |-> DepthRound(s, C[n - 1], b)]]

\* Children are one deeper than their parents.
LEMMA RbDepths ==
  ASSUME NEW s \in RBTree, NEW X, NEW B, Links(s, X, B), Parents(s, X)
  PROVE  /\ \A a \in X : RbDepth(s, a) \in Nat
         /\ \A a \in X, d \in Side : s.kid[d][a] # Null => RbDepth(s, s.kid[d][a]) = RbDepth(s, a) + 1
  <1> DEFINE Y == [RbPointer -> Nat]
             G(f) == [b \in RbPointer |-> DepthRound(s, f, b)]
             F == [f \in Y |-> G(f)]
             x == [b \in RbPointer |-> 0]
             C == CHOOSE D : DepthOf(s, D)
  <1>1. \A f \in Y : G(f) \in Y
    <2> SUFFICES ASSUME NEW f \in Y, NEW b \in RbPointer PROVE DepthRound(s, f, b) \in Nat
      OBVIOUS
    <2>1. b # Null => s.parent[b] \in RbPointer
      BY RbFields, RbAddresses
    <2> QED  BY <2>1 DEF DepthRound
  <1>2. x \in Y
    OBVIOUS
  <1>3. \A D : DepthOf(s, D) <=> D = [n \in Nat |-> IF n = 0 THEN x ELSE G(D[n - 1])]
    BY DEF DepthOf
  <1>4. \A a : RbDepth(s, a) = C[RbRounds][a]
    BY Zenon DEF RbDepth, DepthOf, DepthRound
  <1>5. \A f : \A b \in RbPointer : G(f)[b] = DepthRound(s, f, b)
    OBVIOUS
  <1>6. \A b \in RbPointer : x[b] = 0
    OBVIOUS
  <1> HIDE DEF G, x
  <1>7. F \in [Y -> Y] /\ \A f \in Y : F[f] = G(f)
    BY <1>1
  <1>8. \A f \in Y, b \in RbPointer : f[b] \in Nat
    OBVIOUS
  <1> HIDE DEF F, Y
  <1>9. \E D : DepthOf(s, D) /\ D \in [Nat -> Y]
    <2>1. PICK D \in [Nat -> Y] : Recursion(F, x, D)
      BY <1>2, <1>7, RecursionExists
    <2>2. \A n \in Nat : n # 0 => F[D[n - 1]] = G(D[n - 1])
      BY <1>7
    <2>3. D = [n \in Nat |-> IF n = 0 THEN x ELSE G(D[n - 1])]
      BY <2>1, <2>2 DEF Recursion
    <2> QED  BY <1>3, <2>3
  <1>10. DepthOf(s, C)
    BY <1>9, Zenon
  <1> HIDE DEF C
  <1>11. C[0] = x /\ \A n \in Nat : C[n + 1] = G(C[n])
    <2>1. C = [n \in Nat |-> IF n = 0 THEN x ELSE G(C[n - 1])]
      BY <1>3, <1>10
    <2>2. ASSUME NEW n \in Nat PROVE C[n + 1] = G(C[n])
      <3>1. n + 1 \in Nat /\ n + 1 # 0 /\ (n + 1) - 1 = n
        OBVIOUS
      <3>2. C[n + 1] = G(C[(n + 1) - 1])
        BY <2>1, <3>1
      <3> QED  BY <3>1, <3>2
    <2> QED  BY <2>1, <2>2
  <1>12. \A n \in Nat : C[n] \in Y
    <2> DEFINE T == {n \in Nat : C[n] \in Y}
    <2>1. 0 \in T
      BY <1>2, <1>11
    <2>2. \A n \in Nat : n \in T => n + 1 \in T
      BY <1>1, <1>11
    <2> HIDE DEF T
    <2>3. \A n \in Nat : n \in T
      BY <2>1, <2>2, AllNaturals
    <2> QED  BY <2>3 DEF T
  <1>13. /\ X \cup {Null} \subseteq RbPointer /\ s.root \in X \cup {Null} /\ Null \notin X /\ B[s.root] = X
         /\ \A a \in X, d \in Side : s.kid[d][a] \in X \cup {Null}
         /\ \A a \in X : B[a] \subseteq X
    BY RbAddresses DEF Links
  <1>14. \A n \in Nat, a \in X : C[n + 1][a] = IF a = s.root THEN 0 ELSE C[n][s.parent[a]] + 1
    <2> SUFFICES ASSUME NEW n \in Nat, NEW a \in X PROVE C[n + 1][a] = IF a = s.root THEN 0 ELSE C[n][s.parent[a]] + 1
      OBVIOUS
    <2>1. a \in RbPointer /\ a # Null
      BY <1>13
    <2>2. C[n + 1][a] = DepthRound(s, C[n], a)
      BY <1>5, <1>11, <2>1
    <2> QED  BY <2>1, <2>2 DEF DepthRound
  <1>15. \A a \in X : a # s.root => s.parent[a] \in X /\ Cardinality(B[a]) < Cardinality(B[s.parent[a]])
    <2> SUFFICES ASSUME NEW a \in X, a # s.root PROVE s.parent[a] \in X /\ Cardinality(B[a]) < Cardinality(B[s.parent[a]])
      OBVIOUS
    <2>1. PICK d \in Side : s.parent[a] \in X /\ a = s.kid[d][s.parent[a]]
      BY DEF Parents
    <2>2. Cardinality(B[s.kid[d][s.parent[a]]]) < Cardinality(B[s.parent[a]])
      BY <2>1, FewerBelow
    <2> QED  BY <2>1, <2>2
  <1>16. \A a \in X : Cardinality(B[a]) \in Nat /\ Cardinality(B[a]) # 0 /\ Cardinality(B[a]) <= Cardinality(X) /\ Cardinality(X) \in Nat
    BY BelowRounds, LinksFinite, <1>13
  <1> DEFINE S == {n \in Nat : \A a \in X : Cardinality(X) <= Cardinality(B[a]) + n => C[n + 1][a] = C[n][a]}
  <1>17. \A n \in Nat : n \in S
    <2>1. 0 \in S
      <3> SUFFICES ASSUME NEW a \in X, Cardinality(X) <= Cardinality(B[a]) + 0 PROVE C[0 + 1][a] = C[0][a]
        OBVIOUS
      <3>1. a = s.root
        BY <1>15, <1>16
      <3>2. C[0][a] = 0
        BY <1>6, <1>11, <1>13
      <3> QED  BY <1>14, <3>1, <3>2
    <2>2. ASSUME NEW n \in Nat, n \in S PROVE n + 1 \in S
      <3> SUFFICES ASSUME NEW a \in X, Cardinality(X) <= Cardinality(B[a]) + (n + 1) PROVE C[(n + 1) + 1][a] = C[n + 1][a]
        OBVIOUS
      <3>1. n + 1 \in Nat
        OBVIOUS
      <3>2. C[n + 1][a] = (IF a = s.root THEN 0 ELSE C[n][s.parent[a]] + 1) /\ C[(n + 1) + 1][a] = (IF a = s.root THEN 0 ELSE C[n + 1][s.parent[a]] + 1)
        BY <1>14, <3>1
      <3>3. a # s.root => s.parent[a] \in X /\ Cardinality(X) <= Cardinality(B[s.parent[a]]) + n
        BY <1>15, <1>16
      <3>4. a # s.root => C[n + 1][s.parent[a]] = C[n][s.parent[a]]
        BY <2>2, <3>3
      <3> QED  BY <3>2, <3>4
    <2> HIDE DEF S
    <2> QED  BY <2>1, <2>2, AllNaturals
  <1> DEFINE m == Cardinality(RbKeys)
  <1>18. m \in Nat /\ RbRounds = m + 1 /\ m + 1 \in Nat /\ \A a \in X : Cardinality(X) <= Cardinality(B[a]) + m
    <2>1. RbRounds \in Nat /\ Cardinality(X) < RbRounds
      BY BelowRounds
    <2>2. m \in Nat /\ RbRounds = m + 1
      BY RbAssumption, FS_CardinalityType DEF RbRounds
    <2> QED  BY <1>16, <2>1, <2>2
  <1>19. \A a \in X : C[m + 1][a] = C[m][a]
    BY <1>17, <1>18
  <1>20. ASSUME NEW a \in X PROVE RbDepth(s, a) \in Nat
    <2>1. C[RbRounds] \in Y /\ a \in RbPointer
      BY <1>13, <1>12, <1>18
    <2> QED  BY <1>4, <1>8, <2>1
  <1>21. ASSUME NEW a \in X, NEW d \in Side, s.kid[d][a] # Null PROVE RbDepth(s, s.kid[d][a]) = RbDepth(s, a) + 1
    <2> DEFINE k == s.kid[d][a]
    <2>1. k \in X /\ s.parent[k] = a /\ k # s.root
      <3>1. k \in X /\ s.parent[k] = a
        BY <1>13, <1>21 DEF Parents
      <3>2. k # s.root
        BY <1>13, <3>1 DEF Parents
      <3> QED  BY <3>1, <3>2
    <2>2. C[m + 1][k] = C[m][a] + 1
      BY <1>14, <1>18, <2>1
    <2> QED  BY <1>4, <1>18, <1>19, <2>2
  <1> QED  BY <1>20, <1>21

-----------------------------------------------------------------------------
(* levelOrder.  w are the nodes that have been in the queue, in the order in *)
(* which they came: the first k of them have been printed.                 *)

\* The printed nodes are one each; below the nodes in the queue are the others, one
\* each; and the nodes came by their depth D, those in the queue from two levels.
Swept(X, B, D, w, k) ==
  /\ w \in Seq(X) /\ k \in 0 .. Len(w)
  /\ \A i, j \in k + 1 .. Len(w) : i # j => B[w[i]] \cap B[w[j]] = {}
  /\ \A i, j \in 1 .. k : i < j => w[i] # w[j]
  /\ \A i \in 1 .. k, j \in k + 1 .. Len(w) : w[i] \notin B[w[j]]
  /\ \A b \in X : (\E i \in 1 .. k : b = w[i]) \/ (\E j \in k + 1 .. Len(w) : b \in B[w[j]])
  /\ \A i, j \in 1 .. Len(w) : i < j => D[w[i]] <= D[w[j]]
  /\ \A j \in k + 1 .. Len(w) : D[w[j]] <= D[w[k + 1]] + 1

\* The sequence v is w with the children l and r at its end.
Children(w, v, l, r) ==
  /\ Len(v) >= Len(w) /\ Len(v) \in Nat
  /\ \A i \in 1 .. Len(w) : v[i] = w[i]
  /\ \A i \in Len(w) + 1 .. Len(v) : v[i] \in {l, r} \ {Null}
  /\ \A i, j \in Len(w) + 1 .. Len(v) : i # j => v[i] # v[j]
  /\ \A b \in {l, r} : b # Null => \E j \in Len(w) + 1 .. Len(v) : v[j] = b

\* Pushing both children does that.
LEMMA PushedChildren ==
  ASSUME NEW X, NEW w \in Seq(X), NEW l \in X \cup {Null}, NEW r \in X \cup {Null}, l # Null => l # r
  PROVE  Pushed(Pushed(w, l), r) \in Seq(X) /\ Children(w, Pushed(Pushed(w, l), r), l, r)
  <1> DEFINE v == Pushed(w, l)
             u == Pushed(v, r)
             m == Len(w)
  <1>1. m \in Nat
    OBVIOUS
  <1>2. CASE l = Null /\ r = Null
    <2>1. u = w
      BY <1>2 DEF Pushed
    <2> QED  BY <1>1, <1>2, <2>1 DEF Children
  <1>3. CASE l # Null /\ r = Null
    <2>1. u = Append(w, l) /\ l \in X
      BY <1>3 DEF Pushed
    <2>2. u \in Seq(X) /\ Len(u) = m + 1 /\ (\A i \in 1 .. m : u[i] = w[i]) /\ u[m + 1] = l
      BY <2>1, AppendProperties
    <2> HIDE DEF u, m
    <2>3. \A i \in m + 1 .. Len(u) : i = m + 1
      BY <1>1, <2>2
    <2>4. m + 1 \in m + 1 .. Len(u)
      BY <1>1, <2>2
    <2>5. Children(w, u, l, r)
      BY <1>1, <1>3, <2>2, <2>3, <2>4 DEF Children, m
    <2> QED  BY <2>2, <2>5 DEF u
  <1>4. CASE l = Null /\ r # Null
    <2>1. u = Append(w, r) /\ r \in X
      BY <1>4 DEF Pushed
    <2>2. u \in Seq(X) /\ Len(u) = m + 1 /\ (\A i \in 1 .. m : u[i] = w[i]) /\ u[m + 1] = r
      BY <2>1, AppendProperties
    <2> HIDE DEF u, m
    <2>3. \A i \in m + 1 .. Len(u) : i = m + 1
      BY <1>1, <2>2
    <2>4. m + 1 \in m + 1 .. Len(u)
      BY <1>1, <2>2
    <2>5. Children(w, u, l, r)
      BY <1>1, <1>4, <2>2, <2>3, <2>4 DEF Children, m
    <2> QED  BY <2>2, <2>5 DEF u
  <1>5. CASE l # Null /\ r # Null
    <2>1. v = Append(w, l) /\ l \in X /\ r \in X
      BY <1>5 DEF Pushed
    <2>2. v \in Seq(X) /\ Len(v) = m + 1 /\ (\A i \in 1 .. m : v[i] = w[i]) /\ v[m + 1] = l
      BY <2>1, AppendProperties
    <2>3. u = Append(v, r)
      BY <1>5 DEF Pushed
    <2> HIDE DEF v
    <2>4. u \in Seq(X) /\ Len(u) = Len(v) + 1 /\ (\A i \in 1 .. Len(v) : u[i] = v[i]) /\ u[Len(v) + 1] = r
      BY <2>1, <2>2, <2>3, AppendProperties
    <2> HIDE DEF u, m
    <2>5. Len(u) = m + 2 /\ (\A i \in 1 .. m : u[i] = w[i]) /\ u[m + 1] = l /\ u[m + 2] = r
      BY <1>1, <2>2, <2>4
    <2>6. \A i \in m + 1 .. Len(u) : i = m + 1 \/ i = m + 2
      BY <1>1, <2>5
    <2>7. m + 1 \in m + 1 .. Len(u) /\ m + 2 \in m + 1 .. Len(u)
      BY <1>1, <2>5
    <2>8. Children(w, u, l, r)
      <3>1. \A i \in m + 1 .. Len(u) : u[i] \in {l, r} \ {Null}
        BY <1>5, <2>5, <2>6
      <3>2. \A i, j \in m + 1 .. Len(u) : i # j => u[i] # u[j]
        BY <1>5, <2>5, <2>6
      <3>3. \A b \in {l, r} : b # Null => \E j \in m + 1 .. Len(u) : u[j] = b
        BY <2>5, <2>7
      <3>4. Len(u) >= m /\ Len(u) \in Nat
        BY <1>1, <2>5
      <3> QED  BY <2>5, <3>1, <3>2, <3>3, <3>4 DEF Children, m
    <2> QED  BY <2>4, <2>8 DEF u, v
  <1> QED  BY <1>2, <1>3, <1>4, <1>5

\* The depths D of the nodes: a child is one deeper than its parent.
Deep(s, X, D) ==
  D \in [X -> Nat] /\ \A a \in X, d \in Side : s.kid[d][a] # Null => D[s.kid[d][a]] = D[a] + 1

\* A round prints the next node, and its children come into the queue.
LEMMA SweptRound ==
  ASSUME NEW s \in RBTree, NEW X, NEW B, Links(s, X, B), NEW D, Deep(s, X, D), NEW w, NEW k, Swept(X, B, D, w, k),
         k < Len(w), NEW v \in Seq(X), Children(w, v, s.kid["left"][w[k + 1]], s.kid["right"][w[k + 1]])
  PROVE  Swept(X, B, D, v, k + 1)
  <1> DEFINE t == w[k + 1]
             l == s.kid["left"][t]
             r == s.kid["right"][t]
             m == Len(w)
             n == Len(v)
  <1>1. /\ w \in Seq(X) /\ k \in 0 .. m /\ m \in Nat /\ k \in Nat /\ k < m
        /\ \A i, j \in k + 1 .. m : i # j => B[w[i]] \cap B[w[j]] = {}
        /\ \A i, j \in 1 .. k : i < j => w[i] # w[j]
        /\ \A i \in 1 .. k, j \in k + 1 .. m : w[i] \notin B[w[j]]
        /\ \A b \in X : (\E i \in 1 .. k : b = w[i]) \/ (\E j \in k + 1 .. m : b \in B[w[j]])
        /\ \A i, j \in 1 .. m : i < j => D[w[i]] <= D[w[j]]
        /\ \A j \in k + 1 .. m : D[w[j]] <= D[w[k + 1]] + 1
    BY DEF Swept
  <1>2. /\ m <= n /\ n \in Nat
        /\ \A i \in 1 .. m : v[i] = w[i]
        /\ \A i \in m + 1 .. n : v[i] \in {l, r} \ {Null}
        /\ \A i, j \in m + 1 .. n : i # j => v[i] # v[j]
        /\ \A b \in {l, r} : b # Null => \E j \in m + 1 .. n : v[j] = b
    BY DEF Children
  <1>3. (\A i \in 1 .. m : w[i] \in X) /\ (\A i \in 1 .. n : v[i] \in X)
    BY <1>1
  <1> HIDE DEF m, n
  <1>4. k + 1 \in 1 .. m /\ k + 1 \in k + 1 .. m /\ t \in X /\ v[k + 1] = t /\ k + 1 \in 0 .. n
    BY <1>1, <1>2, <1>3
  <1> HIDE DEF t
  <1>5. /\ B[t] = {t} \cup B[l] \cup B[r] /\ t \in B[t] /\ t \notin B[l] /\ t \notin B[r] /\ B[l] \cap B[r] = {} /\ B[Null] = {}
        /\ l \in X \cup {Null} /\ r \in X \cup {Null}
    <2>1. B[t] = {t} \cup B[l] \cup B[r] /\ B[Null] = {} /\ l \in X \cup {Null} /\ r \in X \cup {Null}
      BY <1>4, Sides DEF Links
    <2>2. t \in B[t] /\ t \notin B[l] /\ t \notin B[r]
      BY <1>4, LinksBelow, Sides
    <2>3. B[l] \cap B[r] = {}
      <3>1. "left" \in Side
        BY Sides
      <3>2. \A d \in Side : B[s.kid[d][t]] \cap B[s.kid[Other(d)][t]] = {}
        BY <1>4, LinksBelow
      <3>3. B[s.kid["left"][t]] \cap B[s.kid[Other("left")][t]] = {}
        BY <3>1, <3>2
      <3>4. Other("left") = "right"
        BY DEF Other
      <3> QED  BY <3>3, <3>4 DEF l, r
    <2> QED  BY <2>1, <2>2, <2>3
  <1>6. (l # Null => D[l] = D[t] + 1) /\ (r # Null => D[r] = D[t] + 1) /\ D[t] \in Nat /\ \A a \in X : D[a] \in Nat
    BY <1>4, Sides DEF Deep
  <1> HIDE DEF l, r
  <1>7. ASSUME NEW j \in k + 2 .. n
        PROVE  \/ j \in k + 1 .. m /\ j \in 1 .. m /\ j # k + 1 /\ v[j] = w[j]
               \/ j \in m + 1 .. n /\ v[j] \in {l, r} /\ v[j] # Null /\ B[v[j]] \subseteq B[t] /\ t \notin B[v[j]] /\ D[v[j]] = D[t] + 1
    <2>1. CASE j <= m
      <3>1. j \in k + 1 .. m /\ j \in 1 .. m /\ j # k + 1
        BY <1>1, <2>1
      <3> QED  BY <1>2, <3>1
    <2>2. CASE ~ (j <= m)
      <3>1. j \in m + 1 .. n
        BY <1>1, <1>2, <2>2
      <3>2. v[j] \in {l, r} /\ v[j] # Null
        BY <1>2, <3>1
      <3>3. B[v[j]] \subseteq B[t] /\ t \notin B[v[j]] /\ D[v[j]] = D[t] + 1
        BY <1>5, <1>6, <3>2
      <3> QED  BY <3>1, <3>2, <3>3
    <2> QED  BY <2>1, <2>2
  <1>8. \A i \in 1 .. k + 1 : v[i] = w[i] /\ i \in 1 .. m /\ (i \in 1 .. k \/ i = k + 1)
    BY <1>1, <1>2
  <1>9. \A j \in k + 2 .. m : j \in k + 1 .. m /\ j # k + 1
    BY <1>1
  <1>10. ASSUME NEW i \in k + 2 .. n, NEW j \in k + 2 .. n, i # j PROVE B[v[i]] \cap B[v[j]] = {}
    <2>1. CASE i \in k + 1 .. m /\ j \in k + 1 .. m /\ v[i] = w[i] /\ v[j] = w[j]
      BY <1>1, <1>10, <2>1
    <2>2. CASE i \in k + 1 .. m /\ i # k + 1 /\ v[i] = w[i] /\ B[v[j]] \subseteq B[t]
      <3>1. B[w[i]] \cap B[w[k + 1]] = {}
        BY <1>1, <1>4, <2>2
      <3> QED  BY <2>2, <3>1 DEF t
    <2>3. CASE j \in k + 1 .. m /\ j # k + 1 /\ v[j] = w[j] /\ B[v[i]] \subseteq B[t]
      <3>1. B[w[j]] \cap B[w[k + 1]] = {}
        BY <1>1, <1>4, <2>3
      <3> QED  BY <2>3, <3>1 DEF t
    <2>4. CASE i \in m + 1 .. n /\ j \in m + 1 .. n /\ v[i] \in {l, r} /\ v[j] \in {l, r}
      <3>1. v[i] # v[j]
        BY <1>2, <1>10, <2>4
      <3> QED  BY <1>5, <2>4, <3>1
    <2> QED  BY <1>7, <2>1, <2>2, <2>3, <2>4
  <1>11. ASSUME NEW i \in 1 .. k + 1, NEW j \in 1 .. k + 1, i < j PROVE v[i] # v[j]
    <2>1. i \in 1 .. k /\ v[i] = w[i] /\ v[j] = w[j]
      BY <1>1, <1>8, <1>11
    <2>2. CASE j \in 1 .. k
      BY <1>1, <1>11, <2>1, <2>2
    <2>3. CASE j = k + 1
      <3>1. w[i] \notin B[w[k + 1]]
        BY <1>1, <1>4, <2>1
      <3> QED  BY <1>5, <2>1, <2>3, <3>1 DEF t
    <2> QED  BY <1>8, <2>2, <2>3
  <1>12. ASSUME NEW i \in 1 .. k + 1, NEW j \in k + 2 .. n PROVE v[i] \notin B[v[j]]
    <2>1. v[i] = w[i] /\ (i \in 1 .. k \/ i = k + 1)
      BY <1>8
    <2>2. CASE j \in k + 1 .. m /\ j # k + 1 /\ v[j] = w[j]
      <3>1. CASE i \in 1 .. k
        BY <1>1, <2>1, <2>2, <3>1
      <3>2. CASE i = k + 1
        <4>1. B[w[k + 1]] \cap B[w[j]] = {}
          BY <1>1, <1>4, <2>2
        <4> QED  BY <1>5, <2>1, <2>2, <3>2, <4>1 DEF t
      <3> QED  BY <2>1, <3>1, <3>2
    <2>3. CASE B[v[j]] \subseteq B[t] /\ t \notin B[v[j]]
      <3>1. CASE i \in 1 .. k
        <4>1. w[i] \notin B[w[k + 1]]
          BY <1>1, <1>4, <3>1
        <4> QED  BY <2>1, <2>3, <4>1 DEF t
      <3>2. CASE i = k + 1
        BY <2>1, <2>3, <3>2 DEF t
      <3> QED  BY <2>1, <3>1, <3>2
    <2> QED  BY <1>7, <2>2, <2>3
  <1>13. ASSUME NEW b \in X PROVE (\E i \in 1 .. k + 1 : b = v[i]) \/ (\E j \in k + 2 .. n : b \in B[v[j]])
    <2>1. CASE \E i \in 1 .. k : b = w[i]
      <3>1. PICK i \in 1 .. k : b = w[i]
        BY <2>1
      <3>2. i \in 1 .. k + 1
        BY <1>1
      <3> QED  BY <1>8, <3>1, <3>2
    <2>2. CASE \E j \in k + 1 .. m : b \in B[w[j]]
      <3>1. PICK j \in k + 1 .. m : b \in B[w[j]]
        BY <2>2
      <3>2. CASE j # k + 1
        <4>1. j \in k + 2 .. n /\ j \in 1 .. m
          BY <1>1, <1>2, <3>2
        <4> QED  BY <1>2, <3>1, <4>1
      <3>3. CASE j = k + 1 /\ b # t
        <4>1. PICK c \in {l, r} : b \in B[c]
          BY <1>5, <3>1, <3>3 DEF t
        <4>2. c # Null
          BY <1>5, <4>1
        <4>3. PICK e \in m + 1 .. n : v[e] = c
          BY <1>2, <4>1, <4>2
        <4>4. e \in k + 2 .. n
          BY <1>1, <1>2
        <4> QED  BY <4>1, <4>3, <4>4
      <3>4. CASE b = t
        <4>1. k + 1 \in 1 .. k + 1
          BY <1>1
        <4> QED  BY <1>4, <3>4, <4>1
      <3> QED  BY <3>2, <3>3, <3>4
    <2> QED  BY <1>1, <2>1, <2>2
  <1>14. \A i \in 1 .. m : D[w[i]] <= D[t] + 1 /\ D[w[i]] \in Nat
    <2> SUFFICES ASSUME NEW i \in 1 .. m PROVE D[w[i]] <= D[t] + 1 /\ D[w[i]] \in Nat
      OBVIOUS
    <2>1. D[w[i]] \in Nat
      BY <1>3, <1>6
    <2>2. CASE i < k + 1
      <3>1. D[w[i]] <= D[w[k + 1]]
        BY <1>1, <1>4, <2>2
      <3> QED  BY <1>6, <2>1, <3>1 DEF t
    <2>3. CASE ~ (i < k + 1)
      <3>1. i \in k + 1 .. m
        BY <1>1, <2>3
      <3> QED  BY <1>1, <2>1, <3>1 DEF t
    <2> QED  BY <2>2, <2>3
  <1>15. \A i \in m + 1 .. n : D[v[i]] = D[t] + 1
    <2> SUFFICES ASSUME NEW i \in m + 1 .. n PROVE D[v[i]] = D[t] + 1
      OBVIOUS
    <2>1. v[i] \in {l, r} /\ v[i] # Null
      BY <1>2
    <2> QED  BY <1>6, <2>1
  <1>16. \A i \in 1 .. n : i \in 1 .. m \/ i \in m + 1 .. n
    BY <1>1, <1>2
  <1>17. ASSUME NEW i \in 1 .. n, NEW j \in 1 .. n, i < j PROVE D[v[i]] <= D[v[j]]
    <2>1. CASE i \in 1 .. m /\ j \in 1 .. m
      BY <1>1, <1>2, <1>17, <2>1
    <2>2. CASE i \in 1 .. m /\ j \in m + 1 .. n
      <3>1. D[v[j]] = D[t] + 1 /\ D[w[i]] <= D[t] + 1 /\ v[i] = w[i]
        BY <1>2, <1>14, <1>15, <2>2
      <3> QED  BY <3>1
    <2>3. CASE i \in m + 1 .. n /\ j \in m + 1 .. n
      <3>1. D[v[i]] = D[t] + 1 /\ D[v[j]] = D[t] + 1
        BY <1>15, <2>3
      <3> QED  BY <1>6, <3>1
    <2>4. ~ (i \in m + 1 .. n /\ j \in 1 .. m)
      BY <1>1, <1>2, <1>17
    <2> QED  BY <1>16, <2>1, <2>2, <2>3, <2>4
  <1>18. ASSUME NEW j \in k + 2 .. n PROVE D[v[j]] <= D[v[k + 2]] + 1
    <2>1. k + 2 \in 1 .. n /\ j \in 1 .. n /\ k + 1 \in 1 .. n /\ k + 1 < k + 2
      BY <1>1, <1>2
    <2>2. D[t] <= D[v[k + 2]]
      BY <1>4, <1>17, <2>1
    <2>3. D[v[j]] <= D[t] + 1
      <3>1. CASE j \in 1 .. m
        BY <1>2, <1>14, <3>1
      <3>2. CASE j \in m + 1 .. n
        BY <1>6, <1>15, <3>2
      <3> QED  BY <1>16, <2>1, <3>1, <3>2
    <2>4. D[v[j]] \in Nat /\ D[v[k + 2]] \in Nat
      BY <1>3, <1>6, <2>1
    <2> QED  BY <1>6, <2>2, <2>3, <2>4
  <1>19. (k + 1) + 1 = k + 2
    BY <1>1
  <1> QED  BY <1>4, <1>10, <1>11, <1>12, <1>13, <1>17, <1>18, <1>19, Zenon DEF Swept, n

\* The first of a queue, moved to the end of what is before it.
LEMMA FirstMoved ==
  ASSUME NEW X, NEW p \in Seq(X), NEW q \in Seq(X), q # <<>>
  PROVE  /\ Head(q) \in X /\ Tail(q) \in Seq(X) /\ Append(p, Head(q)) \in Seq(X) /\ Len(Append(p, Head(q))) = Len(p) + 1
         /\ Append(p, Head(q)) \o Tail(q) = p \o q
         /\ Len(p) < Len(p \o q) /\ (p \o q)[Len(p) + 1] = Head(q)
  <1> DEFINE h == Head(q)
             t == Tail(q)
  <1>1. h \in X /\ t \in Seq(X) /\ Len(q) \in Nat \ {0} /\ Len(p) \in Nat
    BY HeadTailProperties, EmptySeq, LenProperties
  <1>2. h = q[1]
    BY DEF Head
  <1>3. q = <<h>> \o t
    <2>1. 1 \in 1 .. Len(q) /\ Len(q) \in 1 .. Len(q)
      BY <1>1
    <2>2. SubSeq(q, 1, Len(q)) = <<q[1]>> \o SubSeq(q, 1 + 1, Len(q))
      BY <2>1, SubSeqRecursiveFirst
    <2>3. SubSeq(q, 1, Len(q)) = q /\ t = SubSeq(q, 2, Len(q)) /\ 1 + 1 = 2
      BY SubSeqFull, TailIsSubSeq
    <2> QED  BY <1>2, <2>2, <2>3
  <1>4. Append(p, h) = p \o <<h>> /\ Append(p, h) \in Seq(X) /\ Len(Append(p, h)) = Len(p) + 1
    BY <1>1, AppendProperties, AppendIsConcat
  <1>5. <<h>> \in Seq(X)
    BY <1>1
  <1> HIDE DEF h, t
  <1>6. (p \o <<h>>) \o t = p \o (<<h>> \o t)
    BY <1>1, <1>5, ConcatAssociative
  <1>7. Append(p, h) \o t = p \o q
    BY <1>3, <1>4, <1>6
  <1>8. Len(p \o q) = Len(p) + Len(q) /\ \A i \in 1 .. Len(p) + Len(q) : (p \o q)[i] = IF i <= Len(p) THEN p[i] ELSE q[i - Len(p)]
    BY ConcatProperties
  <1>9. Len(p) < Len(p \o q) /\ (p \o q)[Len(p) + 1] = h
    <2>1. Len(p) + 1 \in 1 .. Len(p) + Len(q) /\ ~ (Len(p) + 1 <= Len(p)) /\ (Len(p) + 1) - Len(p) = 1
      BY <1>1
    <2> QED  BY <1>1, <1>2, <1>8, <2>1
  <1> QED  BY <1>1, <1>4, <1>7, <1>9 DEF h, t

\* a goes to the end of p and q when it is pushed to q.
Enqueued(X, p, q, a) == Pushed(q, a) \in Seq(X) /\ p \o Pushed(q, a) = Pushed(p \o q, a)

\* Pushing goes to the end.
LEMMA PushedLast ==
  ASSUME NEW X, NEW p \in Seq(X), NEW q \in Seq(X), NEW a \in X \cup {Null}
  PROVE  Enqueued(X, p, q, a)
  <1>1. CASE a = Null
    BY <1>1 DEF Pushed, Enqueued
  <1>2. CASE a # Null
    <2>1. a \in X /\ Pushed(q, a) = Append(q, a) /\ Pushed(p \o q, a) = Append(p \o q, a)
      BY <1>2 DEF Pushed
    <2>2. <<a>> \in Seq(X) /\ p \o q \in Seq(X)
      BY <2>1, ConcatProperties
    <2>3. Append(q, a) = q \o <<a>> /\ Append(p \o q, a) = (p \o q) \o <<a>> /\ Append(q, a) \in Seq(X)
      BY <2>1, <2>2, AppendProperties, AppendIsConcat
    <2>4. (p \o q) \o <<a>> = p \o (q \o <<a>>)
      BY <2>2, ConcatAssociative
    <2> QED  BY <2>1, <2>3, <2>4 DEF Enqueued
  <1> QED  BY <1>1, <1>2

\* The queue q and what has been printed, in c.
Sweeping(X, B, D, c) ==
  /\ c = <<c[1], c[2]>> /\ c[1] \in Seq(X) /\ c[2] \in Seq(X)
  /\ Swept(X, B, D, c[2] \o c[1], Len(c[2]))

\* A round of levelOrderHelper prints one more node.
LEMMA LevelRounds ==
  ASSUME NEW s \in RBTree, NEW X, NEW B, Links(s, X, B), NEW D, Deep(s, X, D), NEW c, Sweeping(X, B, D, c)
  PROVE  /\ Sweeping(X, B, D, LevelRound(s, c))
         /\ c[1] # <<>> => Len(LevelRound(s, c)[2]) = Len(c[2]) + 1
         /\ c[1] = <<>> => LevelRound(s, c) = c
  <1> DEFINE q == c[1]
             p == c[2]
             t == Head(q)
             l == s.kid["left"][t]
             r == s.kid["right"][t]
             o == Pushed(Pushed(Tail(q), l), r)
             u == Append(p, t)
  <1>1. CASE q = <<>>
    BY <1>1 DEF LevelRound
  <1>2. CASE q # <<>>
    <2>1. LevelRound(s, c) = <<o, u>>
      BY <1>2 DEF LevelRound
    <2>2. q \in Seq(X) /\ p \in Seq(X) /\ Swept(X, B, D, p \o q, Len(p))
      BY DEF Sweeping
    <2>3. /\ t \in X /\ Tail(q) \in Seq(X) /\ u \in Seq(X) /\ Len(u) = Len(p) + 1 /\ u \o Tail(q) = p \o q
          /\ Len(p) < Len(p \o q) /\ (p \o q)[Len(p) + 1] = t
      <3> HIDE DEF q, p
      <3> QED  BY <1>2, <2>2, FirstMoved, Zenon
    <2> HIDE DEF q, p, t, u
    <2>4. l \in X \cup {Null} /\ r \in X \cup {Null}
      BY <2>3, Sides DEF Links
    <2>5. l # Null => l # r
      <3>1. \A d \in Side : s.kid[d][t] # Null => s.kid[d][t] # s.kid[Other(d)][t]
        BY <2>3, LinksBelow
      <3>2. Other("left") = "right" /\ "left" \in Side
        BY DEF Other, Side
      <3> QED  BY <3>1, <3>2
    <2> HIDE DEF l, r
    <2>6. Pushed(Tail(q), l) \in Seq(X) /\ u \o Pushed(Tail(q), l) = Pushed(u \o Tail(q), l)
      <3>1. Tail(q) \in Seq(X) /\ u \in Seq(X)
        BY <2>3
      <3>2. l \in X \cup {Null}
        BY <2>4
      <3>3. Enqueued(X, u, Tail(q), l)
        BY <3>1, <3>2, PushedLast
      <3> QED  BY <3>3 DEF Enqueued
    <2>7. o \in Seq(X) /\ u \o o = Pushed(u \o Pushed(Tail(q), l), r)
      <3>1. Pushed(Tail(q), l) \in Seq(X) /\ u \in Seq(X)
        BY <2>3, <2>6
      <3>2. r \in X \cup {Null}
        BY <2>4
      <3>3. Enqueued(X, u, Pushed(Tail(q), l), r)
        BY <3>1, <3>2, PushedLast
      <3> QED  BY <3>3 DEF Enqueued
    <2>8. u \o o = Pushed(Pushed(p \o q, l), r)
      BY <2>3, <2>6, <2>7
    <2>9. p \o q \in Seq(X)
      BY <2>2, ConcatProperties
    <2>10. u \o o \in Seq(X) /\ Children(p \o q, u \o o, l, r)
      BY <2>4, <2>5, <2>8, <2>9, PushedChildren
    <2> HIDE DEF o
    <2>11. Children(p \o q, u \o o, s.kid["left"][(p \o q)[Len(p) + 1]], s.kid["right"][(p \o q)[Len(p) + 1]])
      BY <2>3, <2>10 DEF l, r
    <2>12. Swept(X, B, D, u \o o, Len(p) + 1)
      BY <2>2, <2>3, <2>10, <2>11, SweptRound
    <2>13. Sweeping(X, B, D, <<o, u>>)
      BY <2>3, <2>7, <2>12 DEF Sweeping
    <2> QED  BY <1>2, <2>1, <2>3, <2>13 DEF q, p
  <1> QED  BY <1>1, <1>2

\* How many different elements a sequence has that never repeats one.
LEMMA DistinctSize ==
  ASSUME NEW X, NEW w \in Seq(X), NEW k, k = Len(w), \A i, j \in 1 .. k : i < j => w[i] # w[j]
  PROVE  /\ k \in Nat /\ ToSet(w) \subseteq X /\ Cardinality(ToSet(w)) = k /\ ToSet(w) = {w[i] : i \in 1 .. k}
  <1>1. k \in Nat /\ DOMAIN w = 1 .. k /\ w \in [1 .. k -> X]
    BY LenProperties
  <1>2. ToSet(w) = {w[i] : i \in 1 .. k}
    BY <1>1, Zenon DEF ToSet
  <1> DEFINE f == [i \in 1 .. k |-> w[i]]
  <1>3. f \in Bijection(1 .. k, ToSet(w))
    <2>1. f \in [1 .. k -> ToSet(w)]
      BY <1>2
    <2>2. \A i, j \in 1 .. k : f[i] = f[j] => i = j
      <3> SUFFICES ASSUME NEW i \in 1 .. k, NEW j \in 1 .. k, i # j PROVE w[i] # w[j]
        OBVIOUS
      <3>1. i < j \/ j < i
        BY <1>1
      <3> QED  BY <3>1
    <2>3. \A z \in ToSet(w) : \E i \in 1 .. k : f[i] = z
      BY <1>2
    <2> QED  BY <2>1, <2>2, <2>3, BijectionBy
  <1>4. Cardinality(ToSet(w)) = k
    BY <1>1, <1>3, CountTo, BijectionSize, Zenon
  <1> QED  BY <1>1, <1>2, <1>4

\* The rounds of levelOrderHelper.
LevelCalls(s, C) ==
  C = [n \in Nat |-> IF n = 0 THEN <<IF s.root = Null THEN <<>> ELSE <<s.root>>, <<>>>> ELSE LevelRound(s, C[n - 1])]

\* levelOrderHelper prints each node once, the upper levels first.
LEMMA LevelTree ==
  ASSUME NEW s \in RBTree, NEW X, NEW B, Links(s, X, B), NEW D, Deep(s, X, D)
  PROVE  /\ levelOrderHelper(s) \in Seq(X) /\ ToSet(levelOrderHelper(s)) = X /\ Len(levelOrderHelper(s)) = Cardinality(X)
         /\ Ascending([i \in DOMAIN levelOrderHelper(s) |-> D[levelOrderHelper(s)[i]]])
  <1> DEFINE x == <<IF s.root = Null THEN <<>> ELSE <<s.root>>, <<>>>>
             Y == {c \in Seq(X) \X Seq(X) : Sweeping(X, B, D, c)}
             F == [c \in Y |-> LevelRound(s, c)]
             C == CHOOSE E : LevelCalls(s, E)
  <1>1. \A c : Sweeping(X, B, D, c) => c \in Y
    <2> SUFFICES ASSUME NEW c, Sweeping(X, B, D, c) PROVE c \in Seq(X) \X Seq(X)
      OBVIOUS
    <2>1. c = <<c[1], c[2]>> /\ c[1] \in Seq(X) /\ c[2] \in Seq(X)
      BY DEF Sweeping
    <2> QED  BY <2>1
  <1>2. Sweeping(X, B, D, x)
    <2>1. /\ s.root \in X \cup {Null} /\ B[s.root] = X /\ B[Null] = {} /\ Null \notin X
      BY RbAddresses DEF Links
    <2>2. <<>> \in Seq(X) /\ Len(<<>>) = 0
      OBVIOUS
    <2>3. CASE s.root = Null
      <3>1. x = << <<>>, <<>> >> /\ x[1] = <<>> /\ x[2] = <<>> /\ <<>> \o <<>> = <<>> /\ X = {}
        BY <2>1, <2>3
      <3>2. Swept(X, B, D, <<>>, 0)
        BY <2>2, <3>1 DEF Swept
      <3> HIDE DEF x
      <3> QED  BY <2>2, <3>1, <3>2 DEF Sweeping
    <2>4. CASE s.root # Null
      <3> DEFINE w == <<s.root>>
      <3>1. w \in Seq(X) /\ Len(w) = 1 /\ w[1] = s.root /\ s.root \in X
        BY <2>1, <2>4
      <3>2. x = << w, <<>> >> /\ x[1] = w /\ x[2] = <<>>
        BY <2>4
      <3>3. <<>> \o w = w
        BY <3>1, ConcatEmptySeq
      <3> HIDE DEF w, x
      <3>4. D[s.root] \in Nat
        BY <3>1 DEF Deep
      <3>5. Swept(X, B, D, w, 0)
        <4>1. 0 \in 0 .. Len(w) /\ (\A i \in 0 + 1 .. Len(w) : i = 1) /\ 1 \in 0 + 1 .. Len(w) /\ 1 .. 0 = {} /\ 1 .. Len(w) = 0 + 1 .. Len(w) /\ 0 + 1 = 1
          BY <3>1
        <4>2. \A i, j \in 1 .. Len(w) : ~ (i < j)
          BY <3>1
        <4>3. D[w[1]] <= D[w[1]] + 1
          BY <3>1, <3>4
        <4> QED  BY <2>1, <3>1, <4>1, <4>2, <4>3 DEF Swept
      <3> QED  BY <2>2, <3>1, <3>2, <3>3, <3>5 DEF Sweeping
    <2> QED  BY <2>3, <2>4
  <1>3. levelOrderHelper(s) = C[RbRounds][2]
    BY Zenon DEF levelOrderHelper, LevelCalls
  <1>4. \A E : LevelCalls(s, E) <=> E = [n \in Nat |-> IF n = 0 THEN x ELSE LevelRound(s, E[n - 1])]
    BY DEF LevelCalls
  <1> HIDE DEF x
  <1>5. F \in [Y -> Y] /\ \A c \in Y : F[c] = LevelRound(s, c)
    <2>1. \A c \in Y : Sweeping(X, B, D, c)
      OBVIOUS
    <2> HIDE DEF Y
    <2> QED  BY <1>1, <2>1, LevelRounds
  <1>6. x \in Y
    BY <1>1, <1>2
  <1> HIDE DEF F, Y
  <1>7. \E E : LevelCalls(s, E)
    <2>1. PICK E \in [Nat -> Y] : Recursion(F, x, E)
      BY <1>5, <1>6, RecursionExists
    <2>2. \A n \in Nat : n # 0 => F[E[n - 1]] = LevelRound(s, E[n - 1])
      BY <1>5
    <2>3. E = [n \in Nat |-> IF n = 0 THEN x ELSE LevelRound(s, E[n - 1])]
      BY <2>1, <2>2 DEF Recursion
    <2> QED  BY <1>4, <2>3
  <1>8. LevelCalls(s, C)
    BY <1>7, Zenon
  <1> HIDE DEF C
  <1>9. C[0] = x /\ \A n \in Nat : C[n + 1] = LevelRound(s, C[n])
    <2>1. C = [n \in Nat |-> IF n = 0 THEN x ELSE LevelRound(s, C[n - 1])]
      BY <1>4, <1>8
    <2>2. ASSUME NEW n \in Nat PROVE C[n + 1] = LevelRound(s, C[n])
      <3>1. n + 1 \in Nat /\ n + 1 # 0 /\ (n + 1) - 1 = n
        OBVIOUS
      <3>2. C[n + 1] = LevelRound(s, C[(n + 1) - 1])
        BY <2>1, <3>1
      <3> QED  BY <3>1, <3>2
    <2> QED  BY <2>1, <2>2
  <1> DEFINE Good(n) == Sweeping(X, B, D, C[n]) /\ (C[n][1] = <<>> \/ Len(C[n][2]) = n)
             S == {n \in Nat : Good(n)}
  <1>10. \A n \in Nat : n \in S
    <2>1. 0 \in S
      <3>1. x[2] = <<>>
        BY DEF x
      <3> QED  BY <1>2, <1>9, <3>1
    <2>2. ASSUME NEW n \in Nat, n \in S PROVE n + 1 \in S
      <3>1. Good(n) /\ C[n + 1] = LevelRound(s, C[n])
        BY <1>9, <2>2
      <3>2. /\ Sweeping(X, B, D, C[n + 1])
            /\ C[n][1] # <<>> => Len(C[n + 1][2]) = Len(C[n][2]) + 1
            /\ C[n][1] = <<>> => C[n + 1] = C[n]
        BY <3>1, LevelRounds
      <3>3. C[n + 1][1] = <<>> \/ Len(C[n + 1][2]) = n + 1
        BY <3>1, <3>2
      <3> QED  BY <3>2, <3>3
    <2> HIDE DEF S
    <2> QED  BY <2>1, <2>2, AllNaturals
  <1> DEFINE out == C[RbRounds][2]
             k == Len(out)
  <1>11. RbRounds \in Nat /\ Cardinality(X) < RbRounds /\ Cardinality(X) \in Nat
    BY BelowRounds
  <1>12. Good(RbRounds)
    BY <1>10, <1>11
  <1>13. out \in Seq(X) /\ C[RbRounds][1] \in Seq(X) /\ Swept(X, B, D, out \o C[RbRounds][1], k) /\ k \in Nat
    BY <1>12 DEF Sweeping
  <1>14. \A i \in 1 .. k : (out \o C[RbRounds][1])[i] = out[i]
    <2> DEFINE q == C[RbRounds][1]
    <2> HIDE DEF out, q
    <2>1. \A i \in 1 .. Len(out) + Len(q) : (out \o q)[i] = IF i <= Len(out) THEN out[i] ELSE q[i - Len(out)]
      BY <1>13, ConcatProperties DEF q
    <2>2. Len(out) \in Nat /\ Len(q) \in Nat
      BY <1>13 DEF q
    <2> QED  BY <2>1, <2>2 DEF q
  <1>15. \A i, j \in 1 .. k : i < j => out[i] # out[j]
    <2> DEFINE w == out \o C[RbRounds][1]
    <2>1. \A i, j \in 1 .. k : i < j => w[i] # w[j]
      BY <1>13, Zenon DEF Swept
    <2> QED  BY <1>14, <2>1, Zenon
  <1>16. ToSet(out) \subseteq X /\ Cardinality(ToSet(out)) = k /\ ToSet(out) = {out[i] : i \in 1 .. k}
    <2> HIDE DEF out
    <2> QED  BY <1>13, <1>15, DistinctSize
  <1>17. C[RbRounds][1] = <<>>
    <2>1. IsFiniteSet(X)
      BY LinksFinite
    <2>2. k <= Cardinality(X)
      <3> HIDE DEF k
      <3> QED  BY <1>16, <2>1, FS_Subset
    <2> QED  BY <1>11, <1>12, <1>13, <2>2
  <1>18. Swept(X, B, D, out, k)
    <2>1. out \o <<>> = out
      BY <1>13, ConcatEmptySeq
    <2> QED  BY <1>13, <1>17, <2>1
  <1> HIDE DEF out
  <1>19. k + 1 .. Len(out) = {} /\ k \in Nat /\ DOMAIN out = 1 .. k
    BY <1>13
  <1>20. ToSet(out) = X
    <2>1. \A b \in X : \E i \in 1 .. k : b = out[i]
      BY <1>18, <1>19 DEF Swept
    <2> QED  BY <1>16, <2>1
  <1>21. Ascending([i \in DOMAIN out |-> D[out[i]]])
    <2>1. \A i, j \in 1 .. k : i < j => D[out[i]] <= D[out[j]]
      BY <1>18 DEF Swept
    <2> QED  BY <1>19, <2>1 DEF Ascending
  <1>22. levelOrderHelper(s) = out
    BY <1>3 DEF out
  <1> QED  BY <1>13, <1>16, <1>20, <1>21, <1>22, Zenon

-----------------------------------------------------------------------------
(* The invariant.                                                          *)

\* The tree is sound as long as no null pointer has been followed, and one has been
\* only for a key that was there.
RbKept(v) ==
  /\ v.garbage \in Nat
  /\ v.tree.ok => Sound(v.tree, v.given, v.garbage = 0)
  /\ ~ v.tree.ok => v.again

\* The inductive invariant of the red-black tree.
RbIInv == structure = "red-black" /\ RbKept(store)

\* It holds at the start.
LEMMA RbStart == RbInit => RbIInv
  <1> SUFFICES ASSUME RbInit PROVE RbIInv
    OBVIOUS
  <1> DEFINE s == [kid |-> [side \in Side |-> [a \in RbAddress |-> Null]], parent |-> [a \in RbAddress |-> Null],
                   color |-> [a \in RbAddress |-> RED], root |-> Null, ok |-> TRUE]
             B == [a \in {Null} |-> {}]
             H == [a \in {Null} |-> 0]
  <1>1. structure = "red-black" /\ store = [tree |-> s, given |-> {}, garbage |-> 0, again |-> FALSE]
    BY DEF RbInit, Begin
  <1>2. s \in RBTree
    BY RbAddresses DEF RBTree, Color
  <1>3. s.root = Null /\ s.ok
    OBVIOUS
  <1> HIDE DEF s
  <1>4. B \in [{} \cup {Null} -> SUBSET {}] /\ B[Null] = {} /\ H \in [{} \cup {Null} -> Nat] /\ H[Null] = 0
    OBVIOUS
  <1> HIDE DEF B, H
  <1>5. Links(s, {}, B) /\ Parents(s, {})
    BY <1>3, <1>4 DEF Links, Parents
  <1>6. Plain(s, {}, H, s.root)
    BY <1>4 DEF Plain
  <1>7. Sound(s, {}, 0 = 0)
    BY <1>2, <1>3, <1>5, <1>6 DEF Sound
  <1>8. store.tree = s /\ store.given = {} /\ store.garbage = 0
    BY <1>1
  <1> QED  BY <1>1, <1>3, <1>7, <1>8 DEF RbIInv, RbKept

\* Every insertion keeps it.
LEMMA RbStep == RbIInv /\ [RbNext]_<<structure, store>> => RbIInv'
  <1> SUFFICES ASSUME RbIInv, [RbNext]_<<structure, store>> PROVE RbIInv'
    OBVIOUS
  <1>1. CASE UNCHANGED <<structure, store>>
    BY <1>1 DEF RbIInv, RbKept
  <1>2. CASE RbNext
    <2> DEFINE s == store.tree
               X == store.given
               clean == store.garbage = 0
    <2>1. s.ok /\ structure = "red-black" /\ structure' = structure
      BY <1>2 DEF RbNext
    <2>2. PICK data \in RbKeys, c \in Color :
            store' = [tree |-> Coloured(RbInsert(store.tree, store.given, data, c), DUPLICATE, RED),
                      given |-> store.given \cup {data},
                      garbage |-> IF c = RED THEN store.garbage ELSE store.garbage + 1,
                      again |-> data \in store.given]
      BY <1>2 DEF RbNext
    <2> DEFINE r == Coloured(RbInsert(s, X, data, c), DUPLICATE, RED)
    <2>3. store'.tree = r /\ store'.given = X \cup {data} /\ store'.again = (data \in X)
          /\ store'.garbage = IF c = RED THEN store.garbage ELSE store.garbage + 1
      BY <2>2
    <2>4. Sound(s, X, clean) /\ store.garbage \in Nat
      BY <2>1 DEF RbIInv, RbKept
    <2> HIDE DEF s, X, r
    <2>5. (r.ok => Sound(r, X \cup {data}, clean /\ c = RED)) /\ (~ r.ok => data \in X)
      <3> HIDE DEF clean
      <3> QED  BY <2>4, InsertSound, Zenon DEF r
    <2>6. store'.garbage \in Nat /\ (store'.garbage = 0 => clean /\ c = RED)
      BY <2>3, <2>4
    <2>7. r.ok => Sound(r, X \cup {data}, store'.garbage = 0)
      <3> HIDE DEF clean
      <3> QED  BY <2>5, <2>6, Zenon DEF Sound
    <2>8. RbKept(store')
      BY <2>3, <2>5, <2>6, <2>7, Zenon DEF RbKept
    <2>9. structure' = "red-black"
      BY <2>1
    <2> QED  BY <2>8, <2>9 DEF RbIInv, RbKept
  <1> QED  BY <1>1, <1>2

\* A sound tree is printed and measured right.
LEMMA SoundReads ==
  ASSUME NEW s, NEW X, NEW clean, Sound(s, X, clean)
  PROVE  /\ Listed(inorderHelper(s), X)
         /\ ToSet(levelOrderHelper(s)) = X /\ Len(levelOrderHelper(s)) = Cardinality(X)
         /\ Ascending([i \in DOMAIN levelOrderHelper(s) |-> RbDepth(s, levelOrderHelper(s)[i])])
         /\ clean => Cardinality(BlackHeights(s)) = 1
  <1>1. PICK B : Links(s, X, B)
    BY DEF Sound
  <1>2. s \in RBTree /\ Parents(s, X)
    BY DEF Sound
  <1>3. Listed(inorderHelper(s), X)
    BY <1>1, <1>2, InorderTree
  <1> DEFINE D == [a \in X |-> RbDepth(s, a)]
             levels == levelOrderHelper(s)
  <1>4. Deep(s, X, D)
    <2>1. /\ \A a \in X : RbDepth(s, a) \in Nat
          /\ \A a \in X, d \in Side : s.kid[d][a] # Null => RbDepth(s, s.kid[d][a]) = RbDepth(s, a) + 1
      BY <1>1, <1>2, RbDepths
    <2>2. \A a \in X, d \in Side : s.kid[d][a] # Null => s.kid[d][a] \in X
      BY <1>1 DEF Links
    <2> QED  BY <2>1, <2>2 DEF Deep
  <1>5. \A a \in X : D[a] = RbDepth(s, a)
    OBVIOUS
  <1> HIDE DEF D
  <1>6. /\ levels \in Seq(X) /\ ToSet(levels) = X /\ Len(levels) = Cardinality(X)
        /\ Ascending([i \in DOMAIN levels |-> D[levels[i]]])
    BY <1>1, <1>2, <1>4, LevelTree
  <1> HIDE DEF levels
  <1>7. [i \in DOMAIN levels |-> D[levels[i]]] = [i \in DOMAIN levels |-> RbDepth(s, levels[i])]
    <2>1. \A i \in DOMAIN levels : levels[i] \in X
      BY <1>6
    <2> QED  BY <1>5, <2>1
  <1>8. ASSUME clean PROVE Cardinality(BlackHeights(s)) = 1
    <2>1. PICK H : Plain(s, X, H, s.root)
      BY <1>8 DEF Sound
    <2>2. BlackHeights(s) = {H[s.root]}
      BY <1>1, <1>2, <2>1, HeightsTree
    <2> QED  BY <2>2, FS_Singleton
  <1> QED  BY <1>3, <1>6, <1>7, <1>8 DEF levels

\* The inductive invariant says what the tree is.
LEMMA RbImplies == RbIInv => RbInv
  <1> SUFFICES ASSUME RbIInv PROVE RbNoFault /\ RbComplete /\ RedBlack
    BY DEF RbInv
  <1> DEFINE s == store.tree
             X == store.given
             clean == store.garbage = 0
  <1>1. (s.ok => Sound(s, X, clean)) /\ (~ s.ok => store.again)
    BY DEF RbIInv, RbKept
  <1>2. RbNoFault
    BY <1>1 DEF RbNoFault
  <1>3. ASSUME s.ok
        PROVE  /\ Ascending(inorderHelper(s)) /\ ToSet(inorderHelper(s)) = X /\ Len(inorderHelper(s)) = Cardinality(X)
               /\ \A a \in X : IF a = s.root THEN s.parent[a] = Null /\ s.color[a] = BLACK
                               ELSE s.parent[a] \in X /\ \E side \in Side : a = s.kid[side][s.parent[a]]
               /\ ToSet(levelOrderHelper(s)) = X /\ Len(levelOrderHelper(s)) = Len(inorderHelper(s))
               /\ Ascending([i \in DOMAIN levelOrderHelper(s) |-> RbDepth(s, levelOrderHelper(s)[i])])
    <2>1. Sound(s, X, clean)
      BY <1>1, <1>3
    <2> HIDE DEF s, X, clean
    <2>2. /\ Listed(inorderHelper(s), X)
          /\ ToSet(levelOrderHelper(s)) = X /\ Len(levelOrderHelper(s)) = Cardinality(X)
          /\ Ascending([i \in DOMAIN levelOrderHelper(s) |-> RbDepth(s, levelOrderHelper(s)[i])])
      BY <2>1, SoundReads
    <2>3. Ascending(inorderHelper(s)) /\ ToSet(inorderHelper(s)) = X /\ Len(inorderHelper(s)) = Cardinality(X)
      BY <2>2, Zenon DEF Listed
    <2>4. ASSUME NEW a \in X
          PROVE  IF a = s.root THEN s.parent[a] = Null /\ s.color[a] = BLACK
                 ELSE s.parent[a] \in X /\ \E side \in Side : a = s.kid[side][s.parent[a]]
      <3>1. Parents(s, X) /\ (s.root # Null => s.color[s.root] = BLACK) /\ X \in SUBSET RbKeys
        BY <2>1 DEF Sound, Links
      <3>2. a # Null
        BY <3>1, RbAddresses
      <3> QED  BY <3>1, <3>2 DEF Parents
    <2>5. Len(levelOrderHelper(s)) = Len(inorderHelper(s))
      BY <2>2, <2>3, Zenon
    <2> QED  BY <2>2, <2>3, <2>4, <2>5, Zenon
  <1>4. RbComplete
    BY <1>3, Zenon DEF RbComplete
  <1>5. ASSUME s.ok, clean
        PROVE  /\ \A a \in X : a # s.root /\ s.color[a] = RED => s.color[s.parent[a]] = BLACK
               /\ Cardinality(BlackHeights(s)) = 1
    <2>1. Sound(s, X, clean)
      BY <1>1, <1>5
    <2>2. PICK H : Plain(s, X, H, s.root)
      BY <1>5, <2>1 DEF Sound
    <2> HIDE DEF s, X
    <2>3. \A a \in X : a # s.root /\ s.color[a] = RED => s.color[s.parent[a]] = BLACK
      BY <2>2, Zenon DEF Plain
    <2> QED  BY <1>5, <2>1, <2>3, SoundReads
  <1>6. RedBlack
    BY <1>5, Zenon DEF RedBlack
  <1> QED  BY <1>2, <1>4, <1>6

\* The red-black tree, for every set of keys, every order of insertions and every
\* memory that new nodes find: insert follows a null pointer only for a key that is
\* there; otherwise the tree has the keys in order, its parents and children agree,
\* its root is black and levelOrder prints it level by level; and while nodes come
\* RED no red node has a red child, and all ways down have the same black nodes.
THEOREM RbCorrect == RbSpec => []RbInv
  <1>1. RbInit => RbIInv
    BY RbStart
  <1>2. RbIInv /\ [RbNext]_<<structure, store>> => RbIInv'
    BY RbStep
  <1>3. RbIInv => RbInv
    BY RbImplies
  <1> QED  BY <1>1, <1>2, <1>3, PTL DEF RbSpec
=============================================================================
