---------------------------- MODULE BinomialHeap ----------------------------
(***************************************************************************)
(* BinomialHeap.cpp, the class and the menu of main.  A node is known by   *)
(* the number of its creation; h[a] is the node at a, h[Null] is nothing.  *)
(*                                                                         *)
(* main keeps the heap it works with in a variable H of its own, which     *)
(* Insert replaces and Extract_Min does not: that one leaves the new heap  *)
(* in the object's H, which is never read.  After an extraction main's     *)
(* pointer is to a list that Union has taken apart, which may be a cycle.  *)
(***************************************************************************)
EXTENDS Structures

CONSTANTS
  HeapKeys,    \* keys to insert and to decrease to
  HeapNodes,   \* nodes created
  SmallHeap,   \* nodes up to which keys are decreased and deleted, and calls follow an extraction
  StaleCalls   \* calls made after the first extraction

ASSUME HeapAssumption == HeapKeys \subseteq Int /\ {HeapNodes, SmallHeap, StaleCalls} \subseteq Nat

\* The key that Delete decreases to, -1000 in the code: main reads any int, so
\* there are keys below it and keys above.
LOWEST == 0

\* Merge and Union walk each list once: after more rounds they are in a cycle.
ROUNDS == 4 * HeapNodes + 4

\* Create_node, with what Insert sets in it.
Create_node(k) == [n |-> k, degree |-> 0, parent |-> Null, child |-> Null, sibling |-> Null]

\* Faulty variant: the degree is not counted.
LinkUncounted(h, y, z) == [h EXCEPT ![y].parent = z, ![y].sibling = h[z].child, ![z].child = y]

\* y becomes the first child of z.
Binomial_link(h, y, z) ==
  [h EXCEPT ![y].parent = z, ![y].sibling = h[z].child, ![z].child = y, ![z].degree = @ + 1]

\* The loop of Merge over the lists at y and z.  Its result, as those of the
\* others below, is Endless in a cycle.
Endless == <<>>

RECURSIVE MergeLoop(_, _, _, _)
MergeLoop(h, y, z, rounds) ==
  IF y = Null \/ z = Null THEN h
  ELSE IF rounds = 0 THEN Endless
  ELSE CASE h[y].degree < h[z].degree -> MergeLoop(h, h[y].sibling, z, rounds - 1)
         [] h[y].degree = h[z].degree -> MergeLoop([h EXCEPT ![y].sibling = z], h[y].sibling, z, rounds - 1)
         [] h[y].degree > h[z].degree -> MergeLoop([h EXCEPT ![z].sibling = y], y, h[z].sibling, rounds - 1)

\* The first root of the merged list.
MergeHead(h, y, z) ==
  IF y # Null /\ (z = Null \/ h[y].degree <= h[z].degree) THEN y ELSE z

\* The loop of Union, with the list's first root first.
RECURSIVE UnionLoop(_, _, _, _, _)
UnionLoop(h, first, prev_x, x, rounds) ==
  LET next_x == h[x].sibling
      third == h[next_x].sibling
      joined == Binomial_link([h EXCEPT ![x].sibling = third], next_x, x)
  IN  IF next_x = Null THEN [h |-> h, H |-> first]
      ELSE IF rounds = 0 THEN [h |-> Endless, H |-> Null]
      ELSE IF h[x].degree # h[next_x].degree \/ (third # Null /\ h[third].degree = h[x].degree)
      THEN UnionLoop(h, first, x, next_x, rounds - 1)
      ELSE IF h[x].n <= h[next_x].n THEN UnionLoop(joined, first, prev_x, x, rounds - 1)
      ELSE IF prev_x = Null THEN UnionLoop(Binomial_link(h, x, next_x), next_x, prev_x, next_x, rounds - 1)
      ELSE UnionLoop(Binomial_link([h EXCEPT ![prev_x].sibling = next_x], x, next_x), first, prev_x, next_x, rounds - 1)

\* Union: Merge, and trees of one degree linked.
Union(h, H1, H2) ==
  LET merged == MergeLoop(h, H1, H2, ROUNDS)
      H == MergeHead(h, H1, H2)
  IN  IF merged = Endless \/ H = Null THEN [h |-> merged, H |-> H] ELSE UnionLoop(merged, H, Null, H, ROUNDS)

\* The list from a along sibling, longer than there are nodes if it is a cycle.
RECURSIVE Siblings(_, _, _)
Siblings(h, a, rounds) ==
  IF a = Null \/ rounds = 0 THEN <<>> ELSE <<a>> \o Siblings(h, h[a].sibling, rounds - 1)

Roots(h, H) == Siblings(h, H, HeapNodes + 1)
Cyclic(list) == Len(list) > HeapNodes

\* The first root with the least key in the list.
Smallest(h, list) ==
  list[CHOOSE i \in DOMAIN list : \A j \in DOMAIN list :
         h[list[i]].n < h[list[j]].n \/ (h[list[i]].n = h[list[j]].n /\ i <= j)]

\* Revert_list and the cut after it: the children of x in reverse.  They keep x
\* as their parent.
Reverted(h, list) ==
  [a \in DOMAIN h |->
    IF \E i \in DOMAIN list : list[i] = a
    THEN LET i == CHOOSE j \in DOMAIN list : list[j] = a
         IN  [h[a] EXCEPT !.sibling = IF i = 1 THEN Null ELSE list[i - 1]]
    ELSE h[a]]

\* Extract_Min from the list at H1, not empty: x is taken out of it and its
\* children united with the rest.
Extract_Min(h, H1) ==
  LET list == Roots(h, H1)
      x == Smallest(h, list)
      children == Roots(h, h[x].child)
      rest == IF x = H1 THEN h[x].sibling ELSE H1
      cut == IF x = H1 THEN h ELSE [h EXCEPT ![list[CHOOSE i \in 1 .. Len(list) - 1 : list[i + 1] = x]].sibling = h[x].sibling]
  IN  IF Cyclic(list) \/ Cyclic(children) THEN [h |-> Endless, H |-> Null]
      ELSE Union(Reverted(cut, children), rest, IF children = <<>> THEN Null ELSE Last(children))

\* Search for k from x, its children before its siblings: NotEnding when it comes
\* back to a node it is searching from.
NotEnding == -1

RECURSIVE Search(_, _, _, _)
Search(h, x, k, rounds) ==
  LET below == IF h[x].child = Null THEN Null ELSE Search(h, h[x].child, k, rounds - 1)
  IN  IF rounds = 0 THEN NotEnding
      ELSE IF h[x].n = k THEN x
      ELSE IF below # Null \/ h[x].sibling = Null THEN below
      ELSE Search(h, h[x].sibling, k, rounds - 1)

\* The key of y changes places with its parent's while it is smaller.
RECURSIVE Climb(_, _)
Climb(h, y) ==
  LET z == h[y].parent
  IN  IF z # Null /\ h[y].n < h[z].n THEN Climb([h EXCEPT ![y].n = h[z].n, ![z].n = h[y].n], z) ELSE h

\* Decrease_key from i to k in the heap at H, not empty.
Decrease_key(h, H, i, k) ==
  LET p == Search(h, H, i, HeapNodes + 1)
  IN  IF p = NotEnding THEN Endless
      ELSE IF p = Null \/ k > h[p].n THEN h ELSE Climb([h EXCEPT ![p].n = k], p)

-----------------------------------------------------------------------------
\* H is main's heap and object the one in the object.  held: the keys that should
\* be in the heap, up to the first extraction.  out: the first node extracted.
\* stale: the calls since.
HeapInit ==
  Begin("heap", [h |-> <<>>, H |-> Null, object |-> Null, held |-> <<>>, out |-> Null, stale |-> 0, status |-> "ok"])

\* main's variables with h in memory, if the call that left it came to an end.
With(h) == IF h = Endless THEN [store EXCEPT !.status = "endless"] ELSE [store EXCEPT !.h = h]

\* A call from main's menu that leaves its variables as in s.
MenuCall(s) ==
  /\ store.status = "ok"
  /\ store.out # Null => store.stale < StaleCalls /\ Len(store.h) <= SmallHeap
  /\ store' = [s EXCEPT !.stale = IF store.out = Null THEN 0 ELSE @ + 1]
  /\ UNCHANGED structure

InsertKey(k) ==
  LET x == Len(store.h) + 1
      u == Union(Append(store.h, Create_node(k)), store.H, x)
  IN  /\ x <= HeapNodes
      /\ MenuCall([With(u.h) EXCEPT !.H = u.H, !.held = SortSeq(Append(@, k), <)])

\* Extract_Min(H), with the memory as in h, when held has to remain.  The result
\* is in the object; H stays.
ExtractFrom(h, held) ==
  LET e == Extract_Min(h, store.H)
      x == Smallest(h, Roots(h, store.H))
  IN  MenuCall([With(e.h) EXCEPT !.object = e.H, !.held = held,
                                 !.out = IF e.h # Endless /\ @ = Null THEN x ELSE @])

\* What remains of held after an extraction.
ButLeast(held) == IF held = <<>> THEN <<>> ELSE Tail(held)

Extract == store.H # Null /\ ExtractFrom(store.h, ButLeast(store.held))

\* Without the key i once, if it is there.
Without(held, i) == IF i \in ToSet(held) THEN RemoveAt(held, SelectInSeq(held, LAMBDA e : e = i)) ELSE held

\* Decrease_key from the menu.  In an empty heap Search follows its null pointer.
Decrease(i, k) ==
  /\ Len(store.h) <= SmallHeap
  /\ MenuCall(IF store.H = Null THEN [store EXCEPT !.status = "fault"]
              ELSE [With(Decrease_key(store.h, store.H, i, k)) EXCEPT
                      !.held = IF i \in ToSet(@) /\ k <= i THEN SortSeq(Append(Without(@, i), k), <) ELSE @])

\* What remains of held after Delete(k): the rest, if k is there and no key is
\* below LOWEST.  Otherwise the least key goes, and k, unless it is itself below
\* LOWEST, stays behind as LOWEST.
Deleted(held, k) ==
  IF k \notin ToSet(held) \/ k < LOWEST THEN ButLeast(held)
  ELSE IF \A e \in ToSet(held) : e >= LOWEST THEN Without(held, k)
  ELSE ButLeast(SortSeq(Append(Without(held, k), LOWEST), <))

\* Delete: the key is decreased to LOWEST, if it is above, and whatever is then
\* the least is extracted.
DeleteKey(k) ==
  /\ store.H # Null /\ Len(store.h) <= SmallHeap
  /\ LET h == Decrease_key(store.h, store.H, k, LOWEST)
     IN  IF h = Endless THEN MenuCall(With(h))
         ELSE ExtractFrom(h, Deleted(store.held, k))

\* Display prints the roots.  An empty heap is left as it is by Display, by an
\* extraction and by a deletion.
Display ==
  MenuCall(IF Cyclic(Roots(store.h, store.H)) THEN [store EXCEPT !.status = "endless"] ELSE store)

HeapNext ==
  /\ structure = "heap"
  /\ \/ \E k \in HeapKeys : InsertKey(k) \/ DeleteKey(k) \/ \E i \in HeapKeys : Decrease(i, k)
     \/ Extract
     \/ Display

-----------------------------------------------------------------------------
\* The nodes of the trees with roots in the list.
RECURSIVE Members(_, _)
Members(h, list) ==
  IF list = <<>> THEN <<>>
  ELSE <<Head(list)>> \o Members(h, Roots(h, h[Head(list)].child)) \o Members(h, Tail(list))

\* The tree at a is a binomial tree: its children have the degrees below its own,
\* the largest first, point to it and have no smaller keys.
RECURSIVE Binomial(_, _)
Binomial(h, a) ==
  LET children == Roots(h, h[a].child)
  IN  /\ [i \in DOMAIN children |-> h[children[i]].degree] = [i \in 1 .. h[a].degree |-> h[a].degree - i]
      /\ \A c \in ToSet(children) : h[c].parent = a /\ h[a].n <= h[c].n /\ Binomial(h, c)

\* The list from H is a binomial heap of held: one tree of each degree at most,
\* in ascending order, and no key lost or doubled.
HeapOf(H, held) ==
  LET h == store.h
      roots == Roots(h, H)
      all == Members(h, roots)
  IN  /\ ~ Cyclic(roots)
      /\ \A i, j \in DOMAIN roots : i < j => h[roots[i]].degree < h[roots[j]].degree
      /\ \A a \in ToSet(roots) : Binomial(h, a)
      /\ SortSeq([i \in DOMAIN all |-> h[all[i]].n], <) = held

\* Until the first extraction main's heap is a binomial heap of the keys inserted
\* and decreased, and its roots have no parents.
HeapBinomial ==
  store.out = Null /\ store.status = "ok" =>
    HeapOf(store.H, store.held) /\ \A a \in ToSet(Roots(store.h, store.H)) : store.h[a].parent = Null

\* The first extraction or deletion leaves in the object a binomial heap of what
\* should remain, if there were fewer than 12: of trees of 4 and 8 nodes, Merge
\* skips a child of the one extracted and loses it.  What should remain is all but
\* the least key, or all but the key deleted; only if a key below -1000 is held
\* (or the key to delete is not) does Delete take the least key instead, and the
\* key it was called for becomes -1000.
HeapExtracts == store.out # Null /\ store.stale = 0 /\ Len(store.held) + 1 < 12 => HeapOf(store.object, store.held)

\* A call follows a null pointer only to decrease a key of an empty heap, and
\* fails to return only after an extraction.
HeapSafe ==
  /\ store.status = "fault" => store.H = Null
  /\ store.status = "endless" => store.out # Null

\* The binomial heap after every call.
HeapInv == structure = "heap" => HeapBinomial /\ HeapExtracts /\ HeapSafe
=============================================================================
