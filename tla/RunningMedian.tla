---------------------------- MODULE RunningMedian ----------------------------
(***************************************************************************)
(* FindMedian.cpp: printMedian and the two heaps it keeps, a MaxHeap for   *)
(* the lower and a MinHeap for the upper half of the values so far.  A     *)
(* heap's array is the sequence of its heapSize + 1 elements; the code's   *)
(* indices, from 0, are kept.                                              *)
(***************************************************************************)
EXTENDS Structures

CONSTANTS
  MedianValues,    \* values to be read
  MAX_HEAP_SIZE,   \* the length of a heap's array
  INT_LIMIT        \* 2^31, scaled down

ASSUME MedianAssumption ==
  /\ MAX_HEAP_SIZE \in Nat \ {0} /\ INT_LIMIT \in Nat \ {0}
  /\ MedianValues \subseteq -INT_LIMIT .. INT_LIMIT - 1

\* The value x in an int of the scaled width.
Wrapped(x) == ((x + INT_LIMIT) % (2 * INT_LIMIT)) - INT_LIMIT

\* The sum may overflow; the division rounds towards 0.
Average(a, b) ==
  LET sum == Wrapped(a + b)
  IN  IF sum >= 0 THEN sum \div 2 ELSE -((-sum) \div 2)

\* The heaps with their comparators, Greater and Smaller.
MaxHeap == [A |-> <<>>, comp |-> "Greater"]
MinHeap == [A |-> <<>>, comp |-> "Smaller"]

comp(h, a, b) == IF h.comp = "Greater" THEN a > b ELSE a < b

GetCount(h) == Len(h.A)
GetTop(h) == IF h.A = <<>> THEN -1 ELSE h.A[1]

Parent(i) == IF i <= 0 THEN -1 ELSE (i - 1) \div 2

Exch(A, i, j) == [A EXCEPT ![i + 1] = A[j + 1], ![j + 1] = A[i + 1]]

\* Faulty variant: an element climbs one level.
HeapifyOnce(h, i) ==
  LET p == Parent(i)
  IN  IF p >= 0 /\ comp(h, h.A[i + 1], h.A[p + 1]) THEN [h EXCEPT !.A = Exch(@, i, p)] ELSE h

\* One call of heapify: the element at s.i of the array s.A changes places with
\* its parent, if it comes before it.
Percolate(h, s) ==
  LET p == Parent(s.i)
  IN  IF p >= 0 /\ comp(h, s.A[s.i + 1], s.A[p + 1]) THEN [A |-> Exch(s.A, s.i, p), i |-> p] ELSE s

\* The element at i climbs while it comes before its parent.  At most one call
\* for each element finds a parent.
heapify(h, i) ==
  LET called[n \in Nat] == IF n = 0 THEN [A |-> h.A, i |-> i] ELSE Percolate(h, called[n - 1])
  IN  [h EXCEPT !.A = called[Len(h.A)].A]

InsertInto(h, key) == heapify([h EXCEPT !.A = Append(@, key)], Len(h.A))

\* deleteTop: the last element takes the place of the first, and the parent of
\* the last place climbs.
ExtractTop(h) ==
  LET heapSize == Len(h.A) - 1
  IN  heapify([h EXCEPT !.A = Front(Exch(@, 0, heapSize))], Parent(heapSize))

\* insertHelper compares heapSize, which is the last index, with the length of
\* the array, and so writes past the end of a full one.
Overrun(h) == Len(h.A) > MAX_HEAP_SIZE

\* The heap that would get two ahead if it took e as well gives its top away.
LeftGives(e, m, l, r) == GetCount(l) > GetCount(r) /\ e < m
RightGives(e, m, l, r) == GetCount(l) < GetCount(r) /\ e >= m

\* getMedian: the heaps with e, when m is the median of what they hold.
Fit(e, m, l, r) ==
  CASE LeftGives(e, m, l, r) -> <<InsertInto(ExtractTop(l), e), InsertInto(r, GetTop(l))>>
    [] RightGives(e, m, l, r) -> <<InsertInto(l, GetTop(r)), InsertInto(ExtractTop(r), e)>>
    [] ~ LeftGives(e, m, l, r) /\ e < m -> <<InsertInto(l, e), r>>
    [] OTHER -> <<l, InsertInto(r, e)>>

\* The median of two heaps, of which one may hold one element more.
MedianOf(l, r) ==
  CASE GetCount(l) > GetCount(r) -> GetTop(l)
    [] GetCount(l) < GetCount(r) -> GetTop(r)
    [] OTHER -> Average(GetTop(l), GetTop(r))

-----------------------------------------------------------------------------
\* The ascending sequence s with e.
Entered(s, e) == InsertAt(s, Min({i \in DOMAIN s : s[i] > e} \cup {Len(s) + 1}), e)

\* given: the values read, in ascending order.  wrapped: an average has overflowed.  taken: a heap of
\* three or more elements has given its top away.
MedianInit ==
  Begin("median", [l |-> MaxHeap, r |-> MinHeap, m |-> 0, given |-> <<>>, wrapped |-> FALSE, taken |-> FALSE])

\* One round of printMedian.  A heap that has been written behind its end ends
\* the program.
MedianNext ==
  /\ structure = "median" /\ ~ Overrun(store.l) /\ ~ Overrun(store.r)
  /\ \E e \in MedianValues :
       LET heaps == Fit(e, store.m, store.l, store.r)
           sum == GetTop(heaps[1]) + GetTop(heaps[2])
           balanced == GetCount(heaps[1]) = GetCount(heaps[2])
       IN  store' = [l |-> heaps[1], r |-> heaps[2], m |-> MedianOf(heaps[1], heaps[2]),
                     given |-> Entered(store.given, e),
                     wrapped |-> store.wrapped \/ (balanced /\ sum # Wrapped(sum)),
                     taken |-> \/ store.taken
                               \/ LeftGives(e, store.m, store.l, store.r) /\ GetCount(store.l) >= 3
                               \/ RightGives(e, store.m, store.l, store.r) /\ GetCount(store.r) >= 3]
  /\ UNCHANGED structure

MedianSpec == MedianInit /\ [][MedianNext]_<<structure, store>>

-----------------------------------------------------------------------------
\* The median of the ascending sequence s, as a quotient of numbers rounded
\* towards 0.
Median(s) ==
  LET n == Len(s)
      both == s[(n + 1) \div 2] + s[(n + 2) \div 2]
  IN  IF both >= 0 THEN both \div 2 ELSE -((-both) \div 2)

\* What is printed is the median of the values read, rounded towards 0, until an
\* average overflows or a heap of three or more gives its top away, after which
\* deleteTop leaves an element above one that should come before it.
MedianExact == store.given # <<>> /\ ~ store.wrapped /\ ~ store.taken => store.m = Median(store.given)

\* Whatever the heaps have become, no value is lost or doubled between them and
\* neither is ahead by two; an array is overrun only after more values than both
\* arrays hold.
MedianHeaps ==
  LET both == store.l.A \o store.r.A
  IN  /\ Len(both) = Len(store.given)
      /\ Occurrences(MedianValues, both) = Occurrences(MedianValues, store.given)
      /\ GetCount(store.l) - GetCount(store.r) \in -1 .. 1
      /\ Overrun(store.l) \/ Overrun(store.r) <=> Len(store.given) > 2 * MAX_HEAP_SIZE

\* The running median after every value.
MedianInv == structure = "median" => MedianExact /\ MedianHeaps
=============================================================================
