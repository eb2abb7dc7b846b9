--------------------------- MODULE AlarmCrewProofs ---------------------------
(***************************************************************************)
(* Proofs about Alarm, for any numbers of seconds, alarms and times, and   *)
(* about Crew, for every finite crew, every number of callers and every    *)
(* file system.                                                            *)
(***************************************************************************)
EXTENDS Alarm, Crew, FiniteSetTheorems, SequenceTheorems, WellFoundedInduction, TLAPS

-----------------------------------------------------------------------------
(* The alarm programs.                                                     *)

\* The list is ordered and has no alarm twice; no alarm rings twice.
ListInOrder ==
  /\ \A i, j \in 1..Len(list) : list[i] = list[j] => i = j
  /\ \A i, j \in 1..Len(list) : i < j => time[list[i]] <= time[list[j]]
RungOnce == \A i, j \in 1..Len(rung) : rung[i].alarm = rung[j].alarm => i = j

\* Every alarm is on the list, with the thread, or rung.
Placed ==
  /\ Entered = Listed \cup Rung \cup ({alarm} \ {0})
  /\ Listed \cap Rung = {} /\ alarm \notin Listed \cup Rung

\* The clock has not gone back, so that an alarm's time is never 0, which stands
\* for none in current_alarm.
Positive == now >= StartTime /\ \A a \in Entered : time[a] > 0

\* The thread has an alarm in hand only while it sleeps or is about to ring.
Handless == pc \notin {"asleep", "timed", "roused", "expired"} => alarm = 0

\* current_alarm, from one wait of the thread to the next: 0 when it looks at
\* the list; not later than anything it might have to ring while it waits.
Protocol ==
  /\ pc = "check" => current_alarm = 0
  /\ pc = "wait" => list = <<>> /\ current_alarm = 0
  /\ pc = "woken" => (list = <<>> => current_alarm = 0)
  /\ pc \in {"timed", "roused", "expired"} =>
       /\ current_alarm # 0 /\ current_alarm <= time[alarm]
       /\ \A a \in Listed : current_alarm <= time[a]
  /\ pc = "timed" => current_alarm = time[alarm]

\* What the thread sleeps for, or will ring, is due when the sleep is over.
Due ==
  /\ program = "mutex" /\ alarm # 0 => time[alarm] <= until
  /\ pc = "expired" => time[alarm] <= now

\* An alarm rings after it is entered, and the alarm in hand can overtake only
\* alarms that were entered since the last one rang: the next to ring.
Turns ==
  /\ \A a \in Entered : after[a] <= Len(rung)
  /\ \A i \in 1..Len(rung) : after[rung[i].alarm] < i
  /\ alarm # 0 => \A a \in Listed : time[alarm] > time[a] => after[a] = Len(rung)
  /\ \A a \in Entered : \A i \in after[a] + 1 .. Len(rung) :
       (\A j \in after[a] + 1 .. i : rung[j].alarm # a) /\ time[rung[i].alarm] > time[a] => i = after[a] + 1

\* The inductive invariant.
ListInv ==
  /\ AlarmTypeOK /\ ListInOrder /\ RungOnce /\ Placed /\ Positive /\ Handless /\ Protocol
  /\ Due /\ NeverEarly /\ Turns

-----------------------------------------------------------------------------
(* Insertion into the list.                                                *)

\* A set of numbers that is not empty has a least one.
LEMMA LeastOf ==
  ASSUME NEW S \in SUBSET Nat, S # {}
  PROVE  LET m == CHOOSE x \in S : \A y \in S : x <= y
         IN  m \in S /\ \A y \in S : m <= y
  <1>1. PICK x \in S : \A y \in S : <<y, x>> \notin OpToRel(<, Nat)
    BY NatLessThanWellFounded, WFMin
  <1>2. \A y \in S : ~(y < x)
    BY <1>1, Zenon DEF OpToRel
  <1>3. \A y \in S : x <= y
    BY <1>2
  <1> QED  BY <1>3

Linked(l, a, i) == SubSeq(l, 1, i - 1) \o <<a>> \o SubSeq(l, i, Len(l))

\* What linking a in at place i makes of a sequence.
LEMMA InsertAt ==
  ASSUME NEW S, NEW l \in Seq(S), NEW a \in S, NEW i \in 1..Len(l) + 1
  PROVE  /\ Linked(l, a, i) \in Seq(S) /\ Len(Linked(l, a, i)) = Len(l) + 1
         /\ \A k \in 1..i - 1 : Linked(l, a, i)[k] = l[k]
         /\ Linked(l, a, i)[i] = a
         /\ \A k \in i + 1 .. Len(l) + 1 : Linked(l, a, i)[k] = l[k - 1]
  <1> DEFINE r == Linked(l, a, i)
  <1> DEFINE u == SubSeq(l, 1, i - 1)
             w == SubSeq(l, i, Len(l))
  <1>1. Len(l) \in Nat /\ i \in Nat
    OBVIOUS
  <1>2. u \in Seq(S) /\ Len(u) = i - 1 /\ \A k \in 1..i - 1 : u[k] = l[k]
    BY <1>1
  <1>3. w \in Seq(S) /\ Len(w) = Len(l) - i + 1 /\ \A k \in 1..Len(l) - i + 1 : w[k] = l[i + k - 1]
    BY <1>1
  <1> HIDE DEF u, w
  <1>4. /\ u \o <<a>> \in Seq(S) /\ Len(u \o <<a>>) = i
        /\ \A k \in 1..i - 1 : (u \o <<a>>)[k] = l[k]
        /\ (u \o <<a>>)[i] = a
    BY <1>1, <1>2
  <1> DEFINE x == u \o <<a>>
  <1> HIDE DEF x
  <1>5. x \in Seq(S) /\ Len(x) = i /\ (\A k \in 1..i - 1 : x[k] = l[k]) /\ x[i] = a
    BY <1>4 DEF x
  <1>6. /\ x \o w \in Seq(S) /\ Len(x \o w) = Len(l) + 1
        /\ \A k \in 1..i : (x \o w)[k] = x[k]
    <2>1. /\ x \o w \in Seq(S) /\ Len(x \o w) = Len(x) + Len(w)
          /\ \A k \in 1..Len(x) + Len(w) : (x \o w)[k] = IF k <= Len(x) THEN x[k] ELSE w[k - Len(x)]
      BY <1>3, <1>5, ConcatProperties
    <2>2. Len(x) + Len(w) = Len(l) + 1
      BY <1>1, <1>3, <1>5
    <2>3. \A k \in 1..i : k \in 1..Len(x) + Len(w) /\ k <= Len(x)
      BY <1>1, <1>5, <2>2
    <2> QED  BY <2>1, <2>2, <2>3
  <1>7. ASSUME NEW k \in i + 1 .. Len(l) + 1
        PROVE  (x \o w)[k] = l[k - 1]
    <2>1. k - i \in 1..Len(l) - i + 1 /\ i + (k - i) - 1 = k - 1
      BY <1>1
    <2>2. (x \o w)[k] = w[k - i]
      BY <1>1, <1>3, <1>5
    <2> QED  BY <1>3, <2>1, <2>2
  <1>8. r = x \o w
    BY DEF u, w, x, Linked
  <1> HIDE DEF r
  <1>9. \A k \in 1..i - 1 : k \in 1..i
    BY <1>1
  <1>10. \A k \in 1..i - 1 : r[k] = l[k]
    BY <1>5, <1>6, <1>8, <1>9
  <1>11. r[i] = a
    BY <1>1, <1>5, <1>6, <1>8
  <1> QED  BY <1>6, <1>7, <1>8, <1>10, <1>11 DEF r

\* The loop that links an alarm into the list: it is added, nothing is lost,
\* and an ordered list stays ordered.
LEMMA InsertSortedProperties ==
  ASSUME NEW S, NEW l \in Seq(S), NEW a \in S, NEW t, \A b \in S : t[b] \in Int,
         \A i, j \in 1..Len(l) : l[i] = l[j] => i = j,
         \A i, j \in 1..Len(l) : i < j => t[l[i]] <= t[l[j]],
         a \notin {l[k] : k \in 1..Len(l)}
  PROVE  /\ InsertSorted(a, l, t) \in Seq(S) /\ InsertSorted(a, l, t) # <<>>
         /\ {InsertSorted(a, l, t)[k] : k \in 1..Len(InsertSorted(a, l, t))} = {l[k] : k \in 1..Len(l)} \cup {a}
         /\ \A i, j \in 1..Len(InsertSorted(a, l, t)) :
              /\ InsertSorted(a, l, t)[i] = InsertSorted(a, l, t)[j] => i = j
              /\ i < j => t[InsertSorted(a, l, t)[i]] <= t[InsertSorted(a, l, t)[j]]
  <1> DEFINE r == InsertSorted(a, l, t)
  <1> DEFINE Later == {k \in 1..Len(l) : t[l[k]] >= t[a]}
             p == IF Later = {} THEN Len(l) + 1 ELSE CHOOSE j \in Later : \A k \in Later : j <= k
  <1>1. r = Linked(l, a, p)
    BY DEF InsertSorted, Linked
  <1> HIDE DEF r
  <1>2. Len(l) \in Nat /\ t[a] \in Int /\ \A k \in 1..Len(l) : l[k] \in S /\ t[l[k]] \in Int
    OBVIOUS
  <1>3. /\ p \in 1..Len(l) + 1
        /\ \A k \in 1..p - 1 : k \in 1..Len(l) /\ t[l[k]] < t[a]
        /\ \A k \in p..Len(l) : k \in 1..Len(l) /\ t[l[k]] >= t[a]
    <2>1. CASE Later = {}
      <3>1. p = Len(l) + 1
        BY <2>1
      <3>2. \A k \in 1..Len(l) : t[l[k]] < t[a]
        BY <1>2, <2>1
      <3> HIDE DEF p
      <3> QED  BY <1>2, <3>1, <3>2
    <2>2. CASE Later # {}
      <3>1. Later \in SUBSET Nat
        BY <1>2
      <3>2. p = CHOOSE j \in Later : \A k \in Later : j <= k
        BY <2>2
      <3> HIDE DEF p, Later
      <3>3. p \in Later /\ \A k \in Later : p <= k
        BY <2>2, <3>1, <3>2, LeastOf
      <3>4. p \in 1..Len(l) /\ t[l[p]] >= t[a]
        BY <3>3 DEF Later
      <3>5. \A k \in 1..p - 1 : k \in 1..Len(l) /\ k \notin Later
        BY <1>2, <3>3, <3>4
      <3>6. \A k \in 1..p - 1 : t[l[k]] < t[a]
        BY <1>2, <3>5 DEF Later
      <3>7. \A k \in p..Len(l) : k \in 1..Len(l) /\ t[l[k]] >= t[a]
        BY <1>2, <3>4
      <3> QED  BY <1>2, <3>4, <3>5, <3>6, <3>7
    <2> QED  BY <2>1, <2>2
  <1> HIDE DEF p, Later
  <1>4. /\ r \in Seq(S) /\ Len(r) = Len(l) + 1
        /\ \A k \in 1..p - 1 : r[k] = l[k]
        /\ r[p] = a
        /\ \A k \in p + 1 .. Len(l) + 1 : r[k] = l[k - 1]
    <2>1. p \in 1..Len(l) + 1
      BY <1>3
    <2>2. /\ Linked(l, a, p) \in Seq(S) /\ Len(Linked(l, a, p)) = Len(l) + 1
          /\ \A k \in 1..p - 1 : Linked(l, a, p)[k] = l[k]
          /\ Linked(l, a, p)[p] = a
          /\ \A k \in p + 1 .. Len(l) + 1 : Linked(l, a, p)[k] = l[k - 1]
      BY <2>1, InsertAt
    <2> QED  BY <1>1, <2>2
  <1>5. \A k \in 1..Len(r) : \/ k \in 1..p - 1 /\ k \in 1..Len(l) /\ r[k] = l[k]
                             \/ k = p /\ r[k] = a
                             \/ k \in p + 1 .. Len(r) /\ k - 1 \in 1..Len(l) /\ k - 1 >= p /\ r[k] = l[k - 1]
    BY <1>2, <1>3, <1>4
  <1>6. \A k \in 1..Len(l) : (k \in 1..Len(r) /\ r[k] = l[k]) \/ (k + 1 \in 1..Len(r) /\ r[k + 1] = l[k])
    <2> SUFFICES ASSUME NEW k \in 1..Len(l)
                 PROVE  (k \in 1..Len(r) /\ r[k] = l[k]) \/ (k + 1 \in 1..Len(r) /\ r[k + 1] = l[k])
      OBVIOUS
    <2>1. CASE k < p
      BY <1>2, <1>3, <1>4, <2>1
    <2>2. CASE k >= p
      <3>1. k + 1 \in p + 1 .. Len(l) + 1 /\ (k + 1) - 1 = k
        BY <1>2, <1>3, <2>2
      <3> QED  BY <1>2, <1>4, <3>1
    <2> QED  BY <1>2, <1>3, <2>1, <2>2
  <1>7. {r[k] : k \in 1..Len(r)} = {l[k] : k \in 1..Len(l)} \cup {a}
    <2>1. p \in 1..Len(r)
      BY <1>2, <1>3, <1>4
    <2>2. ASSUME NEW k \in 1..Len(r)
          PROVE  r[k] \in {l[j] : j \in 1..Len(l)} \cup {a}
      BY <1>5
    <2>3. ASSUME NEW k \in 1..Len(l)
          PROVE  l[k] \in {r[j] : j \in 1..Len(r)}
      BY <1>6
    <2> QED  BY <1>4, <2>1, <2>2, <2>3
  <1>8. ASSUME NEW i \in 1..Len(r), NEW j \in 1..Len(r), r[i] = r[j]
        PROVE  i = j
    <2>1. \A k \in 1..Len(l) : l[k] # a
      OBVIOUS
    <2>2. CASE i \in 1..p - 1 /\ i \in 1..Len(l) /\ r[i] = l[i]
      <3>1. CASE j \in 1..Len(l) /\ r[j] = l[j]
        BY <1>8, <2>2, <3>1
      <3>2. CASE j - 1 \in 1..Len(l) /\ j - 1 >= p /\ r[j] = l[j - 1]
        <4>1. i = j - 1
          BY <1>8, <2>2, <3>2
        <4> QED  BY <1>3, <2>2, <3>2, <4>1
      <3> QED  BY <1>5, <1>8, <2>1, <2>2, <3>1, <3>2
    <2>3. CASE i = p /\ r[i] = a
      BY <1>5, <1>8, <2>1, <2>3
    <2>4. CASE i - 1 \in 1..Len(l) /\ i - 1 >= p /\ r[i] = l[i - 1]
      <3>1. CASE j \in 1..p - 1 /\ j \in 1..Len(l) /\ r[j] = l[j]
        <4>1. i - 1 = j
          BY <1>8, <2>4, <3>1
        <4> QED  BY <1>3, <2>4, <3>1, <4>1
      <3>2. CASE j - 1 \in 1..Len(l) /\ r[j] = l[j - 1]
        <4>1. i - 1 = j - 1
          BY <1>8, <2>4, <3>2
        <4> QED  BY <4>1
      <3> QED  BY <1>5, <1>8, <2>1, <2>4, <3>1, <3>2
    <2> QED  BY <1>5, <2>2, <2>3, <2>4
  <1>9. ASSUME NEW i \in 1..Len(r), NEW j \in 1..Len(r), i < j
        PROVE  t[r[i]] <= t[r[j]]
    <2>1. CASE i \in 1..p - 1 /\ i \in 1..Len(l) /\ r[i] = l[i]
      <3>1. t[r[i]] < t[a] /\ t[r[i]] \in Int
        BY <1>2, <1>3, <2>1
      <3>2. CASE j \in 1..p - 1 /\ j \in 1..Len(l) /\ r[j] = l[j]
        BY <1>9, <2>1, <3>2
      <3>3. CASE j = p
        BY <1>2, <1>4, <3>1, <3>3
      <3>4. CASE j - 1 \in 1..Len(l) /\ j - 1 >= p /\ r[j] = l[j - 1]
        <4>1. t[r[j]] >= t[a] /\ t[r[j]] \in Int
          BY <1>2, <1>3, <3>4
        <4> QED  BY <1>2, <3>1, <4>1
      <3> QED  BY <1>5, <3>2, <3>3, <3>4
    <2>2. CASE i = p
      <3>1. j - 1 \in 1..Len(l) /\ j - 1 >= p /\ r[j] = l[j - 1]
        BY <1>3, <1>5, <1>9, <2>2
      <3>2. j - 1 \in p..Len(l)
        BY <1>2, <1>3, <3>1
      <3> QED  BY <1>2, <1>3, <1>4, <2>2, <3>1, <3>2
    <2>3. CASE i - 1 \in 1..Len(l) /\ i - 1 >= p /\ r[i] = l[i - 1]
      <3>1. j - 1 \in 1..Len(l) /\ r[j] = l[j - 1] /\ i - 1 < j - 1
        BY <1>2, <1>3, <1>5, <1>9, <2>3
      <3> QED  BY <2>3, <3>1
    <2> QED  BY <1>5, <2>1, <2>2, <2>3
  <1>10. r # <<>>
    BY <1>2, <1>4
  <1> QED  BY <1>4, <1>7, <1>8, <1>9, <1>10 DEF r

-----------------------------------------------------------------------------
(* What the steps do to the list and to the alarms rung.                   *)

\* An alarm that is on the list nowhere is linked in; t gives the times.
LEMMA InsertEffect ==
  ASSUME ListInv, NEW a \in Entered', a \notin Listed,
         list' = InsertSorted(a, list, time'),
         time' \in Seq(Int), Entered \subseteq Entered', \A b \in Entered : time'[b] = time[b]
  PROVE  /\ list' \in Seq(Entered') /\ list' # <<>>
         /\ Listed' = Listed \cup {a}
         /\ ListInOrder'
  <1>1. list \in Seq(Entered) /\ Len(list) \in Nat /\ \A k \in 1..Len(list) : list[k] \in Entered
    BY DEF ListInv, AlarmTypeOK
  <1>2. list \in Seq(Entered')
    BY <1>1
  <1>3. \A b \in Entered' : time'[b] \in Int
    BY DEF Entered
  <1>4. /\ \A i, j \in 1..Len(list) : list[i] = list[j] => i = j
        /\ \A i, j \in 1..Len(list) : i < j => time'[list[i]] <= time'[list[j]]
    BY <1>1 DEF ListInv, ListInOrder
  <1>5. a \notin {list[k] : k \in 1..Len(list)}
    BY DEF Listed
  <1>6. /\ list' \in Seq(Entered') /\ list' # <<>>
        /\ {list'[k] : k \in 1..Len(list')} = {list[k] : k \in 1..Len(list)} \cup {a}
        /\ \A i, j \in 1..Len(list') : list'[i] = list'[j] => i = j
        /\ \A i, j \in 1..Len(list') : i < j => time'[list'[i]] <= time'[list'[j]]
    <2> DEFINE S == Entered'
               t == time'
               r == list'
    <2>1. /\ list \in Seq(S) /\ a \in S /\ (\A b \in S : t[b] \in Int)
          /\ \A i, j \in 1..Len(list) : list[i] = list[j] => i = j
          /\ \A i, j \in 1..Len(list) : i < j => t[list[i]] <= t[list[j]]
          /\ a \notin {list[k] : k \in 1..Len(list)}
          /\ r = InsertSorted(a, list, t)
      BY <1>2, <1>3, <1>4, <1>5
    <2> HIDE DEF S, t, r
    <2>2. /\ InsertSorted(a, list, t) \in Seq(S) /\ InsertSorted(a, list, t) # <<>>
          /\ {InsertSorted(a, list, t)[k] : k \in 1..Len(InsertSorted(a, list, t))}
               = {list[k] : k \in 1..Len(list)} \cup {a}
          /\ \A i, j \in 1..Len(InsertSorted(a, list, t)) :
               /\ InsertSorted(a, list, t)[i] = InsertSorted(a, list, t)[j] => i = j
               /\ i < j => t[InsertSorted(a, list, t)[i]] <= t[InsertSorted(a, list, t)[j]]
      BY <2>1, InsertSortedProperties
    <2>3. r = InsertSorted(a, list, t)
      BY <2>1
    <2>4. /\ r \in Seq(S) /\ r # <<>>
          /\ {r[k] : k \in 1..Len(r)} = {list[k] : k \in 1..Len(list)} \cup {a}
          /\ \A i, j \in 1..Len(r) : r[i] = r[j] => i = j
          /\ \A i, j \in 1..Len(r) : i < j => t[r[i]] <= t[r[j]]
      <3> DEFINE q == InsertSorted(a, list, t)
      <3>1. /\ q \in Seq(S) /\ q # <<>>
            /\ {q[k] : k \in 1..Len(q)} = {list[k] : k \in 1..Len(list)} \cup {a}
            /\ \A i, j \in 1..Len(q) : q[i] = q[j] => i = j
            /\ \A i, j \in 1..Len(q) : i < j => t[q[i]] <= t[q[j]]
        BY <2>2
      <3>2. q = r
        BY <2>3
      <3> HIDE DEF q
      <3>3. r \in Seq(S) /\ r # <<>>
        BY <3>1, <3>2
      <3>4. {r[k] : k \in 1..Len(r)} = {q[k] : k \in 1..Len(q)}
        BY <3>2
      <3>5. \A i, j \in 1..Len(r) : r[i] = r[j] => i = j
        BY ONLY <3>1, <3>2
      <3>6. \A i, j \in 1..Len(r) : i < j => t[r[i]] <= t[r[j]]
        BY ONLY <3>1, <3>2
      <3> QED  BY <3>1, <3>3, <3>4, <3>5, <3>6
    <2> QED  BY <2>4 DEF S, t, r
  <1> QED  BY <1>6 DEF Listed, ListInOrder

\* The thread takes the first alarm: none on the list is due earlier.
LEMMA TakeEffect ==
  ASSUME ListInv, list # <<>>, list' = Tail(list), UNCHANGED time
  PROVE  /\ Head(list) \in Listed /\ Head(list) \in Entered
         /\ list' \in Seq(Entered) /\ Listed' = Listed \ {Head(list)}
         /\ ListInOrder'
         /\ \A a \in Listed : time[Head(list)] <= time[a]
  <1>1. list \in Seq(Entered) /\ Len(list) \in Nat /\ Len(list) > 0 /\ time \in Seq(Int)
    BY DEF ListInv, AlarmTypeOK
  <1>2. /\ list' \in Seq(Entered) /\ Head(list) = list[1] /\ Len(list') = Len(list) - 1
        /\ 1 \in 1..Len(list)
    BY <1>1
  <1>3. \A k \in 1..Len(list') : k + 1 \in 1..Len(list) /\ list'[k] = list[k + 1]
    BY <1>1, <1>2
  <1>4. \A k \in 1..Len(list) : k = 1 \/ (k - 1 \in 1..Len(list') /\ list'[k - 1] = list[k])
    BY <1>1, <1>2, <1>3
  <1>5. /\ \A i, j \in 1..Len(list) : list[i] = list[j] => i = j
        /\ \A i, j \in 1..Len(list) : i < j => time[list[i]] <= time[list[j]]
    BY DEF ListInv, ListInOrder
  <1>6. Head(list) \in Listed /\ Head(list) \in Entered
    BY <1>1, <1>2 DEF Listed
  <1>7. Listed' = Listed \ {Head(list)}
    <2>1. ASSUME NEW k \in 1..Len(list')
          PROVE  list'[k] \in Listed /\ list'[k] # Head(list)
      <3>1. k + 1 \in 1..Len(list) /\ list'[k] = list[k + 1] /\ k + 1 # 1
        BY <1>1, <1>2, <1>3
      <3> QED  BY <1>2, <1>5, <3>1 DEF Listed
    <2>2. ASSUME NEW k \in 1..Len(list), list[k] # Head(list)
          PROVE  list[k] \in Listed'
      BY <1>2, <1>4, <2>2 DEF Listed
    <2> QED  BY <2>1, <2>2 DEF Listed
  <1>8. ListInOrder'
    <2>1. ASSUME NEW i \in 1..Len(list'), NEW j \in 1..Len(list')
          PROVE  /\ list'[i] = list'[j] => i = j
                 /\ i < j => time[list'[i]] <= time[list'[j]]
      <3>1. /\ i + 1 \in 1..Len(list) /\ list'[i] = list[i + 1]
            /\ j + 1 \in 1..Len(list) /\ list'[j] = list[j + 1]
        BY <1>3
      <3>2. i < j => i + 1 < j + 1
        BY <1>1, <1>2
      <3>3. i + 1 = j + 1 => i = j
        BY <1>1, <1>2
      <3> QED  BY <1>5, <3>1, <3>2, <3>3
    <2> QED  BY <2>1 DEF ListInOrder
  <1>9. ASSUME NEW k \in 1..Len(list)
        PROVE  time[Head(list)] <= time[list[k]]
    <2>1. CASE k = 1
      BY <1>1, <1>2, <1>6, <2>1 DEF Entered
    <2>2. CASE k # 1
      <3>1. 1 < k
        BY <1>1, <2>2
      <3> QED  BY <1>2, <1>5, <3>1
    <2> QED  BY <2>1, <2>2
  <1> QED  BY <1>2, <1>6, <1>7, <1>8, <1>9 DEF Listed

\* An alarm rings that is due, is in nobody else's hands, and overtakes only
\* alarms entered since the last one rang.
LEMMA RingEffect ==
  ASSUME ListInv, NEW x \in Entered, x \notin Rung, time[x] <= now, Ring(x),
         UNCHANGED <<time, after>>, alarm' = 0,
         \A a \in Entered : a # x /\ a \notin Rung /\ time[x] > time[a] => after[a] = Len(rung)
  PROVE  /\ rung' \in Seq([alarm : Entered, at : Nat]) /\ Rung' = Rung \cup {x}
         /\ RungOnce' /\ NeverEarly' /\ Turns'
  <1> DEFINE n == Len(rung)
             e == [alarm |-> x, at |-> now]
  <1>1. /\ rung \in Seq([alarm : Entered, at : Nat]) /\ n \in Nat /\ now \in Nat
        /\ time \in Seq(Int) /\ after \in Seq(Nat) /\ Len(time) = Len(after) /\ Len(time) \in Nat
    BY DEF ListInv, AlarmTypeOK
  <1>2. e \in [alarm : Entered, at : Nat] /\ e.alarm = x /\ e.at = now /\ rung' = Append(rung, e)
    BY <1>1 DEF Ring
  <1> HIDE DEF e
  <1>3. /\ rung' \in Seq([alarm : Entered, at : Nat]) /\ Len(rung') = n + 1
        /\ rung'[n + 1] = e /\ \A k \in 1..n : rung'[k] = rung[k]
    BY <1>1, <1>2
  <1>4. \A k \in 1..n : rung[k].alarm \in Entered
    <2>1. \A k \in 1..Len(rung) : rung[k] \in [alarm : Entered, at : Nat]
      BY <1>1, ElementOfSeq
    <2> QED  BY <2>1
  <1>5. \A k \in 1..Len(rung') : k \in 1..n \/ k = n + 1
    BY <1>1, <1>3
  <1>5a. \A k \in 1..n : k \in 1..Len(rung') /\ k # n + 1
    BY <1>1, <1>3
  <1>5b. n + 1 \in 1..Len(rung')
    BY <1>1, <1>3
  <1> HIDE DEF n
  <1>6. Rung' = Rung \cup {x}
    BY <1>2, <1>3, <1>5, <1>5a, <1>5b DEF Rung, n
  <1>7. \A k \in 1..n : rung[k].alarm # x
    BY DEF Rung, n
  <1>8. RungOnce'
    BY <1>2, <1>3, <1>5, <1>7 DEF ListInv, RungOnce, n
  <1>9. NeverEarly'
    BY <1>2, <1>3, <1>5 DEF ListInv, NeverEarly, n
  <1>10. Turns'
    <2>1. \A a \in Entered : after[a] \in Nat /\ after[a] <= n
      BY <1>1 DEF ListInv, Turns, Entered, n
    <2>2. \A a \in Entered : after'[a] <= Len(rung')
      BY <1>1, <1>3, <2>1 DEF n
    <2>3. \A k \in 1..Len(rung') : after'[rung'[k].alarm] < k
      <3>1. \A k \in 1..n : after[rung[k].alarm] < k
        BY DEF ListInv, Turns, n
      <3>2. after[x] < n + 1
        BY <1>1, <2>1 DEF n
      <3> QED  BY <1>2, <1>3, <1>5, <3>1, <3>2
    <2>4. ASSUME NEW a \in Entered, NEW i \in after[a] + 1 .. Len(rung'),
                 \A j \in after[a] + 1 .. i : rung'[j].alarm # a,
                 time[rung'[i].alarm] > time[a]
          PROVE  i = after[a] + 1
      <3>1. i \in Nat /\ after[a] \in Nat /\ after[a] + 1 <= i /\ i <= n + 1 /\ n \in Nat
        BY <1>1, <1>3, <2>1 DEF n
      <3>2. CASE i <= n
        <4>1. i \in after[a] + 1 .. n /\ i \in 1..n
          BY <3>1, <3>2
        <4>2. \A j \in after[a] + 1 .. i : j \in 1..n
          BY <3>1, <3>2
        <4>3. \A j \in after[a] + 1 .. i : rung[j].alarm # a
          BY <1>3, <2>4, <4>2
        <4>4. time[rung[i].alarm] > time[a]
          BY <1>3, <2>4, <4>1
        <4> QED  BY <4>1, <4>3, <4>4 DEF ListInv, Turns, n
      <3>3. CASE i = n + 1
        <4>1. time[x] > time[a] /\ a # x
          <5>1. i \in after[a] + 1 .. i
            BY <3>1
          <5> QED  BY <1>2, <1>3, <2>4, <3>3, <5>1
        <4>2. a \notin Rung
          <5>1. SUFFICES ASSUME NEW k \in 1..n, rung[k].alarm = a
                         PROVE  FALSE
            BY DEF Rung, n
          <5>2. after[a] < k
            BY <5>1 DEF ListInv, Turns, n
          <5>3. k \in after[a] + 1 .. i
            BY <3>1, <3>3, <5>2
          <5> QED  BY <1>3, <2>4, <5>1, <5>3
        <4>3. after[a] = n
          BY <4>1, <4>2 DEF n
        <4> QED  BY <3>3, <4>3
      <3> QED  BY <3>1, <3>2, <3>3
    <2>5. Entered' = Entered
      BY DEF Entered
    <2> QED  BY <2>2, <2>3, <2>4, <2>5 DEF Turns
  <1> QED  BY <1>3, <1>6, <1>8, <1>9, <1>10

-----------------------------------------------------------------------------
(* The clock and main.                                                     *)

\* Steps that enter no alarm and ring none.
LEMMA HistoryKept ==
  ASSUME ListInv, UNCHANGED <<time, after, rung>>
  PROVE  /\ RungOnce' /\ NeverEarly' /\ Rung' = Rung /\ Entered' = Entered
         /\ \A a \in Entered : after'[a] <= Len(rung')
         /\ \A i \in 1..Len(rung') : after'[rung'[i].alarm] < i
         /\ \A a \in Entered' : \A i \in after'[a] + 1 .. Len(rung') :
              (\A j \in after'[a] + 1 .. i : rung'[j].alarm # a) /\ time'[rung'[i].alarm] > time'[a]
                => i = after'[a] + 1
  BY DEF ListInv, RungOnce, NeverEarly, Rung, Entered, Turns

\* Steps after which the list is what it was.
LEMMA ListKept ==
  ASSUME ListInv, UNCHANGED <<time, list>>
  PROVE  Listed' = Listed /\ ListInOrder' /\ Entered' = Entered
  BY DEF ListInv, ListInOrder, Listed, Entered

\* The steps of the programs, one lemma for each: the clock.
LEMMA TickStep ==
  ASSUME ListInv, Tick
  PROVE  ListInv'
  <1>1. UNCHANGED <<program, pc, alarm, until, time, after, process, list, current_alarm, rung>>
        /\ now' = now + 1
    BY DEF Tick, tvars, mvars
  <1>2. AlarmTypeOK /\ now \in Nat /\ time \in Seq(Int) /\ alarm \in Entered \cup {0} /\ until \in Nat
    BY DEF ListInv, AlarmTypeOK
  <1>3. AlarmTypeOK'
    BY <1>1, <1>2 DEF AlarmTypeOK, Entered
  <1>4. RungOnce' /\ NeverEarly' /\ ListInOrder' /\ Rung' = Rung /\ Listed' = Listed /\ Entered' = Entered
    BY <1>1, HistoryKept, ListKept
  <1>5. Turns'
    BY <1>1, <1>4, HistoryKept DEF Turns, ListInv
  <1>6. Placed' /\ Handless' /\ Protocol'
    BY <1>1, <1>4 DEF ListInv, Placed, Handless, Protocol
  <1>7. Positive'
    BY <1>1, <1>2, <1>4, AlarmAssumption DEF ListInv, Positive
  <1>8. Due'
    <2>1. pc = "expired" => time[alarm] \in Int
      BY <1>2 DEF AlarmTypeOK, Entered
    <2> QED  BY <1>1, <1>2, <2>1 DEF ListInv, Due
  <1> QED  BY <1>3, <1>4, <1>5, <1>6, <1>7, <1>8 DEF ListInv

\* What entering an alarm leaves true, and the new one's place.
LEMMA EnterEffect ==
  ASSUME ListInv, NEW s \in Seconds, Enter(s), list' = InsertSorted(Len(time) + 1, list, time')
  PROVE  /\ time' \in Seq(Int) /\ after' \in Seq(Nat) /\ Len(time') = Len(after')
         /\ Entered' = Entered \cup {Len(time) + 1} /\ Len(time) + 1 \notin Entered
         /\ list' \in Seq(Entered') /\ Listed' = Listed \cup {Len(time) + 1} /\ list' # <<>>
         /\ \A a \in Entered : time'[a] = time[a] /\ time[a] \in Int
         /\ time'[Len(time) + 1] \in Int /\ time'[Len(time) + 1] > 0
         /\ rung' \in Seq([alarm : Entered', at : Nat])
         /\ ListInOrder' /\ RungOnce' /\ Placed' /\ Positive' /\ NeverEarly' /\ Turns'
         /\ alarm' \in Entered' \cup {0}
         /\ Listed \subseteq Entered /\ alarm \in Entered \cup {0}
  <1> DEFINE n == Len(time) + 1
  <1>1. /\ time' = Append(time, now + s) /\ after' = Append(after, Len(rung))
        /\ UNCHANGED <<program, now, alarm, until, rung, process>>
    BY DEF Enter
  <1>2. /\ time \in Seq(Int) /\ after \in Seq(Nat) /\ Len(time) = Len(after) /\ now \in Nat
        /\ rung \in Seq([alarm : Entered, at : Nat]) /\ Len(rung) \in Nat /\ Len(time) \in Nat
        /\ alarm \in Entered \cup {0} /\ list \in Seq(Entered)
    BY DEF ListInv, AlarmTypeOK
  <1>3. now + s \in Int /\ now + s > 0
    BY <1>2, AlarmAssumption DEF ListInv, Positive
  <1>4. /\ time' \in Seq(Int) /\ after' \in Seq(Nat) /\ Len(time') = n /\ Len(after') = n
        /\ time'[n] = now + s /\ after'[n] = Len(rung)
        /\ \A a \in 1..Len(time) : time'[a] = time[a] /\ after'[a] = after[a] /\ time[a] \in Int
                                   /\ after[a] \in Nat
    BY <1>1, <1>2, <1>3
  <1>5. Entered' = Entered \cup {n} /\ n \notin Entered /\ Entered = 1..Len(time) /\ n \in Entered'
    <2>1. Entered' = 1..n /\ Entered = 1..Len(time)
      BY <1>4 DEF Entered
    <2> QED  BY <1>2, <2>1
  <1> HIDE DEF n
  <1>6. Listed \subseteq Entered /\ Rung \subseteq Entered /\ \A i \in 1..Len(rung) : rung[i].alarm \in Entered
    <2>1. \A i \in 1..Len(rung) : rung[i] \in [alarm : Entered, at : Nat]
      BY <1>2, ElementOfSeq
    <2>2. \A i \in 1..Len(list) : list[i] \in Entered
      BY <1>2, ElementOfSeq
    <2> QED  BY <2>1, <2>2 DEF Listed, Rung
  <1>7. list' \in Seq(Entered') /\ list' # <<>> /\ Listed' = Listed \cup {n} /\ ListInOrder'
    BY <1>4, <1>5, <1>6, InsertEffect DEF n
  <1>8. rung' \in Seq([alarm : Entered', at : Nat])
    <2>1. [alarm : Entered, at : Nat] \subseteq [alarm : Entered', at : Nat]
      BY <1>5
    <2> QED  BY <1>1, <1>2, <2>1, SeqMonotonic
  <1>9. RungOnce' /\ Rung' = Rung /\ NeverEarly'
    <2>1. rung' = rung
      BY <1>1
    <2>2. RungOnce /\ NeverEarly
      BY DEF ListInv
    <2>3. RungOnce' /\ Rung' = Rung
      BY <2>1, <2>2 DEF RungOnce, Rung
    <2>4. \A i \in 1..Len(rung) : time'[rung[i].alarm] = time[rung[i].alarm]
      BY <1>4, <1>5, <1>6
    <2> QED  BY <2>1, <2>2, <2>3, <2>4 DEF NeverEarly
  <1>10. n # 0 /\ 0 \notin Entered
    BY <1>2 DEF n, Entered
  <1>11. Placed'
    BY <1>1, <1>2, <1>5, <1>6, <1>7, <1>9, <1>10 DEF ListInv, Placed
  <1>12. Positive'
    BY <1>1, <1>3, <1>4, <1>5 DEF ListInv, Positive
  <1>13. Turns'
    <2>1. \A a \in Entered' : after'[a] <= Len(rung')
      BY <1>1, <1>2, <1>4, <1>5 DEF ListInv, Turns
    <2>2. \A i \in 1..Len(rung') : after'[rung'[i].alarm] < i
      BY <1>1, <1>4, <1>5, <1>6 DEF ListInv, Turns
    <2>3. ASSUME alarm' # 0, NEW a \in Listed', time'[alarm'] > time'[a]
          PROVE  after'[a] = Len(rung')
      <3>1. CASE a = n
        BY <1>1, <1>4, <3>1
      <3>2. CASE a \in Listed
        <4>1. /\ alarm # 0 /\ time'[alarm'] = time[alarm] /\ time'[a] = time[a] /\ after'[a] = after[a]
          BY <1>1, <1>2, <1>4, <1>5, <1>6, <2>3, <3>2
        <4> QED  BY <1>1, <2>3, <3>2, <4>1 DEF ListInv, Turns
      <3> QED  BY <1>7, <3>1, <3>2
    <2>4. ASSUME NEW a \in Entered', NEW i \in after'[a] + 1 .. Len(rung'),
                 \A j \in after'[a] + 1 .. i : rung'[j].alarm # a,
                 time'[rung'[i].alarm] > time'[a]
          PROVE  i = after'[a] + 1
      <3>1. CASE a = n
        <4>1. rung' = rung /\ after'[a] = Len(rung)
          BY <1>1, <1>4, <3>1
        <4>2. Len(rung) \in Nat
          BY <1>2
        <4>3. after'[a] + 1 .. Len(rung') = {}
          BY <4>1, <4>2
        <4> QED  BY <2>4, <4>3
      <3>2. CASE a \in Entered
        <4>1. after'[a] = after[a] /\ time'[a] = time[a] /\ after[a] \in Nat
          BY <1>4, <1>5, <3>2
        <4>2. i \in 1..Len(rung) /\ i \in after[a] + 1 .. Len(rung)
          BY <1>1, <1>2, <2>4, <4>1
        <4>3. time'[rung'[i].alarm] = time[rung[i].alarm]
          BY <1>1, <1>4, <1>5, <1>6, <4>2
        <4>4. (\A j \in after[a] + 1 .. i : rung[j].alarm # a) /\ time[rung[i].alarm] > time[a]
          BY <1>1, <2>4, <4>1, <4>3
        <4>5. Turns
          BY DEF ListInv
        <4>6. i = after[a] + 1
          BY <3>2, <4>2, <4>4, <4>5 DEF Turns
        <4> QED  BY <4>1, <4>6
      <3> QED  BY <1>5, <3>1, <3>2
    <2> QED  BY <2>1, <2>2, <2>3, <2>4 DEF Turns
  <1> QED  BY <1>1, <1>2, <1>3, <1>4, <1>5, <1>6, <1>7, <1>8, <1>9, <1>11, <1>12, <1>13 DEF n

\* A command of alarm_mutex.c: the thread is not told.
LEMMA CommandMutexStep ==
  ASSUME ListInv, NEW s \in Seconds, CommandMutex(s)
  PROVE  ListInv'
  <1> DEFINE n == Len(time) + 1
  <1>1. /\ program = "mutex" /\ Enter(s) /\ UNCHANGED <<current_alarm, pc, program, now, until, process, alarm>>
        /\ list' = InsertSorted(Len(time) + 1, list, time')
    BY DEF CommandMutex, Enter
  <1>2. /\ time' \in Seq(Int) /\ after' \in Seq(Nat) /\ Len(time') = Len(after')
        /\ Entered' = Entered \cup {Len(time) + 1} /\ list' \in Seq(Entered')
        /\ \A a \in Entered : time'[a] = time[a] /\ time[a] \in Int
        /\ rung' \in Seq([alarm : Entered', at : Nat])
        /\ ListInOrder' /\ RungOnce' /\ Placed' /\ Positive' /\ NeverEarly' /\ Turns'
        /\ alarm' \in Entered' \cup {0} /\ alarm \in Entered \cup {0}
    BY <1>1, EnterEffect
  <1>3. pc \in {"begin", "asleep"}
    BY <1>1 DEF ListInv, AlarmTypeOK
  <1>4. AlarmTypeOK'
    BY <1>1, <1>2, <1>3 DEF ListInv, AlarmTypeOK
  <1>5. Handless' /\ Protocol' /\ Due'
    BY <1>1, <1>2, <1>3 DEF ListInv, Handless, Protocol, Due
  <1> QED  BY <1>2, <1>4, <1>5 DEF ListInv

\* A command of alarm_cond.c: the thread is roused if it must know.
LEMMA CommandCondStep ==
  ASSUME ListInv, NEW s \in Seconds, CommandCond(s)
  PROVE  ListInv'
  <1> DEFINE n == Len(time) + 1
  <1>1. /\ program = "cond" /\ Enter(s) /\ UNCHANGED <<program, now, until, process, alarm>>
        /\ list' = InsertSorted(Len(time) + 1, list, time')
        /\ \/ /\ current_alarm = 0 \/ time'[n] < current_alarm
              /\ current_alarm' = time'[n] /\ pc' = Roused(pc)
           \/ /\ current_alarm # 0 /\ ~(time'[n] < current_alarm)
              /\ current_alarm' = current_alarm /\ pc' = pc
        /\ pc \notin {"top", "check"}
    BY DEF CommandCond, Enter, alarm_insert, Locked
  <1>2. /\ time' \in Seq(Int) /\ after' \in Seq(Nat) /\ Len(time') = Len(after')
        /\ Entered' = Entered \cup {n} /\ list' \in Seq(Entered') /\ list' # <<>>
        /\ Listed' = Listed \cup {n}
        /\ \A a \in Entered : time'[a] = time[a] /\ time[a] \in Int
        /\ time'[n] \in Int /\ time'[n] > 0
        /\ rung' \in Seq([alarm : Entered', at : Nat])
        /\ ListInOrder' /\ RungOnce' /\ Placed' /\ Positive' /\ NeverEarly' /\ Turns'
        /\ alarm' \in Entered' \cup {0} /\ alarm \in Entered \cup {0} /\ Listed \subseteq Entered
    BY <1>1, EnterEffect
  <1> HIDE DEF n
  <1>3. pc \in {"begin", "wait", "woken", "timed", "roused", "expired"} /\ current_alarm \in Nat
    BY <1>1 DEF ListInv, AlarmTypeOK
  <1>4. /\ Roused(pc) \in {"begin", "woken", "roused", "expired"}
        /\ pc \in {"timed", "roused"} <=> Roused(pc) = "roused"
        /\ pc \in {"wait", "woken"} <=> Roused(pc) = "woken"
        /\ pc = "expired" <=> Roused(pc) = "expired"
        /\ pc = "begin" <=> Roused(pc) = "begin"
    BY <1>3 DEF Roused
  <1>5. /\ pc' \in {"begin", "woken", "roused", "expired", "timed", "wait"}
        /\ pc' \in {"timed", "roused", "expired"} <=> pc \in {"timed", "roused", "expired"}
        /\ pc' = "timed" => pc = "timed" /\ current_alarm' = current_alarm
        /\ pc' = "wait" => pc = "wait" /\ current_alarm # 0
        /\ pc' = "expired" => pc = "expired"
        /\ current_alarm' \in Nat /\ current_alarm' # 0
        /\ current_alarm' <= time'[n]
        /\ current_alarm # 0 => current_alarm' <= current_alarm
    BY <1>1, <1>2, <1>3, <1>4
  <1>6. AlarmTypeOK'
    BY <1>1, <1>2, <1>5 DEF ListInv, AlarmTypeOK
  <1>7. Handless'
    BY <1>1, <1>3, <1>5 DEF ListInv, Handless
  <1>8. Protocol'
    <2>1. pc' # "wait" /\ pc' # "check"
      BY <1>5 DEF ListInv, Protocol
    <2>2. ASSUME pc' \in {"timed", "roused", "expired"}
          PROVE  /\ current_alarm' <= time'[alarm']
                 /\ \A a \in Listed' : current_alarm' <= time'[a]
      <3>1. /\ current_alarm # 0 /\ current_alarm <= time[alarm] /\ alarm # 0
            /\ \A a \in Listed : current_alarm <= time[a]
        BY <1>5, <2>2 DEF ListInv, Protocol, AlarmTypeOK
      <3>2. time'[alarm'] = time[alarm] /\ time[alarm] \in Int
        BY <1>1, <1>2, <3>1
      <3>3. \A a \in Listed : time'[a] = time[a] /\ time[a] \in Int
        BY <1>2
      <3>4. current_alarm' <= current_alarm /\ current_alarm' <= time'[n]
        BY <1>5, <3>1
      <3>5. current_alarm' \in Int /\ current_alarm \in Int
        BY <1>3, <1>5
      <3>6. current_alarm' <= time'[alarm']
        BY <3>1, <3>2, <3>4, <3>5
      <3>7. ASSUME NEW a \in Listed
            PROVE  current_alarm' <= time'[a]
        BY <3>1, <3>3, <3>4, <3>5
      <3> QED  BY <1>2, <3>4, <3>6, <3>7
    <2>3. pc' = "timed" => current_alarm' = time'[alarm']
      <3>1. SUFFICES ASSUME pc' = "timed" PROVE current_alarm' = time'[alarm']
        OBVIOUS
      <3>2. pc = "timed" /\ current_alarm' = current_alarm /\ alarm # 0
        BY <1>5, <3>1 DEF ListInv, AlarmTypeOK
      <3> QED  BY <1>1, <1>2, <3>2 DEF ListInv, Protocol
    <2> QED  BY <1>2, <1>5, <2>1, <2>2, <2>3 DEF Protocol
  <1>9. Due'
    <2>1. pc' = "expired" => pc = "expired" /\ alarm # 0
      BY <1>5 DEF ListInv, AlarmTypeOK
    <2> QED  BY <1>1, <1>2, <2>1 DEF ListInv, Due
  <1> QED  BY <1>2, <1>6, <1>7, <1>8, <1>9 DEF ListInv

-----------------------------------------------------------------------------
(* alarm_thread.                                                           *)

\* The thread takes the first alarm to sleep until it is due.
LEMMA TakenEffect ==
  ASSUME ListInv, list # <<>>, list' = Tail(list), alarm = 0, alarm' = Head(list),
         UNCHANGED <<time, after, rung>>
  PROVE  /\ list' \in Seq(Entered) /\ alarm' \in Entered /\ alarm' # 0 /\ Entered' = Entered
         /\ time[alarm'] \in Int /\ time[alarm'] > 0
         /\ Listed' \subseteq Listed /\ \A a \in Listed' : time[alarm'] <= time[a] /\ time[a] \in Int
         /\ ListInOrder' /\ RungOnce' /\ Placed' /\ NeverEarly' /\ Turns'
  <1>1. /\ Head(list) \in Listed /\ Head(list) \in Entered
        /\ list' \in Seq(Entered) /\ Listed' = Listed \ {Head(list)}
        /\ ListInOrder'
        /\ \A a \in Listed : time[Head(list)] <= time[a]
    BY TakeEffect
  <1>2. RungOnce' /\ NeverEarly' /\ Rung' = Rung /\ Entered' = Entered
    BY HistoryKept
  <1>3. /\ \A a \in Entered : a # 0 /\ time[a] \in Int /\ time[a] > 0
    BY DEF ListInv, AlarmTypeOK, Positive, Entered
  <1>4. Placed'
    BY <1>1, <1>2, <1>3 DEF ListInv, Placed
  <1>5. Listed \subseteq Entered
    BY DEF ListInv, Placed
  <1>6. \A a \in Listed' : time[alarm'] <= time[a] /\ time[a] \in Int /\ time[alarm'] \in Int
    BY <1>1, <1>3, <1>5
  <1>7. Turns'
    <2>1. \A a \in Listed' : ~(time'[alarm'] > time'[a])
      BY <1>6
    <2> QED  BY <1>2, <2>1, HistoryKept DEF Turns
  <1> QED  BY <1>1, <1>2, <1>3, <1>4, <1>6, <1>7

\* alarm_mutex.c takes the first alarm off the list.
LEMMA MutexTakeStep ==
  ASSUME ListInv, MutexTake
  PROVE  ListInv'
  <1>1. /\ program = "mutex" /\ pc = "begin" /\ pc' = "asleep" /\ alarm = 0
        /\ UNCHANGED <<program, now, time, after, process, current_alarm, rung>>
    BY DEF MutexTake, mvars, ListInv, Handless
  <1>2. AlarmTypeOK /\ Positive /\ now \in Nat
    BY DEF ListInv, AlarmTypeOK
  <1>3. CASE list = <<>> /\ alarm' = 0 /\ until' = now + 1 /\ UNCHANGED list
    <2>1. /\ RungOnce' /\ NeverEarly' /\ Rung' = Rung /\ Entered' = Entered
          /\ Listed' = Listed /\ ListInOrder'
      BY <1>1, <1>3, HistoryKept, ListKept
    <2>2. AlarmTypeOK'
      BY <1>1, <1>2, <1>3, <2>1 DEF AlarmTypeOK
    <2>3. Turns'
      BY <1>1, <1>3, <2>1, HistoryKept DEF Turns
    <2>4. Placed' /\ Positive' /\ Handless' /\ Protocol' /\ Due'
      BY <1>1, <1>3, <2>1 DEF ListInv, Placed, Positive, Handless, Protocol, Due
    <2> QED  BY <2>1, <2>2, <2>3, <2>4 DEF ListInv
  <1>4. CASE /\ list # <<>> /\ alarm' = Head(list) /\ list' = Tail(list)
             /\ until' = IF time[alarm'] <= now THEN now ELSE now + (time[alarm'] - now)
    <2>1. /\ list' \in Seq(Entered) /\ alarm' \in Entered /\ alarm' # 0 /\ Entered' = Entered
          /\ time[alarm'] \in Int /\ time[alarm'] > 0
          /\ ListInOrder' /\ RungOnce' /\ Placed' /\ NeverEarly' /\ Turns'
      BY <1>1, <1>4, TakenEffect
    <2>2. until' \in Nat /\ time[alarm'] <= until'
      BY <1>2, <1>4, <2>1
    <2>3. AlarmTypeOK'
      BY <1>1, <1>2, <2>1, <2>2 DEF AlarmTypeOK
    <2>4. Positive' /\ Handless' /\ Protocol' /\ Due'
      BY <1>1, <1>2, <2>1, <2>2 DEF Positive, Handless, Protocol, Due
    <2> QED  BY <2>1, <2>3, <2>4 DEF ListInv
  <1> QED  BY <1>3, <1>4 DEF MutexTake

\* The alarm in hand rings when it is due.
LEMMA HandRings ==
  ASSUME ListInv, alarm # 0, Ring(alarm), alarm' = 0, time[alarm] <= now,
         UNCHANGED <<time, after, list>>
  PROVE  /\ rung' \in Seq([alarm : Entered, at : Nat]) /\ Entered' = Entered /\ Listed' = Listed
         /\ ListInOrder' /\ RungOnce' /\ Placed' /\ NeverEarly' /\ Turns'
  <1>1. Listed' = Listed /\ ListInOrder' /\ Entered' = Entered
    BY ListKept
  <1>2. /\ alarm \in Entered /\ alarm \notin Rung /\ Listed \subseteq Entered /\ 0 \notin Entered
        /\ Rung \subseteq Entered /\ alarm \notin Listed
    BY DEF ListInv, Placed, AlarmTypeOK, Entered
  <1>3. \A a \in Entered : a # alarm /\ a \notin Rung /\ time[alarm] > time[a] => after[a] = Len(rung)
    BY <1>2 DEF ListInv, Placed, Turns
  <1>4. /\ rung' \in Seq([alarm : Entered, at : Nat]) /\ Rung' = Rung \cup {alarm}
        /\ RungOnce' /\ NeverEarly' /\ Turns'
    BY <1>2, <1>3, RingEffect
  <1>5. Placed'
    BY <1>1, <1>2, <1>4 DEF ListInv, Placed
  <1> QED  BY <1>1, <1>4, <1>5

\* alarm_mutex.c rings it after its sleep.
LEMMA MutexRingStep ==
  ASSUME ListInv, MutexRing
  PROVE  ListInv'
  <1>1. /\ program = "mutex" /\ pc = "asleep" /\ pc' = "begin" /\ alarm' = 0 /\ now >= until
        /\ UNCHANGED <<program, now, time, after, process, current_alarm, until, list>>
    BY DEF MutexRing, mvars
  <1>2. AlarmTypeOK /\ Positive /\ now \in Nat /\ until \in Nat /\ Due
    BY DEF ListInv, AlarmTypeOK
  <1>3. CASE alarm = 0 /\ UNCHANGED rung
    <2>1. /\ RungOnce' /\ NeverEarly' /\ Rung' = Rung /\ Entered' = Entered
          /\ Listed' = Listed /\ ListInOrder'
      BY <1>1, <1>3, HistoryKept, ListKept
    <2>2. AlarmTypeOK'
      BY <1>1, <1>2, <1>3, <2>1 DEF AlarmTypeOK
    <2>3. Turns'
      BY <1>1, <1>3, <2>1, HistoryKept DEF Turns
    <2>4. Placed' /\ Positive' /\ Handless' /\ Protocol' /\ Due'
      BY <1>1, <1>3, <2>1 DEF ListInv, Placed, Positive, Handless, Protocol, Due
    <2> QED  BY <2>1, <2>2, <2>3, <2>4 DEF ListInv
  <1>4. CASE alarm # 0 /\ Ring(alarm)
    <2>1. alarm \in Entered /\ time[alarm] \in Int /\ time[alarm] <= until
      BY <1>1, <1>2, <1>4 DEF AlarmTypeOK, Due, Entered
    <2>2. time[alarm] <= now
      BY <1>1, <1>2, <2>1
    <2>3. /\ rung' \in Seq([alarm : Entered, at : Nat]) /\ Entered' = Entered
          /\ ListInOrder' /\ RungOnce' /\ Placed' /\ NeverEarly' /\ Turns'
      BY <1>1, <1>4, <2>2, HandRings
    <2>4. AlarmTypeOK'
      BY <1>1, <1>2, <2>3 DEF AlarmTypeOK
    <2>5. Positive' /\ Handless' /\ Protocol' /\ Due'
      BY <1>1, <1>2, <2>3 DEF Positive, Handless, Protocol, Due
    <2> QED  BY <2>3, <2>4, <2>5 DEF ListInv
  <1> QED  BY <1>3, <1>4 DEF MutexRing

\* Steps of the thread of alarm_cond.c in which it neither takes, rings nor puts
\* back an alarm.
LEMMA ThreadMoves ==
  ASSUME ListInv, program = "cond",
         UNCHANGED <<program, now, alarm, until, time, after, process, list, rung>>,
         current_alarm' \in Nat, pc' \in {"check", "wait", "woken", "timed", "roused", "expired"},
         Handless', Protocol', pc' \in {"timed", "roused", "expired"} => alarm # 0,
         pc' = "expired" => time[alarm] <= now
  PROVE  ListInv'
  <1>1. /\ RungOnce' /\ NeverEarly' /\ Rung' = Rung /\ Entered' = Entered
        /\ Listed' = Listed /\ ListInOrder'
    BY HistoryKept, ListKept
  <1>2. AlarmTypeOK'
    BY <1>1 DEF ListInv, AlarmTypeOK
  <1>3. Turns'
    BY <1>1, HistoryKept DEF ListInv, Turns
  <1>4. Placed' /\ Positive' /\ Due'
    BY <1>1 DEF ListInv, Placed, Positive, Due
  <1> QED  BY <1>1, <1>2, <1>3, <1>4 DEF ListInv

\* alarm_cond.c at the top of its loop.
LEMMA CondTopStep ==
  ASSUME ListInv, CondTop
  PROVE  ListInv'
  <1>1. /\ program = "cond" /\ pc \in {"begin", "top"} /\ current_alarm' = 0 /\ pc' = "check"
        /\ UNCHANGED <<program, now, alarm, until, time, after, process, list, rung>>
    BY DEF CondTop, mvars
  <1>2. Handless' /\ Protocol'
    BY <1>1 DEF ListInv, Handless, Protocol
  <1> QED  BY <1>1, <1>2, ThreadMoves

\* alarm_cond.c finds no alarm and waits for one.
LEMMA CondWaitStep ==
  ASSUME ListInv, CondWait
  PROVE  ListInv'
  <1>1. /\ program = "cond" /\ pc \in {"check", "woken"} /\ list = <<>> /\ pc' = "wait"
        /\ UNCHANGED <<program, now, alarm, until, time, after, process, list, current_alarm, rung>>
    BY DEF CondWait, mvars
  <1>2. Handless' /\ Protocol'
    BY <1>1 DEF ListInv, Handless, Protocol
  <1>3. current_alarm' \in Nat
    BY <1>1 DEF ListInv, AlarmTypeOK
  <1> QED  BY <1>1, <1>2, <1>3, ThreadMoves

\* A wait that returns without a signal.
LEMMA SpuriousStep ==
  ASSUME ListInv, AlarmSpurious
  PROVE  ListInv'
  <1>1. /\ pc \in {"wait", "timed"} /\ pc' = Roused(pc)
        /\ UNCHANGED <<program, now, alarm, until, time, after, process, list, current_alarm, rung>>
    BY DEF AlarmSpurious, mvars
  <1>2. program = "cond" /\ current_alarm' \in Nat
    BY <1>1 DEF ListInv, AlarmTypeOK
  <1>3. CASE pc = "wait" /\ pc' = "woken"
    <2>1. Handless' /\ Protocol'
      BY <1>1, <1>3 DEF ListInv, Handless, Protocol
    <2> QED  BY <1>1, <1>2, <1>3, <2>1, ThreadMoves
  <1>4. CASE pc = "timed" /\ pc' = "roused"
    <2>1. alarm # 0
      BY <1>4 DEF ListInv, AlarmTypeOK
    <2>2. Listed' = Listed
      BY <1>1, ListKept
    <2>3. Handless' /\ Protocol'
      BY <1>1, <1>4, <2>2 DEF ListInv, Handless, Protocol
    <2> QED  BY <1>1, <1>2, <1>4, <2>1, <2>3, ThreadMoves
  <1> QED  BY <1>1, <1>3, <1>4 DEF Roused

\* A timed wait that times out.
LEMMA TimeoutStep ==
  ASSUME ListInv, Timeout
  PROVE  ListInv'
  <1>1. /\ pc = "timed" /\ now >= time[alarm] /\ pc' = "expired"
        /\ UNCHANGED <<program, now, alarm, until, time, after, process, list, current_alarm, rung>>
    BY DEF Timeout, mvars
  <1>2. program = "cond" /\ current_alarm' \in Nat /\ alarm # 0 /\ time[alarm] \in Int /\ now \in Nat
    BY <1>1 DEF ListInv, AlarmTypeOK, Entered
  <1>3. Listed' = Listed
    BY <1>1, ListKept
  <1>4. Handless' /\ Protocol' /\ time[alarm] <= now
    BY <1>1, <1>2, <1>3 DEF ListInv, Handless, Protocol
  <1> QED  BY <1>1, <1>2, <1>4, ThreadMoves

\* alarm_cond.c takes the first alarm, to wait for its time or to ring it.
LEMMA CondTakeStep ==
  ASSUME ListInv, CondTake
  PROVE  ListInv'
  <1> DEFINE a == Head(list)
  <1>1. /\ program = "cond" /\ pc \in {"check", "woken"} /\ list # <<>> /\ list' = Tail(list) /\ alarm = 0
        /\ UNCHANGED <<program, now, until, time, after, process>>
    BY DEF CondTake, mvars, ListInv, Handless
  <1>2. AlarmTypeOK /\ Positive /\ now \in Nat
    BY DEF ListInv, AlarmTypeOK
  <1>3. CASE /\ time[a] > now /\ alarm' = a /\ current_alarm' = time[a] /\ pc' = "timed" /\ UNCHANGED rung
    <2>1. /\ list' \in Seq(Entered) /\ alarm' \in Entered /\ alarm' # 0 /\ Entered' = Entered
          /\ time[alarm'] \in Int /\ time[alarm'] > 0
          /\ Listed' \subseteq Listed /\ \A b \in Listed' : time[alarm'] <= time[b] /\ time[b] \in Int
          /\ ListInOrder' /\ RungOnce' /\ Placed' /\ NeverEarly' /\ Turns'
      BY <1>1, <1>3, TakenEffect
    <2>2. current_alarm' \in Nat /\ current_alarm' # 0
      BY <1>3, <2>1
    <2>3. AlarmTypeOK'
      BY <1>1, <1>2, <1>3, <2>1, <2>2 DEF AlarmTypeOK
    <2>4. Positive' /\ Handless' /\ Protocol' /\ Due'
      <3>1. Positive' /\ Handless'
        BY <1>1, <1>2, <1>3, <2>1, <2>2 DEF Positive, Handless
      <3>2. Protocol' /\ Due'
        BY <1>1, <1>2, <1>3, <2>1, <2>2 DEF Protocol, Due
      <3> QED  BY <3>1, <3>2
    <2> QED  BY <2>1, <2>3, <2>4 DEF ListInv
  <1>4. CASE ~(time[a] > now) /\ alarm' = 0 /\ Ring(a) /\ pc' = "top" /\ UNCHANGED current_alarm
    <2>1. /\ a \in Listed /\ a \in Entered
          /\ list' \in Seq(Entered) /\ Listed' = Listed \ {a}
          /\ ListInOrder'
          /\ \A b \in Listed : time[a] <= time[b]
      BY <1>1, TakeEffect
    <2>2. /\ \A b \in Entered : time[b] \in Int
          /\ a \notin Rung /\ Listed \subseteq Entered /\ Entered = Listed \cup Rung
      BY <1>1, <1>2, <2>1 DEF ListInv, Placed, AlarmTypeOK, Entered
    <2>3. \A b \in Entered : b # a /\ b \notin Rung /\ time[a] > time[b] => after[b] = Len(rung)
      BY <2>1, <2>2
    <2>4. time[a] <= now
      BY <1>2, <1>4, <2>1, <2>2
    <2>5. /\ rung' \in Seq([alarm : Entered, at : Nat]) /\ Rung' = Rung \cup {a}
          /\ RungOnce' /\ NeverEarly' /\ Turns'
      BY <1>1, <1>4, <2>1, <2>2, <2>3, <2>4, RingEffect
    <2>6. Entered' = Entered
      BY <1>1 DEF Entered
    <2>7. 0 \notin Entered
      BY DEF Entered
    <2>8. Placed'
      BY <1>4, <2>1, <2>2, <2>5, <2>6, <2>7 DEF ListInv, Placed
    <2>9. AlarmTypeOK'
      BY <1>1, <1>2, <1>4, <2>1, <2>5, <2>6 DEF AlarmTypeOK
    <2>10. Positive' /\ Handless' /\ Protocol' /\ Due'
      BY <1>1, <1>2, <1>4, <2>6 DEF Positive, Handless, Protocol, Due
    <2> QED  BY <2>1, <2>5, <2>8, <2>9, <2>10 DEF ListInv
  <1> QED  BY <1>3, <1>4 DEF CondTake

\* alarm_cond.c rings the current alarm.
LEMMA CondExpiredStep ==
  ASSUME ListInv, CondExpired
  PROVE  ListInv'
  <1>1. /\ pc = "expired" /\ Ring(alarm) /\ alarm' = 0 /\ pc' = "top"
        /\ UNCHANGED <<program, now, until, time, after, process, list, current_alarm>>
    BY DEF CondExpired, mvars
  <1>2. AlarmTypeOK /\ Positive /\ Due /\ alarm # 0 /\ program = "cond"
    BY <1>1 DEF ListInv, AlarmTypeOK
  <1>3. /\ rung' \in Seq([alarm : Entered, at : Nat]) /\ Entered' = Entered
        /\ ListInOrder' /\ RungOnce' /\ Placed' /\ NeverEarly' /\ Turns'
    BY <1>1, <1>2, HandRings DEF Due
  <1>4. AlarmTypeOK'
    BY <1>1, <1>2, <1>3 DEF AlarmTypeOK
  <1>5. Positive' /\ Handless' /\ Protocol' /\ Due'
    BY <1>1, <1>2, <1>3 DEF Positive, Handless, Protocol, Due
  <1> QED  BY <1>3, <1>4, <1>5 DEF ListInv

\* alarm_cond.c, roused, waits on or puts the alarm back for an earlier one.
LEMMA CondRousedStep ==
  ASSUME ListInv, CondRoused
  PROVE  ListInv'
  <1>1. /\ pc = "roused" /\ UNCHANGED <<program, now, until, time, after, process, rung>>
    BY DEF CondRoused, mvars
  <1>2. /\ AlarmTypeOK /\ Positive /\ alarm # 0 /\ program = "cond" /\ alarm \in Entered
        /\ time[alarm] \in Int /\ time[alarm] > 0 /\ now \in Nat /\ current_alarm \in Nat
    BY <1>1 DEF ListInv, AlarmTypeOK, Positive, Entered
  <1>3. CASE current_alarm = time[alarm] /\ pc' = TimedWait(alarm) /\ UNCHANGED <<alarm, list, current_alarm>>
    <2>1. pc' = "timed" \/ (pc' = "expired" /\ time[alarm] <= now)
      BY <1>2, <1>3 DEF TimedWait
    <2>2. Listed' = Listed
      BY <1>1, <1>3, ListKept
    <2>3. Handless' /\ Protocol'
      BY <1>1, <1>2, <1>3, <2>1, <2>2 DEF ListInv, Handless, Protocol
    <2> QED  BY <1>1, <1>2, <1>3, <2>1, <2>3, ThreadMoves
  <1>4. CASE alarm_insert(alarm, time, "top") /\ alarm' = 0
    <2>1. /\ list' = InsertSorted(alarm, list, time') /\ pc' = "top"
          /\ current_alarm' = time[alarm] \/ current_alarm' = current_alarm
      BY <1>1, <1>4 DEF alarm_insert, Roused
    <2>2. RungOnce' /\ NeverEarly' /\ Rung' = Rung /\ Entered' = Entered
      BY <1>1, HistoryKept
    <2>3. alarm \notin Listed /\ time' \in Seq(Int)
      BY <1>1, <1>2 DEF ListInv, Placed, AlarmTypeOK
    <2>4. list' \in Seq(Entered') /\ list' # <<>> /\ Listed' = Listed \cup {alarm} /\ ListInOrder'
      BY <1>1, <1>2, <2>1, <2>2, <2>3, InsertEffect
    <2>5. AlarmTypeOK'
      BY <1>1, <1>2, <1>4, <2>1, <2>2, <2>4 DEF AlarmTypeOK
    <2>6. 0 \notin Entered
      BY DEF Entered
    <2>7. Placed'
      BY <1>2, <1>4, <2>2, <2>4, <2>6 DEF ListInv, Placed
    <2>8. Turns'
      BY <1>4, <2>2, HistoryKept, <1>1 DEF Turns
    <2>9. Positive' /\ Handless' /\ Protocol' /\ Due'
      BY <1>1, <1>2, <1>4, <2>1, <2>2 DEF Positive, Handless, Protocol, Due
    <2> QED  BY <2>2, <2>4, <2>5, <2>7, <2>8, <2>9 DEF ListInv
  <1> QED  BY <1>3, <1>4 DEF CondRoused

-----------------------------------------------------------------------------
(* The invariant holds.                                                    *)

\* AlarmInit establishes the invariant.
LEMMA AlarmStart == AlarmInit => ListInv
  <1> SUFFICES ASSUME AlarmInit PROVE ListInv
    OBVIOUS
  <1> USE AlarmAssumption DEF AlarmInit
  <1>1. Entered = {} /\ Listed = {} /\ Rung = {} /\ Len(time) = 0 /\ Len(list) = 0 /\ Len(rung) = 0
    BY DEF Entered, Listed, Rung
  <1>2. AlarmTypeOK
    BY <1>1 DEF AlarmTypeOK
  <1>3. ListInOrder /\ RungOnce /\ Placed
    BY <1>1 DEF ListInOrder, RungOnce, Placed
  <1>4. Positive /\ Handless /\ Protocol /\ Due
    BY <1>1 DEF Positive, Handless, Protocol, Due
  <1>5. NeverEarly /\ Turns
    BY <1>1 DEF NeverEarly, Turns
  <1> QED  BY <1>2, <1>3, <1>4, <1>5 DEF ListInv

\* A step that changes nothing preserves it.
LEMMA AlarmStutter ==
  ASSUME ListInv, process' \in {"running", "exited"},
         UNCHANGED <<program, now, pc, alarm, until, time, after, list, current_alarm, rung>>
  PROVE  ListInv'
  <1>1. /\ RungOnce' /\ NeverEarly' /\ Rung' = Rung /\ Entered' = Entered
        /\ Listed' = Listed /\ ListInOrder'
    BY HistoryKept, ListKept
  <1>2. AlarmTypeOK'
    BY <1>1 DEF ListInv, AlarmTypeOK
  <1>3. Turns'
    BY <1>1, HistoryKept DEF ListInv, Turns
  <1>4. Placed' /\ Positive' /\ Handless' /\ Protocol' /\ Due'
    BY <1>1 DEF ListInv, Placed, Positive, Handless, Protocol, Due
  <1> QED  BY <1>1, <1>2, <1>3, <1>4 DEF ListInv

\* Every step preserves it.
LEMMA AlarmStep ==
  ASSUME ListInv, [AlarmNext]_alarm_vars
  PROVE  ListInv'
  <1>1. CASE UNCHANGED alarm_vars
    BY <1>1, AlarmStutter DEF alarm_vars, tvars, mvars, ListInv, AlarmTypeOK
  <1>2. CASE EndOfInput
    BY <1>2, AlarmStutter DEF EndOfInput, tvars
  <1>3. CASE Tick \/ AlarmSpurious
    BY <1>3, TickStep, SpuriousStep
  <1>4. ASSUME NEW s \in Seconds, CommandMutex(s) \/ CommandCond(s)
        PROVE  ListInv'
    BY <1>4, CommandMutexStep, CommandCondStep
  <1>5. CASE Thread
    BY <1>5, MutexTakeStep, MutexRingStep, CondTopStep, CondWaitStep, CondTakeStep, TimeoutStep,
       CondRousedStep, CondExpiredStep DEF Thread
  <1> QED  BY <1>1, <1>2, <1>3, <1>4, <1>5 DEF AlarmNext

\* It holds in every state.
LEMMA AlarmAlways == AlarmSpec => []ListInv
  BY AlarmStart, AlarmStep, PTL DEF AlarmSpec

-----------------------------------------------------------------------------
\* A set enumerated without repetitions by 1..n has n elements.
LEMMA EnumeratedCardinality ==
  ASSUME NEW n \in Nat, NEW T, NEW f \in Bijection(1..n, T)
  PROVE  Cardinality(T) = n
  <1>1. IsFiniteSet(1..n) /\ Cardinality(1..n) = n
    BY FS_Interval
  <1>2. ExistsBijection(1..n, T)
    BY DEF ExistsBijection
  <1> QED  BY <1>1, <1>2, FS_Bijection

\* Both programs, for any commands at any times: the list stays ordered, every
\* alarm is in exactly one place, and the thread sleeps only on the earliest.
THEOREM AlarmCorrect == AlarmSpec => []AlarmInv
  <1>1. ListInv => AlarmInv
    <2> SUFFICES ASSUME ListInv PROVE EachAlarmOnce /\ SleepsOnEarliest
      BY DEF ListInv, AlarmInv
    <2>1. Cardinality(Listed) = Len(list)
      <3> DEFINE f == [i \in 1..Len(list) |-> list[i]]
      <3>1. Len(list) \in Nat
        BY DEF ListInv, AlarmTypeOK
      <3>2. f \in Bijection(1..Len(list), Listed)
        BY DEF ListInv, ListInOrder, Listed, Bijection, Injection, Surjection, IsInjective
      <3> HIDE DEF f
      <3> QED  BY <3>1, <3>2, EnumeratedCardinality
    <2>2. Cardinality(Rung) = Len(rung)
      <3> DEFINE f == [i \in 1..Len(rung) |-> rung[i].alarm]
      <3>1. Len(rung) \in Nat
        BY DEF ListInv, AlarmTypeOK
      <3>2. f \in Bijection(1..Len(rung), Rung)
        BY DEF ListInv, RungOnce, Rung, Bijection, Injection, Surjection, IsInjective
      <3> HIDE DEF f
      <3> QED  BY <3>1, <3>2, EnumeratedCardinality
    <2>3. EachAlarmOnce
      BY <2>1, <2>2 DEF ListInv, ListInOrder, Placed, EachAlarmOnce
    <2>4. SleepsOnEarliest
      BY DEF ListInv, Protocol, SleepsOnEarliest
    <2> QED  BY <2>3, <2>4
  <1> QED  BY <1>1, AlarmAlways, PTL

\* No alarm rings before its time, and an alarm is overtaken by a later one at
\* most once, however the thread is woken.
THEOREM AlarmsInTurn == AlarmSpec => []RingsInTurn
  <1>1. ListInv => RingsInTurn
    <2> SUFFICES ASSUME ListInv, NEW a \in Entered
                 PROVE  Cardinality(Overtakers(a)) <= 1
      BY DEF ListInv, RingsInTurn, OvertakenOnce
    <2>1. Overtakers(a) \subseteq {after[a] + 1}
      BY DEF Overtakers, ListInv, Turns
    <2>2. IsFiniteSet({after[a] + 1}) /\ Cardinality({after[a] + 1}) = 1
      BY FS_Singleton
    <2>3. Cardinality(Overtakers(a)) <= Cardinality({after[a] + 1})
      BY <2>1, <2>2, FS_Subset
    <2> QED  BY <2>2, <2>3
  <1> QED  BY <1>1, AlarmAlways, PTL

-----------------------------------------------------------------------------
(* The crew.                                                               *)

WorkerStates == {"start", "gowait", "top", "topwait", "busy", "reading", "finish", "gone"}

\* Items dropped have each cost a failure, a busy worker has an item, and the
\* callers whose items are queued or in progress still wait for them.
Outstanding ==
  /\ dropped <= failures
  /\ \A w \in Busy : work[w] \in Items
  /\ \A w \in Busy : caller[work[w][1]] \in {"collectwait", "collect", "aborted"}
  /\ \A i \in 1..Len(queue) : caller[queue[i][1]] \in {"collectwait", "collect", "aborted"}

\* The inductive invariant.  AllHandsOnWork needs CountMatches: a worker goes
\* to sleep in its first wait when the count, not the queue, is empty.
IInv == TypeOK /\ CountMatches /\ AllHandsOnWork /\ Outstanding

-----------------------------------------------------------------------------
(* Counting.                                                               *)

\* Sets of workers are finite.
LEMMA Finite ==
  /\ IsFiniteSet(Busy) /\ IsFiniteSet(Ready)
  /\ Cardinality(Busy) \in Nat /\ Cardinality(Ready) \in Nat
  <1>1. Busy \subseteq Workers /\ Ready \subseteq Workers
    BY DEF Busy, Ready
  <1> QED  BY <1>1, CrewAssumption, FS_Subset, FS_CardinalityType

\* A worker that joins or leaves a set changes its size by one.
LEMMA CardAdd ==
  ASSUME NEW S, IsFiniteSet(S), NEW x, x \notin S
  PROVE  IsFiniteSet(S \cup {x}) /\ Cardinality(S \cup {x}) = Cardinality(S) + 1
  BY FS_AddElement

\* A member less is one less.
LEMMA CardDel ==
  ASSUME NEW S, IsFiniteSet(S), NEW x, x \in S
  PROVE  IsFiniteSet(S \ {x}) /\ Cardinality(S \ {x}) = Cardinality(S) - 1
  BY FS_RemoveElement

\* A set with a member is not of size 0.
LEMMA CardPositive ==
  ASSUME NEW S, IsFiniteSet(S), NEW x \in S
  PROVE  Cardinality(S) > 0
  BY FS_EmptySet, FS_CardinalityType

\* A signal on go moves one sleeper, if there is one, to those who are ready.
LEMMA SignalGoMoves ==
  ASSUME worker \in [Workers -> WorkerStates], SignalGo(worker)
  PROVE  /\ worker' \in [Workers -> WorkerStates]
         /\ Busy' = Busy
         /\ \/ Asleep = {} /\ Asleep' = {} /\ Ready' = Ready
            \/ /\ Cardinality(Ready') = Cardinality(Ready) + 1
               /\ Asleep # {}
  <1>1. CASE Asleep = {}
    BY <1>1 DEF SignalGo, Asleep, Ready, Busy
  <1>2. CASE Asleep # {}
    <2>1. PICK w \in Asleep : worker' = [worker EXCEPT ![w] = Wake(@)]
      BY <1>2 DEF SignalGo
    <2>2. /\ w \in Workers /\ worker[w] \in {"gowait", "topwait"}
          /\ Wake(worker[w]) \in {"start", "top"}
      BY <2>1 DEF Asleep, Wake
    <2> DEFINE p == Wake(worker[w])
    <2>3. worker' = [worker EXCEPT ![w] = p] /\ p \in {"start", "top"}
      BY <2>1, <2>2
    <2> HIDE DEF p
    <2>4. worker' \in [Workers -> WorkerStates]
      BY <2>3, <2>2 DEF WorkerStates
    <2>5. Ready' = Ready \cup {w} /\ w \notin Ready
      BY <2>2, <2>3 DEF Ready, WorkerStates
    <2>6. Busy' = Busy
      BY <2>2, <2>3 DEF Busy, WorkerStates
    <2>7. Cardinality(Ready') = Cardinality(Ready) + 1
      BY <2>5, Finite, CardAdd
    <2> QED  BY <1>2, <2>4, <2>6, <2>7
  <1> QED  BY <1>1, <1>2

\* What moving one worker does to the three sets.
LEMMA OneMoves ==
  ASSUME worker \in [Workers -> WorkerStates], NEW w \in Workers, NEW p \in WorkerStates,
         worker' = [worker EXCEPT ![w] = p]
  PROVE  /\ worker' \in [Workers -> WorkerStates]
         /\ Busy' = IF p \in {"busy", "reading", "finish"} THEN Busy \cup {w} ELSE Busy \ {w}
         /\ Ready' = IF p \in {"start", "top"} THEN Ready \cup {w} ELSE Ready \ {w}
         /\ Asleep' = IF p \in {"gowait", "topwait"} THEN Asleep \cup {w} ELSE Asleep \ {w}
  <1>1. worker' \in [Workers -> WorkerStates]
    OBVIOUS
  <1>2. Busy' = IF p \in {"busy", "reading", "finish"} THEN Busy \cup {w} ELSE Busy \ {w}
    BY DEF Busy
  <1>3. Ready' = IF p \in {"start", "top"} THEN Ready \cup {w} ELSE Ready \ {w}
    BY DEF Ready
  <1>4. Asleep' = IF p \in {"gowait", "topwait"} THEN Asleep \cup {w} ELSE Asleep \ {w}
    BY DEF Asleep
  <1> QED  BY <1>1, <1>2, <1>3, <1>4

-----------------------------------------------------------------------------
(* The steps.                                                              *)

\* What the invariant says about numbers.
LEMMA Facts ==
  ASSUME IInv
  PROVE  /\ worker \in [Workers -> WorkerStates]
         /\ Len(queue) \in Nat /\ work_count \in Nat /\ failures \in Nat /\ dropped \in Nat
         /\ Cardinality(Busy) \in Nat /\ Cardinality(Ready) \in Nat
         /\ IsFiniteSet(Busy) /\ IsFiniteSet(Ready)
         /\ work_count = Len(queue) + Cardinality(Busy) + dropped
         /\ Len(queue) > Cardinality(Ready) => Asleep = {}
  BY Finite, CrewAssumption DEF IInv, TypeOK, CountMatches, AllHandsOnWork, WorkerStates

\* Init establishes the invariant.
LEMMA InitIInv == Init => IInv
  <1> SUFFICES ASSUME Init PROVE IInv
    OBVIOUS
  <1>1. TypeOK
    <2>1. work_count \in Nat /\ failures \in 0..MaxFailures /\ dropped \in 0..MaxFailures
      BY CrewAssumption DEF Init
    <2>2. queue \in Seq(Items)
      BY DEF Init
    <2> QED  BY <2>1, <2>2 DEF Init, TypeOK
  <1>2. Busy = {} /\ Len(queue) = 0
    BY DEF Init, Busy
  <1>3. CountMatches /\ AllHandsOnWork
    <2>1. Cardinality(Busy) = 0
      BY <1>2, FS_EmptySet
    <2> QED  BY <1>2, <2>1, Finite DEF Init, CountMatches, AllHandsOnWork
  <1>4. Outstanding
    BY <1>2 DEF Init, Outstanding
  <1> QED  BY <1>1, <1>3, <1>4 DEF IInv

\* A worker goes to sleep only when nothing is queued: in its first wait the
\* count is 0, in the other the queue is empty.
LEMMA WorkerSleepIInv ==
  ASSUME IInv, NEW w \in Workers, WorkerStart(w) \/ WorkerWait(w)
  PROVE  IInv'
  <1>0. PICK p \in WorkerStates :
          /\ worker' = [worker EXCEPT ![w] = p]
          /\ \/ p = "top"
             \/ p \in {"gowait", "topwait"} /\ (work_count = 0 \/ queue = <<>>)
    BY DEF WorkerStart, WorkerWait, WorkerStates
  <1>1. /\ UNCHANGED <<queue, work_count, work, unread, caller, failures, dropped, served, found>>
        /\ worker[w] \in {"start", "top"}
    BY DEF WorkerStart, WorkerWait, qvars
  <1>2. /\ worker' \in [Workers -> WorkerStates]
        /\ Busy' = Busy
        /\ p = "top" => Ready' = Ready /\ Asleep' = Asleep
    BY <1>0, <1>1, Facts, OneMoves DEF Busy, Ready, Asleep
  <1>3. TypeOK'
    BY <1>1, <1>2 DEF IInv, TypeOK, WorkerStates
  <1>4. CountMatches'
    BY <1>1, <1>2 DEF IInv, CountMatches
  <1>5. AllHandsOnWork'
    <2>1. CASE p = "top"
      BY <2>1, <1>1, <1>2 DEF IInv, AllHandsOnWork
    <2>2. CASE p # "top"
      <3>1. Len(queue) = 0
        BY <2>2, <1>0, Facts
      <3>2. Cardinality(Ready') \in Nat
        BY <1>2, <1>0, <1>1, Facts, OneMoves, FS_Subset, FS_CardinalityType, CrewAssumption DEF Ready
      <3> QED  BY <3>1, <3>2, <1>1 DEF AllHandsOnWork
    <2> QED  BY <2>1, <2>2
  <1>6. Outstanding'
    BY <1>1, <1>2 DEF IInv, Outstanding
  <1> QED  BY <1>3, <1>4, <1>5, <1>6 DEF IInv

\* Taking an item off the queue.
LEMMA WorkerTakeIInv ==
  ASSUME IInv, NEW w \in Workers, WorkerTake(w)
  PROVE  IInv'
  <1>1. /\ queue \in Seq(Items) /\ queue # <<>> /\ worker[w] = "top"
        /\ queue' = Tail(queue) /\ worker' = [worker EXCEPT ![w] = "busy"]
        /\ work' = [work EXCEPT ![w] = Head(queue)]
        /\ work \in [Workers -> Items \cup {None}]
        /\ UNCHANGED <<work_count, unread, caller, failures, dropped, served, found>>
    BY DEF IInv, TypeOK, WorkerTake
  <1>2. /\ Head(queue) \in Items /\ Head(queue) = queue[1] /\ 1 \in 1..Len(queue)
        /\ queue' \in Seq(Items) /\ Len(queue') = Len(queue) - 1
        /\ \A i \in 1..Len(queue') : queue'[i] = queue[i + 1] /\ i + 1 \in 1..Len(queue)
    BY <1>1
  <1>3. /\ worker' \in [Workers -> WorkerStates]
        /\ Busy' = Busy \cup {w} /\ Ready' = Ready \ {w} /\ Asleep' = Asleep \ {w}
    BY <1>1, Facts, OneMoves DEF WorkerStates
  <1>4. w \notin Busy /\ w \in Ready
    BY <1>1 DEF Busy, Ready
  <1>5. /\ Cardinality(Busy') = Cardinality(Busy) + 1
        /\ Cardinality(Ready') = Cardinality(Ready) - 1
    BY <1>3, <1>4, Facts, CardAdd, CardDel
  <1>6. TypeOK'
    <2>1. work' \in [Workers -> Items \cup {None}]
      BY <1>1, <1>2
    <2> QED  BY <1>1, <1>2, <1>3, <2>1 DEF IInv, TypeOK, WorkerStates
  <1>7. CountMatches'
    BY <1>1, <1>2, <1>5, Facts DEF CountMatches
  <1>8. AllHandsOnWork'
    BY <1>1, <1>2, <1>3, <1>5, Facts DEF AllHandsOnWork
  <1>9. Outstanding'
    <2>1. \A v \in Busy' : work'[v] \in Items /\ caller[work'[v][1]] \in {"collectwait", "collect", "aborted"}
      <3> SUFFICES ASSUME NEW v \in Busy'
                   PROVE  work'[v] \in Items /\ caller[work'[v][1]] \in {"collectwait", "collect", "aborted"}
        OBVIOUS
      <3>1. CASE v = w
        <4>1. work'[v] = queue[1]
          BY <3>1, <1>1, <1>2
        <4> QED  BY <4>1, <1>2 DEF IInv, Outstanding
      <3>2. CASE v # w
        <4>1. v \in Busy /\ v \in Workers
          BY <3>2, <1>3 DEF Busy
        <4>2. work'[v] = work[v]
          BY <3>2, <4>1, <1>1
        <4> QED  BY <4>1, <4>2 DEF IInv, Outstanding
      <3> QED  BY <3>1, <3>2
    <2>2. \A i \in 1..Len(queue') : caller[queue'[i][1]] \in {"collectwait", "collect", "aborted"}
      BY <1>2 DEF IInv, Outstanding
    <2> QED  BY <1>1, <2>1, <2>2 DEF IInv, Outstanding
  <1> QED  BY <1>6, <1>7, <1>8, <1>9 DEF IInv

\* A busy worker that goes on with its item changes none of the counts.
LEMMA StaysBusy ==
  ASSUME IInv, NEW w \in Workers, NEW p \in {"reading", "finish"}, w \in Busy,
         worker' = [worker EXCEPT ![w] = p],
         UNCHANGED <<queue, work_count, work, caller, dropped>>,
         failures' \in 0..MaxFailures, failures <= failures',
         unread' \in [Workers -> SUBSET Paths],
         served' \subseteq Items, found' \subseteq served'
  PROVE  IInv'
  <1>1. /\ worker' \in [Workers -> WorkerStates]
        /\ Busy' = Busy /\ Ready' = Ready /\ Asleep' = Asleep
    <2>1. p \in WorkerStates /\ w \notin Ready /\ w \notin Asleep
      BY DEF WorkerStates, Busy, Ready, Asleep
    <2>2. worker \in [Workers -> WorkerStates]
      BY Facts
    <2>3. /\ worker' \in [Workers -> WorkerStates]
          /\ Busy' = Busy \cup {w} /\ Ready' = Ready \ {w} /\ Asleep' = Asleep \ {w}
      BY <2>1, <2>2, OneMoves
    <2> QED  BY <2>1, <2>3
  <1>2. TypeOK'
    BY <1>1 DEF IInv, TypeOK, WorkerStates
  <1>3. CountMatches' /\ AllHandsOnWork'
    BY <1>1 DEF IInv, CountMatches, AllHandsOnWork
  <1>4. Outstanding'
    <2>1. dropped' <= failures'
      BY Facts, CrewAssumption DEF IInv, Outstanding
    <2> QED  BY <2>1, <1>1 DEF IInv, Outstanding
  <1> QED  BY <1>2, <1>3, <1>4 DEF IInv

\* The item of a busy worker.
LEMMA BusyItem ==
  ASSUME IInv, NEW w \in Busy
  PROVE  /\ w \in Workers /\ work[w] \in Items
         /\ work[w][1] \in Callers /\ work[w][2] \in Paths
         /\ caller[work[w][1]] \in {"collectwait", "collect", "aborted"}
  BY DEF IInv, Outstanding, Items, Busy

\* Processing an item, and its failures: the worker goes on with it, or drops
\* a directory that cannot be opened.
LEMMA ProcessIInv ==
  ASSUME IInv, NEW w \in Workers, worker[w] = "busy",
         NEW kind, NEW fails \in BOOLEAN, Process(w, kind, fails),
         UNCHANGED <<queue, work_count, caller>>,
         \/ ~fails /\ failures' = failures
         \/ failures < MaxFailures /\ failures' = failures + 1
  PROVE  IInv'
  <1>1. w \in Busy
    BY DEF Busy
  <1>2. /\ failures' \in 0..MaxFailures /\ failures <= failures'
        /\ fails => failures' = failures + 1
    BY Facts, CrewAssumption DEF IInv, TypeOK
  <1>3. /\ work[w] \in Items /\ work[w][2] \in Paths
        /\ served \subseteq Items /\ found \subseteq served /\ unread \in [Workers -> SUBSET Paths]
    BY <1>1, BusyItem DEF IInv, TypeOK
  <1>4. CASE kind \in {"link", "other"} /\ ~fails
    <2>1. /\ worker' = [worker EXCEPT ![w] = "finish"]
          /\ served' = served \cup {work[w]} /\ UNCHANGED <<work, unread, dropped, found>>
      BY <1>4 DEF Process
    <2> QED  BY <2>1, <1>1, <1>2, <1>3, StaysBusy
  <1>5. CASE kind = "file"
    <2>1. /\ worker' = [worker EXCEPT ![w] = "finish"]
          /\ served' = served \cup {work[w]} /\ UNCHANGED <<work, unread, dropped>>
          /\ found' = found \/ found' = found \cup {work[w]}
      BY <1>5 DEF Process
    <2>2. served' \subseteq Items /\ found' \subseteq served'
      BY <2>1, <1>3
    <2> QED  BY <2>1, <2>2, <1>1, <1>2, <1>3, StaysBusy
  <1>6. CASE kind = "dir" /\ ~fails
    <2>1. /\ worker' = [worker EXCEPT ![w] = "reading"]
          /\ unread' = [unread EXCEPT ![w] = Entries[work[w][2]]]
          /\ UNCHANGED <<work, dropped, served, found>>
      BY <1>6 DEF Process
    <2>2. unread' \in [Workers -> SUBSET Paths]
      BY <2>1, <1>3, CrewAssumption
    <2> QED  BY <2>1, <2>2, <1>1, <1>2, <1>3, StaysBusy
  <1>7. CASE kind = "dir" /\ fails
    <2>1. /\ worker' = [worker EXCEPT ![w] = "top"]
          /\ work' = [work EXCEPT ![w] = None] /\ dropped' = dropped + 1
          /\ UNCHANGED <<queue, work_count, caller, unread, served, found>>
          /\ failures' = failures + 1
      BY <1>7, <1>2 DEF Process
    <2>2. worker \in [Workers -> WorkerStates] /\ "top" \in WorkerStates
      BY Facts DEF WorkerStates
    <2>3. /\ worker' \in [Workers -> WorkerStates]
          /\ Busy' = Busy \ {w} /\ Ready' = Ready \cup {w} /\ Asleep' = Asleep \ {w}
      BY <2>1, <2>2, OneMoves
    <2>4. w \notin Ready /\ w \notin Asleep
      BY DEF Ready, Asleep
    <2>5. /\ Cardinality(Busy') = Cardinality(Busy) - 1
          /\ Cardinality(Ready') = Cardinality(Ready) + 1
      BY <2>3, <2>4, <1>1, Facts, CardAdd, CardDel
    <2>6. dropped' <= failures'
      BY <2>1, Facts DEF IInv, Outstanding
    <2>7. TypeOK'
      <3>1. dropped' \in 0..MaxFailures
        BY <2>1, <2>6, <1>2, Facts, CrewAssumption
      <3>2. work' \in [Workers -> Items \cup {None}]
        BY <2>1 DEF IInv, TypeOK
      <3> QED  BY <3>1, <3>2, <2>1, <2>3, <1>2 DEF IInv, TypeOK, WorkerStates
    <2>8. CountMatches'
      BY <2>1, <2>5, Facts DEF CountMatches
    <2>9. AllHandsOnWork'
      BY <2>1, <2>3, <2>4, <2>5, Facts DEF AllHandsOnWork
    <2>10. Outstanding'
      <3>1. \A v \in Busy' : v \in Busy /\ work'[v] = work[v]
        BY <2>1, <2>3 DEF IInv, TypeOK, Busy
      <3> QED  BY <3>1, <2>1, <2>6 DEF IInv, Outstanding
    <2> QED  BY <2>7, <2>8, <2>9, <2>10 DEF IInv
  <1> QED  BY <1>4, <1>5, <1>6, <1>7 DEF Process

\* Queueing an item for a caller that waits, with a signal on go: the item and
\* the worker it wakes keep the balance.
LEMMA EnqueueIInv ==
  ASSUME IInv, NEW item \in Items, SignalGo(worker),
         queue' = Append(queue, item), work_count' = work_count + 1,
         UNCHANGED <<work, failures, dropped, served, found>>,
         unread' \in [Workers -> SUBSET Paths],
         caller' \in [Callers -> {"call", "busywait", "collectwait", "collect", "returned",
                                  "failed", "aborted"}],
         caller'[item[1]] \in {"collectwait", "collect", "aborted"},
         \A c \in Callers : caller[c] \in {"collectwait", "collect", "aborted"}
                              => caller'[c] \in {"collectwait", "collect", "aborted"}
  PROVE  IInv'
  <1>1. /\ queue \in Seq(Items) /\ queue' \in Seq(Items) /\ Len(queue') = Len(queue) + 1
        /\ \A i \in 1..Len(queue') :
             IF i \in 1..Len(queue) THEN queue'[i] = queue[i] ELSE queue'[i] = item
    BY DEF IInv, TypeOK
  <1>2. /\ worker' \in [Workers -> WorkerStates] /\ Busy' = Busy
        /\ \/ Asleep = {} /\ Asleep' = {} /\ Ready' = Ready
           \/ Cardinality(Ready') = Cardinality(Ready) + 1 /\ Asleep # {}
    BY SignalGoMoves, Facts
  <1>3. TypeOK'
    BY <1>1, <1>2, Facts DEF IInv, TypeOK, WorkerStates
  <1>4. CountMatches'
    BY <1>1, <1>2, Facts DEF CountMatches
  <1>5. AllHandsOnWork'
    BY <1>1, <1>2, Facts DEF AllHandsOnWork
  <1>6. Outstanding'
    <2>1. \A i \in 1..Len(queue') : caller'[queue'[i][1]] \in {"collectwait", "collect", "aborted"}
      <3> SUFFICES ASSUME NEW i \in 1..Len(queue')
                   PROVE  caller'[queue'[i][1]] \in {"collectwait", "collect", "aborted"}
        OBVIOUS
      <3>1. CASE i \in 1..Len(queue)
        <4>1. queue[i] \in Items
          BY <3>1, <1>1
        <4>2. queue[i][1] \in Callers
          BY <4>1 DEF Items
        <4> QED  BY <3>1, <4>2, <1>1 DEF IInv, Outstanding
      <3>2. CASE i \notin 1..Len(queue)
        BY <3>2, <1>1
      <3> QED  BY <3>1, <3>2
    <2>2. \A v \in Busy' : /\ work'[v] \in Items
                           /\ caller'[work'[v][1]] \in {"collectwait", "collect", "aborted"}
      BY <1>2, BusyItem
    <2> QED  BY <2>1, <2>2 DEF IInv, Outstanding
  <1> QED  BY <1>3, <1>4, <1>5, <1>6 DEF IInv

\* Steps of callers that leave crew and queue alone: a caller stops waiting for
\* its search only when the count is 0, and then nothing is outstanding.
LEMMA CallerIInv ==
  ASSUME IInv, UNCHANGED <<queue, work_count, worker, work, unread, dropped, served, found>>,
         failures' \in 0..MaxFailures, failures <= failures',
         caller' \in [Callers -> {"call", "busywait", "collectwait", "collect", "returned",
                                  "failed", "aborted"}],
         \/ work_count = 0
         \/ \A c \in Callers : caller[c] \in {"collectwait", "collect", "aborted"}
                                 => caller'[c] \in {"collectwait", "collect", "aborted"}
  PROVE  IInv'
  <1>1. Busy' = Busy /\ Ready' = Ready /\ Asleep' = Asleep
    BY DEF Busy, Ready, Asleep
  <1>2. TypeOK'
    BY DEF IInv, TypeOK
  <1>3. CountMatches' /\ AllHandsOnWork'
    BY <1>1 DEF IInv, CountMatches, AllHandsOnWork
  <1>4. dropped' <= failures'
    BY Facts, CrewAssumption DEF IInv, Outstanding
  <1>5. Outstanding'
    <2>1. CASE work_count = 0
      <3>1. Len(queue) = 0 /\ Cardinality(Busy) = 0
        BY <2>1, Facts
      <3>2. Busy = {}
        BY <3>1, Facts, FS_EmptySet
      <3> QED  BY <3>1, <3>2, <1>1, <1>4 DEF Outstanding
    <2>2. CASE \A c \in Callers : caller[c] \in {"collectwait", "collect", "aborted"}
                                    => caller'[c] \in {"collectwait", "collect", "aborted"}
      <3>1. \A i \in 1..Len(queue) : queue[i][1] \in Callers
        <4> SUFFICES ASSUME NEW i \in 1..Len(queue) PROVE queue[i][1] \in Callers
          OBVIOUS
        <4>1. queue[i] \in Items
          BY DEF IInv, TypeOK
        <4> QED  BY <4>1 DEF Items
      <3>2. \A w \in Busy : work[w][1] \in Callers /\ work[w] \in Items
        BY BusyItem
      <3> QED  BY <2>2, <3>1, <3>2, <1>1, <1>4 DEF IInv, Outstanding
    <2> QED  BY <2>1, <2>2
  <1> QED  BY <1>2, <1>3, <1>5 DEF IInv

\* Counting an item out.  The broadcast moves no caller past its search.
LEMMA WorkerFinishIInv ==
  ASSUME IInv, NEW w \in Workers, WorkerFinish(w)
  PROVE  IInv'
  <1>1. w \in Busy /\ w \notin Ready /\ w \notin Asleep
    BY DEF WorkerFinish, Busy, Ready, Asleep
  <1>2. /\ work_count' = work_count - 1 /\ work' = [work EXCEPT ![w] = None]
        /\ UNCHANGED <<queue, unread, failures, dropped, served, found>>
    BY DEF WorkerFinish
  <1>3. PICK p \in {"gone", "top"} : worker' = [worker EXCEPT ![w] = p]
    BY DEF WorkerFinish
  <1>4. worker \in [Workers -> WorkerStates] /\ p \in WorkerStates
    BY Facts DEF WorkerStates
  <1>5. /\ worker' \in [Workers -> WorkerStates]
        /\ Busy' = Busy \ {w} /\ Asleep' = Asleep \ {w}
        /\ Ready' = IF p = "top" THEN Ready \cup {w} ELSE Ready \ {w}
    BY <1>3, <1>4, OneMoves
  <1>6. /\ Cardinality(Busy') = Cardinality(Busy) - 1 /\ Cardinality(Busy) > 0
        /\ Asleep' = Asleep
        /\ Cardinality(Ready') \in {Cardinality(Ready), Cardinality(Ready) + 1}
    <2>1. Cardinality(Busy') = Cardinality(Busy) - 1 /\ Cardinality(Busy) > 0
      BY <1>1, <1>5, Facts, CardDel, CardPositive
    <2>2. CASE p = "top"
      BY <2>1, <2>2, <1>1, <1>5, Facts, CardAdd
    <2>3. CASE p = "gone"
      BY <2>1, <2>3, <1>1, <1>5
    <2> QED  BY <2>2, <2>3
  <1>7. /\ caller' \in [Callers -> {"call", "busywait", "collectwait", "collect", "returned",
                                    "failed", "aborted"}]
        /\ \A c \in Callers : caller[c] \in {"collectwait", "collect", "aborted"}
                                => caller'[c] \in {"collectwait", "collect", "aborted"}
    <2>1. CASE UNCHANGED caller
      BY <2>1 DEF IInv, TypeOK
    <2>2. CASE caller' = BroadcastDone
      <3>1. ASSUME NEW c \in Callers
            PROVE  caller'[c] = IF caller[c] = "busywait" THEN "call"
                                ELSE IF caller[c] = "collectwait" THEN "collect" ELSE caller[c]
        BY <2>2 DEF BroadcastDone
      <3>2. caller' = [c \in Callers |-> caller'[c]]
        BY <2>2 DEF BroadcastDone
      <3>3. \A c \in Callers : caller[c] \in {"call", "busywait", "collectwait", "collect",
                                              "returned", "failed", "aborted"}
        BY DEF IInv, TypeOK
      <3>4. \A c \in Callers : caller'[c] \in {"call", "busywait", "collectwait", "collect",
                                               "returned", "failed", "aborted"}
        BY <3>1, <3>3
      <3> QED  BY <3>1, <3>2, <3>4
    <2> QED  BY <2>1, <2>2 DEF WorkerFinish
  <1>8. TypeOK'
    <2>1. work_count' \in Nat
      BY <1>2, <1>6, Facts
    <2>2. work' \in [Workers -> Items \cup {None}]
      BY <1>2 DEF IInv, TypeOK
    <2> QED  BY <2>1, <2>2, <1>2, <1>5, <1>7 DEF IInv, TypeOK, WorkerStates
  <1>9. CountMatches' /\ AllHandsOnWork'
    BY <1>2, <1>6, Facts DEF CountMatches, AllHandsOnWork
  <1>10. Outstanding'
    <2>1. \A v \in Busy' : v \in Busy /\ work'[v] = work[v]
      BY <1>2, <1>5 DEF IInv, TypeOK, Busy
    <2>2. \A v \in Busy' : work'[v] \in Items
                           /\ caller'[work'[v][1]] \in {"collectwait", "collect", "aborted"}
      BY <2>1, <1>7, BusyItem
    <2>3. \A i \in 1..Len(queue) : queue[i][1] \in Callers
      <3> SUFFICES ASSUME NEW i \in 1..Len(queue) PROVE queue[i][1] \in Callers
        OBVIOUS
      <3>1. queue[i] \in Items
        BY DEF IInv, TypeOK
      <3> QED  BY <3>1 DEF Items
    <2> QED  BY <2>2, <2>3, <1>2, <1>7 DEF IInv, Outstanding
  <1> QED  BY <1>8, <1>9, <1>10 DEF IInv

\* A worker woken without a signal.
LEMMA SpuriousIInv ==
  ASSUME IInv, NEW w \in Asleep, worker' = [worker EXCEPT ![w] = Wake(@)],
         UNCHANGED <<queue, work_count, work, unread, caller, failures, dropped, served, found>>
  PROVE  IInv'
  <1> DEFINE p == Wake(worker[w])
  <1>1. w \in Workers /\ w \notin Busy /\ w \notin Ready /\ p \in {"start", "top"}
    BY DEF Asleep, Busy, Ready, Wake
  <1>2. worker \in [Workers -> WorkerStates] /\ worker' = [worker EXCEPT ![w] = p]
    BY <1>1, Facts
  <1> HIDE DEF p
  <1>3. p \in WorkerStates
    BY <1>1 DEF WorkerStates
  <1>4. /\ worker' \in [Workers -> WorkerStates]
        /\ Busy' = Busy \ {w} /\ Ready' = Ready \cup {w} /\ Asleep' = Asleep \ {w}
    BY <1>1, <1>2, <1>3, OneMoves
  <1>5. Busy' = Busy /\ Cardinality(Ready') = Cardinality(Ready) + 1
    BY <1>1, <1>4, Facts, CardAdd
  <1>6. TypeOK'
    BY <1>4 DEF IInv, TypeOK, WorkerStates
  <1>7. CountMatches' /\ AllHandsOnWork'
    <2>1. Len(queue) <= Cardinality(Ready)
      BY Facts
    <2>2. CountMatches'
      BY <1>5 DEF IInv, CountMatches
    <2>3. ~(Len(queue') > Cardinality(Ready'))
      BY <2>1, <1>5, Facts
    <2> QED  BY <2>2, <2>3 DEF AllHandsOnWork
  <1>8. Outstanding'
    BY <1>5 DEF IInv, Outstanding
  <1> QED  BY <1>6, <1>7, <1>8 DEF IInv

\* Every step of a worker preserves the invariant.
LEMMA WorkerStepIInv ==
  ASSUME IInv, NEW w \in Workers, WorkerStep(w)
  PROVE  IInv'
  <1>1. CASE WorkerStart(w) \/ WorkerWait(w)
    BY <1>1, WorkerSleepIInv
  <1>2. CASE WorkerTake(w)
    BY <1>2, WorkerTakeIInv
  <1>3. CASE WorkerProcess(w)
    BY <1>3, ProcessIInv DEF WorkerProcess, qvars
  <1>4. CASE WorkerOpenFails(w)
    BY <1>4, ProcessIInv DEF WorkerOpenFails, qvars, Fail
  <1>5. CASE WorkerVanished(w)
    <2>1. PICK kind \in Kinds : Process(w, kind, kind \in {"dir", "file"})
      BY <1>5 DEF WorkerVanished
    <2>2. /\ worker[w] = "busy" /\ UNCHANGED <<queue, work_count, caller>>
          /\ failures < MaxFailures /\ failures' = failures + 1
      BY <1>5 DEF WorkerVanished, qvars, Fail
    <2> DEFINE fails == kind \in {"dir", "file"}
    <2>3. fails \in BOOLEAN /\ Process(w, kind, fails)
      BY <2>1
    <2> HIDE DEF fails
    <2> QED  BY <2>2, <2>3, ProcessIInv
  <1>6. CASE WorkerEntry(w)
    <2>1. w \in Busy
      BY <1>6 DEF WorkerEntry, Busy
    <2>2. PICK e \in unread[w] : /\ unread' = [unread EXCEPT ![w] = @ \ {e}]
                                 /\ queue' = Append(queue, <<work[w][1], e>>)
      BY <1>6 DEF WorkerEntry
    <2>3. unread \in [Workers -> SUBSET Paths] /\ e \in Paths
      BY DEF IInv, TypeOK
    <2> DEFINE item == <<work[w][1], e>>
    <2>4. item \in Items /\ item[1] = work[w][1]
      BY <2>1, <2>3, BusyItem DEF Items
    <2>5. unread' \in [Workers -> SUBSET Paths]
      BY <2>2, <2>3
    <2>6. /\ caller' = caller
          /\ caller \in [Callers -> {"call", "busywait", "collectwait", "collect", "returned",
                                     "failed", "aborted"}]
      BY <1>6 DEF WorkerEntry, IInv, TypeOK
    <2>7. caller'[item[1]] \in {"collectwait", "collect", "aborted"}
      BY <2>1, <2>4, <2>6, BusyItem
    <2>8. /\ SignalGo(worker) /\ work_count' = work_count + 1
          /\ UNCHANGED <<work, failures, dropped, served, found>>
      BY <1>6 DEF WorkerEntry
    <2>9. queue' = Append(queue, item)
      BY <2>2
    <2> HIDE DEF item
    <2> QED  BY <2>4, <2>5, <2>6, <2>7, <2>8, <2>9, EnqueueIInv
  <1>7. CASE WorkerDirDone(w)
    <2>1. w \in Busy /\ work[w] \in Items
      BY <1>7, BusyItem DEF WorkerDirDone, Busy
    <2>2. /\ worker' = [worker EXCEPT ![w] = "finish"]
          /\ unread' = [unread EXCEPT ![w] = {}] /\ served' = served \cup {work[w]}
          /\ UNCHANGED <<queue, work_count, work, caller, dropped, found>>
          /\ failures' = failures \/ (failures < MaxFailures /\ failures' = failures + 1)
      BY <1>7 DEF WorkerDirDone, Fail, qvars
    <2>3. failures' \in 0..MaxFailures /\ failures <= failures'
      BY <2>2, Facts, CrewAssumption DEF IInv, TypeOK
    <2>4. unread' \in [Workers -> SUBSET Paths] /\ served' \subseteq Items /\ found' \subseteq served'
      BY <2>1, <2>2 DEF IInv, TypeOK
    <2> QED  BY <2>1, <2>2, <2>3, <2>4, StaysBusy
  <1>8. CASE WorkerFinish(w)
    BY <1>8, WorkerFinishIInv
  <1> QED  BY <1>1, <1>2, <1>3, <1>4, <1>5, <1>6, <1>7, <1>8 DEF WorkerStep

\* Every step of a caller preserves the invariant.
LEMMA CallerStepIInv ==
  ASSUME IInv, NEW c \in Callers, CallerStep(c) \/ CallerWaitFails(c)
  PROVE  IInv'
  <1>0. /\ caller \in [Callers -> {"call", "busywait", "collectwait", "collect", "returned",
                                   "failed", "aborted"}]
        /\ failures \in 0..MaxFailures /\ failures \in Int
    BY Facts DEF IInv, TypeOK
  <1>1. CASE StartBusy(c) \/ StartAborts(c) \/ CallerWaitFails(c)
    <2>1. /\ UNCHANGED <<queue, work_count, worker, work, unread, dropped, served, found>>
          /\ failures' = failures \/ (failures < MaxFailures /\ failures' = failures + 1)
      BY <1>1 DEF StartBusy, StartAborts, CallerWaitFails, Fail, qvars
    <2>2. failures' \in 0..MaxFailures /\ failures <= failures'
      BY <2>1, <1>0, CrewAssumption
    <2>3. /\ caller' \in [Callers -> {"call", "busywait", "collectwait", "collect", "returned",
                                      "failed", "aborted"}]
          /\ \A d \in Callers : caller[d] \in {"collectwait", "collect", "aborted"}
                                  => caller'[d] \in {"collectwait", "collect", "aborted"}
      BY <1>0, <1>1 DEF StartBusy, StartAborts, CallerWaitFails
    <2> QED  BY <2>1, <2>2, <2>3, CallerIInv
  <1>2. CASE Collect(c)
    <2>1. /\ UNCHANGED <<queue, work_count, worker, work, unread, failures, dropped, served, found>>
          /\ caller[c] = "collect"
          /\ caller' = [caller EXCEPT ![c] = IF work_count > 0 THEN "collectwait" ELSE "returned"]
      BY <1>2 DEF Collect, qvars
    <2>2. failures' \in 0..MaxFailures /\ failures <= failures'
      BY <2>1, <1>0
    <2>3. /\ caller' \in [Callers -> {"call", "busywait", "collectwait", "collect", "returned",
                                      "failed", "aborted"}]
          /\ \/ work_count = 0
             \/ \A d \in Callers : caller[d] \in {"collectwait", "collect", "aborted"}
                                     => caller'[d] \in {"collectwait", "collect", "aborted"}
      BY <1>0, <2>1, Facts
    <2> QED  BY <2>1, <2>2, <2>3, CallerIInv
  <1>3. CASE Start(c)
    <2> DEFINE item == <<c, Root[c]>>
    <2>1. item \in Items /\ item[1] = c
      BY CrewAssumption DEF Items
    <2>2. /\ SignalGo(worker) /\ work_count' = work_count + 1
          /\ queue' = Append(queue, item)
          /\ UNCHANGED <<work, unread, failures, dropped, served, found>>
          /\ caller' = [caller EXCEPT ![c] = "collectwait"]
      BY <1>3 DEF Start
    <2>3. unread' \in [Workers -> SUBSET Paths]
      BY <2>2 DEF IInv, TypeOK
    <2> HIDE DEF item
    <2>4. /\ caller' \in [Callers -> {"call", "busywait", "collectwait", "collect", "returned",
                                      "failed", "aborted"}]
          /\ caller'[item[1]] \in {"collectwait", "collect", "aborted"}
          /\ \A d \in Callers : caller[d] \in {"collectwait", "collect", "aborted"}
                                  => caller'[d] \in {"collectwait", "collect", "aborted"}
      BY <1>0, <2>1, <2>2
    <2> QED  BY <2>1, <2>2, <2>3, <2>4, EnqueueIInv
  <1> QED  BY <1>1, <1>2, <1>3 DEF CallerStep

\* Every step preserves the invariant.
LEMMA NextIInv == IInv /\ [Next]_vars => IInv'
  <1> SUFFICES ASSUME IInv, [Next]_vars PROVE IInv'
    OBVIOUS
  <1>1. ASSUME NEW w \in Workers, WorkerStep(w) PROVE IInv'
    BY <1>1, WorkerStepIInv
  <1>2. ASSUME NEW c \in Callers, CallerStep(c) \/ CallerWaitFails(c) PROVE IInv'
    BY <1>2, CallerStepIInv
  <1>3. CASE Spurious
    <2>1. ASSUME NEW w \in Asleep, worker' = [worker EXCEPT ![w] = Wake(@)], UNCHANGED caller
          PROVE  IInv'
      BY <1>3, <2>1, SpuriousIInv DEF Spurious, qvars
    <2>2. ASSUME UNCHANGED worker, NEW c \in Callers, caller[c] \in {"busywait", "collectwait"},
                 caller' = [caller EXCEPT ![c] = IF @ = "busywait" THEN "call" ELSE "collect"]
          PROVE  IInv'
      <3>1. /\ UNCHANGED <<queue, work_count, worker, work, unread, failures, dropped, served, found>>
            /\ failures \in 0..MaxFailures /\ failures <= failures
        BY <1>3, <2>2, Facts DEF Spurious, qvars, IInv, TypeOK
      <3>2. /\ caller' \in [Callers -> {"call", "busywait", "collectwait", "collect", "returned",
                                        "failed", "aborted"}]
            /\ \A d \in Callers : caller[d] \in {"collectwait", "collect", "aborted"}
                                    => caller'[d] \in {"collectwait", "collect", "aborted"}
        BY <2>2 DEF IInv, TypeOK
      <3> QED  BY <3>1, <3>2, CallerIInv
    <2> QED  BY <1>3, <2>1, <2>2 DEF Spurious
  <1>4. CASE UNCHANGED vars
    BY <1>4 DEF vars, qvars, IInv, TypeOK, CountMatches, AllHandsOnWork, Outstanding, Busy, Ready,
                Asleep
  <1> QED  BY <1>1, <1>2, <1>3, <1>4 DEF Next

-----------------------------------------------------------------------------
(* A worker for each search.                                               *)

\* Those who have ended and the searches begun can be counted.
LEMMA RetiredFinite ==
  /\ IsFiniteSet(Gone) /\ IsFiniteSet(Started)
  /\ Cardinality(Gone) \in Nat /\ Cardinality(Started) \in Nat
  <1>1. Gone \subseteq Workers /\ Started \subseteq Callers
    BY DEF Gone, Started
  <1> QED  BY <1>1, CrewAssumption, FS_Subset, FS_CardinalityType

\* A step by which no worker ends, no search begins and the crew does not
\* become idle, or by which the process aborts.
LEMMA NoneRetires ==
  ASSUME OneWorkerPerSearch, Gone' = Gone, (work_count' > 0) <=> (work_count > 0),
         (\A c \in Callers : caller'[c] # "aborted") =>
            (\A c \in Callers : caller[c] # "aborted") /\ Started' = Started
  PROVE  OneWorkerPerSearch'
  BY DEF OneWorkerPerSearch

\* Waking a sleeper ends nobody.
LEMMA SignalRetiresNone ==
  ASSUME worker \in [Workers -> WorkerStates], SignalGo(worker)
  PROVE  Gone' = Gone
  <1>1. CASE Asleep = {}
    BY <1>1 DEF SignalGo, Gone
  <1>2. ASSUME NEW w \in Asleep, worker' = [worker EXCEPT ![w] = Wake(@)]
        PROVE  Gone' = Gone
    <2>1. w \in Workers /\ worker[w] # "gone" /\ Wake(worker[w]) \in {"start", "top"}
      BY <1>2 DEF Asleep, Wake
    <2> QED  BY <1>2, <2>1 DEF Gone
  <1> QED  BY <1>1, <1>2 DEF SignalGo

\* Of the steps of a worker only the one that counts the last item out ends it.
LEMMA WorkerRetires ==
  ASSUME IInv, OneWorkerPerSearch, NEW w \in Workers, WorkerStep(w)
  PROVE  OneWorkerPerSearch'
  <1>1. ASSUME UNCHANGED <<work_count, caller>>, worker[w] # "gone",
               NEW p \in WorkerStates \ {"gone"}, worker' = [worker EXCEPT ![w] = p]
        PROVE  OneWorkerPerSearch'
    <2>1. Gone' = Gone
      BY <1>1, Facts DEF Gone
    <2> QED  BY <1>1, <2>1, NoneRetires DEF Started
  <1>2. CASE WorkerStart(w) \/ WorkerWait(w) \/ WorkerTake(w) \/ WorkerDirDone(w)
    <2>1. \E p \in WorkerStates \ {"gone"} : worker' = [worker EXCEPT ![w] = p]
      BY <1>2 DEF WorkerStart, WorkerWait, WorkerTake, WorkerDirDone, WorkerStates
    <2>2. UNCHANGED <<work_count, caller>> /\ worker[w] # "gone"
      BY <1>2 DEF WorkerStart, WorkerWait, WorkerTake, WorkerDirDone, qvars
    <2> QED  BY <1>1, <2>1, <2>2
  <1>3. CASE WorkerProcess(w) \/ WorkerOpenFails(w) \/ WorkerVanished(w)
    <2>1. UNCHANGED <<work_count, caller>> /\ worker[w] # "gone"
      BY <1>3 DEF WorkerProcess, WorkerOpenFails, WorkerVanished, qvars
    <2>2. \E kind, fails : Process(w, kind, fails)
      BY <1>3 DEF WorkerProcess, WorkerOpenFails, WorkerVanished
    <2>3. \E p \in WorkerStates \ {"gone"} : worker' = [worker EXCEPT ![w] = p]
      BY <2>2 DEF Process, WorkerStates
    <2> QED  BY <1>1, <2>1, <2>3
  <1>4. CASE WorkerEntry(w)
    <2>1. w \in Busy
      BY <1>4 DEF WorkerEntry, Busy
    <2>2. work_count > 0 /\ work_count' = work_count + 1
      BY <1>4, <2>1, Facts, CardPositive DEF WorkerEntry
    <2>3. Gone' = Gone /\ UNCHANGED caller
      BY <1>4, Facts, SignalRetiresNone DEF WorkerEntry
    <2> QED  BY <2>2, <2>3, Facts, NoneRetires DEF Started
  <1>5. CASE WorkerFinish(w)
    <2>1. w \in Busy /\ worker[w] = "finish" /\ w \notin Gone
      BY <1>5 DEF WorkerFinish, Busy, Gone
    <2>2. work_count > 0 /\ work_count' = work_count - 1
      BY <1>5, <2>1, Facts, CardPositive DEF WorkerFinish
    <2>3. CASE work_count - 1 > 0
      <3>1. worker' = [worker EXCEPT ![w] = "top"] /\ UNCHANGED caller
        BY <1>5, <2>3, Facts DEF WorkerFinish
      <3>2. Gone' = Gone
        BY <2>1, <3>1, Facts DEF Gone
      <3> QED  BY <2>2, <2>3, <3>1, <3>2, Facts, NoneRetires DEF Started
    <2>4. CASE work_count - 1 <= 0
      <3>1. worker' = [worker EXCEPT ![w] = "gone"] /\ caller' = BroadcastDone
        BY <1>5, <2>4, Facts DEF WorkerFinish
      <3>2. Gone' = Gone \cup {w}
        BY <2>1, <3>1, Facts DEF Gone
      <3>3. Cardinality(Gone') = Cardinality(Gone) + 1
        BY <2>1, <3>2, RetiredFinite, CardAdd
      <3>4. \A c \in Callers :
              caller'[c] = IF caller[c] = "busywait" THEN "call"
                           ELSE IF caller[c] = "collectwait" THEN "collect" ELSE caller[c]
        BY <3>1 DEF BroadcastDone
      <3>5. Started' = Started
        BY <3>4 DEF Started
      <3>6. (\A c \in Callers : caller'[c] # "aborted") => \A c \in Callers : caller[c] # "aborted"
        BY <3>4
      <3>7. work_count' = 0
        BY <2>2, <2>4, Facts
      <3> QED  BY <2>2, <3>3, <3>5, <3>6, <3>7, RetiredFinite DEF OneWorkerPerSearch
    <2> QED  BY <2>3, <2>4, Facts
  <1> QED  BY <1>2, <1>3, <1>4, <1>5 DEF WorkerStep

\* A call of crew_start begins a search only when the crew is idle.
LEMMA CallerRetires ==
  ASSUME IInv, OneWorkerPerSearch, NEW c \in Callers, CallerStep(c) \/ CallerWaitFails(c)
  PROVE  OneWorkerPerSearch'
  <1>0. DOMAIN caller = Callers
    BY DEF IInv, TypeOK
  <1>1. CASE Start(c)
    <2>1. /\ caller[c] = "call" /\ work_count = 0 /\ work_count' = 1
          /\ caller' = [caller EXCEPT ![c] = "collectwait"]
      BY <1>1, Facts DEF Start
    <2>2. Gone' = Gone
      BY <1>1, Facts, SignalRetiresNone DEF Start
    <2>3. Started' = Started \cup {c} /\ c \notin Started
      BY <2>1, <1>0 DEF Started
    <2>4. Cardinality(Started') = Cardinality(Started) + 1
      BY <2>3, RetiredFinite, CardAdd
    <2>5. (\A d \in Callers : caller'[d] # "aborted") => \A d \in Callers : caller[d] # "aborted"
      BY <2>1, <1>0
    <2> QED  BY <2>1, <2>2, <2>4, <2>5, RetiredFinite DEF OneWorkerPerSearch
  <1>2. CASE ~Start(c)
    <2>1. UNCHANGED <<work_count, worker>>
      BY <1>2 DEF CallerStep, StartBusy, StartAborts, Collect, CallerWaitFails, qvars
    <2>2. Gone' = Gone
      BY <2>1 DEF Gone
    <2>3. \/ caller' = [d \in Callers |-> "aborted"]
          \/ /\ caller[c] \in {"call", "busywait"}
             /\ \E p \in {"busywait", "failed"} : caller' = [caller EXCEPT ![c] = p]
          \/ /\ caller[c] = "collect"
             /\ \E p \in {"collectwait", "returned"} : caller' = [caller EXCEPT ![c] = p]
      BY <1>2 DEF CallerStep, StartBusy, StartAborts, Collect, CallerWaitFails
    <2>4. (\A d \in Callers : caller'[d] # "aborted") =>
             (\A d \in Callers : caller[d] # "aborted") /\ Started' = Started
      BY <2>3, <1>0 DEF Started
    <2> QED  BY <2>1, <2>2, <2>4, NoneRetires
  <1> QED  BY <1>1, <1>2

\* Every step keeps the account.
LEMMA NextRetires == IInv /\ OneWorkerPerSearch /\ [Next]_vars => OneWorkerPerSearch'
  <1> SUFFICES ASSUME IInv, OneWorkerPerSearch, [Next]_vars PROVE OneWorkerPerSearch'
    OBVIOUS
  <1>1. ASSUME NEW w \in Workers, WorkerStep(w) PROVE OneWorkerPerSearch'
    BY <1>1, WorkerRetires
  <1>2. ASSUME NEW c \in Callers, CallerStep(c) \/ CallerWaitFails(c) PROVE OneWorkerPerSearch'
    BY <1>2, CallerRetires
  <1>3. CASE Spurious
    <2>1. ASSUME NEW w \in Asleep, worker' = [worker EXCEPT ![w] = Wake(@)], UNCHANGED caller
          PROVE  OneWorkerPerSearch'
      <3>1. w \in Workers /\ worker[w] # "gone" /\ Wake(worker[w]) \in {"start", "top"}
        BY <2>1 DEF Asleep, Wake
      <3>2. Gone' = Gone
        BY <2>1, <3>1 DEF Gone
      <3> QED  BY <1>3, <2>1, <3>2, NoneRetires DEF Spurious, qvars, Started
    <2>2. ASSUME UNCHANGED worker, NEW c \in Callers, caller[c] \in {"busywait", "collectwait"},
                 caller' = [caller EXCEPT ![c] = IF @ = "busywait" THEN "call" ELSE "collect"]
          PROVE  OneWorkerPerSearch'
      <3>1. DOMAIN caller = Callers
        BY DEF IInv, TypeOK
      <3>2. (\A d \in Callers : caller'[d] # "aborted") =>
               (\A d \in Callers : caller[d] # "aborted") /\ Started' = Started
        BY <2>2, <3>1 DEF Started
      <3> QED  BY <1>3, <2>2, <3>2, NoneRetires DEF Spurious, qvars, Gone
    <2> QED  BY <1>3, <2>1, <2>2 DEF Spurious
  <1>4. CASE UNCHANGED vars
    BY <1>4, NoneRetires DEF vars, qvars, Gone, Started
  <1> QED  BY <1>1, <1>2, <1>3, <1>4 DEF Next

\* At first nobody has ended and no search has begun.
LEMMA InitRetires == Init => OneWorkerPerSearch
  <1> SUFFICES ASSUME Init PROVE OneWorkerPerSearch
    OBVIOUS
  <1>1. Gone = {} /\ Started = {} /\ work_count = 0
    BY DEF Init, Gone, Started
  <1> QED  BY <1>1, FS_EmptySet DEF OneWorkerPerSearch

\* For every tree and any number of workers and callers: the crew's fields keep
\* their types, crew->work_count is exact, the dropped directories apart, no
\* worker sleeps while there is more work than workers looking for it, and each
\* search that is over has cost the crew one worker.
THEOREM CrewInvariant == Spec => []CrewInv
  <1>1. IInv /\ OneWorkerPerSearch => CrewInv
    BY DEF IInv, CrewInv
  <1> QED  BY <1>1, InitIInv, NextIInv, InitRetires, NextRetires, PTL DEF Spec

\* A call of crew_start that has returned has no work left in the crew.
THEOREM ReturnsWhenOver == Spec => []SearchOver
  <1>1. IInv => SearchOver
    <2> SUFFICES ASSUME IInv, NEW c \in Callers, caller[c] = "returned"
                 PROVE  /\ \A i \in 1..Len(queue) : queue[i][1] # c
                        /\ \A w \in Busy : work[w][1] # c
      BY DEF SearchOver
    <2> QED  BY DEF IInv, Outstanding
  <1> QED  BY <1>1, InitIInv, NextIInv, PTL DEF Spec
-----------------------------------------------------------------------------
(* Each item once, and everything below the path.                          *)

Queued == {queue[i] : i \in 1..Len(queue)}
Held == {work[w] : w \in Busy}

\* The items that came into being and were not dropped.
Seen == Queued \cup Held \cup served

\* The directory of item d has been read up to its entry p and past it.
Passed(d, p) ==
  \/ d \in served
  \/ \E w \in Busy : work[w] = d /\ worker[w] = "reading" /\ p \notin unread[w]

\* What each worker is at: a finished item has been served, what is read is the
\* directory's.
WorkersAt ==
  /\ \A w \in Workers : worker[w] = "finish" => work[w] \in served
  /\ \A w \in Workers : worker[w] = "reading" =>
       Kind[work[w][2]] = "dir" /\ unread[w] \subseteq Entries[work[w][2]]

\* An item is a caller's path or was found in a directory, and its caller has
\* started its search.
Descent ==
  \A it \in Seen :
    /\ \/ it[2] = Root[it[1]]
       \/ \E d \in Items : d[1] = it[1] /\ it[2] \in Entries[d[2]] /\ Passed(d, it[2])
    /\ caller[it[1]] \in {"collectwait", "collect", "returned", "aborted"}

\* Until something fails nothing is left out: not the caller's path, not the
\* entries read, not a file that matches.
NothingMissed ==
  failures = 0 =>
    /\ \A it \in Items : /\ it[2] = Root[it[1]]
                         /\ caller[it[1]] \in {"collectwait", "collect", "returned", "aborted"}
                         => it \in Seen
    /\ \A d, it \in Items : /\ d[1] = it[1] /\ it[2] \in Entries[d[2]] /\ Kind[d[2]] = "dir"
                            /\ Passed(d, it[2])
                            => it \in Seen
    /\ \A it \in served : Kind[it[2]] = "file" /\ it[2] \in Matching => it \in found

\* The inductive invariant, relative to IInv.
SearchInv == EachItemOnce /\ WorkersAt /\ Descent /\ NothingMissed

\* A caller whose search has begun.
Begun == {"collectwait", "collect", "returned", "aborted"}

\* The set of items by its three parts.
LEMMA SeenItems ==
  ASSUME IInv
  PROVE  /\ Seen \subseteq Items
         /\ \A it \in Items : it[1] \in Callers /\ it[2] \in Paths
         /\ \A it : it \in Seen <=> \/ \E i \in 1..Len(queue) : queue[i] = it
                                    \/ \E w \in Busy : work[w] = it
                                    \/ it \in served
  <1>1. \A i \in 1..Len(queue) : queue[i] \in Items
    BY DEF IInv, TypeOK
  <1>2. \A w \in Busy : work[w] \in Items
    BY BusyItem
  <1>3. served \subseteq Items
    BY DEF IInv, TypeOK
  <1>4. \A it \in Items : it[1] \in Callers /\ it[2] \in Paths
    BY DEF Items
  <1>5. \A it : it \in Seen <=> \/ \E i \in 1..Len(queue) : queue[i] = it
                                \/ \E w \in Busy : work[w] = it
                                \/ it \in served
    BY DEF Seen, Queued, Held
  <1>6. Seen \subseteq Items
    BY <1>1, <1>2, <1>3, <1>5
  <1> QED  BY <1>4, <1>5, <1>6

\* An item is its two parts.
LEMMA SameItem ==
  ASSUME NEW a \in Items, NEW b \in Items, a[1] = b[1], a[2] = b[2]
  PROVE  a = b
  BY DEF Items

\* What has been passed belongs to an item seen.
LEMMA PassedSeen ==
  ASSUME IInv, NEW d, NEW p, Passed(d, p)
  PROVE  d \in Seen
  BY SeenItems DEF Passed

\* No search comes back to the path it began with.
LEMMA RootAlone ==
  ASSUME IInv, SearchInv, NEW d \in Seen
  PROVE  Root[d[1]] \notin Entries[d[2]]
  <1> SUFFICES ASSUME Root[d[1]] \in Entries[d[2]] PROVE FALSE
    OBVIOUS
  <1> DEFINE S == {q \in Paths : \E it \in Seen : it[1] = d[1] /\ it[2] = q}
  <1>1. d[2] \in S
    BY SeenItems
  <1>a. S \in (SUBSET Paths) \ {{}}
    BY <1>1
  <1> HIDE DEF S
  <1>2. PICK p \in S : \A q \in S : p \notin Entries[q]
    BY <1>a, TreeAssumption, Zenon
  <1> USE DEF S
  <1>3. PICK it \in Seen : it[1] = d[1] /\ it[2] = p
    BY <1>2
  <1>4. it[2] # Root[it[1]]
    BY <1>1, <1>2, <1>3
  <1>5. PICK e \in Items : e[1] = it[1] /\ it[2] \in Entries[e[2]] /\ Passed(e, it[2])
    BY <1>4 DEF SearchInv, Descent
  <1>6. e \in Seen
    BY <1>5, PassedSeen
  <1>7. e[2] \in S
    BY <1>3, <1>5, <1>6, SeenItems
  <1> QED  BY <1>2, <1>3, <1>5, <1>7

\* A step that makes no item, and passes entries that have been passed already.
LEMMA NothingNew ==
  ASSUME IInv, SearchInv, Seen' \subseteq Seen,
         \A d \in Items, p \in Paths : Passed(d, p) => Passed(d, p)',
         \A c \in Callers : caller[c] \in Begun => caller'[c] \in Begun,
         failures' = 0 =>
           /\ failures = 0 /\ Seen \subseteq Seen'
           /\ \A c \in Callers : caller'[c] \in Begun => caller[c] \in Begun
           /\ \A d, it \in Items :
                it[2] \in Entries[d[2]] /\ Kind[d[2]] = "dir" /\ Passed(d, it[2])' => Passed(d, it[2])
           /\ \A it \in served' : Kind[it[2]] = "file" /\ it[2] \in Matching => it \in found'
  PROVE  Descent' /\ NothingMissed'
  <1>1. Descent'
    <2> SUFFICES ASSUME NEW it \in Seen'
                 PROVE  /\ \/ it[2] = Root[it[1]]
                           \/ \E d \in Items : d[1] = it[1] /\ it[2] \in Entries[d[2]] /\ Passed(d, it[2])'
                        /\ caller'[it[1]] \in Begun
      BY DEF Descent, Begun
    <2>1. it \in Seen /\ it[1] \in Callers /\ it[2] \in Paths
      BY SeenItems
    <2>2. caller[it[1]] \in Begun
      BY <2>1 DEF SearchInv, Descent, Begun
    <2>3. CASE it[2] = Root[it[1]]
      BY <2>1, <2>2, <2>3
    <2>4. CASE it[2] # Root[it[1]]
      <3>1. PICK d \in Items : d[1] = it[1] /\ it[2] \in Entries[d[2]] /\ Passed(d, it[2])
        BY <2>1, <2>4 DEF SearchInv, Descent
      <3>2. Passed(d, it[2])'
        BY <3>1, <2>1
      <3> QED  BY <3>1, <3>2, <2>1, <2>2
    <2> QED  BY <2>3, <2>4
  <1>2. NothingMissed'
    <2> SUFFICES ASSUME failures' = 0 PROVE NothingMissed'
      BY DEF NothingMissed
    <2>1. ASSUME NEW it \in Items, it[2] = Root[it[1]], caller'[it[1]] \in Begun PROVE it \in Seen'
      <3>1. caller[it[1]] \in Begun
        BY <2>1, SeenItems
      <3> QED  BY <2>1, <3>1 DEF SearchInv, NothingMissed, Begun
    <2>2. ASSUME NEW d \in Items, NEW it \in Items, d[1] = it[1], it[2] \in Entries[d[2]],
                 Kind[d[2]] = "dir", Passed(d, it[2])'
          PROVE  it \in Seen'
      <3>1. Passed(d, it[2])
        BY <2>2
      <3> QED  BY <2>2, <3>1 DEF SearchInv, NothingMissed
    <2> QED  BY <2>1, <2>2 DEF NothingMissed, Begun
  <1> QED  BY <1>1, <1>2

\* Steps that move no item: sleeping and waking, and the callers' steps that
\* queue nothing.
LEMMA NoItemMoves ==
  ASSUME IInv, SearchInv, UNCHANGED <<queue, work, unread, served, found>>,
         Busy' = Busy, \A w \in Busy : worker'[w] = worker[w],
         \A c \in Callers : caller[c] \in Begun => caller'[c] \in Begun,
         failures' = 0 =>
           failures = 0 /\ \A c \in Callers : caller'[c] \in Begun => caller[c] \in Begun
  PROVE  SearchInv'
  <1>1. Seen' = Seen
    BY DEF Seen, Queued, Held
  <1>2. \A d, p : Passed(d, p)' <=> Passed(d, p)
    BY DEF Passed
  <1>3. \A w \in Workers : worker'[w] \in {"reading", "finish"} => w \in Busy /\ worker[w] = worker'[w]
    BY DEF Busy
  <1>4. EachItemOnce' /\ WorkersAt'
    BY <1>3 DEF SearchInv, EachItemOnce, WorkersAt
  <1>5. Descent' /\ NothingMissed'
    <2>1. failures' = 0 => \A it \in served' : Kind[it[2]] = "file" /\ it[2] \in Matching => it \in found'
      BY DEF SearchInv, NothingMissed
    <2> QED  BY <1>1, <1>2, <2>1, NothingNew
  <1> QED  BY <1>4, <1>5 DEF SearchInv

\* A worker takes the first item of the queue.
LEMMA TakeSearch ==
  ASSUME IInv, SearchInv, NEW w \in Workers, WorkerTake(w)
  PROVE  SearchInv'
  <1>1. /\ queue \in Seq(Items) /\ queue # <<>> /\ worker[w] = "top"
        /\ queue' = Tail(queue) /\ worker' = [worker EXCEPT ![w] = "busy"]
        /\ work' = [work EXCEPT ![w] = Head(queue)]
        /\ work \in [Workers -> Items \cup {None}]
        /\ UNCHANGED <<work_count, unread, caller, failures, dropped, served, found>>
    BY DEF IInv, TypeOK, WorkerTake
  <1>2. /\ Head(queue) = queue[1] /\ 1 \in 1..Len(queue)
        /\ Len(queue) \in Nat /\ Len(queue') = Len(queue) - 1
        /\ \A i \in 1..Len(queue') : queue'[i] = queue[i + 1] /\ i + 1 \in 1..Len(queue) /\ i + 1 # 1
    BY <1>1
  <1>3. Busy' = Busy \cup {w} /\ w \notin Busy
    BY <1>1, Facts, OneMoves DEF WorkerStates, Busy
  <1>4. /\ work'[w] = queue[1]
        /\ \A v \in Busy : v \in Workers /\ v # w /\ work'[v] = work[v] /\ worker'[v] = worker[v]
        /\ worker'[w] = "busy" /\ \A v \in Workers \ {w} : worker'[v] = worker[v]
    BY <1>1, <1>2, <1>3, Facts DEF Busy
  <1>5. \A i \in 2..Len(queue) : i - 1 \in 1..Len(queue') /\ queue'[i - 1] = queue[i]
    <2> SUFFICES ASSUME NEW i \in 2..Len(queue) PROVE i - 1 \in 1..Len(queue') /\ queue'[i - 1] = queue[i]
      OBVIOUS
    <2>1. i - 1 \in 1..Len(queue') /\ (i - 1) + 1 = i
      BY <1>2
    <2> QED  BY <2>1, <1>2
  <1>6. Seen' = Seen
    <2>1. Queued = Queued' \cup {queue[1]}
      <3>1. \A i \in 1..Len(queue) : queue[i] \in Queued' \cup {queue[1]}
        <4> SUFFICES ASSUME NEW i \in 1..Len(queue), i # 1 PROVE queue[i] \in Queued'
          OBVIOUS
        <4>1. i \in 2..Len(queue)
          BY <1>2
        <4> QED  BY <4>1, <1>5 DEF Queued
      <3>2. \A i \in 1..Len(queue') : queue'[i] \in Queued
        BY <1>2 DEF Queued
      <3>3. queue[1] \in Queued
        BY <1>2 DEF Queued
      <3> QED  BY <3>1, <3>2, <3>3 DEF Queued
    <2>2. Held' = Held \cup {queue[1]}
      BY <1>3, <1>4 DEF Held
    <2> QED  BY <2>1, <2>2, <1>1 DEF Seen
  <1>7. \A d, p : Passed(d, p)' <=> Passed(d, p)
    <2>1. \A d, p : Passed(d, p) => Passed(d, p)'
      BY <1>1, <1>3, <1>4 DEF Passed
    <2>2. \A d, p : Passed(d, p)' => Passed(d, p)
      BY <1>1, <1>3, <1>4 DEF Passed
    <2> QED  BY <2>1, <2>2
  <1>8. EachItemOnce'
    <2>1. \A i, j \in 1..Len(queue) : queue[i] = queue[j] => i = j
      BY DEF SearchInv, EachItemOnce
    <2>2. \A i \in 1..Len(queue) : queue[i] \notin served /\ \A v \in Busy : work[v] # queue[i]
      BY DEF SearchInv, EachItemOnce
    <2>3. \A i, j \in 1..Len(queue') : queue'[i] = queue'[j] => i = j
      <3> SUFFICES ASSUME NEW i \in 1..Len(queue'), NEW j \in 1..Len(queue'), queue'[i] = queue'[j]
                   PROVE  i = j
        OBVIOUS
      <3>1. i + 1 = j + 1
        BY <1>2, <2>1
      <3> QED  BY <3>1
    <2>4. \A u, v \in Busy' : work'[u] = work'[v] => u = v
      BY <1>2, <1>3, <1>4, <2>2 DEF SearchInv, EachItemOnce
    <2>5. \A i \in 1..Len(queue') : queue'[i] \notin served' /\ \A v \in Busy' : work'[v] # queue'[i]
      BY <1>1, <1>2, <1>3, <1>4, <2>1, <2>2
    <2>6. \A v \in Busy' : work'[v] \in served' => worker'[v] = "finish"
      BY <1>1, <1>2, <1>3, <1>4, <2>2 DEF SearchInv, EachItemOnce
    <2> QED  BY <2>3, <2>4, <2>5, <2>6 DEF EachItemOnce
  <1>9. WorkersAt'
    BY <1>1, <1>4 DEF SearchInv, WorkersAt
  <1>10. Descent' /\ NothingMissed'
    <2>1. failures' = 0 => \A it \in served' : Kind[it[2]] = "file" /\ it[2] \in Matching => it \in found'
      BY <1>1 DEF SearchInv, NothingMissed
    <2> QED  BY <1>1, <1>6, <1>7, <2>1, NothingNew
  <1> QED  BY <1>8, <1>9, <1>10 DEF SearchInv

\* A worker has served its item.
LEMMA ServeSearch ==
  ASSUME IInv, SearchInv, NEW w \in Workers, worker[w] \in {"busy", "reading"},
         worker' = [worker EXCEPT ![w] = "finish"],
         served' = served \cup {work[w]}, found \subseteq found',
         \A v \in Workers \ {w} : unread'[v] = unread[v],
         UNCHANGED <<queue, work, caller>>,
         failures' = 0 =>
           /\ failures = 0
           /\ Kind[work[w][2]] = "dir" => worker[w] = "reading" /\ unread[w] = {}
           /\ Kind[work[w][2]] = "file" /\ work[w][2] \in Matching => work[w] \in found'
  PROVE  SearchInv'
  <1>1. w \in Busy /\ Busy' = Busy
    BY Facts, OneMoves DEF WorkerStates, Busy
  <1>2. worker'[w] = "finish" /\ \A v \in Workers \ {w} : worker'[v] = worker[v]
    BY Facts
  <1>3. Seen' = Seen
    BY <1>1 DEF Seen, Queued, Held
  <1>4. EachItemOnce'
    <2>1. \A u, v \in Busy : work[u] = work[v] => u = v
      BY DEF SearchInv, EachItemOnce
    <2>2. \A i \in 1..Len(queue) : queue[i] \notin served'
      BY <1>1 DEF SearchInv, EachItemOnce
    <2>3. \A v \in Busy : work[v] \in served' => worker'[v] = "finish"
      BY <1>1, <1>2, <2>1 DEF SearchInv, EachItemOnce, Busy
    <2> QED  BY <1>1, <2>1, <2>2, <2>3 DEF SearchInv, EachItemOnce
  <1>5. WorkersAt'
    BY <1>2 DEF SearchInv, WorkersAt
  <1>6. \A d, p : Passed(d, p) => Passed(d, p)'
    BY <1>1, <1>2 DEF Passed, Busy
  <1>7. ASSUME failures' = 0, NEW d \in Items, NEW it \in Items, it[2] \in Entries[d[2]],
               Kind[d[2]] = "dir", Passed(d, it[2])'
        PROVE  Passed(d, it[2])
    <2>1. CASE d = work[w]
      BY <2>1, <1>1, <1>7 DEF Passed
    <2>2. CASE d # work[w]
      BY <2>2, <1>1, <1>2, <1>7 DEF Passed, Busy
    <2> QED  BY <2>1, <2>2
  <1>8. failures' = 0 => \A it \in served' : Kind[it[2]] = "file" /\ it[2] \in Matching => it \in found'
    BY DEF SearchInv, NothingMissed
  <1>9. Descent' /\ NothingMissed'
    BY <1>3, <1>6, <1>7, <1>8, NothingNew
  <1> QED  BY <1>4, <1>5, <1>9 DEF SearchInv

\* A worker has opened its directory.
LEMMA OpenSearch ==
  ASSUME IInv, SearchInv, NEW w \in Workers, worker[w] = "busy", Kind[work[w][2]] = "dir",
         worker' = [worker EXCEPT ![w] = "reading"],
         unread' = [unread EXCEPT ![w] = Entries[work[w][2]]],
         UNCHANGED <<queue, work, caller, failures, served, found>>
  PROVE  SearchInv'
  <1>1. w \in Busy /\ Busy' = Busy
    BY Facts, OneMoves DEF WorkerStates, Busy
  <1>2. /\ worker'[w] = "reading" /\ \A v \in Workers \ {w} : worker'[v] = worker[v]
        /\ unread'[w] = Entries[work[w][2]] /\ \A v \in Workers \ {w} : unread'[v] = unread[v]
    BY Facts DEF IInv, TypeOK
  <1>3. Seen' = Seen
    BY <1>1 DEF Seen, Queued, Held
  <1>4. EachItemOnce'
    <2>1. work[w] \notin served
      BY <1>1 DEF SearchInv, EachItemOnce
    <2>2. \A v \in Busy : work[v] \in served => worker'[v] = "finish"
      BY <1>2, <2>1 DEF SearchInv, EachItemOnce, Busy
    <2> QED  BY <1>1, <2>2 DEF SearchInv, EachItemOnce
  <1>5. WorkersAt'
    BY <1>2 DEF SearchInv, WorkersAt
  <1>6. \A d, p : Passed(d, p) => Passed(d, p)'
    BY <1>1, <1>2 DEF Passed, Busy
  <1>7. ASSUME NEW d \in Items, NEW it \in Items, it[2] \in Entries[d[2]], Passed(d, it[2])'
        PROVE  Passed(d, it[2])
    BY <1>1, <1>2, <1>7 DEF Passed, Busy
  <1>8. failures' = 0 => \A it \in served' : Kind[it[2]] = "file" /\ it[2] \in Matching => it \in found'
    BY DEF SearchInv, NothingMissed
  <1>9. Descent' /\ NothingMissed'
    BY <1>3, <1>6, <1>7, <1>8, NothingNew
  <1> QED  BY <1>4, <1>5, <1>9 DEF SearchInv

\* A worker lets go of its item: it has been served, or is dropped by a failure.
LEMMA ReleaseSearch ==
  ASSUME IInv, SearchInv, NEW w \in Workers, NEW p \in {"top", "gone"},
         \/ worker[w] = "finish" /\ failures' = failures
         \/ worker[w] = "busy" /\ failures' # 0,
         worker' = [worker EXCEPT ![w] = p], work' = [work EXCEPT ![w] = None],
         UNCHANGED <<queue, unread, served, found>>,
         \A c \in Callers : caller[c] \in Begun <=> caller'[c] \in Begun
  PROVE  SearchInv'
  <1>1. w \in Busy /\ Busy' = Busy \ {w}
    <2>1. p \in WorkerStates /\ p \notin {"busy", "reading", "finish"} /\ w \in Busy
      BY DEF WorkerStates, Busy
    <2> QED  BY <2>1, Facts, OneMoves
  <1>2. /\ worker'[w] = p /\ \A v \in Workers \ {w} : worker'[v] = worker[v] /\ work'[v] = work[v]
        /\ \A v \in Busy' : v \in Workers /\ v # w /\ v \in Busy
    BY <1>1, Facts DEF IInv, TypeOK, Busy
  <1>3. Held' \subseteq Held /\ (worker[w] = "finish" => Held \subseteq Held' \cup served)
    BY <1>1, <1>2 DEF Held, SearchInv, WorkersAt, Busy
  <1>4. Seen' \subseteq Seen /\ (failures' = 0 => Seen \subseteq Seen')
    BY <1>3 DEF Seen, Queued
  <1>5. EachItemOnce' /\ WorkersAt'
    BY <1>2 DEF SearchInv, EachItemOnce, WorkersAt
  <1>6. \A d, q : Passed(d, q)' <=> Passed(d, q)
    <2>1. \A d, q : Passed(d, q) => Passed(d, q)'
      BY <1>1, <1>2 DEF Passed, Busy
    <2>2. \A d, q : Passed(d, q)' => Passed(d, q)
      BY <1>1, <1>2 DEF Passed
    <2> QED  BY <2>1, <2>2
  <1>8. failures' = 0 => \A it \in served' : Kind[it[2]] = "file" /\ it[2] \in Matching => it \in found'
    BY DEF SearchInv, NothingMissed
  <1>9. Descent' /\ NothingMissed'
    BY <1>4, <1>6, <1>8, NothingNew
  <1> QED  BY <1>5, <1>9 DEF SearchInv

\* A new item is queued: a caller's path, or the entry a worker has come to.
LEMMA EnqueueSearch ==
  ASSUME IInv, SearchInv, NEW item \in Items, item \notin Seen, SignalGo(worker),
         queue' = Append(queue, item),
         UNCHANGED <<work, failures, served, found>>,
         \A v \in Workers : unread'[v] \subseteq unread[v],
         \A v \in Busy : \A q : worker[v] = "reading" /\ q \in unread[v] /\ q \notin unread'[v]
                              => work[v][1] = item[1] /\ q = item[2],
         \/ item[2] = Root[item[1]]
         \/ \E v \in Busy : /\ worker[v] = "reading" /\ work[v][1] = item[1]
                            /\ item[2] \in Entries[work[v][2]] /\ item[2] \notin unread'[v],
         \A c \in Callers : caller[c] \in Begun => caller'[c] \in Begun,
         \A c \in Callers : caller'[c] \in Begun /\ caller[c] \notin Begun
                              => c = item[1] /\ item[2] = Root[c],
         caller'[item[1]] \in Begun
  PROVE  SearchInv'
  <1>1. /\ queue \in Seq(Items) /\ Len(queue) \in Nat /\ Len(queue') = Len(queue) + 1
        /\ \A i \in 1..Len(queue) : queue'[i] = queue[i] /\ i \in 1..Len(queue')
        /\ Len(queue) + 1 \in 1..Len(queue') /\ queue'[Len(queue) + 1] = item
        /\ \A i \in 1..Len(queue') : i \in 1..Len(queue) \/ i = Len(queue) + 1
    BY DEF IInv, TypeOK
  <1>2. Busy' = Busy /\ \A v \in Busy : worker'[v] = worker[v]
    <2>1. Busy' = Busy
      BY SignalGoMoves, Facts
    <2>2. \A v \in Asleep : v \notin Busy
      BY DEF Asleep, Busy
    <2>3. \A v \in Busy : worker'[v] = worker[v]
      BY <2>2, Facts DEF SignalGo, Asleep, Busy
    <2> QED  BY <2>1, <2>3
  <1>3. Queued' = Queued \cup {item}
    <2>1. \A i \in 1..Len(queue') : queue'[i] \in Queued \cup {item}
      BY <1>1 DEF Queued
    <2>2. \A i \in 1..Len(queue) : queue[i] \in Queued'
      BY <1>1 DEF Queued
    <2>3. item \in Queued'
      BY <1>1 DEF Queued
    <2> QED  BY <2>1, <2>2, <2>3 DEF Queued
  <1>4. Seen' = Seen \cup {item}
    BY <1>2, <1>3 DEF Seen, Held
  <1>5. \A w \in Workers : worker'[w] \in {"reading", "finish"} => w \in Busy /\ worker[w] = worker'[w]
    BY <1>2 DEF Busy
  <1>6. EachItemOnce'
    <2>1. /\ \A i \in 1..Len(queue) : queue[i] # item
          /\ \A v \in Busy : work[v] # item
          /\ item \notin served
      BY SeenItems
    <2>2. \A i, j \in 1..Len(queue') : queue'[i] = queue'[j] => i = j
      BY <1>1, <2>1 DEF SearchInv, EachItemOnce
    <2>3. \A i \in 1..Len(queue') : queue'[i] \notin served /\ \A v \in Busy : work[v] # queue'[i]
      BY <1>1, <2>1 DEF SearchInv, EachItemOnce
    <2> QED  BY <1>2, <2>2, <2>3 DEF SearchInv, EachItemOnce
  <1>7. WorkersAt'
    BY <1>5 DEF SearchInv, WorkersAt
  <1>8. \A d, p : Passed(d, p) => Passed(d, p)'
    BY <1>2 DEF Passed, Busy
  <1>9. Descent'
    <2> SUFFICES ASSUME NEW it \in Seen'
                 PROVE  /\ \/ it[2] = Root[it[1]]
                           \/ \E d \in Items : d[1] = it[1] /\ it[2] \in Entries[d[2]] /\ Passed(d, it[2])'
                        /\ caller'[it[1]] \in Begun
      BY DEF Descent, Begun
    <2>1. CASE it \in Seen
      <3>1. it[1] \in Callers
        BY <2>1, SeenItems
      <3>2. /\ \/ it[2] = Root[it[1]]
               \/ \E d \in Items : d[1] = it[1] /\ it[2] \in Entries[d[2]] /\ Passed(d, it[2])
            /\ caller[it[1]] \in Begun
        BY <2>1 DEF SearchInv, Descent, Begun
      <3> QED  BY <3>1, <3>2, <1>8
    <2>2. CASE it = item /\ item[2] # Root[item[1]]
      <3>1. PICK v \in Busy : /\ worker[v] = "reading" /\ work[v][1] = item[1]
                              /\ item[2] \in Entries[work[v][2]] /\ item[2] \notin unread'[v]
        BY <2>2
      <3>2. Passed(work[v], item[2])'
        BY <3>1, <1>2 DEF Passed
      <3>3. work[v] \in Items
        BY BusyItem
      <3> QED  BY <2>2, <3>1, <3>2, <3>3
    <2>3. CASE it = item /\ item[2] = Root[item[1]]
      BY <2>3
    <2> QED  BY <2>1, <2>2, <2>3, <1>4
  <1>10. NothingMissed'
    <2> SUFFICES ASSUME failures' = 0 PROVE NothingMissed'
      BY DEF NothingMissed
    <2>1. ASSUME NEW it \in Items, it[2] = Root[it[1]], caller'[it[1]] \in Begun PROVE it \in Seen'
      <3>1. CASE caller[it[1]] \in Begun
        BY <3>1, <2>1, <1>4 DEF SearchInv, NothingMissed, Begun
      <3>2. CASE caller[it[1]] \notin Begun
        <4>1. it[1] = item[1] /\ it[2] = item[2]
          BY <3>2, <2>1, SeenItems
        <4>2. it = item
          BY <4>1, SameItem
        <4> QED  BY <4>2, <1>4
      <3> QED  BY <3>1, <3>2
    <2>2. ASSUME NEW d \in Items, NEW it \in Items, d[1] = it[1], it[2] \in Entries[d[2]],
                 Kind[d[2]] = "dir", Passed(d, it[2])'
          PROVE  it \in Seen'
      <3>1. CASE Passed(d, it[2])
        BY <3>1, <2>2, <1>4 DEF SearchInv, NothingMissed
      <3>2. CASE ~Passed(d, it[2])
        <4>1. PICK v \in Busy : work[v] = d /\ worker[v] = "reading" /\ it[2] \notin unread'[v]
          BY <2>2, <3>2, <1>2 DEF Passed
        <4>2. it[2] \in unread[v]
          BY <4>1, <3>2 DEF Passed
        <4>3. it[1] = item[1] /\ it[2] = item[2]
          BY <4>1, <4>2, <2>2
        <4>4. it = item
          BY <4>3, SameItem
        <4> QED  BY <4>4, <1>4
      <3> QED  BY <3>1, <3>2
    <2>3. \A it \in served' : Kind[it[2]] = "file" /\ it[2] \in Matching => it \in found'
      BY DEF SearchInv, NothingMissed
    <2> QED  BY <2>1, <2>2, <2>3 DEF NothingMissed, Begun
  <1> QED  BY <1>6, <1>7, <1>9, <1>10 DEF SearchInv

\* The entry a worker has come to is new.
LEMMA EntryIsNew ==
  ASSUME IInv, SearchInv, NEW w \in Busy, worker[w] = "reading", NEW item \in Items,
         item[1] = work[w][1], item[2] \in unread[w]
  PROVE  item \notin Seen /\ item[2] \in Entries[work[w][2]]
  <1>1. w \in Workers /\ work[w] \in Items /\ work[w] \in Seen /\ work[w][2] \in Paths
    BY BusyItem DEF Seen, Held
  <1>2. item[2] \in Entries[work[w][2]]
    BY <1>1 DEF SearchInv, WorkersAt
  <1>3. ASSUME item \in Seen PROVE FALSE
    <2>1. item[2] # Root[item[1]]
      BY <1>1, <1>2, RootAlone
    <2>2. PICK d \in Items : d[1] = item[1] /\ item[2] \in Entries[d[2]] /\ Passed(d, item[2])
      BY <1>3, <2>1 DEF SearchInv, Descent
    <2>3. d[2] = work[w][2]
      BY <1>1, <1>2, <2>2, SeenItems, TreeAssumption
    <2>4. d = work[w]
      BY <1>1, <2>2, <2>3, SameItem
    <2>5. work[w] \notin served
      BY DEF SearchInv, EachItemOnce
    <2>6. PICK v \in Busy : work[v] = d /\ worker[v] = "reading" /\ item[2] \notin unread[v]
      BY <2>2, <2>4, <2>5 DEF Passed
    <2>7. v = w
      BY <2>4, <2>6 DEF SearchInv, EachItemOnce
    <2> QED  BY <2>6, <2>7
  <1> QED  BY <1>2, <1>3

\* The first state.
LEMMA InitSearch == Init => SearchInv
  <1> SUFFICES ASSUME Init PROVE SearchInv
    OBVIOUS
  <1>1. Busy = {} /\ Len(queue) = 0 /\ served = {} /\ \A w \in Workers : worker[w] = "start"
    BY DEF Init, Busy
  <1>2. 1..0 = {}
    OBVIOUS
  <1>3. Seen = {}
    BY <1>1, <1>2 DEF Seen, Queued, Held
  <1>4. \A c \in Callers : caller[c] = "call"
    BY DEF Init
  <1>5. \A it \in Items : it[1] \in Callers
    BY DEF Items
  <1> QED  BY <1>1, <1>2, <1>3, <1>4, <1>5
           DEF SearchInv, EachItemOnce, WorkersAt, Descent, NothingMissed, Passed

\* Processing an item.
LEMMA ProcessSearch ==
  ASSUME IInv, SearchInv, NEW w \in Workers, worker[w] = "busy",
         NEW kind, NEW fails \in BOOLEAN, Process(w, kind, fails),
         UNCHANGED <<queue, caller>>,
         \/ ~fails /\ kind = Kind[work[w][2]] /\ failures' = failures
         \/ failures' # 0,
         fails \/ kind # "dir" \/ (failures' = failures /\ kind = Kind[work[w][2]])
  PROVE  SearchInv'
  <1>0. /\ unread \in [Workers -> SUBSET Paths] /\ failures \in Nat
        /\ w \in Busy /\ work[w][2] \in Paths
    BY Facts, BusyItem DEF IInv, TypeOK, Busy
  <1>1. CASE kind \in {"link", "other"} /\ ~fails
    <2>1. /\ worker' = [worker EXCEPT ![w] = "finish"]
          /\ served' = served \cup {work[w]} /\ UNCHANGED <<work, unread, found>>
      BY <1>1 DEF Process
    <2>2. failures' = 0 => failures = 0 /\ Kind[work[w][2]] \notin {"dir", "file"}
      BY <1>1
    <2> QED  BY <2>1, <2>2, ServeSearch
  <1>2. CASE kind = "file"
    <2>1. /\ worker' = [worker EXCEPT ![w] = "finish"]
          /\ served' = served \cup {work[w]} /\ UNCHANGED <<work, unread>>
          /\ found \subseteq found'
          /\ work[w][2] \in Matching /\ ~fails => work[w] \in found'
      BY <1>2 DEF Process
    <2>2. failures' = 0 => failures = 0 /\ ~fails /\ Kind[work[w][2]] = "file"
      BY <1>2
    <2> QED  BY <2>1, <2>2, ServeSearch
  <1>3. CASE kind = "dir" /\ ~fails
    <2>1. /\ worker' = [worker EXCEPT ![w] = "reading"]
          /\ unread' = [unread EXCEPT ![w] = Entries[work[w][2]]]
          /\ UNCHANGED <<work, served, found>>
      BY <1>3 DEF Process
    <2>2. failures' = failures /\ Kind[work[w][2]] = "dir"
      BY <1>3
    <2> QED  BY <2>1, <2>2, OpenSearch
  <1>4. CASE kind = "dir" /\ fails
    <2>1. /\ worker' = [worker EXCEPT ![w] = "top"]
          /\ work' = [work EXCEPT ![w] = None] /\ UNCHANGED <<unread, served, found>>
      BY <1>4 DEF Process
    <2> QED  BY <2>1, <1>4, ReleaseSearch
  <1> QED  BY <1>1, <1>2, <1>3, <1>4 DEF Process

\* Every step of a worker keeps the invariant.
LEMMA WorkerStepSearch ==
  ASSUME IInv, SearchInv, NEW w \in Workers, WorkerStep(w)
  PROVE  SearchInv'
  <1>0. failures \in Nat /\ worker \in [Workers -> WorkerStates]
    BY Facts
  <1>1. CASE WorkerStart(w) \/ WorkerWait(w)
    <2>1. PICK p \in {"gowait", "top", "topwait"} : worker' = [worker EXCEPT ![w] = p]
      BY <1>1 DEF WorkerStart, WorkerWait
    <2>2. /\ UNCHANGED <<queue, work, unread, caller, failures, served, found>>
          /\ worker[w] \in {"start", "top"}
      BY <1>1 DEF WorkerStart, WorkerWait, qvars
    <2>3. Busy' = Busy /\ \A v \in Busy : worker'[v] = worker[v]
      BY <2>1, <2>2, <1>0 DEF Busy
    <2> QED  BY <2>2, <2>3, NoItemMoves
  <1>2. CASE WorkerTake(w)
    BY <1>2, TakeSearch
  <1>3. CASE WorkerProcess(w)
    <2>1. /\ worker[w] = "busy" /\ Process(w, Kind[work[w][2]], FALSE)
          /\ UNCHANGED <<queue, caller, failures>>
      BY <1>3 DEF WorkerProcess, qvars
    <2> QED  BY <2>1, ProcessSearch
  <1>4. CASE WorkerOpenFails(w)
    <2>1. /\ worker[w] = "busy" /\ Process(w, Kind[work[w][2]], TRUE)
          /\ UNCHANGED <<queue, caller>> /\ failures' = failures + 1
      BY <1>4 DEF WorkerOpenFails, qvars, Fail
    <2>2. failures' # 0
      BY <2>1, <1>0
    <2> QED  BY <2>1, <2>2, ProcessSearch
  <1>5. CASE WorkerVanished(w)
    <2>1. PICK kind \in Kinds : Process(w, kind, kind \in {"dir", "file"})
      BY <1>5 DEF WorkerVanished
    <2>2. worker[w] = "busy" /\ UNCHANGED <<queue, caller>> /\ failures' = failures + 1
      BY <1>5 DEF WorkerVanished, qvars, Fail
    <2> DEFINE fails == kind \in {"dir", "file"}
    <2>3. fails \in BOOLEAN /\ Process(w, kind, fails) /\ (fails \/ kind # "dir")
      BY <2>1
    <2>4. failures' # 0
      BY <2>2, <1>0
    <2> HIDE DEF fails
    <2> QED  BY <2>2, <2>3, <2>4, ProcessSearch
  <1>6. CASE WorkerEntry(w)
    <2>1. w \in Busy /\ worker[w] = "reading"
      BY <1>6 DEF WorkerEntry, Busy
    <2>2. PICK e \in unread[w] : /\ unread' = [unread EXCEPT ![w] = @ \ {e}]
                                 /\ queue' = Append(queue, <<work[w][1], e>>)
      BY <1>6 DEF WorkerEntry
    <2>3. unread \in [Workers -> SUBSET Paths] /\ e \in Paths
      BY DEF IInv, TypeOK
    <2> DEFINE item == <<work[w][1], e>>
    <2>4. /\ item \in Items /\ item[1] = work[w][1] /\ item[2] = e /\ item[1] \in Callers
          /\ queue' = Append(queue, item)
      BY <2>1, <2>2, <2>3, BusyItem DEF Items
    <2> HIDE DEF item
    <2>5. item \notin Seen /\ item[2] \in Entries[work[w][2]] /\ item[2] \notin unread'[w]
      <3>1. item[2] \notin unread'[w]
        BY <2>2, <2>3, <2>4
      <3> QED  BY <3>1, <2>1, <2>2, <2>4, EntryIsNew
    <2>6. /\ \A v \in Workers : unread'[v] \subseteq unread[v]
          /\ \A v \in Busy : \A q : worker[v] = "reading" /\ q \in unread[v] /\ q \notin unread'[v]
                                  => work[v][1] = item[1] /\ q = item[2]
      BY <2>2, <2>3, <2>4 DEF Busy
    <2>7. /\ SignalGo(worker) /\ UNCHANGED <<work, caller, failures, served, found>>
      BY <1>6 DEF WorkerEntry
    <2>8. caller[item[1]] \in Begun
      BY <2>1, <2>4, BusyItem DEF Begun
    <2> QED  BY <2>1, <2>4, <2>5, <2>6, <2>7, <2>8, EnqueueSearch
  <1>7. CASE WorkerDirDone(w)
    <2>1. /\ worker[w] = "reading" /\ worker' = [worker EXCEPT ![w] = "finish"]
          /\ unread' = [unread EXCEPT ![w] = {}] /\ served' = served \cup {work[w]}
          /\ UNCHANGED <<queue, work, caller, found>>
          /\ \/ failures' = failures /\ unread[w] = {}
             \/ failures' = failures + 1
      BY <1>7 DEF WorkerDirDone, Fail, qvars
    <2>2. failures' = 0 => failures = 0 /\ unread[w] = {}
      BY <2>1, <1>0
    <2>3. Kind[work[w][2]] = "dir"
      BY <2>1 DEF SearchInv, WorkersAt
    <2>4. \A v \in Workers \ {w} : unread'[v] = unread[v]
      BY <2>1 DEF IInv, TypeOK
    <2> QED  BY <2>1, <2>2, <2>3, <2>4, ServeSearch
  <1>8. CASE WorkerFinish(w)
    <2>1. PICK p \in {"gone", "top"} : worker' = [worker EXCEPT ![w] = p]
      BY <1>8 DEF WorkerFinish
    <2>2. /\ worker[w] = "finish" /\ work' = [work EXCEPT ![w] = None]
          /\ UNCHANGED <<queue, unread, failures, served, found>>
          /\ caller' = caller \/ caller' = BroadcastDone
      BY <1>8 DEF WorkerFinish
    <2>3. \A c \in Callers : caller[c] \in Begun <=> caller'[c] \in Begun
      <3>1. CASE caller' = caller
        BY <3>1
      <3>2. CASE caller' = BroadcastDone
        <4>1. ASSUME NEW c \in Callers
              PROVE  caller'[c] = IF caller[c] = "busywait" THEN "call"
                                  ELSE IF caller[c] = "collectwait" THEN "collect" ELSE caller[c]
          BY <3>2 DEF BroadcastDone
        <4> QED  BY <4>1 DEF Begun
      <3> QED  BY <3>1, <3>2, <2>2
    <2> QED  BY <2>1, <2>2, <2>3, ReleaseSearch
  <1> QED  BY <1>1, <1>2, <1>3, <1>4, <1>5, <1>6, <1>7, <1>8 DEF WorkerStep

\* Every step of a caller keeps the invariant.
LEMMA CallerStepSearch ==
  ASSUME IInv, SearchInv, NEW c \in Callers, CallerStep(c) \/ CallerWaitFails(c)
  PROVE  SearchInv'
  <1>0. /\ caller \in [Callers -> {"call", "busywait", "collectwait", "collect", "returned",
                                   "failed", "aborted"}]
        /\ failures \in Nat
    BY Facts DEF IInv, TypeOK
  <1>1. CASE StartBusy(c) \/ StartAborts(c) \/ Collect(c) \/ CallerWaitFails(c)
    <2>1. UNCHANGED <<queue, worker, work, unread, served, found>>
      BY <1>1 DEF StartBusy, StartAborts, Collect, CallerWaitFails, qvars
    <2>2. Busy' = Busy /\ \A v \in Busy : worker'[v] = worker[v]
      BY <2>1 DEF Busy
    <2>3. /\ \A d \in Callers : caller[d] \in Begun => caller'[d] \in Begun
          /\ failures' = 0 => failures = 0 /\ \A d \in Callers : caller'[d] \in Begun => caller[d] \in Begun
      <3>1. CASE StartBusy(c)
        BY <3>1, <1>0 DEF StartBusy, Begun
      <3>2. CASE Collect(c)
        BY <3>2, <1>0 DEF Collect, Begun
      <3>3. CASE StartAborts(c)
        BY <3>3, <1>0 DEF StartAborts, Fail, Begun
      <3>4. CASE CallerWaitFails(c)
        BY <3>4, <1>0 DEF CallerWaitFails, Fail, Begun
      <3> QED  BY <1>1, <3>1, <3>2, <3>3, <3>4
    <2> QED  BY <2>1, <2>2, <2>3, NoItemMoves
  <1>2. CASE Start(c)
    <2> DEFINE item == <<c, Root[c]>>
    <2>1. item \in Items /\ item[1] = c /\ item[2] = Root[c]
      BY CrewAssumption DEF Items
    <2>2. /\ SignalGo(worker) /\ queue' = Append(queue, item)
          /\ UNCHANGED <<work, unread, failures, served, found>>
          /\ caller[c] = "call" /\ caller' = [caller EXCEPT ![c] = "collectwait"]
      BY <1>2 DEF Start
    <2> HIDE DEF item
    <2>3. item \notin Seen
      BY <2>1, <2>2 DEF SearchInv, Descent
    <2>4. /\ \A d \in Callers : caller[d] \in Begun => caller'[d] \in Begun
          /\ \A d \in Callers : caller'[d] \in Begun /\ caller[d] \notin Begun
                                  => d = item[1] /\ item[2] = Root[d]
          /\ caller'[item[1]] \in Begun
      BY <2>1, <2>2, <1>0 DEF Begun
    <2>5. \A v \in Busy : v \in Workers
      BY DEF Busy
    <2> QED  BY <2>1, <2>2, <2>3, <2>4, <2>5, EnqueueSearch
  <1> QED  BY <1>1, <1>2 DEF CallerStep

\* Every step keeps the invariant.
LEMMA NextSearch == IInv /\ SearchInv /\ [Next]_vars => SearchInv'
  <1> SUFFICES ASSUME IInv, SearchInv, [Next]_vars PROVE SearchInv'
    OBVIOUS
  <1>1. CASE Spurious
    <2>1. UNCHANGED <<queue, work, unread, failures, served, found>>
      BY <1>1 DEF Spurious, qvars
    <2>2. /\ Busy' = Busy /\ \A v \in Busy : worker'[v] = worker[v]
      <3>1. CASE UNCHANGED worker
        BY <3>1 DEF Busy
      <3>2. ASSUME NEW w \in Asleep, worker' = [worker EXCEPT ![w] = Wake(@)]
            PROVE  Busy' = Busy /\ \A v \in Busy : worker'[v] = worker[v]
        <4>1. w \in Workers /\ worker[w] \in {"gowait", "topwait"} /\ Wake(worker[w]) \in {"start", "top"}
          BY DEF Asleep, Wake
        <4>2. worker'[w] \in {"start", "top"} /\ \A v \in Workers \ {w} : worker'[v] = worker[v]
          BY <3>2, <4>1, Facts
        <4> QED  BY <4>1, <4>2 DEF Busy
      <3> QED  BY <1>1, <3>1, <3>2 DEF Spurious
    <2>3. \A d \in Callers : caller[d] \in Begun <=> caller'[d] \in Begun
      <3>1. caller \in [Callers -> {"call", "busywait", "collectwait", "collect", "returned",
                                    "failed", "aborted"}]
        BY DEF IInv, TypeOK
      <3> QED  BY <1>1, <3>1 DEF Spurious, Begun
    <2> QED  BY <2>1, <2>2, <2>3, NoItemMoves
  <1>2. CASE UNCHANGED vars
    <2>1. UNCHANGED <<queue, worker, work, unread, caller, failures, served, found>>
      BY <1>2 DEF vars, qvars
    <2>2. Busy' = Busy
      BY <2>1 DEF Busy
    <2> QED  BY <2>1, <2>2, NoItemMoves
  <1> QED  BY <1>1, <1>2, WorkerStepSearch, CallerStepSearch DEF Next

\* When a search is over everything below its path has been served.
LEMMA ServedBelow ==
  ASSUME IInv, SearchInv, SearchOver, NEW c \in Callers, caller[c] = "returned", failures = 0,
         NEW p \in Below(Root[c])
  PROVE  <<c, p>> \in served
  <1> DEFINE S == {q \in Paths : <<c, q>> \in served}
  <1>1. ASSUME NEW it \in Seen, it[1] = c PROVE it \in served
    BY <1>1, SeenItems DEF SearchOver
  <1>2. \A q \in Paths : <<c, q>> \in Items /\ <<c, q>>[1] = c /\ <<c, q>>[2] = q
    BY DEF Items
  <1>3. Root[c] \in S
    <2>1. Root[c] \in Paths
      BY CrewAssumption
    <2>2. <<c, Root[c]>> \in Seen
      BY <1>2, <2>1 DEF SearchInv, NothingMissed
    <2> QED  BY <1>1, <1>2, <2>1, <2>2
  <1>4. ASSUME NEW r \in S, Kind[r] = "dir", NEW q \in Entries[r] PROVE q \in S
    <2>1. q \in Paths /\ r \in Paths
      BY CrewAssumption
    <2>2. Passed(<<c, r>>, q)
      BY DEF Passed
    <2>3. <<c, q>> \in Seen
      BY <1>2, <1>4, <2>1, <2>2 DEF SearchInv, NothingMissed
    <2> QED  BY <1>1, <1>2, <2>1, <2>3
  <1>5. S \in SUBSET Paths /\ \A r \in S : Kind[r] = "dir" => Entries[r] \subseteq S
    BY <1>4
  <1> HIDE DEF S
  <1>6. p \in S
    BY <1>3, <1>5 DEF Below
  <1> QED  BY <1>6 DEF S

\* For every tree and any number of workers and callers, however workers are
\* scheduled and whatever fails: no item is processed twice or by two workers, and
\* crew_start returns when its search is over and, if nothing failed, complete.
THEOREM SearchCorrect == Spec => []SearchExact
  <1>1. IInv /\ SearchInv /\ SearchOver => SearchExact
    <2> SUFFICES ASSUME IInv, SearchInv, SearchOver PROVE SearchExact
      OBVIOUS
    <2>1. ASSUME NEW c \in Callers, caller[c] = "returned", failures = 0, NEW p \in Below(Root[c])
          PROVE  /\ <<c, p>> \in served
                 /\ Kind[p] = "file" /\ p \in Matching => <<c, p>> \in found
      <3>1. <<c, p>> \in served
        BY <2>1, ServedBelow
      <3>2. <<c, p>>[2] = p
        OBVIOUS
      <3> QED  BY <2>1, <3>1, <3>2 DEF SearchInv, NothingMissed
    <2>2. SearchComplete
      BY <2>1 DEF SearchComplete
    <2> QED  BY <2>2 DEF SearchExact, SearchInv
  <1> QED  BY <1>1, InitIInv, NextIInv, InitSearch, NextSearch, ReturnsWhenOver, PTL DEF Spec
==============================================================================
