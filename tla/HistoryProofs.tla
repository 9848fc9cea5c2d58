--------------------------- MODULE HistoryProofs ----------------------------
(***************************************************************************)
(* The bars, for every series and every size of buffer, batch and file.    *)
(* First the store: its types, and that the newest bar is never lost from  *)
(* the bridge's buffer.  Then what a backtest makes of a series: that the  *)
(* folds of a cross validation are purged whatever is cut and how, that a  *)
(* fold which has halted stays so, and that a day which has lost its limit *)
(* opens nothing.                                                          *)
(***************************************************************************)
EXTENDS Backtest, BarStore, FiniteSetTheorems, WellFoundedInduction, TLAPS

\* Induction over the naturals, for a set of them: the smallest number outside it would be
\* one whose 0..n has no smaller one.
LEMMA NaturalInduction ==
  ASSUME NEW T, 0 \in T, \A n \in Nat : n \in T => n + 1 \in T
  PROVE  Nat \subseteq T
<1> SUFFICES ASSUME NEW m \in Nat, m \notin T PROVE FALSE
  OBVIOUS
<1> DEFINE Q == {0..n : n \in (0..m) \ T}
<1>1. IsFiniteSet(0..m)
  BY FS_Interval
<1>2. Q \subseteq FiniteSubsetsOf(0..m) /\ 0..m \in Q
  <2>1. \A n \in 0..m : 0..n \subseteq 0..m /\ IsFiniteSet(0..n)
    BY FS_Interval
  <2> QED BY <2>1 DEF FiniteSubsetsOf
<1>3. PICK A \in Q : \A B \in Q : <<B, A>> \notin StrictSubsetOrdering(0..m)
  <2> HIDE DEF Q
  <2> QED BY <1>2, FS_StrictSubsetOrderingWellFounded, WFMin
<1>4. PICK n \in 0..m : n \notin T /\ A = 0..n
  BY <1>3
<1>5. n # 0 /\ n - 1 \in 0..m /\ n - 1 \in Nat
  BY <1>4
<1>6. n - 1 \notin T
  BY <1>4, <1>5
<1>7. 0..(n - 1) \in Q
  BY <1>5, <1>6
<1>8. <<0..(n - 1), 0..n>> \in StrictSubsetOrdering(0..m)
  <2>1. 0..(n - 1) \subseteq 0..n /\ 0..n \subseteq 0..m /\ n \in 0..n /\ n \notin 0..(n - 1)
    BY <1>5
  <2> QED BY <2>1 DEF StrictSubsetOrdering
<1> QED BY <1>3, <1>4, <1>7, <1>8

-----------------------------------------------------------------------------
(* The rows of a file and of the buffer. *)

\* Rows by time, equals in any order.
Sorted(s) == \A p, j \in DOMAIN s : p < j => s[p].t <= s[j].t

\* A row of the file or of the buffer, with its index.
LEMMA RowIs ==
  ASSUME NEW s \in Seq(Bars), NEW p \in DOMAIN s
  PROVE  s[p] \in Bars /\ s[p].t \in Int /\ p \in 1..Len(s) /\ p \in Int
<1>1. s[p] \in Bars /\ p \in 1..Len(s) /\ p \in Int
  OBVIOUS
<1> QED BY <1>1 DEF Bars

\* The rows of s at most as late as its i-th, among those of kept.
UpTo(s, kept, p) == {j \in kept : s[j].t < s[p].t \/ (s[j].t = s[p].t /\ j <= p)}

\* Each index has as many up to it as its place, a place of its own, and an earlier place if its
\* row is earlier.
LEMMA Places ==
  ASSUME NEW s \in Seq(Bars), NEW kept \in SUBSET (DOMAIN s)
  PROVE  /\ IsFiniteSet(kept) /\ Cardinality(kept) \in Nat
         /\ \A p \in kept : Cardinality(UpTo(s, kept, p)) \in 1..Cardinality(kept)
         /\ \A p, j \in kept : s[p].t < s[j].t \/ (s[p].t = s[j].t /\ p < j) =>
              Cardinality(UpTo(s, kept, p)) < Cardinality(UpTo(s, kept, j))
<1>1. IsFiniteSet(DOMAIN s)
  BY FS_Interval
<1>2. IsFiniteSet(kept) /\ Cardinality(kept) \in Nat
  BY <1>1, FS_Subset, FS_CardinalityType
<1>3. \A p \in kept : /\ IsFiniteSet(UpTo(s, kept, p)) /\ Cardinality(UpTo(s, kept, p)) \in Nat
                      /\ Cardinality(UpTo(s, kept, p)) <= Cardinality(kept)
  <2> SUFFICES ASSUME NEW p \in kept
               PROVE  /\ IsFiniteSet(UpTo(s, kept, p)) /\ Cardinality(UpTo(s, kept, p)) \in Nat
                      /\ Cardinality(UpTo(s, kept, p)) <= Cardinality(kept)
    OBVIOUS
  <2>1. UpTo(s, kept, p) \in SUBSET kept
    BY DEF UpTo
  <2> QED BY <1>2, <2>1, FS_Subset, FS_CardinalityType
<1>4. \A p \in kept : p \in Int /\ s[p].t \in Int
  BY RowIs
<1>5. ASSUME NEW p \in kept PROVE Cardinality(UpTo(s, kept, p)) # 0
  <2>1. p \in UpTo(s, kept, p)
    BY <1>4 DEF UpTo
  <2> QED BY <1>3, <2>1, FS_EmptySet
<1>6. ASSUME NEW p \in kept, NEW j \in kept, s[p].t < s[j].t \/ (s[p].t = s[j].t /\ p < j)
      PROVE  Cardinality(UpTo(s, kept, p)) < Cardinality(UpTo(s, kept, j))
  <2>1. UpTo(s, kept, p) \in SUBSET UpTo(s, kept, j)
    BY <1>4, <1>6 DEF UpTo
  <2>2. j \in UpTo(s, kept, j) /\ j \notin UpTo(s, kept, p)
    BY <1>4, <1>6 DEF UpTo
  <2>3. /\ Cardinality(UpTo(s, kept, p)) <= Cardinality(UpTo(s, kept, j))
        /\ Cardinality(UpTo(s, kept, p)) # Cardinality(UpTo(s, kept, j))
    BY <1>3, <2>1, <2>2, FS_Subset
  <2> QED BY <1>3, <2>3
<1> QED BY <1>2, <1>3, <1>5, <1>6

\* So every place is that of an index, there being as many of one as of the other.
LEMMA PlaceTaken ==
  ASSUME NEW s \in Seq(Bars), NEW kept \in SUBSET (DOMAIN s), NEW k \in 1..Cardinality(kept)
  PROVE  \E p \in kept : Cardinality(UpTo(s, kept, p)) = k
<1> DEFINE place == [p \in kept |-> Cardinality(UpTo(s, kept, p))]
           n == Cardinality(kept)
<1>1. IsFiniteSet(kept) /\ n \in Nat /\ place \in [kept -> 1..n]
  BY Places
<1>2. \A p, j \in kept : place[p] = place[j] => p = j
  <2> SUFFICES ASSUME NEW p \in kept, NEW j \in kept, p # j PROVE place[p] # place[j]
    OBVIOUS
  <2>1. p \in Int /\ j \in Int /\ s[p].t \in Int /\ s[j].t \in Int
    BY RowIs
  <2>2. place[p] \in Int /\ place[j] \in Int
    BY <1>1
  <2>3. s[p].t < s[j].t \/ (s[p].t = s[j].t /\ p < j) => place[p] < place[j]
    BY Places
  <2>4. s[j].t < s[p].t \/ (s[j].t = s[p].t /\ j < p) => place[j] < place[p]
    BY Places
  <2> HIDE DEF place
  <2> QED BY <2>1, <2>2, <2>3, <2>4
<1>3. IsFiniteSet(1..n) /\ Cardinality(1..n) = n
  BY <1>1, FS_Interval
<1> HIDE DEF n
<1>4. place \in Injection(kept, 1..n)
  <2> HIDE DEF place
  <2> QED BY <1>1, <1>2 DEF Injection, IsInjective
<1>5. place \in Surjection(kept, 1..n)
  BY <1>3, <1>4, FS_Injection DEF n
<1>6. \E p \in kept : place[p] = k
  BY <1>5 DEF Surjection, n
<1> QED BY <1>6

\* What InOrder returns: the rows asked for, earlier ones first.
LEMMA Ordered ==
  ASSUME NEW s \in Seq(Bars), NEW kept \in SUBSET (DOMAIN s)
  PROVE  LET r == InOrder(s, kept) IN
         /\ r \in Seq(Bars) /\ Sorted(r)
         /\ Times(r) = {s[p].t : p \in kept}
<1> DEFINE r == InOrder(s, kept)
           n == Cardinality(kept)
           index(k) == CHOOSE p \in kept : Cardinality(UpTo(s, kept, p)) = k
<1>1. n \in Nat
  BY Places
<1>2. r = [k \in 1..n |-> s[index(k)]]
  BY Zenon DEF InOrder, UpTo
<1>3. \A k \in 1..n : index(k) \in kept /\ Cardinality(UpTo(s, kept, index(k))) = k
  BY PlaceTaken, Zenon
<1>4. \A p \in kept : \E k \in 1..n : index(k) = p
  <2> SUFFICES ASSUME NEW p \in kept PROVE \E k \in 1..n : index(k) = p
    OBVIOUS
  <2> DEFINE k == Cardinality(UpTo(s, kept, p))
  <2>1. k \in 1..n
    BY Places
  <2> HIDE DEF k
  <2>2. index(k) \in kept /\ Cardinality(UpTo(s, kept, index(k))) = k
    BY <1>3, <2>1
  <2> HIDE DEF index
  <2>3. ~(s[index(k)].t < s[p].t \/ (s[index(k)].t = s[p].t /\ index(k) < p))
    BY <2>1, <2>2, Places DEF k
  <2>4. ~(s[p].t < s[index(k)].t \/ (s[p].t = s[index(k)].t /\ p < index(k)))
    BY <2>1, <2>2, Places DEF k
  <2>5. p \in Int /\ index(k) \in Int /\ s[p].t \in Int /\ s[index(k)].t \in Int
    BY <2>2, RowIs
  <2> QED BY <2>1, <2>3, <2>4, <2>5
<1> HIDE DEF r, n, index
<1>5. r \in Seq(Bars) /\ Len(r) = n /\ \A k \in 1..n : r[k] = s[index(k)]
  BY <1>1, <1>2, <1>3
<1>6. \A k, l \in 1..n : k < l => s[index(k)].t <= s[index(l)].t
  <2> SUFFICES ASSUME NEW k \in 1..n, NEW l \in 1..n, k < l PROVE s[index(k)].t <= s[index(l)].t
    OBVIOUS
  <2>1. index(k) \in kept /\ index(l) \in kept
    BY <1>3
  <2>2. s[index(l)].t < s[index(k)].t => l < k
    BY <1>3, <2>1, Places
  <2>3. s[index(k)].t \in Int /\ s[index(l)].t \in Int
    BY <2>1, RowIs
  <2> QED BY <1>1, <2>2, <2>3
<1>7. Sorted(r)
  BY <1>1, <1>5, <1>6 DEF Sorted
<1>8. DOMAIN r = 1..n
  BY <1>1, <1>2
<1>9. Times(r) = {s[p].t : p \in kept}
  <2>1. Times(r) = {r[k].t : k \in 1..n}
    BY <1>8 DEF Times
  <2>2. \A k \in 1..n : r[k].t = s[index(k)].t /\ index(k) \in kept
    BY <1>3, <1>5
  <2>3. ASSUME NEW x \in Times(r) PROVE x \in {s[p].t : p \in kept}
    BY <2>1, <2>2
  <2>4. ASSUME NEW p \in kept PROVE s[p].t \in Times(r)
    <3>1. PICK k \in 1..n : index(k) = p
      BY <1>4
    <3>2. r[k].t = s[p].t
      BY <2>2, <3>1
    <3> QED BY <2>1, <3>2
  <2> QED BY <2>3, <2>4
<1> QED BY <1>5, <1>7, <1>9 DEF r

\* Among the rows of one time there is a first.
LEMMA FirstOf ==
  ASSUME NEW s \in Seq(Bars), NEW p \in DOMAIN s
  PROVE  \E f \in DOMAIN s : s[f].t = s[p].t /\ \A j \in 1..(f - 1) : s[j].t # s[f].t
<1> SUFFICES ASSUME \A f \in DOMAIN s : s[f].t = s[p].t => \E j \in 1..(f - 1) : s[j].t = s[f].t
             PROVE  FALSE
  OBVIOUS
<1> DEFINE T == {n \in Nat : \A j \in DOMAIN s : j <= n => s[j].t # s[p].t}
<1>1. DOMAIN s = 1..Len(s) /\ Len(s) \in Nat /\ p \in Nat
  OBVIOUS
<1>2. 0 \in T
  BY <1>1
<1>3. ASSUME NEW n \in Nat, n \in T PROVE n + 1 \in T
  <2> SUFFICES ASSUME NEW j \in DOMAIN s, j <= n + 1, s[j].t = s[p].t PROVE FALSE
    OBVIOUS
  <2>1. PICK k \in 1..(j - 1) : s[k].t = s[j].t
    OBVIOUS
  <2>2. k \in DOMAIN s /\ k <= n
    BY <1>1
  <2> QED BY <1>3, <2>1, <2>2
<1> HIDE DEF T
<1>4. p \in T
  BY <1>1, <1>2, <1>3, NaturalInduction
<1> QED BY <1>1, <1>4 DEF T

\* What coerce_schema returns: the times of s, each once and in order, under rows of s.
LEMMA Coerced ==
  ASSUME NEW s \in Seq(Bars)
  PROVE  /\ CoerceSchema(s) \in Seq(Bars) /\ Sorted(CoerceSchema(s))
         /\ Times(CoerceSchema(s)) = Times(s)
<1> DEFINE kept == {p \in DOMAIN s : \A j \in 1..(p - 1) : s[j].t # s[p].t}
<1>1. kept \in SUBSET (DOMAIN s) /\ CoerceSchema(s) = InOrder(s, kept)
  BY DEF CoerceSchema
<1>2. {s[p].t : p \in kept} = Times(s)
  <2>1. ASSUME NEW p \in DOMAIN s PROVE \E f \in kept : s[f].t = s[p].t
    <3>1. PICK f \in DOMAIN s : s[f].t = s[p].t /\ \A j \in 1..(f - 1) : s[j].t # s[f].t
      BY FirstOf
    <3> QED BY <3>1
  <2>2. kept \subseteq DOMAIN s /\ Times(s) = {s[p].t : p \in DOMAIN s}
    BY <1>1 DEF Times
  <2> HIDE DEF kept
  <2> QED BY <2>1, <2>2
<1> HIDE DEF kept
<1> QED BY <1>1, <1>2, Ordered

\* Among the rows of one time there is a last.
LEMMA LastOf ==
  ASSUME NEW s \in Seq(Bars), NEW p \in DOMAIN s
  PROVE  \E f \in DOMAIN s : s[f].t = s[p].t /\ \A j \in (f + 1)..Len(s) : s[j].t # s[f].t
<1> SUFFICES ASSUME \A f \in DOMAIN s : s[f].t = s[p].t => \E j \in (f + 1)..Len(s) : s[j].t = s[f].t
             PROVE  FALSE
  OBVIOUS
<1> DEFINE T == {n \in Nat : \E j \in DOMAIN s : j >= n /\ s[j].t = s[p].t}
<1>1. DOMAIN s = 1..Len(s) /\ Len(s) \in Nat /\ p \in Nat
  OBVIOUS
<1>2. 0 \in T
  BY <1>1
<1>3. ASSUME NEW n \in Nat, n \in T PROVE n + 1 \in T
  <2>1. PICK j \in DOMAIN s : j >= n /\ s[j].t = s[p].t
    BY <1>3
  <2>2. PICK k \in (j + 1)..Len(s) : s[k].t = s[j].t
    BY <2>1
  <2>3. k \in DOMAIN s /\ k >= n + 1 /\ s[k].t = s[p].t
    BY <1>1, <2>1, <2>2
  <2> QED BY <2>3
<1>4. \A n \in T : n <= Len(s)
  BY <1>1
<1> HIDE DEF T
<1>5. Len(s) + 1 \in T
  BY <1>1, <1>2, <1>3, NaturalInduction
<1> QED BY <1>1, <1>4, <1>5

\* The times of s, each once and in order, under the last row of each.
LEMMA LastRows ==
  ASSUME NEW s \in Seq(Bars)
  PROVE  LET last == {p \in DOMAIN s : \A j \in (p + 1)..Len(s) : s[j].t # s[p].t}
         IN  /\ InOrder(s, last) \in Seq(Bars) /\ Sorted(InOrder(s, last))
             /\ Times(InOrder(s, last)) = Times(s)
<1> DEFINE last == {p \in DOMAIN s : \A j \in (p + 1)..Len(s) : s[j].t # s[p].t}
<1>1. last \in SUBSET (DOMAIN s)
  OBVIOUS
<1>2. {s[p].t : p \in last} = Times(s)
  <2>1. ASSUME NEW p \in DOMAIN s PROVE \E f \in last : s[f].t = s[p].t
    <3>1. PICK f \in DOMAIN s : s[f].t = s[p].t /\ \A j \in (f + 1)..Len(s) : s[j].t # s[f].t
      BY LastOf
    <3> QED BY <3>1
  <2>2. last \subseteq DOMAIN s /\ Times(s) = {s[p].t : p \in DOMAIN s}
    BY <1>1 DEF Times
  <2> HIDE DEF last
  <2> QED BY <2>1, <2>2
<1> HIDE DEF last
<1>3. /\ InOrder(s, last) \in Seq(Bars) /\ Sorted(InOrder(s, last))
      /\ Times(InOrder(s, last)) = Times(s)
  BY <1>1, <1>2, Ordered
<1> QED BY <1>3 DEF last

\* What push_history_batch makes of the buffer and a batch: the times of both, each once
\* and in order.
LEMMA MergedRows ==
  ASSUME NEW kept \in Seq(Bars), NEW incoming \in Seq(Bars)
  PROVE  /\ Merged(kept, incoming) \in Seq(Bars) /\ Sorted(Merged(kept, incoming))
         /\ Times(Merged(kept, incoming)) = Times(kept \o incoming)
<1>1. kept \o incoming \in Seq(Bars)
  OBVIOUS
<1> QED BY <1>1, LastRows DEF Merged

-----------------------------------------------------------------------------
\* Rows no later than n.
By(s, n) == s \in Seq(Bars) /\ \A p \in DOMAIN s : s[p].t <= n
Stored(f, n) == f \in {None, Torn} \/ (By(f, n) /\ Sorted(f))

\* Only the times decide whether rows are late.
LEMMA ByTimes ==
  ASSUME NEW s \in Seq(Bars), NEW n
  PROVE  By(s, n) <=> \A t \in Times(s) : t <= n
BY DEF By, Times

\* coerce_schema makes no row later.
LEMMA CoercedBy ==
  ASSUME NEW n, NEW s, By(s, n)
  PROVE  By(CoerceSchema(s), n) /\ Sorted(CoerceSchema(s))
<1>1. s \in Seq(Bars)
  BY DEF By
<1> QED BY <1>1, Coerced, ByTimes

\* Time goes on: rows no later than n are no later than m.
LEMMA Later ==
  ASSUME NEW n \in Int, NEW m \in Int, n <= m, NEW s, By(s, n)
  PROVE  By(s, m)
<1>1. s \in Seq(Bars) /\ \A p \in DOMAIN s : s[p].t \in Int /\ s[p].t <= n
  BY RowIs DEF By
<1> QED BY <1>1 DEF By

\* Rows put behind one another.
LEMMA Joined ==
  ASSUME NEW n, NEW s, NEW u, By(s, n), By(u, n)
  PROVE  By(s \o u, n) /\ Times(s \o u) = Times(s) \cup Times(u)
<1>1. s \in Seq(Bars) /\ u \in Seq(Bars) /\ s \o u \in Seq(Bars)
  BY DEF By
<1>2. \A p \in DOMAIN (s \o u) : \/ p \in DOMAIN s /\ (s \o u)[p] = s[p]
                                 \/ (p - Len(s)) \in DOMAIN u /\ (s \o u)[p] = u[p - Len(s)]
  BY <1>1
<1>3. \A p \in DOMAIN s : p \in DOMAIN (s \o u) /\ (s \o u)[p] = s[p]
  BY <1>1
<1>4. \A p \in DOMAIN u : (p + Len(s)) \in DOMAIN (s \o u) /\ (s \o u)[p + Len(s)] = u[p]
  BY <1>1
<1> DEFINE v == s \o u
<1> HIDE DEF v
<1>5. Times(v) = Times(s) \cup Times(u)
  <2>1. ASSUME NEW x \in Times(v) PROVE x \in Times(s) \cup Times(u)
    BY <1>2 DEF Times, v
  <2>2. ASSUME NEW x \in Times(s) PROVE x \in Times(v)
    BY <1>3 DEF Times, v
  <2>3. ASSUME NEW x \in Times(u) PROVE x \in Times(v)
    <3>1. PICK p \in DOMAIN u : x = u[p].t
      BY DEF Times
    <3>2. (p + Len(s)) \in DOMAIN v /\ v[p + Len(s)] = u[p]
      BY <1>4 DEF v
    <3> QED BY <3>1, <3>2 DEF Times
  <2> QED BY <2>1, <2>2, <2>3
<1>6. \A p \in DOMAIN v : v[p].t <= n
  BY <1>2 DEF By, v
<1> QED BY <1>1, <1>5, <1>6 DEF By, v

\* The last m rows of s, or all of them.
LEMMA LatestIs ==
  ASSUME NEW s \in Seq(Bars), NEW m \in Nat
  PROVE  LET r == Latest(s, m) IN
         /\ r \in Seq(Bars) /\ Len(r) = (IF m < Len(s) THEN m ELSE Len(s))
         /\ \A p \in 1..Len(r) : r[p] = s[Len(s) - Len(r) + p] /\ (Len(s) - Len(r) + p) \in DOMAIN s
<1> DEFINE n == IF m < Len(s) THEN m ELSE Len(s)
<1>1. n \in Nat /\ n <= Len(s) /\ Len(s) \in Nat
  OBVIOUS
<1>2. Latest(s, m) = SubSeq(s, Len(s) - n + 1, Len(s))
  BY DEF Latest
<1> HIDE DEF n
<1>3. /\ SubSeq(s, Len(s) - n + 1, Len(s)) \in Seq(Bars)
      /\ Len(SubSeq(s, Len(s) - n + 1, Len(s))) = n
      /\ \A p \in 1..n : SubSeq(s, Len(s) - n + 1, Len(s))[p] = s[Len(s) - n + p]
  BY <1>1
<1>4. \A p \in 1..n : (Len(s) - n + p) \in DOMAIN s
  BY <1>1
<1>5. n = IF m < Len(s) THEN m ELSE Len(s)
  BY DEF n
<1> QED BY <1>2, <1>3, <1>4, <1>5

\* The last m rows end where all of them do, and keep their order.
LEMMA LatestBy ==
  ASSUME NEW n, NEW s, By(s, n), NEW m \in Nat
  PROVE  /\ By(Latest(s, m), n) /\ Len(Latest(s, m)) <= m /\ Times(Latest(s, m)) \subseteq Times(s)
         /\ Sorted(s) => Sorted(Latest(s, m))
         /\ s # << >> /\ m # 0 =>
              /\ Latest(s, m) # << >>
              /\ Latest(s, m)[Len(Latest(s, m))] = s[Len(s)]
<1> DEFINE r == Latest(s, m)
<1>1. /\ r \in Seq(Bars) /\ Len(r) = (IF m < Len(s) THEN m ELSE Len(s)) /\ s \in Seq(Bars)
      /\ \A p \in 1..Len(r) : r[p] = s[Len(s) - Len(r) + p] /\ (Len(s) - Len(r) + p) \in DOMAIN s
  BY LatestIs DEF By
<1> HIDE DEF r
<1>2. DOMAIN r = 1..Len(r) /\ Len(r) \in Nat /\ Len(s) \in Nat
  BY <1>1
<1>3. By(r, n) /\ Len(r) <= m
  <2>1. \A p \in DOMAIN s : s[p].t <= n
    BY DEF By
  <2>2. \A p \in DOMAIN r : r[p].t <= n
    BY <1>1, <1>2, <2>1
  <2>3. Len(r) <= m
    BY <1>1, <1>2
  <2> QED BY <1>1, <2>2, <2>3 DEF By
<1>4. Times(r) \subseteq Times(s)
  BY <1>1, <1>2 DEF Times
<1>5. Sorted(s) => Sorted(r)
  <2> SUFFICES ASSUME Sorted(s), NEW p \in DOMAIN r, NEW j \in DOMAIN r, p < j
               PROVE  r[p].t <= r[j].t
    BY DEF Sorted
  <2>1. Len(s) - Len(r) + p < Len(s) - Len(r) + j
    BY <1>2
  <2> QED BY <1>1, <1>2, <2>1 DEF Sorted
<1>6. s # << >> /\ m # 0 => r # << >> /\ r[Len(r)] = s[Len(s)]
  <2> SUFFICES ASSUME s # << >>, m # 0 PROVE r # << >> /\ r[Len(r)] = s[Len(s)]
    OBVIOUS
  <2>1. Len(s) # 0 /\ Len(r) # 0
    BY <1>1
  <2>2. Len(r) \in 1..Len(r) /\ Len(s) - Len(r) + Len(r) = Len(s)
    BY <1>2, <2>1
  <2> QED BY <1>1, <2>1, <2>2
<1> QED BY <1>3, <1>4, <1>5, <1>6 DEF r

\* The last row of a file is its latest.
LEMMA LastIsLatest ==
  ASSUME NEW s \in Seq(Bars), Sorted(s), s # << >>
  PROVE  Len(s) \in DOMAIN s /\ \A t \in Times(s) : t <= s[Len(s)].t
<1>1. Len(s) \in DOMAIN s
  OBVIOUS
<1>2. ASSUME NEW p \in DOMAIN s PROVE s[p].t <= s[Len(s)].t
  <2>1. p < Len(s) \/ p = Len(s)
    OBVIOUS
  <2>2. s[Len(s)].t \in Int
    BY <1>1, RowIs
  <2> QED BY <1>1, <2>1, <2>2 DEF Sorted
<1> QED BY <1>1, <1>2 DEF Times

-----------------------------------------------------------------------------
LEMMA RealIs == \A x \in Int : Real(x) \in Bars /\ Real(x).t = x
BY DEF Real, Bars

\* A sequence of rows given index by index.
LEMMA FromInterval ==
  ASSUME NEW S, NEW m \in Int, NEW f \in [1..m -> S]
  PROVE  f \in Seq(S) /\ DOMAIN f = 1..m
<1>1. CASE m \in Nat
  BY <1>1
<1>2. CASE m < 0
  <2>1. 1..m = 1..0
    BY <1>2
  <2> QED BY <2>1
<1> QED BY <1>1, <1>2

\* Padding ends at the present period.
LEMMA SyntheticBy ==
  ASSUME NEW n \in Int, now \in Int
  PROVE  By(SyntheticBars(n), now)
<1> DEFINE f == SyntheticBars(n)
<1> DEFINE b(p) == [t |-> now - n + p, made_up |-> TRUE]
<1>1. f = [p \in 1..n |-> b(p)]
  BY DEF SyntheticBars
<1>2. \A p \in 1..n : b(p) \in Bars /\ b(p).t <= now
  <2>1. \A p \in 1..n : now - n + p \in Int /\ now - n + p <= now
    OBVIOUS
  <2> QED BY <2>1 DEF Bars
<1> HIDE DEF f, b
<1>3. f \in [1..n -> Bars] /\ \A p \in 1..n : f[p].t <= now
  BY <1>1, <1>2
<1>4. f \in Seq(Bars) /\ DOMAIN f = 1..n
  BY <1>3, FromInterval
<1> QED BY <1>3, <1>4 DEF By, f

\* What the bridge holds.
Held ==
  /\ now \in 1..LAST_PERIOD
  /\ By(bars, now) /\ Len(bars) <= MAX_BARS
  /\ open = None \/ (open \in Bars /\ open.t <= now)

\* One more row, no later than n.
LEMMA AppendedBy ==
  ASSUME NEW s, NEW b \in Bars, NEW n, By(s, n), b.t <= n
  PROVE  By(Append(s, b), n)
<1>1. s \in Seq(Bars) /\ Append(s, b) \in Seq(Bars)
  BY DEF By
<1>2. \A p \in DOMAIN Append(s, b) : (p \in DOMAIN s /\ Append(s, b)[p] = s[p]) \/ Append(s, b)[p] = b
  BY <1>1
<1> QED BY <1>1, <1>2 DEF By

\* GET /history answers with no row of the future.
LEMMA HistoryBy ==
  ASSUME Held, NEW n \in Nat
  PROVE  By(GetHistory(n), now)
<1>1. By(Available, now)
  BY AppendedBy DEF Held, Available
<1>2. Len(Available) \in Nat /\ now \in Int
  BY <1>1 DEF Held, By
<1>3. CASE Len(Available) >= n
  BY <1>1, <1>3, LatestBy DEF GetHistory
<1>4. CASE ~(Len(Available) >= n)
  <2>1. n - Len(Available) \in Int
    BY <1>2
  <2>2. By(SyntheticBars(n - Len(Available)), now)
    BY <1>2, <2>1, SyntheticBy
  <2>3. GetHistory(n) = SyntheticBars(n - Len(Available)) \o Available
    BY <1>4 DEF GetHistory
  <2> QED BY <1>1, <2>2, <2>3, Joined
<1> QED BY <1>3, <1>4

\* Nor do the fetcher and the backfill get one; and what they write is sorted.
LEMMA FetchedBy ==
  ASSUME Held
  PROVE  /\ By(FetchWithSource, now) /\ Sorted(FetchWithSource)
         /\ By(ClientFetch, now)
<1>1. WANTED \in Nat
  BY StoreConstants
<1> DEFINE s == GetHistory(WANTED)
<1>2. By(s, now)
  BY <1>1, HistoryBy
<1>3. FetchWithSource = InOrder(s, DOMAIN s) /\ ClientFetch = CoerceSchema(s)
  BY DEF FetchWithSource, ClientFetch
<1> HIDE DEF s
<1>4. s \in Seq(Bars)
  BY <1>2 DEF By
<1>5. /\ InOrder(s, DOMAIN s) \in Seq(Bars) /\ Sorted(InOrder(s, DOMAIN s))
      /\ Times(InOrder(s, DOMAIN s)) = {s[p].t : p \in DOMAIN s}
  BY <1>4, Ordered
<1>6. Times(InOrder(s, DOMAIN s)) = Times(s)
  BY <1>5 DEF Times
<1>7. By(InOrder(s, DOMAIN s), now)
  BY <1>2, <1>4, <1>5, <1>6, ByTimes
<1> QED BY <1>2, <1>3, <1>5, <1>7, CoercedBy

\* Nor does the EA post one.
LEMMA ChunksBy ==
  ASSUME now \in Int
  PROVE  HistoryChunks \in Seq(Seq(Bars)) /\ \A k \in DOMAIN HistoryChunks : By(HistoryChunks[k], now)
<1> DEFINE left(k) == WANTED - (k - 1) * CHUNK
           size(k) == IF left(k) < CHUNK THEN left(k) ELSE CHUNK
           chunk(k) == [p \in 1..size(k) |-> Real(now - left(k) + p)]
           n == (WANTED + CHUNK - 1) \div CHUNK
<1>1. WANTED \in Nat /\ CHUNK \in Nat /\ CHUNK # 0
  BY StoreConstants
<1>2. n \in Int
  BY <1>1
<1>3. HistoryChunks = [k \in 1..n |-> chunk(k)]
  BY DEF HistoryChunks
<1>4. ASSUME NEW k \in 1..n PROVE chunk(k) \in Seq(Bars) /\ By(chunk(k), now)
  <2>1. k \in Int /\ (k - 1) * CHUNK \in Int
    BY <1>1
  <2>2. left(k) \in Int /\ size(k) \in Int /\ size(k) <= left(k)
    BY <1>1, <2>1
  <2> HIDE DEF left, size
  <2>3. \A p \in 1..size(k) : Real(now - left(k) + p) \in Bars /\ Real(now - left(k) + p).t <= now
    <3>1. \A p \in 1..size(k) : now - left(k) + p \in Int /\ now - left(k) + p <= now
      BY <2>2
    <3> QED BY <3>1, RealIs
  <2>4. chunk(k) \in [1..size(k) -> Bars]
    BY <2>3
  <2>5. chunk(k) \in Seq(Bars) /\ DOMAIN chunk(k) = 1..size(k)
    BY <2>2, <2>4, FromInterval
  <2> QED BY <2>3, <2>5 DEF By
<1> HIDE DEF n, chunk
<1>5. HistoryChunks \in [1..n -> Seq(Bars)] /\ \A k \in 1..n : HistoryChunks[k] = chunk(k)
  BY <1>3, <1>4
<1>6. HistoryChunks \in Seq(Seq(Bars)) /\ DOMAIN HistoryChunks = 1..n
  BY <1>2, <1>5, FromInterval
<1> QED BY <1>4, <1>5, <1>6

-----------------------------------------------------------------------------
Stages == {"idle", "snapshot", "guard", "fetch", "create", "writing", "replace"}

\* The newest period seen is that of the last bar; or of the bar before it, when an older one
\* was sealed after a batch, and then the bar under way is as new.
Newest ==
  seen = {} \/ /\ bars # << >>
               /\ \/ \A t \in seen : t <= bars[Len(bars)].t
                  \/ /\ Len(bars) > 1 /\ open \in Bars
                     /\ \A t \in seen : t <= bars[Len(bars) - 1].t /\ t <= open.t

\* The bridge's memory: nothing in it is of the future.
Buffered ==
  /\ Held /\ up \in BOOLEAN /\ dirty \in BOOLEAN
  /\ chunks \in Seq(Seq(Bars)) /\ \A k \in DOMAIN chunks : By(chunks[k], now)
  /\ \A t \in seen : t \in Int /\ t <= now
  /\ Newest

\* The files and their writers: what is in a file or about to be written is sorted by time.
Filed ==
  /\ Stored(file, now) /\ Stored(tmp, now)
  /\ pc \in [Writers -> Stages] /\ target \in [Writers -> {"tmp", "file", "gone"}]
  /\ DOMAIN rows = Writers /\ rows = [w \in Writers |-> rows[w]]
  /\ \A w \in Writers : By(rows[w], now) /\ (pc[w] \in {"create", "writing"} => Sorted(rows[w]))

\* The invariant holds before the bridge is started.
LEMMA StoreStart == StoreInit => Buffered /\ Filed
<1> SUFFICES ASSUME StoreInit PROVE Buffered /\ Filed
  OBVIOUS
<1>1. /\ now = 1 /\ up = FALSE /\ bars = << >> /\ open = None /\ dirty = FALSE /\ seen = {}
      /\ chunks = << >> /\ file = None /\ tmp = None
      /\ pc = [w \in Writers |-> "idle"] /\ rows = [w \in Writers |-> << >>]
      /\ target = [w \in Writers |-> "gone"]
  BY DEF StoreInit
<1>2. 1 \in 1..LAST_PERIOD /\ MAX_BARS \in Nat
  BY StoreConstants
<1>3. << >> \in Seq(Bars) /\ Len(<< >>) = 0 /\ DOMAIN << >> = {} /\ << >> \in Seq(Seq(Bars))
  OBVIOUS
<1>4. By(<< >>, now)
  BY <1>3 DEF By
<1>5. Buffered
  <2>1. Held
    BY <1>1, <1>2, <1>3, <1>4 DEF Held
  <2>2. chunks \in Seq(Seq(Bars)) /\ DOMAIN chunks = {}
    BY <1>1
  <2> QED BY <1>1, <2>1, <2>2 DEF Buffered, Newest
<1>6. Filed
  BY <1>1, <1>4 DEF Filed, Stored, Stages
<1> QED BY <1>5, <1>6

\* A step of a writer does not touch the bridge's memory.
LEMMA BufferStill ==
  ASSUME Buffered, UNCHANGED <<now, bars, open, up, dirty, seen>>,
         chunks' = chunks \/ (chunks # << >> /\ chunks' = Tail(chunks))
  PROVE  Buffered'
<1>1. Held' /\ Newest'
  BY DEF Buffered, Held, Newest
<1>2. chunks' \in Seq(Seq(Bars)) /\ \A k \in DOMAIN chunks' : By(chunks'[k], now)
  <2>1. CASE chunks' = chunks
    BY <2>1 DEF Buffered
  <2>2. CASE chunks # << >> /\ chunks' = Tail(chunks)
    <3>1. chunks \in Seq(Seq(Bars))
      BY DEF Buffered
    <3>2. /\ chunks' \in Seq(Seq(Bars))
          /\ \A k \in DOMAIN chunks' : k + 1 \in DOMAIN chunks /\ chunks'[k] = chunks[k + 1]
      BY <2>2, <3>1
    <3> QED BY <3>2 DEF Buffered
  <2> QED BY <2>1, <2>2
<1> QED BY <1>1, <1>2 DEF Buffered

\* A step of the bridge's memory does not touch files and writers.
LEMMA FilesStill ==
  ASSUME Filed, UNCHANGED <<now, file, tmp, rows, target>>, NEW w \in Writers,
         NEW where \in Stages \ {"create", "writing"},
         pc' = pc \/ pc' = [pc EXCEPT ![w] = where]
  PROVE  Filed'
<1>1. Stored(file', now') /\ Stored(tmp', now')
  BY DEF Filed
<1>2. pc' \in [Writers -> Stages] /\ \A v \in Writers : pc'[v] = pc[v] \/ pc'[v] = where
  BY DEF Filed
<1> QED BY <1>1, <1>2 DEF Filed

\* A writer that is done or has given up.
LEMMA Left ==
  ASSUME Filed, NEW w \in Writers, Leave(w), now' = now,
         Stored(file', now), Stored(tmp', now)
  PROVE  Filed'
<1>1. << >> \in Seq(Bars) /\ By(<< >>, now)
  BY DEF By
<1>2. /\ pc' = [pc EXCEPT ![w] = "idle"] /\ rows' = [rows EXCEPT ![w] = << >>]
      /\ target' = [target EXCEPT ![w] = "gone"]
  BY DEF Leave, Goto
<1>3. /\ pc' \in [Writers -> Stages] /\ target' \in [Writers -> {"tmp", "file", "gone"}]
      /\ DOMAIN rows' = Writers /\ rows' = [v \in Writers |-> rows'[v]]
  BY <1>2 DEF Filed, Stages
<1>4. \A v \in Writers : IF v = w THEN rows'[v] = << >> /\ pc'[v] = "idle"
                                 ELSE rows'[v] = rows[v] /\ pc'[v] = pc[v]
  BY <1>2 DEF Filed
<1>5. \A v \in Writers : By(rows'[v], now) /\ (pc'[v] \in {"create", "writing"} => Sorted(rows'[v]))
  BY <1>1, <1>4 DEF Filed
<1> QED BY <1>3, <1>5 DEF Filed

\* A writer gets rows and goes on.
LEMMA Given ==
  ASSUME Filed, NEW w \in Writers, NEW s, By(s, now), NEW where \in Stages,
         where \in {"create", "writing"} => Sorted(s),
         pc' = [pc EXCEPT ![w] = where], rows' = [rows EXCEPT ![w] = s],
         UNCHANGED <<now, file, tmp, target>>
  PROVE  Filed'
<1>1. pc' \in [Writers -> Stages] /\ DOMAIN rows' = Writers /\ rows' = [v \in Writers |-> rows'[v]]
  BY DEF Filed
<1>2. \A v \in Writers : IF v = w THEN rows'[v] = s /\ pc'[v] = where
                                 ELSE rows'[v] = rows[v] /\ pc'[v] = pc[v]
  BY DEF Filed
<1>3. \A v \in Writers : By(rows'[v], now) /\ (pc'[v] \in {"create", "writing"} => Sorted(rows'[v]))
  BY <1>2 DEF Filed
<1> QED BY <1>1, <1>3 DEF Filed

StoreInv == Buffered /\ Filed

\* One lemma for each step.
LEMMA ClockKeeps == ASSUME StoreInv, Clock PROVE StoreInv'
<1>1. /\ now \in Int /\ now' \in Int /\ now <= now' /\ now' \in 1..LAST_PERIOD
      /\ UNCHANGED <<up, bars, open, dirty, seen, chunks, file, tmp, pc, rows, target>>
  BY StoreConstants DEF Clock, bridge, disk, writers, StoreInv, Buffered, Held
<1>2. \A s : By(s, now) => By(s, now')
  BY <1>1, Later
<1>3. open' = None \/ (open' \in Bars /\ open'.t <= now')
  <2>1. open = None \/ (open \in Bars /\ open.t <= now)
    BY DEF StoreInv, Buffered, Held
  <2>2. open \in Bars => open.t \in Int
    BY DEF Bars
  <2> QED BY <1>1, <2>1, <2>2
<1>4. Held'
  BY <1>1, <1>2, <1>3 DEF StoreInv, Buffered, Held
<1>5. Buffered'
  BY <1>1, <1>2, <1>4 DEF StoreInv, Buffered, Newest
<1>6. Filed'
  BY <1>1, <1>2 DEF StoreInv, Filed, Stored
<1> QED BY <1>5, <1>6 DEF StoreInv

LEMMA StartBridgeKeeps == ASSUME StoreInv, StartBridge PROVE StoreInv'
<1>1. /\ up' = TRUE /\ seen' = Times(bars')
      /\ bars' = (IF Readable THEN Latest(file, MAX_BARS) ELSE << >>)
      /\ UNCHANGED <<now, open, dirty, chunks, file, tmp, pc, rows, target>>
  BY DEF StartBridge, disk, writers
<1>2. MAX_BARS \in Nat /\ MAX_BARS # 0
  BY StoreConstants
<1>3. By(bars', now) /\ Len(bars') <= MAX_BARS /\ Sorted(bars')
  <2>1. CASE Readable
    <3>1. By(file, now) /\ Sorted(file)
      BY <2>1 DEF Readable, StoreInv, Filed, Stored
    <3> QED BY <1>1, <1>2, <2>1, <3>1, LatestBy
  <2>2. CASE ~Readable
    BY <1>1, <1>2, <2>2 DEF By, Sorted
  <2> QED BY <2>1, <2>2
<1>4. bars' \in Seq(Bars)
  BY <1>3 DEF By
<1>5. \A t \in seen' : t \in Int /\ t <= now
  <2>1. \A t \in Times(bars') : t \in Int
    BY <1>4, RowIs DEF Times
  <2> QED BY <1>1, <1>3, <1>4, <2>1, ByTimes
<1>6. Newest'
  <2>1. bars' = << >> => seen' = {}
    BY <1>1 DEF Times
  <2>2. bars' # << >> => \A t \in seen' : t <= bars'[Len(bars')].t
    BY <1>1, <1>3, <1>4, LastIsLatest
  <2> QED BY <2>1, <2>2 DEF Newest
<1>7. Buffered'
  BY <1>1, <1>3, <1>5, <1>6 DEF StoreInv, Buffered, Held
<1>8. Filed'
  BY <1>1 DEF StoreInv, Filed
<1> QED BY <1>7, <1>8 DEF StoreInv

\* A bar sealed by the tick of a newer period becomes the last one, and the newest period seen
\* is that of the one before or its own.
LEMMA TickKeepsBars == ASSUME StoreInv, Tick PROVE StoreInv'
<1>1. /\ open' = Real(now)
      /\ IF open = None THEN UNCHANGED <<bars, dirty, seen>>
         ELSE bars' = Appended(open) /\ dirty' = TRUE /\ seen' = seen \cup {open.t}
      /\ UNCHANGED <<now, up, chunks, file, tmp, pc, rows, target>>
  BY DEF Tick, disk, writers
<1>2. now \in Int /\ open' \in Bars /\ open'.t = now
  BY <1>1, RealIs DEF StoreInv, Buffered, Held
<1>3. Filed'
  BY <1>1 DEF StoreInv, Filed
<1>4. CASE open = None
  <2>1. Newest'
    <3>1. bars' = bars /\ seen' = seen
      BY <1>1, <1>4
    <3>2. Newest /\ \A t \in seen : t <= now
      BY DEF StoreInv, Buffered
    <3> QED BY <1>2, <3>1, <3>2 DEF Newest
  <2>2. open' = None \/ (open' \in Bars /\ open'.t <= now')
    BY <1>1, <1>2
  <2>3. Held' /\ Buffered'
    BY <1>1, <1>4, <2>1, <2>2 DEF StoreInv, Buffered, Held
  <2> QED BY <1>3, <2>3 DEF StoreInv
<1>5. CASE open # None
  <2>1. open \in Bars /\ open.t <= now /\ open.t \in Int /\ By(bars, now)
    <3>1. open \in Bars /\ open.t <= now /\ By(bars, now)
      BY <1>5 DEF StoreInv, Buffered, Held
    <3> QED BY <3>1 DEF Bars
  <2> DEFINE s == Append(bars, open)
             r == Latest(s, MAX_BARS)
  <2>2. bars \in Seq(Bars) /\ s \in Seq(Bars) /\ Len(s) = Len(bars) + 1 /\ s[Len(s)] = open
        /\ Len(bars) \in Nat
    BY <2>1 DEF By
  <2>3. bars # << >> => s[Len(s) - 1] = bars[Len(bars)]
    BY <2>1, <2>2
  <2>4. By(s, now)
    BY <2>1, AppendedBy
  <2>5. bars' = r
    BY <1>1, <1>5 DEF Appended
  <2>6. MAX_BARS \in Nat /\ MAX_BARS > 1
    BY StoreConstants
  <2> HIDE DEF s
  <2>7. By(r, now) /\ Len(r) <= MAX_BARS
    BY <2>4, <2>6, LatestBy
  <2>8. /\ Len(r) = (IF MAX_BARS < Len(s) THEN MAX_BARS ELSE Len(s)) /\ r \in Seq(Bars)
        /\ \A p \in 1..Len(r) : r[p] = s[Len(s) - Len(r) + p]
    BY <2>2, <2>6, LatestIs
  <2> HIDE DEF r
  <2>9. Len(r) \in Nat /\ Len(r) # 0 /\ r[Len(r)] = open
    <3>1. Len(r) \in Nat /\ Len(r) # 0
      BY <2>2, <2>6, <2>8
    <3>2. Len(r) \in 1..Len(r) /\ Len(s) - Len(r) + Len(r) = Len(s)
      BY <2>2, <3>1
    <3>3. r[Len(r)] = s[Len(s) - Len(r) + Len(r)]
      BY <2>8, <3>2
    <3> QED BY <2>2, <3>1, <3>2, <3>3
  <2>10. bars # << >> => Len(r) > 1 /\ r[Len(r) - 1] = bars[Len(bars)]
    <3> SUFFICES ASSUME bars # << >> PROVE Len(r) > 1 /\ r[Len(r) - 1] = bars[Len(bars)]
      OBVIOUS
    <3>1. Len(bars) # 0
      BY <2>2
    <3>2. Len(r) > 1 /\ Len(r) - 1 \in 1..Len(r) /\ Len(s) - Len(r) + (Len(r) - 1) = Len(s) - 1
      BY <2>2, <2>6, <2>8, <3>1
    <3> QED BY <2>3, <2>8, <3>2
  <2>11. seen' = seen \cup {open.t} /\ \A t \in seen : t \in Int /\ t <= now
    BY <1>1, <1>5 DEF StoreInv, Buffered
  <2>12. Newest'
    <3>1. bars' # << >>
      BY <2>5, <2>8, <2>9
    <3>2. Newest
      BY DEF StoreInv, Buffered
    <3>3. CASE seen = {} \/ \A t \in seen : t <= open.t
      BY <2>1, <2>5, <2>9, <2>11, <3>1, <3>3 DEF Newest
    <3>4. CASE bars # << >> /\ \A t \in seen : t <= bars[Len(bars)].t
      <4>1. bars[Len(bars)].t \in Int
        BY <2>2, <3>4, RowIs
      <4>2. CASE open.t <= bars[Len(bars)].t
        <5>1. \A t \in seen' : t <= bars'[Len(bars') - 1].t
          BY <2>5, <2>10, <2>11, <3>4, <4>2
        <5>2. \A t \in seen' : t <= open'.t
          BY <1>2, <2>1, <2>11
        <5> QED BY <1>2, <2>5, <2>10, <3>1, <3>4, <5>1, <5>2 DEF Newest
      <4>3. CASE ~(open.t <= bars[Len(bars)].t)
        <5>1. \A t \in seen : t <= open.t
          BY <2>1, <2>11, <3>4, <4>1, <4>3
        <5> QED BY <2>1, <2>5, <2>9, <2>11, <3>1, <5>1 DEF Newest
      <4> QED BY <4>2, <4>3
    <3> QED BY <3>2, <3>3, <3>4 DEF Newest
  <2>13. Held'
    BY <1>1, <1>2, <2>5, <2>7 DEF StoreInv, Buffered, Held
  <2>14. Buffered'
    BY <1>1, <1>5, <2>1, <2>11, <2>12, <2>13 DEF StoreInv, Buffered
  <2> QED BY <1>3, <2>14 DEF StoreInv
<1> QED BY <1>4, <1>5

LEMMA EnsureBarsKeeps == ASSUME StoreInv, EnsureBars PROVE StoreInv'
<1>1. chunks' = HistoryChunks /\ UNCHANGED <<now, up, bars, open, dirty, seen, file, tmp, pc, rows, target>>
  BY DEF EnsureBars, bridge, disk, writers
<1>2. now \in Int
  BY DEF StoreInv, Buffered, Held
<1>3. chunks' \in Seq(Seq(Bars)) /\ \A k \in DOMAIN chunks' : By(chunks'[k], now)
  BY <1>1, <1>2, ChunksBy
<1>4. Held' /\ Newest'
  BY <1>1 DEF StoreInv, Buffered, Held, Newest
<1>5. Buffered'
  BY <1>1, <1>3, <1>4 DEF StoreInv, Buffered
<1>6. Filed'
  BY <1>1 DEF StoreInv, Filed
<1> QED BY <1>5, <1>6 DEF StoreInv

\* A batch is sorted in: the last bar is the newest of the old ones and those of the chunk.
LEMMA PushKeeps == ASSUME StoreInv, PushHistoryBatch PROVE StoreInv'
<1>1. /\ chunks # << >> /\ chunks' = Tail(chunks)
      /\ bars' = Latest(Merged(bars, Head(chunks)), MAX_BARS)
      /\ seen' = seen \cup Times(Head(chunks))
      /\ pc' = [pc EXCEPT !["batch"] = "snapshot"]
      /\ UNCHANGED <<now, up, open, dirty, file, tmp, rows, target>>
  BY DEF PushHistoryBatch, disk, Goto
<1> PICK c : c = Head(chunks)
  OBVIOUS
<1> PICK merged : merged = Merged(bars, c)
  OBVIOUS
<1>2. By(c, now) /\ By(bars, now) /\ bars \in Seq(Bars) /\ c \in Seq(Bars) /\ now \in Int
  <2>1. chunks \in Seq(Seq(Bars)) /\ \A k \in DOMAIN chunks : By(chunks[k], now)
    BY DEF StoreInv, Buffered
  <2>2. 1 \in DOMAIN chunks /\ c = chunks[1]
    BY <1>1, <2>1
  <2> QED BY <2>1, <2>2 DEF StoreInv, Buffered, Held, By
<1>3. By(bars \o c, now) /\ Times(bars \o c) = Times(c) \cup Times(bars)
  <2>1. By(c, now) /\ By(bars, now)
    BY <1>2
  <2>2. By(bars \o c, now) /\ Times(bars \o c) = Times(bars) \cup Times(c)
    BY <2>1, Joined
  <2> QED BY <2>2
<1>4. By(merged, now) /\ Sorted(merged) /\ merged \in Seq(Bars) /\ Times(merged) = Times(c) \cup Times(bars)
  <2>1. /\ merged \in Seq(Bars) /\ Sorted(merged) /\ Times(merged) = Times(bars \o c)
    BY <1>2, MergedRows
  <2>2. \A t \in Times(bars \o c) : t <= now
    <3>1. By(bars \o c, now) /\ bars \o c \in Seq(Bars)
      BY <1>3 DEF By
    <3> QED BY <3>1, ByTimes
  <2>3. By(merged, now)
    BY <2>1, <2>2, ByTimes
  <2> QED BY <1>3, <2>1, <2>3
<1>5. bars' = Latest(merged, MAX_BARS) /\ MAX_BARS \in Nat /\ MAX_BARS # 0
  BY <1>1, StoreConstants
<1>6. /\ By(bars', now) /\ Len(bars') <= MAX_BARS
      /\ merged # << >> => bars' # << >> /\ bars'[Len(bars')] = merged[Len(merged)]
  BY <1>4, <1>5, LatestBy
<1>7. \A t \in seen' : t \in Int /\ t <= now
  <2>1. \A t \in Times(c) : t \in Int /\ t <= now
    BY <1>2, RowIs, ByTimes DEF Times
  <2> QED BY <1>1, <2>1 DEF StoreInv, Buffered
<1>8. Newest'
  <2> SUFFICES ASSUME seen' # {}
               PROVE  bars' # << >> /\ \A t \in seen' : t <= bars'[Len(bars')].t
    BY DEF Newest
  <2>1. \A t \in seen : \E b \in Times(bars) : t <= b
    <3> SUFFICES ASSUME NEW t \in seen PROVE \E b \in Times(bars) : t <= b
      OBVIOUS
    <3>1. bars # << >> /\ Len(bars) \in DOMAIN bars /\ Len(bars) \in Nat
      BY <1>2 DEF StoreInv, Buffered, Newest
    <3>2. \/ t <= bars[Len(bars)].t
          \/ Len(bars) - 1 \in DOMAIN bars /\ t <= bars[Len(bars) - 1].t
      BY <1>2, <3>1 DEF StoreInv, Buffered, Newest
    <3> QED BY <3>1, <3>2 DEF Times
  <2>2. seen' = seen \cup Times(c)
    BY <1>1
  <2>3. \A t \in seen' : \E b \in Times(merged) : t <= b
    <3>1. \A t \in Times(c) : t <= t
      BY <1>2, RowIs DEF Times
    <3> QED BY <1>4, <2>1, <2>2, <3>1
  <2>4. merged # << >>
    <3>1. Times(merged) # {}
      BY <2>3
    <3> QED BY <3>1 DEF Times
  <2>5. Len(merged) \in DOMAIN merged /\ \A b \in Times(merged) : b <= merged[Len(merged)].t
    BY <1>4, <2>4, LastIsLatest
  <2>6. merged[Len(merged)].t \in Int /\ \A b \in Times(merged) : b \in Int
    BY <1>4, <2>5, RowIs DEF Times
  <2>7. ASSUME NEW t \in seen' PROVE t <= merged[Len(merged)].t
    <3>1. PICK b \in Times(merged) : t <= b
      BY <2>3
    <3> QED BY <1>7, <2>5, <2>6, <3>1
  <2> QED BY <1>6, <2>4, <2>7
<1>9. Held'
  BY <1>1, <1>6 DEF StoreInv, Buffered, Held
<1>10. chunks' \in Seq(Seq(Bars)) /\ \A k \in DOMAIN chunks' : By(chunks'[k], now)
  <2>1. chunks \in Seq(Seq(Bars)) /\ \A k \in DOMAIN chunks : By(chunks[k], now)
    BY DEF StoreInv, Buffered
  <2>2. /\ chunks' \in Seq(Seq(Bars))
        /\ \A k \in DOMAIN chunks' : k + 1 \in DOMAIN chunks /\ chunks'[k] = chunks[k + 1]
    BY <1>1, <2>1
  <2> QED BY <2>1, <2>2
<1>11. Buffered'
  BY <1>1, <1>7, <1>8, <1>9, <1>10 DEF StoreInv, Buffered
<1>12. Filed'
  BY <1>1, FilesStill DEF StoreInv, Writers, Flushers, Stages
<1> QED BY <1>11, <1>12 DEF StoreInv

LEMMA PostFailsKeeps == ASSUME StoreInv, PostFails PROVE StoreInv'
<1>1. /\ chunks # << >> /\ chunks' = Tail(chunks)
      /\ UNCHANGED <<now, up, bars, open, dirty, seen, file, tmp, pc, rows, target>>
  BY DEF PostFails, bridge, disk, writers
<1>2. Filed'
  BY <1>1 DEF StoreInv, Filed
<1> QED BY <1>1, <1>2, BufferStill DEF StoreInv

LEMMA WorkerWakesKeeps == ASSUME StoreInv, WorkerWakes PROVE StoreInv'
<1>1. /\ dirty' = FALSE /\ pc' = [pc EXCEPT !["worker"] = "snapshot"]
      /\ UNCHANGED <<now, up, bars, open, chunks, seen, file, tmp, rows, target>>
  BY DEF WorkerWakes, Goto, disk
<1>2. Held' /\ Newest'
  BY <1>1 DEF StoreInv, Buffered, Held, Newest
<1>3. Buffered'
  BY <1>1, <1>2 DEF StoreInv, Buffered
<1>4. Filed'
  BY <1>1, FilesStill DEF StoreInv, Writers, Flushers, Stages
<1> QED BY <1>3, <1>4 DEF StoreInv

LEMMA CrashBridgeKeeps == ASSUME StoreInv, CrashBridge PROVE StoreInv'
<1>1. /\ up' = FALSE /\ bars' = << >> /\ open' = None /\ dirty' = FALSE /\ seen' = {}
      /\ pc' = [w \in Writers |-> IF w \in Flushers THEN "idle" ELSE pc[w]]
      /\ rows' = [w \in Writers |-> IF w \in Flushers THEN << >> ELSE rows[w]]
      /\ target' = [w \in Writers |-> IF w \in Flushers THEN "gone" ELSE target[w]]
      /\ UNCHANGED <<now, chunks, file, tmp>>
  BY DEF CrashBridge, disk
<1>2. << >> \in Seq(Bars) /\ By(<< >>, now) /\ Len(<< >>) <= MAX_BARS
  BY StoreConstants DEF By
<1>3. Held'
  BY <1>1, <1>2 DEF StoreInv, Buffered, Held
<1>4. Buffered'
  BY <1>1, <1>3 DEF StoreInv, Buffered, Newest
<1>5. pc' \in [Writers -> Stages] /\ target' \in [Writers -> {"tmp", "file", "gone"}]
  BY <1>1 DEF StoreInv, Filed, Stages
<1>6. DOMAIN rows' = Writers /\ rows' = [w \in Writers |-> rows'[w]]
  BY <1>1
<1>7. \A w \in Writers : By(rows'[w], now) /\ (pc'[w] \in {"create", "writing"} => Sorted(rows'[w]))
  BY <1>1, <1>2 DEF StoreInv, Filed
<1>8. Filed'
  BY <1>1, <1>5, <1>6, <1>7 DEF StoreInv, Filed
<1> QED BY <1>4, <1>8 DEF StoreInv

-----------------------------------------------------------------------------
\* A step of a writer, whatever it does to the files.
LEMMA BridgeStill ==
  ASSUME StoreInv, UNCHANGED <<now, up, bars, open, dirty, seen, chunks>>, Filed'
  PROVE  StoreInv'
BY BufferStill DEF StoreInv

LEMMA SnapshotKeeps == ASSUME StoreInv, NEW w \in Writers, Snapshot(w) PROVE StoreInv'
<1>1. UNCHANGED <<now, up, bars, open, dirty, seen, chunks, file, tmp>>
  BY DEF Snapshot, bridge, disk
<1>2. Filed /\ By(bars, now)
  BY DEF StoreInv, Buffered, Held
<1>3. CASE bars = << >>
  <2>1. Leave(w)
    BY <1>3 DEF Snapshot
  <2>2. Filed'
    BY <1>1, <1>2, <2>1, Left DEF Filed
  <2> QED BY <1>1, <2>2, BridgeStill
<1>4. CASE bars # << >>
  <2>1. rows' = [rows EXCEPT ![w] = bars] /\ pc' = [pc EXCEPT ![w] = "guard"] /\ target' = target
    BY <1>4 DEF Snapshot, Goto
  <2>2. Filed'
    BY <1>1, <1>2, <2>1, Given DEF Stages
  <2> QED BY <1>1, <2>2, BridgeStill
<1> QED BY <1>3, <1>4

LEMMA GuardKeeps == ASSUME StoreInv, NEW w \in Writers, Guard(w) PROVE StoreInv'
<1>1. UNCHANGED <<now, up, bars, open, dirty, seen, chunks, file, tmp>>
  BY DEF Guard, bridge, disk
<1>2. Filed
  BY DEF StoreInv
<1>3. CASE Leave(w)
  <2>1. Filed'
    BY <1>1, <1>2, <1>3, Left DEF Filed
  <2> QED BY <1>1, <2>1, BridgeStill
<1>4. CASE ~Leave(w)
  <2>1. /\ rows' = [rows EXCEPT ![w] = CoerceSchema(rows[w])] /\ pc' = [pc EXCEPT ![w] = "create"]
        /\ target' = target
    BY <1>4 DEF Guard, Goto
  <2>2. By(CoerceSchema(rows[w]), now) /\ Sorted(CoerceSchema(rows[w]))
    BY <1>2, CoercedBy DEF Filed
  <2>3. Filed'
    BY <1>1, <1>2, <2>1, <2>2, Given DEF Stages
  <2> QED BY <1>1, <2>3, BridgeStill
<1> QED BY <1>3, <1>4

LEMMA CreateKeeps == ASSUME StoreInv, NEW w \in Writers, Create(w) PROVE StoreInv'
<1>1. /\ pc[w] = "create" /\ pc' = [pc EXCEPT ![w] = "writing"]
      /\ UNCHANGED <<now, up, bars, open, dirty, seen, chunks, rows>>
      /\ file' \in {file, Torn} /\ tmp' \in {tmp, Torn}
      /\ \E name \in {"tmp", "file"} : target' = [target EXCEPT ![w] = name]
  BY DEF Create, Goto, bridge
<1>2. Stored(file', now) /\ Stored(tmp', now)
  BY <1>1 DEF StoreInv, Filed, Stored
<1>3. pc' \in [Writers -> Stages] /\ target' \in [Writers -> {"tmp", "file", "gone"}]
  BY <1>1 DEF StoreInv, Filed, Stages
<1>4. \A v \in Writers : pc'[v] \in {"create", "writing"} => pc[v] \in {"create", "writing"}
  BY <1>1 DEF StoreInv, Filed
<1>5. Filed'
  BY <1>1, <1>2, <1>3, <1>4 DEF StoreInv, Filed
<1> QED BY <1>1, <1>5, BridgeStill

LEMMA WrittenKeeps == ASSUME StoreInv, NEW w \in Writers, Written(w) PROVE StoreInv'
<1>1. pc[w] = "writing" /\ UNCHANGED <<now, up, bars, open, dirty, seen, chunks>>
  BY DEF Written, bridge
<1>2. file' \in {file, rows[w], Torn} /\ tmp' \in {tmp, rows[w], Torn}
  BY DEF Written
<1>3. By(rows[w], now) /\ Sorted(rows[w])
  BY <1>1 DEF StoreInv, Filed
<1>4. Stored(file', now) /\ Stored(tmp', now)
  BY <1>2, <1>3 DEF StoreInv, Filed, Stored
<1>5. CASE Leave(w)
  <2>1. Filed'
    BY <1>1, <1>4, <1>5, Left DEF StoreInv
  <2> QED BY <1>1, <2>1, BridgeStill
<1>6. CASE ~Leave(w)
  <2>1. pc' = [pc EXCEPT ![w] = "replace"] /\ UNCHANGED <<rows, target>>
    BY <1>6 DEF Written, Goto
  <2>2. /\ pc' \in [Writers -> Stages]
        /\ \A v \in Writers : pc'[v] \in {"create", "writing"} => pc[v] \in {"create", "writing"}
    BY <2>1 DEF StoreInv, Filed, Stages
  <2>3. Filed'
    BY <1>1, <1>4, <2>1, <2>2 DEF StoreInv, Filed
  <2> QED BY <1>1, <2>3, BridgeStill
<1> QED BY <1>5, <1>6

LEMMA ReplaceKeeps == ASSUME StoreInv, NEW w \in Writers, Replace(w) PROVE StoreInv'
<1>1. /\ pc' = [pc EXCEPT ![w] = "idle"] /\ rows' = [rows EXCEPT ![w] = << >>]
      /\ UNCHANGED <<now, up, bars, open, dirty, seen, chunks>>
  BY DEF Replace, bridge
<1>2. Stored(file', now) /\ Stored(tmp', now)
  BY DEF Replace, disk, StoreInv, Filed, Stored
<1>3. << >> \in Seq(Bars) /\ By(<< >>, now)
  BY DEF By
<1>4. target' \in [Writers -> {"tmp", "file", "gone"}]
  <2>1. CASE tmp = None
    BY <2>1 DEF Replace, StoreInv, Filed
  <2>2. CASE tmp # None
    <3>1. target' = [v \in Writers |->
               IF v = w \/ target[v] = "file" THEN "gone"
               ELSE IF target[v] = "tmp" THEN "file" ELSE target[v]]
      BY <2>2 DEF Replace
    <3> QED BY <3>1 DEF StoreInv, Filed
  <2> QED BY <2>1, <2>2
<1>5. pc' \in [Writers -> Stages] /\ DOMAIN rows' = Writers /\ rows' = [v \in Writers |-> rows'[v]]
  BY <1>1 DEF StoreInv, Filed, Stages
<1>6. \A v \in Writers : IF v = w THEN rows'[v] = << >> /\ pc'[v] = "idle"
                                 ELSE rows'[v] = rows[v] /\ pc'[v] = pc[v]
  BY <1>1 DEF StoreInv, Filed
<1>7. \A v \in Writers : By(rows'[v], now) /\ (pc'[v] \in {"create", "writing"} => Sorted(rows'[v]))
  BY <1>3, <1>6 DEF StoreInv, Filed
<1>8. Filed'
  BY <1>1, <1>2, <1>4, <1>5, <1>7 DEF Filed
<1> QED BY <1>1, <1>8, BridgeStill

LEMMA FetchKeeps == ASSUME StoreInv, Fetch PROVE StoreInv'
<1>1. /\ rows' = [rows EXCEPT !["fetcher"] = FetchWithSource] /\ pc' = [pc EXCEPT !["fetcher"] = "create"]
      /\ UNCHANGED <<now, up, bars, open, dirty, seen, chunks, file, tmp, target>>
  BY DEF Fetch, Goto, bridge, disk
<1>2. By(FetchWithSource, now) /\ Sorted(FetchWithSource)
  BY FetchedBy DEF StoreInv, Buffered
<1>3. "fetcher" \in Writers /\ "create" \in Stages
  BY DEF Writers, Stages
<1>4. Filed'
  BY <1>1, <1>2, <1>3, Given DEF StoreInv
<1> QED BY <1>1, <1>4, BridgeStill

LEMMA BackfillReadsKeeps == ASSUME StoreInv, BackfillReads PROVE StoreInv'
<1>1. /\ rows' = [rows EXCEPT !["backfill"] = ReadExisting] /\ pc' = [pc EXCEPT !["backfill"] = "fetch"]
      /\ file # Torn
      /\ UNCHANGED <<now, up, bars, open, dirty, seen, chunks, file, tmp, target>>
  BY DEF BackfillReads, Goto, bridge, disk
<1>2. By(ReadExisting, now)
  <2>1. By(<< >>, now)
    BY DEF By
  <2>2. file = None \/ By(file, now)
    BY <1>1 DEF StoreInv, Filed, Stored
  <2> QED BY <2>1, <2>2, CoercedBy DEF ReadExisting
<1>3. "backfill" \in Writers /\ "fetch" \in Stages
  BY DEF Writers, Stages
<1>4. Filed'
  BY <1>1, <1>2, <1>3, Given DEF StoreInv
<1> QED BY <1>1, <1>4, BridgeStill

LEMMA BackfillMergesKeeps == ASSUME StoreInv, BackfillMerges PROVE StoreInv'
<1>1. UNCHANGED <<now, up, bars, open, dirty, seen, chunks, file, tmp>>
  BY DEF BackfillMerges, bridge, disk
<1>2. "backfill" \in Writers /\ "create" \in Stages
  BY DEF Writers, Stages
<1>3. CASE Leave("backfill")
  <2>1. Filed'
    BY <1>1, <1>2, <1>3, Left DEF StoreInv, Filed
  <2> QED BY <1>1, <2>1, BridgeStill
<1>4. CASE ~Leave("backfill")
  <2>1. /\ rows' = [rows EXCEPT !["backfill"] = MergePreferExisting(rows["backfill"], ClientFetch)]
        /\ pc' = [pc EXCEPT !["backfill"] = "create"] /\ target' = target
    BY <1>4 DEF BackfillMerges, Goto
  <2>2. By(rows["backfill"], now) /\ By(ClientFetch, now)
    BY <1>2, FetchedBy DEF StoreInv, Filed, Buffered
  <2>3. By(rows["backfill"] \o ClientFetch, now)
    BY <2>2, Joined
  <2>4. LET s == MergePreferExisting(rows["backfill"], ClientFetch) IN By(s, now) /\ Sorted(s)
    BY <2>3, CoercedBy DEF MergePreferExisting
  <2>5. Filed'
    BY <1>1, <1>2, <2>1, <2>4, Given DEF StoreInv
  <2> QED BY <1>1, <2>5, BridgeStill
<1> QED BY <1>3, <1>4

LEMMA CrashScriptKeeps == ASSUME StoreInv, NEW w \in Writers, CrashScript(w) PROVE StoreInv'
<1>1. Leave(w) /\ UNCHANGED <<now, up, bars, open, dirty, seen, chunks, file, tmp>>
  BY DEF CrashScript, bridge, disk
<1>2. Filed'
  BY <1>1, Left DEF StoreInv, Filed
<1> QED BY <1>1, <1>2, BridgeStill

\* Every step keeps the invariant.
LEMMA StoreStep == StoreInv /\ [StoreNext]_storeVars => StoreInv'
<1> SUFFICES ASSUME StoreInv, [StoreNext]_storeVars PROVE StoreInv'
  OBVIOUS
<1>1. CASE Clock \/ StartBridge \/ Tick \/ EnsureBars \/ PushHistoryBatch \/ PostFails
  BY <1>1, ClockKeeps, StartBridgeKeeps, TickKeepsBars, EnsureBarsKeeps, PushKeeps, PostFailsKeeps
<1>2. CASE WorkerWakes \/ Fetch \/ BackfillReads \/ BackfillMerges \/ CrashBridge
  BY <1>2, WorkerWakesKeeps, FetchKeeps, BackfillReadsKeeps, BackfillMergesKeeps, CrashBridgeKeeps
<1>3. ASSUME NEW w \in Writers, FlushStep(w) PROVE StoreInv'
  BY <1>3, SnapshotKeeps, GuardKeeps, CreateKeeps, WrittenKeeps, ReplaceKeeps DEF FlushStep
<1>4. ASSUME NEW w \in Writers, CrashScript(w) PROVE StoreInv'
  BY <1>4, CrashScriptKeeps
<1>5. CASE UNCHANGED storeVars
  <2>1. UNCHANGED <<now, up, bars, open, dirty, seen, chunks, file, tmp, pc, rows, target>>
    BY <1>5 DEF storeVars, bridge, disk, writers
  <2>2. Filed'
    BY <2>1 DEF StoreInv, Filed
  <2> QED BY <2>1, <2>2, BridgeStill
<1> QED
  BY <1>1, <1>2, <1>3, <1>4, <1>5 DEF StoreNext

LEMMA StoreInductive == StoreSpec => []StoreInv
<1>1. StoreInit => StoreInv
  BY StoreStart DEF StoreInv
<1> QED BY <1>1, StoreStep, PTL DEF StoreSpec

\* The bridge's buffer never holds more bars than _TF_MAX_BARS, the file and its
\* temporary one hold rows or are torn, and a writer is at a step of its own: for
\* every size of buffer, request and chunk.
THEOREM StoreTypes == StoreSpec => []TypeOK
<1>1. StoreInv => TypeOK
  <2> SUFFICES ASSUME StoreInv PROVE TypeOK
    OBVIOUS
  <2>1. now \in 1..LAST_PERIOD /\ up \in BOOLEAN /\ dirty \in BOOLEAN /\ open \in Bars \cup {None}
    BY DEF StoreInv, Buffered, Held
  <2>2. bars \in Seq(Bars) /\ Len(bars) <= MAX_BARS
    BY DEF StoreInv, Buffered, Held, By
  <2>3. file \in Seq(Bars) \cup {None, Torn} /\ tmp \in Seq(Bars) \cup {None, Torn}
    BY DEF StoreInv, Filed, Stored, By
  <2>4. rows \in [Writers -> Seq(Bars)]
    BY DEF StoreInv, Filed, By
  <2> QED BY <2>1, <2>2, <2>3, <2>4 DEF TypeOK, StoreInv, Filed, Stages
<1> QED BY <1>1, StoreInductive, PTL

\* The file, whenever it can be read, is in order of time and has no row of the
\* future, whichever of the four writers was the last and whatever it interrupted:
\* _lifespan takes the last rows of it for the newest bars.
THEOREM FileInOrder == StoreSpec => [](Readable => By(file, now) /\ Sorted(file))
<1>1. StoreInv => (Readable => By(file, now) /\ Sorted(file))
  BY DEF StoreInv, Filed, Stored, Readable
<1> QED BY <1>1, StoreInductive, PTL

\* The newest period that ticks, batches and the reload of the file have given the
\* buffer is in it, whatever _accumulate_bar appended late at its end and whatever
\* the deque dropped.  It needs room for two bars: with one, an older bar sealed
\* after a batch would push out the newest.
THEOREM NewestStays == StoreSpec => []NewestKept
<1>1. StoreInv => NewestKept
  <2> SUFFICES ASSUME StoreInv, NEW t \in seen PROVE \E b \in Times(bars) : b >= t
    BY DEF NewestKept
  <2>1. Newest /\ bars \in Seq(Bars)
    BY DEF StoreInv, Buffered, Held, By
  <2>2. Len(bars) \in DOMAIN bars /\ Len(bars) \in Nat
    BY <2>1 DEF Newest
  <2>3. \/ t <= bars[Len(bars)].t
        \/ Len(bars) - 1 \in DOMAIN bars /\ t <= bars[Len(bars) - 1].t
    BY <2>1, <2>2 DEF Newest
  <2>4. t \in Int /\ \A p \in DOMAIN bars : bars[p].t \in Int
    BY <2>1, RowIs DEF StoreInv, Buffered
  <2>5. \A x, y \in Int : x <= y => y >= x
    OBVIOUS
  <2> QED BY <2>2, <2>3, <2>4, <2>5 DEF Times
<1> QED BY <1>1, StoreInductive, PTL

-----------------------------------------------------------------------------
(* The folds (_purged_kfold_indexes). *)

\* What a division leaves.
LEMMA DivIs ==
  ASSUME NEW x \in Nat, NEW d \in Nat \ {0}
  PROVE  /\ x \div d \in Nat
         /\ d * (x \div d) =< x /\ x < d * (x \div d) + d
OBVIOUS

LEMMA TimesMonotone ==
  ASSUME NEW a \in Nat, NEW b \in Nat, NEW d \in Nat, a =< b
  PROVE  a * d \in Nat /\ b * d \in Nat /\ a * d =< b * d
<1>1. PICK e \in Nat : b = a + e
  BY b - a \in Nat
<1>2. b * d = a * d + e * d /\ a * d \in Nat /\ e * d \in Nat
  BY <1>1
<1> QED BY <1>2

\* The single fold is cut within the series.
LEMMA SingleCut ==
  ASSUME NEW n \in Nat, NEW parts \in Nat, parts >= 2
  PROVE  (n * (parts - 1)) \div parts \in 0..n
<1> DEFINE x == n * (parts - 1)
           q == x \div parts
<1>1. x \in Nat /\ x + n = parts * n
  OBVIOUS
<1> HIDE DEF x
<1>2. q \in Nat /\ parts * q =< x
  BY <1>1, DivIs
<1> HIDE DEF q
<1>3. CASE q > n
  <2>1. parts * n + parts =< parts * q
    <3>1. n + 1 =< q /\ n + 1 \in Nat
      BY <1>2, <1>3
    <3>2. (n + 1) * parts =< q * parts
      BY <1>2, <3>1, TimesMonotone
    <3> QED BY <1>2, <3>2
  <2> QED BY <1>1, <1>2, <2>1
<1> QED BY <1>2, <1>3 DEF q, x

\* Too few bars: the train part of the single fold ends an embargo before its test.
LEMMA SinglePurged ==
  ASSUME NEW n \in Nat, NEW splits \in Nat, NEW embargo \in Nat,
         splits < 2 \/ n < splits * (embargo * 2 + 2)
  PROVE  Purged(n, splits, embargo)
<1> DEFINE parts == Larger(splits, 2)
           cutoff == (n * (parts - 1)) \div parts
           only == SingleFold(n, splits, embargo)
<1>1. cutoff \in 0..n
  BY SingleCut DEF Larger
<1>2. only.test = cutoff..(n - 1) /\ only.train = 0..(Larger(0, cutoff - embargo) - 1)
  BY DEF SingleFold
<1>3. Folds(n, splits, embargo) = <<only>>
  BY DEF Folds
<1> HIDE DEF cutoff, only, parts
<1>4. \A a \in only.train, b \in only.test : a < b - embargo
  BY <1>1, <1>2 DEF Larger
<1>5. DOMAIN <<only>> = {1} /\ <<only>>[1] = only
  OBVIOUS
<1>6. UNION {<<only>>[k].test : k \in DOMAIN <<only>>} = cutoff..(n - 1)
  BY <1>2, <1>5
<1> QED BY <1>1, <1>3, <1>4, <1>5, <1>6 DEF Purged

\* Enough bars: a block is not empty, each ends where the next one starts and the last at the
\* end of the series, so that a bar is in the block its index divided by the size says, and in
\* the last one beyond it.
LEMMA FoldsOf ==
  ASSUME NEW n \in Nat, NEW splits \in Nat, NEW embargo \in Nat,
         splits >= 2, n >= splits * (embargo * 2 + 2)
  PROVE  Purged(n, splits, embargo)
<1> DEFINE size == n \div splits
           from(k) == (k - 1) * size
           to(k) == IF k < splits THEN k * size ELSE n
           cut == Folds(n, splits, embargo)
<1>1. /\ DOMAIN cut = 1..splits
      /\ \A k \in 1..splits : /\ cut[k].test = from(k)..(to(k) - 1)
                              /\ cut[k].train = (0..(Larger(0, from(k) - embargo) - 1))
                                                \cup (Smaller(n, to(k) + embargo)..(n - 1))
  BY DEF Folds, Fold
<1>2. size \in Nat /\ splits * size =< n /\ n < splits * size + splits
  BY DivIs
<1>3. size # 0
  <2>1. embargo * 2 + 2 \in Nat /\ 1 =< embargo * 2 + 2
    OBVIOUS
  <2>2. 1 * splits =< (embargo * 2 + 2) * splits
    BY <2>1, TimesMonotone
  <2>3. splits =< n
    BY <2>1, <2>2
  <2> QED BY <1>2, <2>3
<1> HIDE DEF size, cut
<1>4. \A k, l \in 0..splits : k =< l => k * size =< l * size /\ k * size \in Nat /\ l * size \in Nat
  BY <1>2, TimesMonotone
<1>5. \A k \in 1..splits : /\ from(k) \in Nat /\ to(k) \in Nat /\ from(k) =< to(k) /\ to(k) =< n
  BY <1>2, <1>4
<1>6. \A k, l \in 1..splits : k < l => to(k) =< from(l)
  <2> SUFFICES ASSUME NEW k \in 1..splits, NEW l \in 1..splits, k < l PROVE to(k) =< from(l)
    OBVIOUS
  <2>1. k =< l - 1 /\ l - 1 \in 0..splits /\ k \in 0..splits /\ k < splits
    OBVIOUS
  <2> QED BY <1>4, <2>1
<1>7. \A k, l \in 1..splits : k # l => cut[k].test \cap cut[l].test = {}
  <2> SUFFICES ASSUME NEW k \in 1..splits, NEW l \in 1..splits, k # l,
                      NEW x \in cut[k].test, x \in cut[l].test
               PROVE  FALSE
    OBVIOUS
  <2> HIDE DEF from, to
  <2>1. x \in Int /\ from(k) =< x /\ x < to(k)
    <3>1. x \in from(k)..(to(k) - 1)
      BY <1>1
    <3> QED BY <1>5, <3>1
  <2>2. from(l) =< x /\ x < to(l)
    <3>1. x \in from(l)..(to(l) - 1)
      BY <1>1
    <3> QED BY <1>5, <3>1
  <2> QED BY <1>5, <1>6, <2>1, <2>2
<1>8. UNION {cut[k].test : k \in DOMAIN cut} = 0..(n - 1)
  <2>1. ASSUME NEW k \in 1..splits PROVE cut[k].test \subseteq 0..(n - 1)
    <3> HIDE DEF from, to
    <3> QED BY <1>1, <1>5
  <2>2. ASSUME NEW x \in 0..(n - 1) PROVE \E k \in 1..splits : x \in cut[k].test
    <3> DEFINE q == x \div size
    <3>1. q \in Nat /\ size * q =< x /\ x < size * q + size
      BY <1>2, <1>3, DivIs
    <3> HIDE DEF q
    <3>2. CASE q + 1 < splits
      <4>1. from(q + 1) = size * q /\ to(q + 1) = size * q + size
        BY <1>2, <3>1, <3>2
      <4>2. x \in from(q + 1)..(to(q + 1) - 1) /\ q + 1 \in 1..splits
        BY <1>2, <3>1, <3>2, <4>1
      <4> HIDE DEF from, to
      <4> QED BY <1>1, <4>2
    <3>3. CASE q + 1 >= splits
      <4>1. (splits - 1) * size =< q * size
        BY <1>2, <3>1, <3>3, TimesMonotone
      <4>2. from(splits) =< x /\ to(splits) = n
        BY <1>2, <3>1, <4>1
      <4> HIDE DEF from, to
      <4> QED BY <1>1, <1>5, <4>2
    <3> QED BY <3>1, <3>2, <3>3
  <2> QED BY <1>1, <2>1, <2>2
<1>9. ASSUME NEW k \in 1..splits, NEW a \in cut[k].train, NEW b \in cut[k].test
      PROVE  a < b - embargo \/ a > b + embargo
  <2> HIDE DEF from, to
  <2>1. b \in Int /\ from(k) =< b /\ b < to(k)
    <3>1. b \in from(k)..(to(k) - 1)
      BY <1>1
    <3> QED BY <1>5, <3>1
  <2>2. CASE a \in 0..(Larger(0, from(k) - embargo) - 1)
    BY <1>5, <2>1, <2>2 DEF Larger
  <2>3. CASE a \in Smaller(n, to(k) + embargo)..(n - 1)
    BY <1>5, <2>1, <2>3 DEF Smaller
  <2> QED BY <1>1, <2>2, <2>3
<1>10. 0 \in 0..n
  OBVIOUS
<1> QED BY <1>1, <1>7, <1>8, <1>9, <1>10 DEF Purged, cut

\* Whatever the length of the series, the number of folds and the embargo: no bar is tested
\* twice, the tests are a tail of the series, and no training bar lies within the embargo of a
\* test block of its fold (_purged_kfold_indexes).
THEOREM EveryCutPurged ==
  \A n, splits, embargo \in Nat : Purged(n, splits, embargo)
BY SinglePurged, FoldsOf

\* So are the ones the run looks at when a series is cut (_run_cv).
THEOREM FoldsStayPurged == Spec => []FoldsPurged
<1>1. FoldsPurged
  BY EveryCutPurged DEF FoldsPurged
<1> QED BY <1>1, PTL

-----------------------------------------------------------------------------
(* Sums of trades. *)

Share(c, days, k) == IF c[k].day \in days THEN c[k].profit ELSE 0

\* f adds up the first trades of c, as Earned does.
Sums(f, c, days) ==
  f = [k \in 0..Len(c) |-> IF k = 0 THEN 0 ELSE f[k - 1] + Share(c, days, k)]

\* It does so at every count up to all of them, and there is one that does.
LEMMA SumsAt ==
  ASSUME NEW f, NEW c, NEW days, Len(c) \in Nat, Sums(f, c, days)
  PROVE  f[0] = 0 /\ \A k \in 1..Len(c) : f[k] = f[k - 1] + Share(c, days, k)
<1>1. \A k \in 0..Len(c) : f[k] = IF k = 0 THEN 0 ELSE f[k - 1] + Share(c, days, k)
  BY Zenon DEF Sums
<1> QED BY <1>1

LEMMA SumsExist ==
  ASSUME NEW c, NEW days, Len(c) \in Nat
  PROVE  \E f : Sums(f, c, days)
<1> DEFINE Add(f, k) == IF k = 0 THEN 0 ELSE f[k - 1] + Share(c, days, k)
           Upto(f, n) == f = [k \in 0..n |-> Add(f, k)]
           T == {n \in Nat : \E f : Upto(f, n)}
<1>1. 0 \in T
  <2> DEFINE f == [k \in 0..0 |-> 0]
  <2>1. f = [k \in 0..0 |-> Add(f, k)]
    OBVIOUS
  <2> QED BY <2>1
<1>2. ASSUME NEW n \in Nat, n \in T PROVE n + 1 \in T
  <2>1. PICK f : f = [k \in 0..n |-> Add(f, k)]
    BY <1>2
  <2> DEFINE g == [k \in 0..(n + 1) |-> IF k = n + 1 THEN f[n] + Share(c, days, n + 1) ELSE f[k]]
  <2>2. \A k \in 0..(n + 1) : g[k] = Add(g, k)
    <3> SUFFICES ASSUME NEW k \in 0..(n + 1) PROVE g[k] = Add(g, k)
      OBVIOUS
    <3>1. CASE k = n + 1
      BY <3>1
    <3>2. CASE k \in 0..n
      <4>1. f[k] = Add(f, k)
        BY <2>1, <3>2, Zenon
      <4> QED BY <3>2, <4>1
    <3> QED BY <3>1, <3>2
  <2>3. g = [k \in 0..(n + 1) |-> g[k]]
    OBVIOUS
  <2> HIDE DEF g
  <2>4. Upto(g, n + 1)
    BY <2>2, <2>3
  <2> QED BY <2>4
<1> HIDE DEF T
<1>3. Len(c) \in T
  BY <1>1, <1>2, NaturalInduction
<1> QED BY <1>3 DEF T, Sums

\* Earned is the last of such sums.
LEMMA EarnedIs ==
  ASSUME NEW c, NEW days, Len(c) \in Nat
  PROVE  \E f : Sums(f, c, days) /\ Earned(c, days) = f[Len(c)]
<1>1. PICK g : Sums(g, c, days)
  BY SumsExist
<1> QED BY <1>1, Zenon DEF Earned, Sums, Share

\* A trade of _SimState.closed.
Trade == [profit: Int, day: Nat]

\* What one trade more adds, and what the trades of a day and those of the others earn.
LEMMA EarnedMore ==
  ASSUME NEW c \in Seq(Trade), NEW r \in Trade, NEW days
  PROVE  Earned(Append(c, r), days) =
           Earned(c, days) + (IF r.day \in days THEN r.profit ELSE 0)
<1> DEFINE d == Append(c, r)
           n == Len(c)
<1>1. /\ Len(d) = n + 1 /\ n \in Nat /\ d[n + 1] = r /\ \A k \in 1..n : d[k] = c[k]
  OBVIOUS
<1> HIDE DEF d, n
<1>2. PICK f : Sums(f, c, days) /\ Earned(c, days) = f[n]
  BY <1>1, EarnedIs DEF n
<1>3. PICK g : Sums(g, d, days) /\ Earned(d, days) = g[n + 1]
  BY <1>1, EarnedIs
<1>4. /\ f[0] = 0 /\ \A k \in 1..n : f[k] = f[k - 1] + Share(c, days, k)
  BY <1>1, <1>2, SumsAt DEF n
<1>5. /\ g[0] = 0 /\ \A k \in 1..(n + 1) : g[k] = g[k - 1] + Share(d, days, k)
  BY <1>1, <1>3, SumsAt
<1> DEFINE T == {k \in Nat : k =< n => f[k] = g[k]}
<1>6. 0 \in T
  BY <1>4, <1>5
<1>7. ASSUME NEW k \in Nat, k \in T PROVE k + 1 \in T
  <2> SUFFICES ASSUME k + 1 =< n PROVE f[k + 1] = g[k + 1]
    OBVIOUS
  <2>1. k + 1 \in 1..n /\ k + 1 \in 1..(n + 1) /\ (k + 1) - 1 = k /\ f[k] = g[k]
    BY <1>1, <1>7
  <2>2. Share(c, days, k + 1) = Share(d, days, k + 1)
    BY <1>1, <2>1 DEF Share
  <2> QED BY <1>4, <1>5, <2>1, <2>2
<1> HIDE DEF T
<1>8. n \in T
  BY <1>1, <1>6, <1>7, NaturalInduction
<1>9. g[n + 1] = g[n] + Share(d, days, n + 1)
  <2>1. n + 1 \in 1..(n + 1) /\ (n + 1) - 1 = n
    BY <1>1
  <2> QED BY <1>5, <2>1
<1>10. f[n] = g[n] /\ Share(d, days, n + 1) = IF r.day \in days THEN r.profit ELSE 0
  BY <1>1, <1>8 DEF T, Share
<1> QED BY <1>2, <1>3, <1>9, <1>10 DEF d

LEMMA EarnedByDay ==
  ASSUME NEW c \in Seq(Trade), NEW day \in Nat
  PROVE  /\ Earned(c, Nat) \in Int /\ Earned(c, {day}) \in Int /\ Earned(c, Nat \ {day}) \in Int
         /\ Earned(c, Nat) = Earned(c, {day}) + Earned(c, Nat \ {day})
         /\ (\A k \in DOMAIN c : c[k].day # day) => Earned(c, {day}) = 0
         /\ c = << >> => Earned(c, Nat) = 0
<1> DEFINE n == Len(c)
<1>0. n \in Nat /\ DOMAIN c = 1..n /\ \A k \in 1..n : c[k].profit \in Int /\ c[k].day \in Nat
  <2>1. \A k \in 1..n : c[k] \in Trade
    OBVIOUS
  <2> QED BY <2>1 DEF Trade
<1> HIDE DEF n
<1>1. PICK a : Sums(a, c, Nat) /\ Earned(c, Nat) = a[n]
  BY <1>0, EarnedIs DEF n
<1>2. PICK f : Sums(f, c, {day}) /\ Earned(c, {day}) = f[n]
  BY <1>0, EarnedIs DEF n
<1>3. PICK g : Sums(g, c, Nat \ {day}) /\ Earned(c, Nat \ {day}) = g[n]
  BY <1>0, EarnedIs DEF n
<1>4. /\ a[0] = 0 /\ \A k \in 1..n : a[k] = a[k - 1] + Share(c, Nat, k)
      /\ f[0] = 0 /\ \A k \in 1..n : f[k] = f[k - 1] + Share(c, {day}, k)
      /\ g[0] = 0 /\ \A k \in 1..n : g[k] = g[k - 1] + Share(c, Nat \ {day}, k)
  BY <1>0, <1>1, <1>2, <1>3, SumsAt DEF n
<1> DEFINE Other == \A k \in DOMAIN c : c[k].day # day
           T == {k \in Nat : k =< n => /\ a[k] \in Int /\ f[k] \in Int /\ g[k] \in Int
                                       /\ a[k] = f[k] + g[k]
                                       /\ Other => f[k] = 0}
<1>5. 0 \in T
  BY <1>4
<1>6. ASSUME NEW k \in Nat, k \in T PROVE k + 1 \in T
  <2> SUFFICES ASSUME k + 1 =< n
               PROVE  /\ a[k + 1] \in Int /\ f[k + 1] \in Int /\ g[k + 1] \in Int
                      /\ a[k + 1] = f[k + 1] + g[k + 1]
                      /\ Other => f[k + 1] = 0
    OBVIOUS
  <2>1. /\ k + 1 \in 1..n /\ (k + 1) - 1 = k
        /\ a[k] \in Int /\ f[k] \in Int /\ g[k] \in Int /\ a[k] = f[k] + g[k]
        /\ Other => f[k] = 0
    BY <1>0, <1>6
  <2>2. /\ a[k + 1] = a[k] + Share(c, Nat, k + 1)
        /\ f[k + 1] = f[k] + Share(c, {day}, k + 1)
        /\ g[k + 1] = g[k] + Share(c, Nat \ {day}, k + 1)
    BY <1>4, <2>1
  <2>3. /\ Share(c, Nat, k + 1) \in Int /\ Share(c, {day}, k + 1) \in Int
        /\ Share(c, Nat \ {day}, k + 1) \in Int
        /\ Share(c, Nat, k + 1) = Share(c, {day}, k + 1) + Share(c, Nat \ {day}, k + 1)
        /\ Other => Share(c, {day}, k + 1) = 0
    <3>1. c[k + 1].profit \in Int /\ c[k + 1].day \in Nat /\ k + 1 \in DOMAIN c
      BY <1>0, <2>1
    <3>2. Other => c[k + 1].day # day
      BY <3>1
    <3> HIDE DEF Other
    <3>3. CASE c[k + 1].day = day
      BY <3>1, <3>2, <3>3 DEF Share
    <3>4. CASE c[k + 1].day # day
      BY <3>1, <3>4 DEF Share
    <3> QED BY <3>3, <3>4
  <2> HIDE DEF Other
  <2> QED BY <2>1, <2>2, <2>3
<1> HIDE DEF T
<1>7. n \in T
  BY <1>0, <1>5, <1>6, NaturalInduction
<1>8. c = << >> => n = 0
  BY DEF n
<1> QED BY <1>0, <1>1, <1>2, <1>3, <1>4, <1>7, <1>8 DEF T

-----------------------------------------------------------------------------
(***************************************************************************)
(* The simulation.  HaltIsFinal and DailyLossStops speak of the account at *)
(* a bar and are kept by what the account says of its past: the equity is  *)
(* the start and all the trades, the day's baseline the start and those of *)
(* the days before, the peak at least the start, and no trade is of a day  *)
(* that the loop has not seen.                                             *)
(***************************************************************************)
Position == [side: {"BUY", "SELL"}, sl: Int, tp: Int, volume: Int, entry: Int]
Bar == [open: Nat, high: Nat, low: Nat, close: Nat, day: Nat]
Account == [equity: Int, peak: Int, day_start: Int, last_day: Nat,
            pos: {NoPos} \cup Position, closed: Seq(Trade)]

\* The equity is that of the closed trades, the day's baseline that of the trades of the
\* days before the last one seen.
Books(s) ==
  /\ s.equity = START + Earned(s.closed, Nat)
  /\ s.day_start = START + Earned(s.closed, Nat \ {s.last_day})
  /\ \A k \in DOMAIN s.closed : s.closed[k].day =< s.last_day

\* The inductive invariant.
SimInv ==
  /\ state \in Account /\ state.peak >= START /\ Books(state)
  /\ bar \in {NoBar} \cup Bar
  /\ at = "bar" => bar \in Bar /\ state.last_day =< bar.day
  /\ at # "bar" => state = FreshState

LEMMA BarsTyped == \A day \in Nat : BarsOf(day) \subseteq Bar /\ \A b \in BarsOf(day) : b.day = day
BY BacktestConstants DEF BarsOf, Bar

LEMMA FreshBooks ==
  /\ FreshState \in Account /\ FreshState.peak >= START
  /\ Books(FreshState) /\ FreshState.last_day = 0
<1>1. START \in Nat \ {0}
  BY BacktestConstants
<1>2. << >> \in Seq(Trade) /\ DOMAIN << >> = {}
  OBVIOUS
<1>3. Earned(<< >>, Nat) = 0 /\ Earned(<< >>, Nat \ {0}) = 0
  <2>1. /\ Earned(<< >>, Nat) = Earned(<< >>, {0}) + Earned(<< >>, Nat \ {0})
        /\ Earned(<< >>, {0}) = 0 /\ Earned(<< >>, Nat) = 0 /\ Earned(<< >>, Nat \ {0}) \in Int
    BY <1>2, EarnedByDay
  <2> QED BY <2>1
<1> QED BY <1>1, <1>2, <1>3 DEF FreshState, Account, Books

\* The day boundary keeps the books, and its day is that of the bar.
LEMMA BoundaryBooks ==
  ASSUME NEW s \in Account, Books(s), bar \in Bar, s.last_day =< bar.day
  PROVE  LET d == DayBoundary(s) IN
         /\ d \in Account /\ Books(d) /\ d.last_day = bar.day
         /\ d.peak = s.peak /\ d.equity = s.equity /\ d.pos = s.pos /\ d.closed = s.closed
<1>1. bar.day \in Nat /\ s.last_day \in Nat /\ s.closed \in Seq(Trade) /\ s.equity \in Int
  BY DEF Bar, Account
<1>2. CASE s.last_day = bar.day
  BY <1>2 DEF DayBoundary
<1>3. CASE s.last_day # bar.day
  <2>1. DayBoundary(s) = [s EXCEPT !.day_start = s.equity, !.last_day = bar.day]
    BY <1>3 DEF DayBoundary
  <2>2. \A k \in DOMAIN s.closed : s.closed[k].day =< bar.day /\ s.closed[k].day # bar.day
    <3> SUFFICES ASSUME NEW k \in DOMAIN s.closed
                 PROVE  s.closed[k].day =< bar.day /\ s.closed[k].day # bar.day
      OBVIOUS
    <3>1. s.closed[k] \in Trade
      BY <1>1
    <3>2. s.closed[k].day \in Nat
      BY <3>1 DEF Trade
    <3>3. s.closed[k].day =< s.last_day
      BY DEF Books
    <3> QED BY <1>1, <1>3, <3>2, <3>3
  <2>3. Earned(s.closed, Nat) = Earned(s.closed, Nat \ {bar.day})
    <3>1. /\ Earned(s.closed, Nat) = Earned(s.closed, {bar.day}) + Earned(s.closed, Nat \ {bar.day})
          /\ Earned(s.closed, {bar.day}) = 0 /\ Earned(s.closed, Nat \ {bar.day}) \in Int
      BY <1>1, <2>2, EarnedByDay
    <3> QED BY <3>1
  <2>4. DayBoundary(s) \in Account
    BY <1>1, <2>1 DEF Account
  <2>5. Books(DayBoundary(s))
    BY <1>1, <2>1, <2>2, <2>3 DEF Books, Account
  <2> QED BY <2>1, <2>4, <2>5 DEF Account
<1> QED BY <1>2, <1>3

\* So does a close on a bar of the last day seen.
LEMMA ClosedBooks ==
  ASSUME NEW s \in Account, Books(s), bar \in Bar, s.last_day = bar.day, s.pos # NoPos,
         NEW price \in Int, NEW is_stop \in BOOLEAN
  PROVE  LET d == Closed(s, price, is_stop) IN
         /\ d \in Account /\ Books(d) /\ d.last_day = bar.day /\ d.peak = s.peak /\ d.pos = NoPos
<1> DEFINE profit == Gross(s.pos, price) - Costs(s.pos.volume, is_stop)
           trade == [profit |-> profit, day |-> bar.day]
           d == Closed(s, price, is_stop)
<1>1. profit \in Int
  <2>1. s.pos \in Position
    BY DEF Account
  <2>2. s.pos.volume \in Int /\ s.pos.entry \in Int
    BY <2>1 DEF Position
  <2>3. Gross(s.pos, price) \in Int
    BY <2>2 DEF Gross
  <2>4. SPREAD \in Int /\ SLIPPAGE \in Int
    BY BacktestConstants
  <2>5. Costs(s.pos.volume, is_stop) \in Int
    BY <2>2, <2>4 DEF Costs
  <2> QED BY <2>3, <2>5
<1>2. d = [s EXCEPT !.equity = s.equity + profit, !.pos = NoPos, !.closed = Append(s.closed, trade)]
  BY DEF Closed
<1>3. bar.day \in Nat /\ s.closed \in Seq(Trade) /\ s.equity \in Int /\ s.last_day \in Nat
  BY DEF Bar, Account
<1> HIDE DEF profit
<1>4. trade \in Trade /\ trade.day = bar.day /\ trade.profit = profit
  BY <1>1, <1>3 DEF Trade
<1> HIDE DEF d, trade
<1>5. /\ d \in Account /\ d.last_day = bar.day /\ d.peak = s.peak /\ d.pos = NoPos
      /\ d.day_start = s.day_start
      /\ d.equity = s.equity + profit /\ d.closed = Append(s.closed, trade)
  <2> PICK c : c = Append(s.closed, trade)
    OBVIOUS
  <2>1. c \in Seq(Trade)
    BY <1>3, <1>4
  <2>2. d = [s EXCEPT !.equity = s.equity + profit, !.pos = NoPos, !.closed = c]
    BY <1>2
  <2>3. /\ d \in Account /\ d.last_day = s.last_day /\ d.peak = s.peak /\ d.pos = NoPos
        /\ d.day_start = s.day_start /\ d.equity = s.equity + profit /\ d.closed = c
    <3>1. DOMAIN s = {"equity", "peak", "day_start", "last_day", "pos", "closed"}
      BY DEF Account
    <3>2. /\ d.last_day = s.last_day /\ d.peak = s.peak /\ d.pos = NoPos
          /\ d.day_start = s.day_start /\ d.equity = s.equity + profit /\ d.closed = c
      BY <2>2, <3>1
    <3>3. d = [equity |-> s.equity + profit, peak |-> s.peak, day_start |-> s.day_start,
               last_day |-> s.last_day, pos |-> NoPos, closed |-> c]
      BY <2>2 DEF Account
    <3>4. s.equity + profit \in Int /\ s.peak \in Int /\ s.day_start \in Int /\ s.last_day \in Nat
      BY <1>1 DEF Account
    <3> QED BY <2>1, <3>2, <3>3, <3>4 DEF Account
  <2> QED BY <2>3
<1>6. Earned(d.closed, Nat) = Earned(s.closed, Nat) + profit
  BY <1>3, <1>4, <1>5, EarnedMore
<1>7. Earned(d.closed, Nat \ {bar.day}) = Earned(s.closed, Nat \ {bar.day})
  <2>1. Earned(s.closed, Nat \ {bar.day}) \in Int
    BY <1>3, EarnedByDay
  <2> QED BY <1>3, <1>4, <1>5, <2>1, EarnedMore
<1>8. \A k \in DOMAIN d.closed : d.closed[k].day =< bar.day
  <2> SUFFICES ASSUME NEW k \in DOMAIN d.closed PROVE d.closed[k].day =< bar.day
    OBVIOUS
  <2>1. CASE k \in DOMAIN s.closed
    BY <1>3, <1>5, <2>1 DEF Books
  <2>2. CASE k = Len(s.closed) + 1
    BY <1>3, <1>4, <1>5, <2>2
  <2> QED BY <1>3, <1>5, <2>1, <2>2
<1>9. Earned(s.closed, Nat) \in Int /\ START \in Int
  <2>1. Earned(s.closed, Nat) \in Int
    BY <1>3, EarnedByDay
  <2> QED BY <2>1, BacktestConstants
<1>10. Books(d)
  <2>1. s.equity = START + Earned(s.closed, Nat) /\ s.day_start = START + Earned(s.closed, Nat \ {bar.day})
    BY DEF Books
  <2>2. d.equity = START + Earned(d.closed, Nat)
    BY <1>1, <1>5, <1>6, <1>9, <2>1
  <2>3. d.day_start = START + Earned(d.closed, Nat \ {d.last_day})
    BY <1>5, <1>7, <2>1
  <2> QED BY <1>5, <1>8, <2>2, <2>3 DEF Books
<1> QED BY <1>5, <1>10 DEF d

\* What is settled on a bar: the books are those of its day, and an account without a
\* position keeps its trades, its equity and its peak.
LEMMA SettledBooks ==
  ASSUME SimInv, at = "bar"
  PROVE  LET s == Settled(state) IN
         /\ s \in Account /\ Books(s) /\ s.last_day = bar.day /\ s.peak = state.peak
         /\ s.pos \in {NoPos, state.pos}
         /\ state.pos = NoPos => s.closed = state.closed /\ s.equity = state.equity
<1> DEFINE d == DayBoundary(state)
<1>1. /\ d \in Account /\ Books(d) /\ d.last_day = bar.day
      /\ d.peak = state.peak /\ d.equity = state.equity /\ d.pos = state.pos /\ d.closed = state.closed
  BY BoundaryBooks DEF SimInv
<1>2. Settled(state) = Exits(d) /\ bar \in Bar
  BY DEF Settled, SimInv
<1> HIDE DEF d
<1>3. CASE d.pos = NoPos
  BY <1>1, <1>2, <1>3 DEF Exits
<1>4. CASE d.pos # NoPos
  <2>1. d.pos.sl \in Int /\ d.pos.tp \in Int
    BY <1>1, <1>4 DEF Account, Position
  <2>2. Exits(d) \in {d, Closed(d, d.pos.sl, TRUE), Closed(d, d.pos.tp, FALSE)}
    BY <1>4 DEF Exits
  <2>3. LET e == Closed(d, d.pos.sl, TRUE) IN
        e \in Account /\ Books(e) /\ e.last_day = bar.day /\ e.peak = d.peak /\ e.pos = NoPos
    BY <1>1, <1>2, <1>4, <2>1, ClosedBooks
  <2>4. LET e == Closed(d, d.pos.tp, FALSE) IN
        e \in Account /\ Books(e) /\ e.last_day = bar.day /\ e.peak = d.peak /\ e.pos = NoPos
    BY <1>1, <1>2, <1>4, <2>1, ClosedBooks
  <2> QED BY <1>1, <1>2, <1>4, <2>2, <2>3, <2>4
<1> QED BY <1>3, <1>4

\* An entry opens a position and moves no money.
LEMMA EnteredBooks ==
  ASSUME NEW s \in Account, bar \in Bar, NEW sig \in Signals, NEW size \in SIZES, NEW price \in Int
  PROVE  LET e == Entered(s, sig, size, price) IN
         /\ e \in Account
         /\ e.equity = s.equity /\ e.peak = s.peak /\ e.closed = s.closed
         /\ e.last_day = s.last_day /\ e.day_start = s.day_start
<1>1. sig.action \in {"BUY", "SELL"} /\ sig.sl \in Int /\ sig.tp \in Int
  BY BacktestConstants DEF Signals, Bar
<1>2. Rounded(size * Adjustment(s)) \in Int
  <2>1. size \in Nat /\ Adjustment(s) \in Nat
    <3>1. Adjustment(s) \in {0, 5, 7, 10}
      BY DEF Adjustment
    <3> QED BY <3>1, BacktestConstants
  <2>2. PICK x : x \in Nat /\ x = size * Adjustment(s)
    BY <2>1
  <2> QED BY <2>2 DEF Rounded
<1>3. SPREAD \div 2 \in Int
  BY BacktestConstants
<1>4. CASE Rounded(size * Adjustment(s)) = 0
  BY <1>4 DEF Entered
<1>5. CASE Rounded(size * Adjustment(s)) # 0
  <2> PICK p : p = [side |-> sig.action, sl |-> sig.sl, tp |-> sig.tp, volume |-> Rounded(size * Adjustment(s)),
                    entry |-> IF sig.action = "BUY" THEN price + SPREAD \div 2 ELSE price - SPREAD \div 2]
    OBVIOUS
  <2>1. p \in Position
    BY <1>1, <1>2, <1>3 DEF Position
  <2>2. Entered(s, sig, size, price) = [s EXCEPT !.pos = p]
    BY <1>5 DEF Entered
  <2> QED BY <2>1, <2>2 DEF Account
<1> QED BY <1>4, <1>5

\* Marking moves the peak, up or not at all, and nothing else.
LEMMA MarkedBooks ==
  ASSUME NEW s \in Account, bar \in Bar
  PROVE  LET m == Marked(s) IN
         /\ m \in Account /\ m.peak >= s.peak
         /\ m.equity = s.equity /\ m.closed = s.closed /\ m.pos = s.pos
         /\ m.last_day = s.last_day /\ m.day_start = s.day_start
         /\ s.pos = NoPos => m.peak = Larger(s.peak, s.equity)
<1> PICK mtm : mtm = s.equity + (IF s.pos = NoPos THEN 0 ELSE Gross(s.pos, bar.close))
  OBVIOUS
<1>1. mtm \in Int
  BY DEF Account, Position, Bar, Gross
<1>2. Marked(s) = [s EXCEPT !.peak = Larger(s.peak, mtm)]
  BY DEF Marked
<1>3. s.peak \in Int /\ s.equity \in Int
  BY DEF Account
<1>4. Larger(s.peak, mtm) \in Int /\ Larger(s.peak, mtm) >= s.peak
  BY <1>1, <1>3 DEF Larger
<1>5. s.pos = NoPos => mtm = s.equity
  BY <1>3
<1> QED BY <1>2, <1>4, <1>5 DEF Account

LEMMA SimStart == Init => SimInv
BY FreshBooks DEF Init, SimInv

\* One pass of the loop, of a bar whose account is s after the day boundary and the exits.
LEMMA Passed ==
  ASSUME SimInv, at = "bar", NEW b, ProcessBar(b)
  PROVE  LET s == Settled(state) IN
         \/ state' = Marked(s)
         \/ /\ BreakersOk(s) /\ s.pos = NoPos
            /\ \E sig \in Signals, size \in SIZES : state' = Marked(Entered(s, sig, size, b.open))
BY DEF ProcessBar

LEMMA SimStep == SimInv /\ [Next]_vars => SimInv'
<1> SUFFICES ASSUME SimInv, [Next]_vars PROVE SimInv'
  OBVIOUS
<1>1. ASSUME NEW source, NEW n, NEW allow, NEW with_cv, Load(source, n, allow, with_cv)
      PROVE  SimInv'
  BY <1>1 DEF Load, SimInv
<1>2. ASSUME NEW day \in {bar.day, bar.day + 1}, NEW b \in BarsOf(day), ProcessBar(b) PROVE SimInv'
  <2>1. at = "bar" /\ at' = "bar" /\ bar' = b /\ bar \in Bar
    BY <1>2 DEF ProcessBar, SimInv
  <2>2. bar.day \in Nat /\ day \in Nat /\ bar.day =< day
    BY <2>1 DEF Bar
  <2>3. b \in Bar /\ b.day = day
    BY <2>2, BarsTyped
  <2> PICK s : s = Settled(state)
    OBVIOUS
  <2>4. s \in Account /\ Books(s) /\ s.last_day = bar.day /\ s.peak = state.peak
    BY <2>1, SettledBooks
  <2>5. \E e \in Account : /\ e.equity = s.equity /\ e.peak = s.peak /\ e.closed = s.closed
                            /\ e.last_day = s.last_day /\ e.day_start = s.day_start
                            /\ state' = Marked(e)
    <3>1. CASE state' = Marked(s)
      BY <2>4, <3>1
    <3>2. CASE \E sig \in Signals, size \in SIZES : state' = Marked(Entered(s, sig, size, b.open))
      <4>1. b.open \in Int
        BY <2>3 DEF Bar
      <4> QED BY <2>1, <2>4, <3>2, <4>1, EnteredBooks
    <3> QED BY <1>2, <2>1, <3>1, <3>2, Passed
  <2>6. PICK e \in Account : /\ e.equity = s.equity /\ e.peak = s.peak /\ e.closed = s.closed
                             /\ e.last_day = s.last_day /\ e.day_start = s.day_start
                             /\ state' = Marked(e)
    BY <2>5
  <2>7. /\ state' \in Account /\ state'.peak >= state.peak
        /\ state'.equity = s.equity /\ state'.closed = s.closed
        /\ state'.last_day = s.last_day /\ state'.day_start = s.day_start
    BY <2>1, <2>4, <2>6, MarkedBooks
  <2>8. Books(state')
    BY <2>4, <2>7 DEF Books
  <2>9. state'.peak >= START
    <3>1. state'.peak \in Int /\ state.peak \in Int /\ START \in Int /\ state.peak >= START
      BY <2>7, BacktestConstants DEF Account, SimInv
    <3> QED BY <2>7, <3>1
  <2> QED BY <2>1, <2>2, <2>3, <2>4, <2>7, <2>8, <2>9 DEF SimInv
<1>3. CASE EndFold
  BY <1>3, FreshBooks DEF EndFold, SimInv
<1>4. ASSUME NEW b \in BarsOf(1), NextFold(b) PROVE SimInv'
  <2>1. state' = state /\ state = FreshState /\ at = "fold"
    BY <1>4 DEF NextFold, SimInv
  <2>2. b \in Bar /\ b.day = 1
    BY BarsTyped
  <2>3. (at' = "fold" /\ bar' = bar) \/ (at' = "bar" /\ bar' = b)
    BY <1>4, <2>1 DEF NextFold
  <2> QED BY <2>1, <2>2, <2>3, FreshBooks DEF SimInv
<1>5. ASSUME NEW guard, NEW passes, Finish(guard, passes) PROVE SimInv'
  BY <1>5 DEF Finish, SimInv
<1>6. CASE UNCHANGED vars
  BY <1>6 DEF vars, SimInv
<1> QED
  BY <1>1, <1>2, <1>3, <1>4, <1>5, <1>6 DEF Next

\* A halt or a streak of losses that is reached without a position ends the trading of the
\* fold, for any limits and any series (check_circuit_breakers on closed equity).
THEOREM HaltStays == Spec => HaltIsFinal
<1>1. SimInv /\ [Next]_vars => [Stuck /\ at' = "bar" => Stuck' /\ state'.closed = state.closed]_vars
  <2> SUFFICES ASSUME SimInv, Next, Stuck, at' = "bar"
               PROVE  Stuck' /\ state'.closed = state.closed
    OBVIOUS
  <2>1. at = "bar" /\ state.pos = NoPos /\ (Drawdown(state, HALT) \/ LastLost(state.closed, LOSSES))
    BY DEF Stuck
  <2>2. PICK b : ProcessBar(b)
    BY <2>1 DEF Next, Load, EndFold, NextFold, Finish
  <2> PICK s : s = Settled(state)
    OBVIOUS
  <2>3. /\ s \in Account /\ s.pos = NoPos /\ s.peak = state.peak
        /\ s.closed = state.closed /\ s.equity = state.equity
    BY <2>1, SettledBooks
  <2>4. ~BreakersOk(s)
    BY <2>1, <2>3 DEF BreakersOk, Drawdown
  <2>5. state' = Marked(s) /\ bar \in Bar
    BY <2>1, <2>2, <2>4, Passed DEF SimInv
  <2>6. /\ state'.equity = state.equity /\ state'.closed = state.closed /\ state'.pos = NoPos
        /\ state'.peak = Larger(state.peak, state.equity)
    BY <2>3, <2>5, MarkedBooks
  <2>7. Drawdown(state, HALT) => state'.peak = state.peak
    <3>1. /\ state.peak \in Int /\ state.equity \in Int /\ state.peak >= START
          /\ START \in Nat \ {0} /\ HALT \in Nat \ {0}
      <4>1. HALT \in Nat \ {0}
        BY BacktestConstants
      <4> QED BY <4>1, BacktestConstants DEF SimInv, Account
    <3>2. HALT * state.peak \in Nat /\ HALT * state.peak # 0
      BY <3>1
    <3>3. Drawdown(state, HALT) => state.peak > state.equity
      BY <3>1, <3>2 DEF Drawdown
    <3> QED BY <2>6, <3>1, <3>3 DEF Larger
  <2> QED BY <2>1, <2>6, <2>7 DEF Stuck, Drawdown
<1> QED BY <1>1, SimStart, SimStep, PTL DEF Spec, HaltIsFinal

\* No position is opened on a bar of a day that has lost the limit: the day's baseline is
\* the equity of the trades of the days before, whatever closed over midnight or on the
\* bar itself (check_circuit_breakers, the day boundary of _run_event_loop).
THEOREM DailyLossHeeded == Spec => DailyLossStops
<1>1. SimInv /\ [Next]_vars =>
        [Opens => LET base == START + Earned(state'.closed, Nat \ {bar.day})
                  IN base > 0 => Earned(state'.closed, {bar.day}) * 100 > -DAILY * base]_vars
  <2> SUFFICES ASSUME SimInv, Next, Opens, NEW base, base > 0,
                      base = START + Earned(state'.closed, Nat \ {bar.day})
               PROVE  Earned(state'.closed, {bar.day}) * 100 > -DAILY * base
    OBVIOUS
  <2>1. at = "bar" /\ at' = "bar" /\ state'.pos \notin {NoPos, state.pos} /\ bar \in Bar
    BY DEF Opens, SimInv
  <2>2. PICK b : ProcessBar(b) /\ b.open \in Int
    <3>1. bar.day \in Nat
      BY <2>1 DEF Bar
    <3>2. \A day \in {bar.day, bar.day + 1} : \A x \in BarsOf(day) : x.open \in Int
      BY <3>1, BarsTyped DEF Bar
    <3> QED BY <2>1, <3>2 DEF Next, Load, EndFold, NextFold, Finish
  <2> PICK s : s = Settled(state)
    OBVIOUS
  <2>3. s \in Account /\ Books(s) /\ s.last_day = bar.day /\ s.pos \in {NoPos, state.pos}
    BY <2>1, SettledBooks
  <2>4. state' # Marked(s)
    BY <2>1, <2>3, MarkedBooks
  <2>5. PICK sig \in Signals, size \in SIZES :
          BreakersOk(s) /\ state' = Marked(Entered(s, sig, size, b.open))
    BY <2>1, <2>2, <2>4, Passed
  <2>6. state'.closed = s.closed
    BY <2>1, <2>2, <2>3, <2>5, EnteredBooks, MarkedBooks
  <2>7. s.closed \in Seq(Trade) /\ bar.day \in Nat /\ START \in Int /\ DAILY \in Int
    <3>1. START \in Int /\ DAILY \in Int
      BY BacktestConstants
    <3> QED BY <2>1, <2>3, <3>1 DEF Account, Bar
  <2>8. /\ s.day_start = base
        /\ s.equity - s.day_start = Earned(s.closed, {bar.day})
        /\ base \in Int /\ Earned(s.closed, {bar.day}) \in Int
    <3>1. /\ Earned(s.closed, Nat) = Earned(s.closed, {bar.day}) + Earned(s.closed, Nat \ {bar.day})
          /\ Earned(s.closed, {bar.day}) \in Int /\ Earned(s.closed, Nat \ {bar.day}) \in Int
      BY <2>7, EarnedByDay
    <3>2. s.equity = START + Earned(s.closed, Nat) /\ s.day_start = START + Earned(s.closed, Nat \ {bar.day})
      BY <2>3 DEF Books
    <3> QED BY <2>6, <2>7, <3>1, <3>2
  <2>9. ~((s.equity - s.day_start) * 100 =< -DAILY * s.day_start)
    BY <2>5, <2>8 DEF BreakersOk, LostToday
  <2>10. ~(Earned(s.closed, {bar.day}) * 100 =< -DAILY * base)
    BY <2>8, <2>9
  <2>11. -DAILY * base \in Int /\ Earned(s.closed, {bar.day}) * 100 \in Int
    BY <2>7, <2>8
  <2> QED BY <2>6, <2>10, <2>11
<1> QED BY <1>1, SimStart, SimStep, PTL DEF Spec, DailyLossStops

=============================================================================
