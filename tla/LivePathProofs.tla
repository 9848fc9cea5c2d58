--------------------------- MODULE LivePathProofs ----------------------------
(***************************************************************************)
(* Where the copies of an order go, and which order is executed first, for *)
(* all trades and fetches, any number of attempts and any length of the    *)
(* queue, however many messages are lost and whoever restarts.             *)
(***************************************************************************)
EXTENDS LivePath, FiniteSetTheorems, SequenceTheorems, TLAPS

Commands == Trades \cup Fetches

PathTyped ==
  /\ calling \in Trades \cup {NoCommand}
  /\ attempts \in [Trades -> Nat]
  /\ outcome \in [Trades -> {"none", "pending", "accepted", "raised"}]
  /\ calls \in Seq(Trades)
  /\ wire \subseteq Trades \X Nat /\ IsFiniteSet(wire)
  /\ queue \in Seq(Commands) /\ ea \in Commands \cup {NoCommand}
  /\ executions \in Seq(Commands)
  /\ results \in Seq(DOMAIN executions)
  /\ read \in [Readers -> SUBSET DOMAIN executions]
  /\ arrivals \in [Trades -> Nat] /\ lost \in [Trades -> Nat]

-----------------------------------------------------------------------------
(* Counting copies. *)

One(x, c) == IF x = c THEN 1 ELSE 0

LEMMA CopiesCounted ==
  ASSUME NEW S, NEW s \in Seq(S), NEW c
  PROVE  /\ IsFiniteSet({i \in DOMAIN s : s[i] = c})
         /\ Copies(c, s) \in Nat
         /\ Copies(c, s) = 0 <=> c \notin Elements(s)
<1>1. DOMAIN s = 1..Len(s) /\ Len(s) \in Nat
  OBVIOUS
<1>2. IsFiniteSet(DOMAIN s)
  BY <1>1, FS_Interval
<1>3. IsFiniteSet({i \in DOMAIN s : s[i] = c})
  BY <1>2, FS_Subset
<1>4. Copies(c, s) \in Nat
  BY <1>3, FS_CardinalityType DEF Copies
<1>5. Copies(c, s) = 0 <=> {i \in DOMAIN s : s[i] = c} = {}
  BY <1>3, FS_EmptySet DEF Copies
<1> QED
  BY <1>3, <1>4, <1>5 DEF Elements

LEMMA CopiesAppend ==
  ASSUME NEW S, NEW s \in Seq(S), NEW x \in S, NEW c
  PROVE  Copies(c, Append(s, x)) = Copies(c, s) + One(x, c)
<1> DEFINE t == Append(s, x)
           old == {i \in DOMAIN s : s[i] = c}
           new == {i \in DOMAIN t : t[i] = c}
<1>1. /\ Len(s) \in Nat /\ DOMAIN s = 1..Len(s) /\ DOMAIN t = DOMAIN s \cup {Len(s) + 1}
      /\ Len(s) + 1 \notin DOMAIN s /\ t[Len(s) + 1] = x /\ \A i \in DOMAIN s : t[i] = s[i]
  OBVIOUS
<1>2. IsFiniteSet(old) /\ Copies(c, s) \in Nat
  BY CopiesCounted
<1>5. Copies(c, s) = Cardinality(old) /\ Copies(c, t) = Cardinality(new)
  BY DEF Copies
<1> HIDE DEF t
<1>3. CASE x = c
  <2>1. new = old \cup {Len(s) + 1} /\ Len(s) + 1 \notin old
    BY <1>1, <1>3
  <2>2. Cardinality(new) = Cardinality(old) + 1
    BY <1>2, <2>1, FS_AddElement
  <2> QED
    BY <1>3, <1>5, <2>2 DEF One, t
<1>4. CASE x # c
  <2>1. new = old
    BY <1>1, <1>4
  <2> QED
    <3>1. One(x, c) = 0 /\ Cardinality(new) = Cardinality(old)
      BY <1>4, <2>1 DEF One
    <3> HIDE DEF new, old
    <3> QED
      BY <1>2, <1>5, <3>1 DEF t
<1> QED
  BY <1>3, <1>4

LEMMA CopiesTail ==
  ASSUME NEW S, NEW s \in Seq(S), s # << >>, NEW c
  PROVE  Copies(c, s) = One(Head(s), c) + Copies(c, Tail(s))
<1> DEFINE t == Tail(s)
           n == Len(s)
           there == {i \in DOMAIN t : t[i] = c}
           after == {i \in DOMAIN s : s[i] = c /\ i # 1}
           all == {i \in DOMAIN s : s[i] = c}
           f == [i \in there |-> i + 1]
<1>1. /\ n \in Nat /\ n > 0 /\ DOMAIN s = 1..n /\ DOMAIN t = 1..(n - 1) /\ Head(s) = s[1]
      /\ \A i \in 1..(n - 1) : t[i] = s[i + 1]
      /\ t \in Seq(S)
  OBVIOUS
<1>2. IsFiniteSet(there) /\ IsFiniteSet(all) /\ Copies(c, t) \in Nat
  BY <1>1, CopiesCounted
<1>8. Copies(c, s) = Cardinality(all) /\ Copies(c, t) = Cardinality(there)
  BY DEF Copies
<1> HIDE DEF t, n
<1>3. f \in Bijection(there, after)
  <2>1. \A i \in there : i \in 1..(n - 1) /\ i + 1 \in after
    BY <1>1
  <2>2. \A i \in after : i - 1 \in there /\ i = (i - 1) + 1
    BY <1>1
  <2>3. \A i \in there : i \in Int
    BY <1>1
  <2> HIDE DEF there, after
  <2>4. f \in [there -> after]
    BY <2>1
  <2>5. \A i, j \in there : f[i] = f[j] => i = j
    BY <2>3
  <2>6. \A i \in after : \E j \in there : f[j] = i
    <3> TAKE i \in after
    <3> DEFINE j == i - 1
    <3>1. j \in there /\ i = j + 1
      BY <2>2
    <3> HIDE DEF j
    <3> QED
      BY <3>1
  <2> HIDE DEF f
  <2> QED
    BY <2>4, <2>5, <2>6 DEF Bijection, Injection, IsInjective, Surjection
<1>4. ExistsBijection(there, after)
  BY <1>3 DEF ExistsBijection
<1>5. IsFiniteSet(after) /\ Cardinality(after) = Cardinality(there)
  BY <1>2, <1>4, FS_Bijection
<1> HIDE DEF there, all, after
<1>6. CASE s[1] = c
  <2>1. all = after \cup {1} /\ 1 \notin after
    BY <1>1, <1>6 DEF all, after
  <2>2. Cardinality(all) = Cardinality(after) + 1
    BY <1>5, <2>1, FS_AddElement
  <2> QED
    BY <1>1, <1>2, <1>5, <1>6, <1>8, <2>2 DEF One, t
<1>7. CASE s[1] # c
  <2>1. all = after
    BY <1>1, <1>7 DEF all, after
  <2> QED
    BY <1>1, <1>2, <1>5, <1>7, <1>8, <2>1 DEF One, t
<1> QED
  BY <1>6, <1>7

LEMMA CopiesOfOne ==
  ASSUME NEW S, NEW x \in S, NEW c
  PROVE  Copies(c, <<x>>) = One(x, c)
<1> DEFINE none == << >>
<1>1. none \in Seq(S) /\ c \notin Elements(none) /\ Append(none, x) = <<x>>
  BY DEF Elements
<1> HIDE DEF none
<1>2. Copies(c, none) = 0
  BY <1>1, CopiesCounted
<1>3. Copies(c, Append(none, x)) = Copies(c, none) + One(x, c)
  BY <1>1, CopiesAppend
<1> QED
  BY <1>1, <1>2, <1>3 DEF One

\* Requests of one trade on the wire, when one is sent and when one is taken off.
Sent(w, c) == {m \in w : m[1] = c}

LEMMA SentCounted ==
  ASSUME NEW w, IsFiniteSet(w), NEW c
  PROVE  IsFiniteSet(Sent(w, c)) /\ Cardinality(Sent(w, c)) \in Nat
<1>1. Sent(w, c) \subseteq w
  BY DEF Sent
<1> QED
  BY <1>1, FS_Subset, FS_CardinalityType

LEMMA SentMore ==
  ASSUME NEW w, IsFiniteSet(w), NEW c, NEW n, NEW d, NEW more, more = w \cup {<<c, n>>}
  PROVE  /\ IsFiniteSet(more)
         /\ Cardinality(Sent(more, d)) <= Cardinality(Sent(w, d)) + One(c, d)
<1>1. IsFiniteSet(more)
  BY FS_AddElement
<1>2. IsFiniteSet(Sent(w, d)) /\ Cardinality(Sent(w, d)) \in Nat
  BY SentCounted
<1>3. CASE c = d
  <2>1. Sent(more, d) = Sent(w, d) \cup {<<c, n>>}
    BY <1>3 DEF Sent
  <2>2. Cardinality(Sent(more, d)) <= Cardinality(Sent(w, d)) + 1
    <3> DEFINE S == Sent(w, d)
               e == <<c, n>>
    <3>1. IsFiniteSet(S) /\ Cardinality(S) \in Nat /\ Sent(more, d) = S \cup {e}
      BY <1>2, <2>1
    <3> HIDE DEF S, e
    <3>2. Cardinality(S \cup {e}) = IF e \in S THEN Cardinality(S) ELSE Cardinality(S) + 1
      BY <3>1, FS_AddElement
    <3>3. Cardinality(Sent(more, d)) <= Cardinality(S) + 1
      BY <3>1, <3>2
    <3> QED
      BY <3>3 DEF S
  <2> QED
    BY <1>1, <1>3, <2>2 DEF One
<1>4. CASE c # d
  <2>1. Sent(more, d) = Sent(w, d)
    BY <1>4 DEF Sent
  <2>2. One(c, d) = 0
    BY <1>4 DEF One
  <2> QED
    BY <1>1, <1>2, <2>1, <2>2
<1> QED
  BY <1>3, <1>4

LEMMA SentLess ==
  ASSUME NEW w, IsFiniteSet(w), NEW c, NEW n, <<c, n>> \in w, NEW d, NEW less, less = w \ {<<c, n>>}
  PROVE  /\ IsFiniteSet(less)
         /\ Cardinality(Sent(less, d)) + One(c, d) = Cardinality(Sent(w, d))
         /\ Cardinality(Sent(less, d)) \in Nat
<1>1. IsFiniteSet(less)
  BY FS_RemoveElement
<1>2. /\ IsFiniteSet(Sent(w, d)) /\ Cardinality(Sent(w, d)) \in Nat
      /\ Cardinality(Sent(less, d)) \in Nat
  BY <1>1, SentCounted
<1>3. CASE c = d
  <2>1. Sent(less, d) = Sent(w, d) \ {<<c, n>>} /\ <<c, n>> \in Sent(w, d)
    BY <1>3 DEF Sent
  <2>2. Cardinality(Sent(less, d)) = Cardinality(Sent(w, d)) - 1
    BY <1>2, <2>1, FS_RemoveElement
  <2> QED
    BY <1>1, <1>2, <1>3, <2>2 DEF One
<1>4. CASE c # d
  <2>1. Sent(less, d) = Sent(w, d)
    BY <1>4 DEF Sent
  <2>2. One(c, d) = 0
    BY <1>4 DEF One
  <2> QED
    BY <1>1, <1>2, <2>1, <2>2
<1> QED
  BY <1>3, <1>4

-----------------------------------------------------------------------------
(* Every copy is somewhere. *)

\* Conserved, in three parts, and what it rests on: a trade that has not been called
\* was not attempted.
Balanced ==
  \A c \in Trades :
    Copies(c, queue) + One(ea, c) + Copies(c, executions) + lost[c] = arrivals[c]
Attempted ==
  /\ calling # NoCommand => outcome[calling] = "pending"
  /\ \A c \in Trades :
       /\ arrivals[c] + Cardinality(Sent(wire, c)) <= attempts[c]
       /\ outcome[c] = "none" => attempts[c] = 0
ReadOnce ==
  \A i \in DOMAIN executions :
    Copies(i, results) + Cardinality({r \in Readers : i \in read[r]}) <= 1

CopiesInv == PathTyped /\ Balanced /\ Attempted /\ ReadOnce

\* What a lost command adds to.
LEMMA LostOne ==
  ASSUME PathTyped, NEW x \in Commands, lost' = LostWith(<<x>>)
  PROVE  lost' \in [Trades -> Nat] /\ \A d \in Trades : lost'[d] = lost[d] + One(x, d)
<1>1. \A d \in Trades : Copies(d, <<x>>) = One(x, d) /\ One(x, d) \in Nat
  BY CopiesOfOne DEF One
<1> QED
  <2>1. lost \in [Trades -> Nat] /\ lost' = [d \in Trades |-> lost[d] + Copies(d, <<x>>)]
    BY DEF PathTyped, LostWith
  <2>2. lost' = [d \in Trades |-> lost[d] + One(x, d)]
    BY <1>1, <2>1
  <2> QED
    BY <1>1, <2>1, <2>2

\* A command that the queue takes, at the price of its oldest when it is full.
LEMMA Enqueued ==
  ASSUME PathTyped, NEW x \in Commands, Enqueue(x)
  PROVE  /\ queue' \in Seq(Commands) /\ lost' \in [Trades -> Nat]
         /\ \A d \in Trades :
              Copies(d, queue') + lost'[d] = Copies(d, queue) + lost[d] + One(x, d)
<1>1. queue \in Seq(Commands) /\ lost \in [Trades -> Nat] /\ Len(queue) \in Nat
  BY DEF PathTyped
<1>2. \A d \in Trades : Copies(d, queue) \in Nat /\ lost[d] \in Nat /\ One(x, d) \in Nat
  BY <1>1, CopiesCounted DEF One
<1>3. CASE queue' = Append(queue, x) /\ lost' = lost
  <2>1. \A d \in Trades : Copies(d, queue') = Copies(d, queue) + One(x, d)
    BY <1>1, <1>3, CopiesAppend
  <2> QED
    BY <1>1, <1>2, <1>3, <2>1
<1>4. CASE Len(queue) >= QUEUE_MAX /\ queue' = Append(Tail(queue), x) /\ lost' = LostWith(<<Head(queue)>>)
  <2>1. queue # << >>
    BY <1>1, <1>4, PathConstants
  <2> DEFINE h == Head(queue)
             t == Tail(queue)
  <2>2. h \in Commands /\ t \in Seq(Commands)
    BY <1>1, <2>1, HeadTailProperties
  <2>3. \A d \in Trades : Copies(d, queue) = One(h, d) + Copies(d, t)
    BY <1>1, <2>1, CopiesTail
  <2>4. lost' = LostWith(<<h>>) /\ queue' = Append(t, x)
    BY <1>4
  <2> HIDE DEF h, t
  <2>5. \A d \in Trades : Copies(d, queue') = Copies(d, t) + One(x, d)
    BY <2>2, <2>4, CopiesAppend
  <2>6. lost' \in [Trades -> Nat] /\ \A d \in Trades : lost'[d] = lost[d] + One(h, d)
    BY <2>2, <2>4, LostOne
  <2>7. queue' \in Seq(Commands)
    BY <2>2, <2>4
  <2>8. \A d \in Trades : Copies(d, t) \in Nat /\ One(h, d) \in Nat
    BY <2>2, CopiesCounted DEF One
  <2> QED
    BY <1>2, <2>3, <2>5, <2>6, <2>7, <2>8
<1> QED
  BY <1>1, <1>3, <1>4, PathConstants DEF Enqueue

\* The oldest command leaves the queue.
LEMMA Dequeued ==
  ASSUME PathTyped, queue # << >>, queue' = Tail(queue)
  PROVE  /\ queue' \in Seq(Commands) /\ Head(queue) \in Commands
         /\ \A d \in Trades : /\ Copies(d, queue) = One(Head(queue), d) + Copies(d, queue')
                             /\ Copies(d, queue') \in Nat
<1>1. queue \in Seq(Commands)
  BY DEF PathTyped
<1>2. queue' \in Seq(Commands) /\ Head(queue) \in Commands
  BY <1>1, HeadTailProperties
<1>3. \A d \in Trades : Copies(d, queue) = One(Head(queue), d) + Copies(d, Tail(queue))
  BY <1>1, CopiesTail
<1> QED
  BY <1>2, <1>3, CopiesCounted

\* The queue, the EA and what is lost are left alone.
LEMMA BalanceQuiet ==
  ASSUME Balanced, UNCHANGED <<queue, ea, executions, lost, arrivals>>
  PROVE  Balanced'
BY DEF Balanced, Copies, One

LEMMA ReadQuiet ==
  ASSUME ReadOnce, UNCHANGED <<executions, results, read>>
  PROVE  ReadOnce'
BY DEF ReadOnce, Copies

LEMMA AttemptedQuiet ==
  ASSUME Attempted, UNCHANGED <<calling, outcome, attempts, wire, arrivals>>
  PROVE  Attempted'
BY DEF Attempted, Sent

\* A call begins.
LEMMA SendOrderKeeps ==
  ASSUME CopiesInv, NEW c \in Trades, SendOrder(c)
  PROVE  CopiesInv'
<1>1. /\ calling = NoCommand /\ outcome[c] = "none" /\ calling' = c /\ calls' = Append(calls, c)
      /\ outcome' = [outcome EXCEPT ![c] = "pending"] /\ attempts' = [attempts EXCEPT ![c] = 1]
      /\ wire' = wire \cup {<<c, 1>>}
      /\ UNCHANGED <<queue, results, ea, executions, read, arrivals, lost>>
  BY DEF SendOrder, Attempt, bridge
<1>2. PathTyped
  BY DEF CopiesInv
<1>3. IsFiniteSet(wire') /\ \A d \in Trades :
        Cardinality(Sent(wire', d)) <= Cardinality(Sent(wire, d)) + One(c, d)
  BY <1>1, <1>2, SentMore DEF PathTyped
<1>4. PathTyped'
  <2>1. calls' \in Seq(Trades)
    BY <1>1, <1>2 DEF PathTyped
  <2>2. wire' \subseteq Trades \X Nat
    BY <1>1, <1>2 DEF PathTyped
  <2> QED
    BY <1>1, <1>2, <1>3, <2>1, <2>2 DEF PathTyped
<1>5. Attempted'
  <2>1. outcome'[c] = "pending" /\ \A d \in Trades \ {c} : outcome'[d] = outcome[d]
    BY <1>1, <1>2 DEF PathTyped
  <2>2. attempts'[c] = 1 /\ \A d \in Trades \ {c} : attempts'[d] = attempts[d]
    BY <1>1, <1>2 DEF PathTyped
  <2>3. \A d \in Trades : /\ arrivals[d] \in Nat /\ Cardinality(Sent(wire, d)) \in Nat
                         /\ Cardinality(Sent(wire', d)) \in Nat
    BY <1>2, <1>3, SentCounted DEF PathTyped
  <2>4. arrivals[c] + Cardinality(Sent(wire, c)) <= 0
    BY <1>1 DEF CopiesInv, Attempted
  <2>5. arrivals'[c] + Cardinality(Sent(wire', c)) <= 1
    <3>1. One(c, c) = 1
      BY DEF One
    <3>2. Cardinality(Sent(wire', c)) <= Cardinality(Sent(wire, c)) + 1
      BY <1>3, <3>1
    <3>3. arrivals'[c] = arrivals[c]
      BY <1>1
    <3> QED
      BY <2>3, <2>4, <3>2, <3>3
  <2>6. \A d \in Trades \ {c} : arrivals'[d] + Cardinality(Sent(wire', d)) <= attempts[d]
    <3>1. \A d \in Trades \ {c} : attempts[d] \in Nat /\ One(c, d) = 0
      BY <1>2 DEF PathTyped, One
    <3> SUFFICES ASSUME NEW d \in Trades \ {c}
                 PROVE  arrivals'[d] + Cardinality(Sent(wire', d)) <= attempts[d]
      OBVIOUS
    <3>2. Cardinality(Sent(wire', d)) <= Cardinality(Sent(wire, d)) + 0
      BY <1>3, <3>1
    <3>3. arrivals[d] + Cardinality(Sent(wire, d)) <= attempts[d] /\ arrivals'[d] = arrivals[d]
      BY <1>1 DEF CopiesInv, Attempted
    <3> QED
      BY <2>3, <3>1, <3>2, <3>3
  <2> QED
    BY <1>1, <2>1, <2>2, <2>5, <2>6 DEF CopiesInv, Attempted
<1> QED
  BY <1>1, <1>4, <1>5, BalanceQuiet, ReadQuiet DEF CopiesInv

\* An attempt fails: another is made, or the call ends.
LEMMA AttemptFailsKeeps ==
  ASSUME CopiesInv, NEW unsent \in BOOLEAN, AttemptFails(unsent)
  PROVE  CopiesInv'
<1> DEFINE c == calling
           kept == IF unsent THEN wire \ {<<c, attempts[c]>>} ELSE wire
<1>1. PathTyped /\ c \in Trades /\ outcome[c] = "pending"
  BY DEF CopiesInv, PathTyped, Attempted, AttemptFails
<1>2. UNCHANGED <<queue, results, ea, executions, read, arrivals, lost, calls>>
  BY DEF AttemptFails, bridge
<1>3. /\ kept \subseteq Trades \X Nat /\ IsFiniteSet(kept)
      /\ \A d \in Trades : /\ Cardinality(Sent(kept, d)) \in Nat
                          /\ Cardinality(Sent(kept, d)) <= Cardinality(Sent(wire, d))
                          /\ Cardinality(Sent(wire, d)) \in Nat
  <2>1. wire \subseteq Trades \X Nat /\ IsFiniteSet(wire)
    BY <1>1 DEF PathTyped
  <2>2. kept \subseteq wire
    OBVIOUS
  <2>3. IsFiniteSet(kept)
    BY <2>1, <2>2, FS_Subset
  <2>4. \A d \in Trades : Sent(kept, d) \subseteq Sent(wire, d)
    BY <2>2 DEF Sent
  <2> HIDE DEF kept
  <2>5. \A d \in Trades : IsFiniteSet(Sent(wire, d)) /\ Cardinality(Sent(wire, d)) \in Nat
                         /\ Cardinality(Sent(kept, d)) \in Nat
    BY <2>1, <2>3, SentCounted
  <2>6. \A d \in Trades : Cardinality(Sent(kept, d)) <= Cardinality(Sent(wire, d))
    BY <2>4, <2>5, FS_Subset
  <2> QED
    BY <2>1, <2>2, <2>3, <2>5, <2>6
<1>4. \A d \in Trades : arrivals[d] \in Nat /\ attempts[d] \in Nat
  BY <1>1 DEF PathTyped
<1>5. \/ /\ attempts' = [attempts EXCEPT ![c] = @ + 1] /\ wire' = kept \cup {<<c, attempts[c] + 1>>}
         /\ UNCHANGED <<calling, outcome>>
      \/ /\ outcome' = [outcome EXCEPT ![c] = "raised"] /\ calling' = NoCommand
         /\ wire' = kept /\ UNCHANGED attempts
  BY DEF AttemptFails
<1> HIDE DEF kept, c
<1>6. CASE /\ attempts' = [attempts EXCEPT ![c] = @ + 1] /\ wire' = kept \cup {<<c, attempts[c] + 1>>}
           /\ UNCHANGED <<calling, outcome>>
  <2>1. IsFiniteSet(wire') /\ \A d \in Trades :
          Cardinality(Sent(wire', d)) <= Cardinality(Sent(kept, d)) + One(c, d)
    BY <1>3, <1>6, SentMore
  <2>2. \A d \in Trades : Cardinality(Sent(wire', d)) \in Nat /\ One(c, d) \in Nat
    BY <2>1, SentCounted DEF One
  <2>3. /\ attempts' \in [Trades -> Nat] /\ \A d \in Trades : attempts'[d] = attempts[d] + One(c, d)
    BY <1>1, <1>4, <1>6 DEF PathTyped, One
  <2>4. wire' \subseteq Trades \X Nat
    BY <1>1, <1>3, <1>4, <1>6
  <2>5. PathTyped'
    BY <1>1, <1>2, <1>6, <2>1, <2>3, <2>4 DEF PathTyped
  <2>6. \A d \in Trades : arrivals[d] + Cardinality(Sent(wire, d)) <= attempts[d]
    BY DEF CopiesInv, Attempted
  <2>7. \A d \in Trades : arrivals'[d] + Cardinality(Sent(wire', d)) <= attempts'[d]
    BY <1>2, <1>3, <1>4, <2>1, <2>2, <2>3, <2>6
  <2>8. \A d \in Trades : outcome[d] = "none" => d # c
    BY <1>1
  <2>9. \A d \in Trades : outcome'[d] = "none" => attempts'[d] = 0
    BY <1>6, <2>3, <2>8 DEF CopiesInv, Attempted, One
  <2>10. Attempted'
    BY <1>6, <2>7, <2>9 DEF CopiesInv, Attempted
  <2> QED
    BY <1>2, <2>5, <2>10, BalanceQuiet, ReadQuiet DEF CopiesInv
<1>7. CASE /\ outcome' = [outcome EXCEPT ![c] = "raised"] /\ calling' = NoCommand
           /\ wire' = kept /\ UNCHANGED attempts
  <2>1. PathTyped'
    BY <1>1, <1>2, <1>3, <1>7 DEF PathTyped
  <2>2. \A d \in Trades : outcome'[d] = "none" => outcome[d] = "none"
    BY <1>1, <1>7 DEF PathTyped
  <2>3. \A d \in Trades : arrivals[d] + Cardinality(Sent(wire, d)) <= attempts[d]
    BY DEF CopiesInv, Attempted
  <2>4. \A d \in Trades : arrivals'[d] + Cardinality(Sent(wire', d)) <= attempts'[d]
    BY <1>2, <1>3, <1>4, <1>7, <2>3
  <2>5. Attempted'
    BY <1>7, <2>2, <2>4 DEF CopiesInv, Attempted
  <2> QED
    BY <1>2, <2>1, <2>5, BalanceQuiet, ReadQuiet DEF CopiesInv
<1> QED
  BY <1>5, <1>6, <1>7

\* The bridge takes an order.
LEMMA BridgeSendOrderKeeps ==
  ASSUME CopiesInv, NEW c \in Trades, NEW n \in Nat, NEW answered \in BOOLEAN,
         BridgeSendOrder(c, n, answered)
  PROVE  CopiesInv'
<1>1. /\ PathTyped /\ <<c, n>> \in wire /\ wire' = wire \ {<<c, n>>} /\ Enqueue(c)
      /\ arrivals' = [arrivals EXCEPT ![c] = @ + 1]
      /\ UNCHANGED <<attempts, calls, results, ea, executions, read>>
  BY DEF CopiesInv, BridgeSendOrder
<1>2. /\ queue' \in Seq(Commands) /\ lost' \in [Trades -> Nat]
      /\ \A d \in Trades :
           Copies(d, queue') + lost'[d] = Copies(d, queue) + lost[d] + One(c, d)
  BY <1>1, Enqueued DEF Commands
<1>3. IsFiniteSet(wire') /\ \A d \in Trades :
        /\ Cardinality(Sent(wire', d)) + One(c, d) = Cardinality(Sent(wire, d))
        /\ Cardinality(Sent(wire', d)) \in Nat
  BY <1>1, SentLess DEF PathTyped
<1>4. \A d \in Trades : /\ arrivals[d] \in Nat /\ attempts[d] \in Nat /\ lost[d] \in Nat /\ lost'[d] \in Nat
                       /\ One(c, d) \in Nat /\ One(ea, d) \in Nat
                       /\ Copies(d, queue) \in Nat /\ Copies(d, queue') \in Nat
                       /\ Copies(d, executions) \in Nat
  <2>1. queue \in Seq(Commands) /\ executions \in Seq(Commands)
    BY <1>1 DEF PathTyped
  <2>2. \A d \in Trades : /\ Copies(d, queue) \in Nat /\ Copies(d, queue') \in Nat
                         /\ Copies(d, executions) \in Nat
    BY <1>2, <2>1, CopiesCounted
  <2> QED
    BY <1>1, <1>2, <2>2 DEF PathTyped, One
<1>5. arrivals' \in [Trades -> Nat] /\ \A d \in Trades : arrivals'[d] = arrivals[d] + One(c, d)
  <2>1. arrivals' \in [Trades -> Nat] /\ arrivals'[c] = arrivals[c] + 1
        /\ \A d \in Trades \ {c} : arrivals'[d] = arrivals[d]
    <3>1. arrivals \in [Trades -> Nat]
      BY <1>1 DEF PathTyped
    <3>2. arrivals' = [arrivals EXCEPT ![c] = arrivals[c] + 1] /\ arrivals[c] + 1 \in Nat
      BY <1>1, <1>4
    <3> QED
      BY <3>1, <3>2
  <2>2. One(c, c) = 1 /\ \A d \in Trades \ {c} : One(c, d) = 0 /\ arrivals[d] + 0 = arrivals[d]
    BY <1>4 DEF One
  <2>3. \A d \in Trades \ {c} : arrivals'[d] = arrivals[d] + One(c, d)
    BY <2>1, <2>2
  <2> QED
    BY <2>1, <2>2, <2>3
<1>6. /\ calling' \in {calling, NoCommand}
      /\ outcome' \in [Trades -> {"none", "pending", "accepted", "raised"}]
      /\ calling' # NoCommand => outcome'[calling'] = "pending"
      /\ \A d \in Trades : outcome'[d] = "none" => outcome[d] = "none"
  <2>1. CASE answered
    BY <1>1, <2>1 DEF BridgeSendOrder, PathTyped
  <2>2. CASE ~answered
    BY <1>1, <2>2 DEF BridgeSendOrder, PathTyped, CopiesInv, Attempted
  <2> QED
    BY <2>1, <2>2
<1>7. PathTyped'
  <2>1. wire' \subseteq Trades \X Nat
    BY <1>1 DEF PathTyped
  <2> QED
    BY <1>1, <1>2, <1>3, <1>5, <1>6, <2>1 DEF PathTyped
<1>8. Balanced'
  <2>1. \A d \in Trades :
          Copies(d, queue) + One(ea, d) + Copies(d, executions) + lost[d] = arrivals[d]
    BY DEF CopiesInv, Balanced
  <2>2. \A d \in Trades :
          Copies(d, queue') + One(ea, d) + Copies(d, executions) + lost'[d] = arrivals'[d]
    <3> TAKE d \in Trades
    <3>1. Copies(d, queue') + lost'[d] = Copies(d, queue) + lost[d] + One(c, d)
      BY <1>2
    <3>2. arrivals'[d] = arrivals[d] + One(c, d)
      BY <1>5
    <3>3. Copies(d, queue) + One(ea, d) + Copies(d, executions) + lost[d] = arrivals[d]
      BY <2>1
    <3> QED
      BY <1>4, <3>1, <3>2, <3>3
  <2> QED
    BY <1>1, <2>2 DEF Balanced
<1>9. Attempted'
  <2>1. \A d \in Trades : arrivals[d] + Cardinality(Sent(wire, d)) <= attempts[d]
    BY DEF CopiesInv, Attempted
  <2>2. \A d \in Trades : arrivals'[d] + Cardinality(Sent(wire', d)) <= attempts'[d]
    <3> TAKE d \in Trades
    <3>1. arrivals[d] + Cardinality(Sent(wire, d)) <= attempts[d] /\ attempts'[d] = attempts[d]
      BY <1>1, <2>1
    <3>2. arrivals'[d] = arrivals[d] + One(c, d)
      BY <1>5
    <3>3. Cardinality(Sent(wire', d)) + One(c, d) = Cardinality(Sent(wire, d))
          /\ Cardinality(Sent(wire', d)) \in Nat
      BY <1>3
    <3> QED
      BY <1>4, <3>1, <3>2, <3>3
  <2> QED
    BY <1>1, <1>6, <2>2 DEF CopiesInv, Attempted
<1> QED
  BY <1>1, <1>7, <1>8, <1>9, ReadQuiet DEF CopiesInv

-----------------------------------------------------------------------------
(* The queue, the EA and the results. *)

\* What a step that moves copies about has to show.
LEMMA CopiesMoved ==
  ASSUME CopiesInv, PathTyped',
         UNCHANGED <<calling, attempts, outcome, wire, arrivals>>, ReadOnce',
         \A d \in Trades :
           Copies(d, queue') + One(ea', d) + Copies(d, executions') + lost'[d]
             = Copies(d, queue) + One(ea, d) + Copies(d, executions) + lost[d]
  PROVE  CopiesInv'
<1>1. Balanced'
  BY DEF CopiesInv, Balanced
<1> QED
  BY <1>1, AttemptedQuiet DEF CopiesInv

\* The counts are numbers.
LEMMA CountsTyped ==
  ASSUME PathTyped, NEW d \in Trades
  PROVE  /\ Copies(d, queue) \in Nat /\ Copies(d, executions) \in Nat
         /\ lost[d] \in Nat /\ One(ea, d) \in Nat
<1>1. queue \in Seq(Commands) /\ executions \in Seq(Commands) /\ lost[d] \in Nat
  BY DEF PathTyped
<1> QED
  BY <1>1, CopiesCounted DEF One

LEMMA NothingElsewhere ==
  ASSUME PathTyped
  PROVE  /\ \A d \in Trades : One(NoCommand, d) = 0
         /\ \A d \in Trades, f \in Fetches : One(f, d) = 0
BY PathConstants DEF One

LEMMA BridgeSendFetchKeeps ==
  ASSUME CopiesInv, NEW f \in Fetches, BridgeSendFetch(f)
  PROVE  CopiesInv'
<1>1. /\ PathTyped /\ Enqueue(f)
      /\ UNCHANGED <<calling, attempts, outcome, calls, wire, results, ea, executions, read, arrivals>>
  BY DEF CopiesInv, BridgeSendFetch, client
<1>2. /\ queue' \in Seq(Commands) /\ lost' \in [Trades -> Nat]
      /\ \A d \in Trades :
           Copies(d, queue') + lost'[d] = Copies(d, queue) + lost[d] + One(f, d)
  BY <1>1, Enqueued DEF Commands
<1>3. PathTyped'
  BY <1>1, <1>2 DEF PathTyped
<1>4. ASSUME NEW d \in Trades
      PROVE  Copies(d, queue') + One(ea', d) + Copies(d, executions') + lost'[d]
               = Copies(d, queue) + One(ea, d) + Copies(d, executions) + lost[d]
  <2>1. Copies(d, queue') + lost'[d] = Copies(d, queue) + lost[d] + 0
    BY <1>1, <1>2, NothingElsewhere
  <2>2. /\ Copies(d, queue) \in Nat /\ Copies(d, executions) \in Nat
        /\ lost[d] \in Nat /\ One(ea, d) \in Nat
    BY <1>1, CountsTyped
  <2>3. Copies(d, queue') \in Nat /\ lost'[d] \in Nat
    BY <1>2, CopiesCounted
  <2> QED
    BY <1>1, <2>1, <2>2, <2>3
<1>5. ReadOnce'
  BY <1>1, ReadQuiet DEF CopiesInv
<1> QED
  BY <1>1, <1>3, <1>4, <1>5, CopiesMoved

LEMMA CommandTakenKeeps ==
  ASSUME CopiesInv, GetCommand \/ GetCommandLost
  PROVE  CopiesInv'
<1>1. /\ PathTyped /\ ea = NoCommand /\ queue # << >> /\ queue' = Tail(queue)
      /\ UNCHANGED <<calling, attempts, outcome, calls, wire, results, executions, read, arrivals>>
  BY DEF CopiesInv, GetCommand, GetCommandLost, client
<1> DEFINE h == Head(queue)
<1>2. /\ queue' \in Seq(Commands) /\ h \in Commands
      /\ \A d \in Trades : Copies(d, queue) = One(h, d) + Copies(d, queue') /\ Copies(d, queue') \in Nat
  BY <1>1, Dequeued
<1>3. \/ ea' = h /\ lost' = lost
      \/ ea' = ea /\ lost' = LostWith(<<h>>)
  BY DEF GetCommand, GetCommandLost
<1> HIDE DEF h
<1>4. ReadOnce'
  BY <1>1, ReadQuiet DEF CopiesInv
<1>5. CASE ea' = h /\ lost' = lost
  <2>1. PathTyped'
    BY <1>1, <1>2, <1>5 DEF PathTyped
  <2>2. ASSUME NEW d \in Trades
        PROVE  Copies(d, queue') + One(ea', d) + Copies(d, executions') + lost'[d]
                 = Copies(d, queue) + One(ea, d) + Copies(d, executions) + lost[d]
    <3>1. One(ea, d) = 0 /\ One(ea', d) = One(h, d) /\ One(h, d) \in Nat
      BY <1>1, <1>5, NothingElsewhere DEF One
    <3>2. Copies(d, queue) = One(h, d) + Copies(d, queue') /\ Copies(d, queue') \in Nat
      BY <1>2
    <3>3. Copies(d, executions) \in Nat /\ lost[d] \in Nat
      BY <1>1, CountsTyped
    <3> QED
      BY <1>1, <1>5, <3>1, <3>2, <3>3
  <2> QED
    BY <1>1, <1>4, <2>1, <2>2, CopiesMoved
<1>6. CASE ea' = ea /\ lost' = LostWith(<<h>>)
  <2>1. lost' \in [Trades -> Nat] /\ \A d \in Trades : lost'[d] = lost[d] + One(h, d)
    BY <1>1, <1>2, <1>6, LostOne
  <2>2. PathTyped'
    BY <1>1, <1>2, <1>6, <2>1 DEF PathTyped
  <2>3. ASSUME NEW d \in Trades
        PROVE  Copies(d, queue') + One(ea', d) + Copies(d, executions') + lost'[d]
                 = Copies(d, queue) + One(ea, d) + Copies(d, executions) + lost[d]
    <3>1. lost'[d] = lost[d] + One(h, d) /\ One(h, d) \in Nat
      BY <2>1 DEF One
    <3>2. Copies(d, queue) = One(h, d) + Copies(d, queue') /\ Copies(d, queue') \in Nat
      BY <1>2
    <3>3. Copies(d, executions) \in Nat /\ lost[d] \in Nat /\ One(ea, d) \in Nat
      BY <1>1, CountsTyped
    <3> QED
      BY <1>1, <1>6, <3>1, <3>2, <3>3
  <2> QED
    BY <1>1, <1>4, <2>2, <2>3, CopiesMoved
<1> QED
  BY <1>3, <1>5, <1>6

LEMMA EaRestartKeeps ==
  ASSUME CopiesInv, EaRestart
  PROVE  CopiesInv'
<1>1. /\ PathTyped /\ ea \in Commands /\ ea' = NoCommand /\ lost' = LostWith(<<ea>>)
      /\ UNCHANGED <<calling, attempts, outcome, calls, wire, queue, results, executions, read, arrivals>>
  BY DEF CopiesInv, PathTyped, EaRestart, client, bridge
<1>2. lost' \in [Trades -> Nat] /\ \A d \in Trades : lost'[d] = lost[d] + One(ea, d)
  BY <1>1, LostOne
<1>3. PathTyped'
  BY <1>1, <1>2 DEF PathTyped
<1>4. ASSUME NEW d \in Trades
      PROVE  Copies(d, queue') + One(ea', d) + Copies(d, executions') + lost'[d]
               = Copies(d, queue) + One(ea, d) + Copies(d, executions) + lost[d]
  <2>1. One(ea', d) = 0 /\ lost'[d] = lost[d] + One(ea, d)
    BY <1>1, <1>2, NothingElsewhere
  <2>2. /\ Copies(d, queue) \in Nat /\ Copies(d, executions) \in Nat
        /\ lost[d] \in Nat /\ One(ea, d) \in Nat
    BY <1>1, CountsTyped
  <2> QED
    BY <1>1, <2>1, <2>2
<1>5. ReadOnce'
  BY <1>1, ReadQuiet DEF CopiesInv
<1> QED
  BY <1>1, <1>3, <1>4, <1>5, CopiesMoved

LEMMA NoCopies ==
  ASSUME NEW c
  PROVE  Copies(c, << >>) = 0
<1> DEFINE none == << >>
<1>1. none \in Seq(Nat) /\ c \notin Elements(none)
  BY DEF Elements
<1> HIDE DEF none
<1>2. Copies(c, none) = 0
  BY <1>1, CopiesCounted
<1> QED
  BY <1>2 DEF none

\* The readers that have a result.
LEMMA ReadersCounted ==
  ASSUME NEW who \in SUBSET Readers
  PROVE  IsFiniteSet(who) /\ Cardinality(who) \in Nat /\ (Cardinality(who) = 0 <=> who = {})
<1>1. IsFiniteSet({"loop"})
  BY FS_Singleton
<1>2. IsFiniteSet({"loop"} \cup {"monitor"})
  BY <1>1, FS_AddElement
<1>3. {"loop"} \cup {"monitor"} = Readers
  BY DEF Readers
<1>4. IsFiniteSet(Readers)
  BY <1>2, <1>3
<1>5. IsFiniteSet(who)
  BY <1>4, FS_Subset
<1> QED
  BY <1>5, FS_CardinalityType, FS_EmptySet

LEMMA BridgeRestartKeeps ==
  ASSUME CopiesInv, BridgeRestart
  PROVE  CopiesInv'
<1>1. /\ PathTyped /\ queue' = << >> /\ results' = << >> /\ lost' = LostWith(queue)
      /\ UNCHANGED <<calling, attempts, outcome, calls, wire, ea, executions, read, arrivals>>
  BY DEF CopiesInv, BridgeRestart, client
<1>2. queue \in Seq(Commands) /\ lost \in [Trades -> Nat]
  BY <1>1 DEF PathTyped
<1>3. \A d \in Trades : Copies(d, queue) \in Nat
  BY <1>2, CopiesCounted
<1>4. lost' \in [Trades -> Nat] /\ \A d \in Trades : lost'[d] = lost[d] + Copies(d, queue)
  BY <1>1, <1>2, <1>3 DEF LostWith
<1>5. PathTyped'
  BY <1>1, <1>4 DEF PathTyped
<1>6. ASSUME NEW d \in Trades
      PROVE  Copies(d, queue') + One(ea', d) + Copies(d, executions') + lost'[d]
               = Copies(d, queue) + One(ea, d) + Copies(d, executions) + lost[d]
  <2>1. Copies(d, queue') = 0 /\ lost'[d] = lost[d] + Copies(d, queue)
    BY <1>1, <1>4, NoCopies
  <2>2. /\ Copies(d, queue) \in Nat /\ Copies(d, executions) \in Nat
        /\ lost[d] \in Nat /\ One(ea, d) \in Nat
    BY <1>1, CountsTyped
  <2> QED
    BY <1>1, <2>1, <2>2
<1>7. ReadOnce'
  <2> SUFFICES ASSUME NEW i \in DOMAIN executions
               PROVE  Copies(i, results') + Cardinality({r \in Readers : i \in read[r]}) <= 1
    BY <1>1 DEF ReadOnce
  <2> DEFINE who == {r \in Readers : i \in read[r]}
  <2>1. Copies(i, results) + Cardinality(who) <= 1
    BY DEF CopiesInv, ReadOnce
  <2>2. who \in SUBSET Readers
    OBVIOUS
  <2> HIDE DEF who
  <2>3. Cardinality(who) \in Nat /\ Copies(i, results) \in Nat /\ Copies(i, results') = 0
    BY <1>1, <2>2, ReadersCounted, CopiesCounted, NoCopies DEF PathTyped
  <2>4. Copies(i, results') + Cardinality(who) <= 1
    BY <2>1, <2>3
  <2> QED
    BY <2>4 DEF who
<1> QED
  BY <1>1, <1>5, <1>6, <1>7, CopiesMoved

\* The EA acts; its result has a number of its own.
LEMMA ActAndReportKeeps ==
  ASSUME CopiesInv, NEW posted \in BOOLEAN, ea \in Commands, ActAndReport(posted)
  PROVE  CopiesInv'
<1> DEFINE n == Len(executions) + 1
<1>1. /\ PathTyped /\ executions' = Append(executions, ea) /\ ea' = NoCommand
      /\ results' = IF posted THEN Append(results, n) ELSE results
      /\ UNCHANGED <<calling, attempts, outcome, calls, wire, queue, read, arrivals, lost>>
  BY DEF CopiesInv, ActAndReport, client
<1>2. /\ executions \in Seq(Commands) /\ results \in Seq(DOMAIN executions)
      /\ read \in [Readers -> SUBSET DOMAIN executions]
  BY <1>1 DEF PathTyped
<1>3. /\ executions' \in Seq(Commands) /\ DOMAIN executions' = DOMAIN executions \cup {n}
      /\ n \notin DOMAIN executions /\ n \in Nat
  BY <1>1, <1>2
<1> HIDE DEF n
<1>4. results \in Seq(DOMAIN executions') /\ results' \in Seq(DOMAIN executions')
  BY <1>1, <1>2, <1>3
<1>5. read' \in [Readers -> SUBSET DOMAIN executions']
  BY <1>1, <1>2, <1>3
<1>6. PathTyped'
  BY <1>1, <1>3, <1>4, <1>5 DEF PathTyped
<1>7. ASSUME NEW d \in Trades
      PROVE  Copies(d, queue') + One(ea', d) + Copies(d, executions') + lost'[d]
               = Copies(d, queue) + One(ea, d) + Copies(d, executions) + lost[d]
  <2>1. Copies(d, executions') = Copies(d, executions) + One(ea, d)
    BY <1>1, <1>2, CopiesAppend
  <2>2. One(ea', d) = 0
    BY <1>1, NothingElsewhere
  <2>3. /\ Copies(d, queue) \in Nat /\ Copies(d, executions) \in Nat
        /\ lost[d] \in Nat /\ One(ea, d) \in Nat
    BY <1>1, CountsTyped
  <2> QED
    BY <1>1, <2>1, <2>2, <2>3
<1>8. ReadOnce'
  <2> SUFFICES ASSUME NEW i \in DOMAIN executions'
               PROVE  Copies(i, results') + Cardinality({r \in Readers : i \in read[r]}) <= 1
    BY <1>1 DEF ReadOnce
  <2> DEFINE who == {r \in Readers : i \in read[r]}
  <2>1. Copies(i, results) \in Nat /\ Cardinality(who) \in Nat
    BY <1>2, CopiesCounted, ReadersCounted
  <2>2. CASE i = n
    <3>1. i \notin Elements(results) /\ who = {}
      BY <1>2, <1>3, <2>2 DEF Elements
    <3>2. Copies(i, results) = 0 /\ Cardinality(who) = 0
      BY <1>2, <3>1, CopiesCounted, FS_EmptySet
    <3>3. Copies(i, Append(results, n)) = Copies(i, results) + One(n, i) /\ One(n, i) = 1
      BY <1>3, <1>4, <2>2, CopiesAppend DEF One
    <3> HIDE DEF who
    <3>4. Copies(i, results') + Cardinality(who) <= 1
      BY <1>1, <3>2, <3>3
    <3> QED
      BY <3>4 DEF who
  <2>3. CASE i # n
    <3>1. Copies(i, results) + Cardinality(who) <= 1
      BY <1>3, <2>3 DEF CopiesInv, ReadOnce
    <3>2. Copies(i, Append(results, n)) = Copies(i, results) + One(n, i) /\ One(n, i) = 0
      BY <1>3, <1>4, <2>3, CopiesAppend DEF One
    <3> HIDE DEF who
    <3>3. Copies(i, results') + Cardinality(who) <= 1
      BY <1>1, <2>1, <3>1, <3>2
    <3> QED
      BY <3>3 DEF who
  <2> QED
    BY <2>2, <2>3
<1> QED
  BY <1>1, <1>6, <1>7, <1>8, CopiesMoved

\* A reader takes all results there are, or they are lost on the way.
LEMMA GetResultsKeeps ==
  ASSUME CopiesInv, NEW q \in Readers, NEW arrives \in BOOLEAN, GetResults(q, arrives)
  PROVE  CopiesInv'
<1>1. /\ PathTyped /\ results' = << >>
      /\ read' = IF arrives THEN [read EXCEPT ![q] = @ \cup Elements(results)] ELSE read
      /\ UNCHANGED <<calling, attempts, outcome, calls, wire, queue, ea, executions, arrivals, lost>>
  BY DEF CopiesInv, GetResults, client
<1>2. /\ results \in Seq(DOMAIN executions) /\ read \in [Readers -> SUBSET DOMAIN executions]
      /\ Elements(results) \subseteq DOMAIN executions
  BY <1>1 DEF PathTyped, Elements
<1>3. read' \in [Readers -> SUBSET DOMAIN executions]
  BY <1>1, <1>2
<1>4. PathTyped'
  BY <1>1, <1>3 DEF PathTyped
<1>5. ReadOnce'
  <2> SUFFICES ASSUME NEW i \in DOMAIN executions
               PROVE  Copies(i, results') + Cardinality({r \in Readers : i \in read'[r]}) <= 1
    BY <1>1 DEF ReadOnce
  <2> DEFINE who == {r \in Readers : i \in read[r]}
             now == {r \in Readers : i \in read'[r]}
  <2>1. who \in SUBSET Readers /\ now \in SUBSET Readers
    OBVIOUS
  <2>2. Copies(i, results) + Cardinality(who) <= 1
    BY DEF CopiesInv, ReadOnce
  <2>3. \/ now = who
        \/ i \in Elements(results) /\ now = who \cup {q}
    BY <1>1, <1>2
  <2> HIDE DEF who, now
  <2>4. /\ Copies(i, results) \in Nat /\ Copies(i, results') = 0
        /\ Copies(i, results) = 0 <=> i \notin Elements(results)
        /\ Cardinality(who) \in Nat /\ Cardinality(now) \in Nat
        /\ Cardinality(who) = 0 <=> who = {}
    BY <1>1, <1>2, <2>1, CopiesCounted, NoCopies, ReadersCounted
  <2>5. CASE now = who
    <3>1. Copies(i, results') + Cardinality(now) <= 1
      BY <2>2, <2>4, <2>5
    <3> QED
      BY <3>1 DEF now
  <2>6. CASE i \in Elements(results) /\ now = who \cup {q}
    <3>1. now = {q}
      BY <2>2, <2>4, <2>6
    <3>2. Cardinality(now) = 1
      BY <3>1, FS_Singleton
    <3>3. Copies(i, results') + Cardinality(now) <= 1
      BY <2>4, <3>2
    <3> QED
      BY <3>3 DEF now
  <2> QED
    BY <2>3, <2>5, <2>6
<1> QED
  BY <1>1, <1>4, <1>5, CopiesMoved

LEMMA CopiesInductive == Spec => []CopiesInv
<1>1. ASSUME Init
      PROVE  CopiesInv
  <2> USE <1>1 DEF Init
  <2> DEFINE none == << >>
  <2>1. PathTyped
    <3>1. /\ none \in Seq(Trades) /\ none \in Seq(Commands) /\ none \in Seq(DOMAIN executions)
          /\ IsFiniteSet({})
      BY FS_EmptySet
    <3>2. read \in [Readers -> SUBSET DOMAIN executions]
      OBVIOUS
    <3> QED
      BY <3>1, <3>2 DEF PathTyped
  <2>2. \A d \in Trades : Copies(d, queue) = 0 /\ Copies(d, executions) = 0 /\ One(ea, d) = 0
    BY <2>1, NoCopies, NothingElsewhere
  <2>3. Balanced
    BY <2>2 DEF Balanced
  <2>4. Attempted
    <3>1. \A d \in Trades : Cardinality(Sent(wire, d)) = 0
      BY FS_EmptySet DEF Sent
    <3> QED
      BY <3>1 DEF Attempted
  <2>5. ReadOnce
    BY DEF ReadOnce
  <2> QED
    BY <2>1, <2>3, <2>4, <2>5 DEF CopiesInv
<1>2. ASSUME CopiesInv, [Next]_vars
      PROVE  CopiesInv'
  <2> USE <1>2
  <2>1. ASSUME NEW c \in Trades, NEW n \in 1 .. MAX_ATTEMPTS, NEW answered \in BOOLEAN,
               BridgeSendOrder(c, n, answered)
        PROVE  CopiesInv'
    <3>1. n \in Nat
      BY PathConstants
    <3> QED
      BY <2>1, <3>1, BridgeSendOrderKeeps
  <2>2. ASSUME NEW posted \in BOOLEAN, ExecuteTrade(posted) \/ FetchHistory(posted)
        PROVE  CopiesInv'
    <3>1. ea \in Commands /\ ActAndReport(posted)
      BY <2>2 DEF ExecuteTrade, FetchHistory, Commands
    <3> QED
      BY <3>1, ActAndReportKeeps
  <2>3. CASE UNCHANGED vars
    <3>1. /\ UNCHANGED <<calling, attempts, outcome, calls, wire, queue, results, ea, executions, read>>
          /\ UNCHANGED <<arrivals, lost>>
      BY <2>3 DEF vars, client, bridge
    <3>2. Balanced' /\ Attempted' /\ ReadOnce'
      BY <3>1, BalanceQuiet, AttemptedQuiet, ReadQuiet DEF CopiesInv
    <3>3. PathTyped'
      BY <3>1 DEF CopiesInv, PathTyped
    <3> QED
      BY <3>2, <3>3 DEF CopiesInv
  <2> QED
    BY <2>1, <2>2, <2>3, SendOrderKeeps, AttemptFailsKeeps, BridgeSendFetchKeeps, CommandTakenKeeps,
       EaRestartKeeps, BridgeRestartKeeps, GetResultsKeeps DEF Next, EaStep
<1> QED
  BY <1>1, <1>2, PTL DEF Spec

\* Each copy of an order that the bridge took is in one place, an order is executed no more
\* often than it was attempted, and a result has one reader at most: whatever is retried,
\* evicted, lost or restarted.
THEOREM CopiesConserved == Spec => []Conserved
<1>1. CopiesInv => Conserved
  <2> SUFFICES ASSUME CopiesInv
               PROVE  Conserved
    OBVIOUS
  <2>1. \A c \in Trades :
          Copies(c, queue) + (IF ea = c THEN 1 ELSE 0) + Copies(c, executions) + lost[c] = arrivals[c]
    BY DEF CopiesInv, Balanced, One
  <2>2. \A c \in Trades : arrivals[c] + Cardinality({w \in wire : w[1] = c}) <= attempts[c]
    BY DEF CopiesInv, Attempted, Sent
  <2> QED
    BY <2>1, <2>2 DEF CopiesInv, ReadOnce, Conserved
<1> QED
  BY <1>1, CopiesInductive, PTL

-----------------------------------------------------------------------------
(* Which order is executed first.  AcceptedInOrder speaks of what was      *)
(* executed; what makes it so is the order of all that is on its way:      *)
(* executed, with the EA, or in the queue.                                 *)

\* A nonempty set of naturals has a least element: otherwise the intervals below its
\* elements would descend for ever.
LEMMA LeastNatural ==
  ASSUME NEW T, T \subseteq Nat, T # {}
  PROVE  \E x \in T : \A y \in T : x <= y
<1> DEFINE R == StrictSubsetOrdering(Nat)
           F == FiniteSubsetsOf(Nat)
           U == {1..x : x \in T}
<1>1. IsWellFoundedOn(R, F)
  BY FS_StrictSubsetOrderingWellFounded
<1>2. U \subseteq F /\ U # {}
  <2>1. \A x \in T : 1..x \in SUBSET Nat /\ IsFiniteSet(1..x)
    BY FS_Interval
  <2>2. \A x \in T : 1..x \in F
    BY <2>1 DEF FiniteSubsetsOf
  <2> HIDE DEF F
  <2> QED
    BY <2>2
<1>3. \A x, y \in T : y < x => <<1..y, 1..x>> \in R
  BY DEF StrictSubsetOrdering
<1> HIDE DEF R, F
<1>4. \E X \in U : \A Y \in U : <<Y, X>> \notin R
  <2> HIDE DEF U
  <2> QED
    BY <1>1, <1>2, WFMin
<1>5. PICK x \in T : \A Y \in U : <<Y, 1..x>> \notin R
  BY <1>4
<1>6. \A y \in T : <<1..y, 1..x>> \notin R
  BY <1>5
<1>7. ASSUME NEW y \in T, y < x
      PROVE  FALSE
  <2>1. <<1..y, 1..x>> \in R
    BY <1>3, <1>7
  <2> QED
    BY <2>1, <1>6
<1> QED
  BY <1>7

\* Each copy of b has one of a ahead of it.
AheadIn(a, b, done, e, q) ==
  /\ \A j \in DOMAIN done : done[j] = b => \E i \in DOMAIN done : i < j /\ done[i] = a
  /\ e = b => a \in Elements(done)
  /\ \A j \in DOMAIN q : q[j] = b =>
       \/ a \in Elements(done) \/ e = a
       \/ \E i \in DOMAIN q : i < j /\ q[i] = a

OnTheWay(a) == a \in Elements(executions) \/ ea = a \/ a \in Elements(queue)

LEMMA AheadTail ==
  ASSUME NEW a, NEW b, NEW done, NEW e, NEW q \in Seq(Commands), q # << >>, Head(q) # a,
         AheadIn(a, b, done, e, q)
  PROVE  AheadIn(a, b, done, e, Tail(q))
<1> DEFINE t == Tail(q)
<1>1. /\ DOMAIN t = 1..(Len(q) - 1) /\ DOMAIN q = 1..Len(q) /\ Len(q) \in Nat
      /\ \A j \in DOMAIN t : t[j] = q[j + 1] /\ j + 1 \in DOMAIN q
      /\ q[1] # a
  OBVIOUS
<1> HIDE DEF t
<1>2. ASSUME NEW j \in DOMAIN t, t[j] = b, a \notin Elements(done), e # a
      PROVE  \E i \in DOMAIN t : i < j /\ t[i] = a
  <2>1. PICK i \in DOMAIN q : i < j + 1 /\ q[i] = a
    BY <1>1, <1>2 DEF AheadIn
  <2> DEFINE k == i - 1
  <2>2. k \in DOMAIN t /\ k < j /\ t[k] = a
    BY <1>1, <2>1
  <2> HIDE DEF k
  <2> QED
    BY <2>2
<1>3. AheadIn(a, b, done, e, t)
  BY <1>2 DEF AheadIn
<1> QED
  BY <1>3 DEF t

LEMMA AheadAppend ==
  ASSUME NEW a, NEW b, NEW done, NEW e, NEW q \in Seq(Commands), NEW x \in Commands,
         AheadIn(a, b, done, e, q), a \in Elements(done) \/ e = a \/ a \in Elements(q)
  PROVE  AheadIn(a, b, done, e, Append(q, x))
<1> DEFINE t == Append(q, x)
<1>1. /\ DOMAIN t = DOMAIN q \cup {Len(q) + 1} /\ \A i \in DOMAIN q : t[i] = q[i] /\ i < Len(q) + 1
  OBVIOUS
<1> HIDE DEF t
<1>2. ASSUME NEW j \in DOMAIN t, t[j] = b, a \notin Elements(done), e # a
      PROVE  \E i \in DOMAIN t : i < j /\ t[i] = a
  <2>1. CASE j \in DOMAIN q
    <3>1. PICK i \in DOMAIN q : i < j /\ q[i] = a
      BY <1>1, <1>2, <2>1 DEF AheadIn
    <3> QED
      BY <1>1, <3>1
  <2>2. CASE j = Len(q) + 1
    <3>1. PICK i \in DOMAIN q : q[i] = a
      BY <1>2 DEF Elements
    <3> QED
      BY <1>1, <2>2, <3>1
  <2> QED
    BY <1>1, <2>1, <2>2
<1>3. AheadIn(a, b, done, e, t)
  BY <1>2 DEF AheadIn
<1> QED
  BY <1>3 DEF t

LEMMA AheadTaken ==
  ASSUME NEW a \in Trades, NEW b, NEW done, NEW q \in Seq(Commands), q # << >>,
         AheadIn(a, b, done, NoCommand, q)
  PROVE  AheadIn(a, b, done, Head(q), Tail(q))
<1> DEFINE t == Tail(q)
           h == Head(q)
<1>1. /\ DOMAIN t = 1..(Len(q) - 1) /\ DOMAIN q = 1..Len(q) /\ Len(q) \in Nat /\ Len(q) > 0
      /\ \A j \in DOMAIN t : t[j] = q[j + 1] /\ j + 1 \in DOMAIN q
      /\ q[1] = h
  OBVIOUS
<1> HIDE DEF t, h
<1>2. a # NoCommand
  BY PathConstants
<1>3. ASSUME h = b
      PROVE  a \in Elements(done)
  <2>1. 1 \in DOMAIN q /\ \A i \in DOMAIN q : ~(i < 1)
    BY <1>1
  <2> QED
    BY <1>1, <1>2, <1>3, <2>1 DEF AheadIn
<1>4. ASSUME NEW j \in DOMAIN t, t[j] = b, a \notin Elements(done), h # a
      PROVE  \E i \in DOMAIN t : i < j /\ t[i] = a
  <2>1. PICK i \in DOMAIN q : i < j + 1 /\ q[i] = a
    BY <1>1, <1>2, <1>4 DEF AheadIn
  <2> DEFINE k == i - 1
  <2>2. k \in DOMAIN t /\ k < j /\ t[k] = a
    BY <1>1, <1>4, <2>1
  <2> HIDE DEF k
  <2> QED
    BY <2>2
<1>5. AheadIn(a, b, done, h, t)
  BY <1>3, <1>4 DEF AheadIn
<1> QED
  BY <1>5 DEF t, h

LEMMA AheadActed ==
  ASSUME NEW a, NEW b \in Trades, NEW done \in Seq(Commands), NEW e \in Commands, NEW q,
         AheadIn(a, b, done, e, q)
  PROVE  AheadIn(a, b, Append(done, e), NoCommand, q)
<1> DEFINE t == Append(done, e)
           n == Len(done) + 1
<1>1. DOMAIN t = DOMAIN done \cup {n} /\ t[n] = e /\ \A i \in DOMAIN done : t[i] = done[i] /\ i < n
  OBVIOUS
<1> HIDE DEF t, n
<1>2. Elements(done) \subseteq Elements(t) /\ e \in Elements(t) /\ b # NoCommand
  BY <1>1, PathConstants DEF Elements
<1>3. ASSUME NEW j \in DOMAIN t, t[j] = b
      PROVE  \E i \in DOMAIN t : i < j /\ t[i] = a
  <2>1. CASE j \in DOMAIN done
    <3>1. PICK i \in DOMAIN done : i < j /\ done[i] = a
      BY <1>1, <1>3, <2>1 DEF AheadIn
    <3> QED
      BY <1>1, <3>1
  <2>2. CASE j = n
    <3>1. a \in Elements(done)
      BY <1>1, <1>3, <2>2 DEF AheadIn
    <3>2. PICK i \in DOMAIN done : done[i] = a
      BY <3>1 DEF Elements
    <3> QED
      BY <1>1, <2>2, <3>2
  <2> QED
    BY <1>1, <2>1, <2>2
<1>4. AheadIn(a, b, t, NoCommand, q)
  BY <1>2, <1>3 DEF AheadIn
<1> QED
  BY <1>4 DEF t

\* Calls come one after the other, and an accepted one has arrived.
CallsInv ==
  /\ \A i \in DOMAIN calls : outcome[calls[i]] # "none"
  /\ \A i, j \in DOMAIN calls : calls[i] = calls[j] => i = j
  /\ calling # NoCommand => calls # << >> /\ calls[Len(calls)] = calling
  /\ \A c \in Trades : outcome[c] = "accepted" => arrivals[c] # 0

OrderKept ==
  \A a, b \in Trades : CalledBefore(a, b) /\ outcome[a] = "accepted" /\ lost[a] = 0
    => AheadIn(a, b, executions, ea, queue)

OrderInv == CallsInv /\ OrderKept

\* Conserved tells where an accepted order is, and that one not called is nowhere.
LEMMA AcceptedOnTheWay ==
  ASSUME CopiesInv, CallsInv, NEW a \in Trades, outcome[a] = "accepted", lost[a] = 0
  PROVE  OnTheWay(a)
<1>1. /\ PathTyped /\ arrivals[a] # 0
      /\ Copies(a, queue) + One(ea, a) + Copies(a, executions) + lost[a] = arrivals[a]
  BY DEF CopiesInv, Balanced, CallsInv
<1>2. ~(Copies(a, queue) = 0 /\ One(ea, a) = 0 /\ Copies(a, executions) = 0)
  BY <1>1
<1>3. queue \in Seq(Commands) /\ executions \in Seq(Commands)
  BY <1>1 DEF PathTyped
<1>4. (Copies(a, queue) = 0 <=> a \notin Elements(queue))
      /\ (Copies(a, executions) = 0 <=> a \notin Elements(executions))
  BY <1>3, CopiesCounted
<1> QED
  BY <1>2, <1>4 DEF One, OnTheWay

LEMMA NotCalledNowhere ==
  ASSUME CopiesInv, NEW b \in Trades, outcome[b] = "none"
  PROVE  ~OnTheWay(b)
<1>1. /\ PathTyped
      /\ Copies(b, queue) + One(ea, b) + Copies(b, executions) + lost[b] = arrivals[b]
      /\ arrivals[b] + Cardinality(Sent(wire, b)) <= 0
  BY DEF CopiesInv, Balanced, Attempted
<1>2. /\ arrivals[b] \in Nat /\ Cardinality(Sent(wire, b)) \in Nat
      /\ queue \in Seq(Commands) /\ executions \in Seq(Commands)
  BY <1>1, SentCounted DEF PathTyped
<1>3. Copies(b, queue) = 0 /\ One(ea, b) = 0 /\ Copies(b, executions) = 0
  BY <1>1, <1>2, CountsTyped
<1>4. b \notin Elements(queue) /\ b \notin Elements(executions)
  BY <1>2, <1>3, CopiesCounted
<1> QED
  BY <1>3, <1>4 DEF One, OnTheWay

\* Steps that begin no call and move nothing on its way.
LEMMA OrderQuiet ==
  ASSUME CopiesInv, OrderInv, UNCHANGED <<calls, executions, ea, queue, lost, arrivals>>,
         calling' \in {calling, NoCommand},
         \A c \in Trades : (outcome[c] # "none" => outcome'[c] # "none")
                        /\ (outcome'[c] = "accepted" => outcome[c] = "accepted")
  PROVE  OrderInv'
<1>1. calls \in Seq(Trades)
  BY DEF CopiesInv, PathTyped
<1>2. CallsInv'
  <2>1. \A i \in DOMAIN calls : calls[i] \in Trades
    BY <1>1
  <2> QED
    BY <2>1 DEF OrderInv, CallsInv
<1>3. OrderKept'
  BY DEF OrderInv, OrderKept, CalledBefore, AheadIn, Elements
<1> QED
  BY <1>2, <1>3 DEF OrderInv

\* A call begins: no copy of it is ahead of anything.
LEMMA SendOrderInOrder ==
  ASSUME CopiesInv, OrderInv, NEW c \in Trades, SendOrder(c)
  PROVE  OrderInv'
<1> DEFINE n == Len(calls) + 1
<1>1. /\ calling = NoCommand /\ outcome[c] = "none" /\ calling' = c /\ calls' = Append(calls, c)
      /\ outcome' = [outcome EXCEPT ![c] = "pending"]
      /\ UNCHANGED <<executions, ea, queue, lost, arrivals>>
  BY DEF SendOrder, bridge
<1>2. calls \in Seq(Trades) /\ outcome \in [Trades -> {"none", "pending", "accepted", "raised"}]
  BY DEF CopiesInv, PathTyped
<1>3. /\ calls' \in Seq(Trades) /\ Len(calls') = n /\ calls' # << >> /\ calls'[n] = c
      /\ DOMAIN calls' = DOMAIN calls \cup {n} /\ n \notin DOMAIN calls
      /\ \A i \in DOMAIN calls : calls'[i] = calls[i] /\ calls[i] \in Trades /\ i < n
  BY <1>1, <1>2
<1> HIDE DEF n
<1>4. \A i \in DOMAIN calls : outcome[calls[i]] # "none"
  BY DEF OrderInv, CallsInv
<1>5. outcome'[c] = "pending" /\ \A d \in Trades \ {c} : outcome'[d] = outcome[d]
  BY <1>1, <1>2
<1>6. CallsInv'
  <2>1. \A i \in DOMAIN calls' : outcome'[calls'[i]] # "none"
    BY <1>3, <1>4, <1>5
  <2>2. \A i, j \in DOMAIN calls' : calls'[i] = calls'[j] => i = j
    <3>1. \A i \in DOMAIN calls : calls[i] # c
      BY <1>1, <1>4
    <3> QED
      BY <1>3, <3>1 DEF OrderInv, CallsInv
  <2>3. \A d \in Trades : outcome'[d] = "accepted" => arrivals'[d] # 0
    BY <1>1, <1>5 DEF OrderInv, CallsInv
  <2> QED
    BY <1>1, <1>3, <2>1, <2>2, <2>3 DEF CallsInv
<1>7. OrderKept'
  <2> SUFFICES ASSUME NEW a \in Trades, NEW b \in Trades, CalledBefore(a, b)',
                      outcome'[a] = "accepted", lost[a] = 0
               PROVE  AheadIn(a, b, executions, ea, queue)
    BY <1>1 DEF OrderKept
  <2>1. outcome[a] = "accepted"
    BY <1>5
  <2>2. CASE b = c
    <3>1. ~OnTheWay(b)
      BY <1>1, <2>2, NotCalledNowhere
    <3> QED
      BY <3>1 DEF OnTheWay, AheadIn, Elements
  <2>3. CASE b # c
    <3>1. PICK i, j \in DOMAIN calls' : i < j /\ calls'[i] = a /\ calls'[j] = b
      BY DEF CalledBefore
    <3>2. i \in DOMAIN calls /\ j \in DOMAIN calls
      BY <1>3, <1>5, <2>3, <3>1
    <3>3. CalledBefore(a, b)
      BY <1>3, <3>1, <3>2 DEF CalledBefore
    <3> QED
      BY <2>1, <3>3 DEF OrderInv, OrderKept
  <2> QED
    BY <2>2, <2>3
<1> QED
  BY <1>6, <1>7 DEF OrderInv

\* The queue takes a command behind all that is on its way.
LEMMA EnqueuedInOrder ==
  ASSUME CopiesInv, OrderInv, NEW x \in Commands, Enqueue(x), UNCHANGED <<executions, ea>>,
         NEW a \in Trades, NEW b \in Trades, CalledBefore(a, b), outcome[a] = "accepted", lost'[a] = 0
  PROVE  AheadIn(a, b, executions, ea, queue')
<1>1. PathTyped /\ queue \in Seq(Commands) /\ lost[a] \in Nat /\ Len(queue) \in Nat
  BY DEF CopiesInv, PathTyped
<1>2. CASE queue' = Append(queue, x) /\ lost' = lost
  <2>1. AheadIn(a, b, executions, ea, queue) /\ OnTheWay(a)
    BY <1>2, AcceptedOnTheWay DEF OrderInv, OrderKept
  <2> QED
    BY <1>1, <1>2, <2>1, AheadAppend DEF OnTheWay
<1>3. CASE Len(queue) >= QUEUE_MAX /\ queue' = Append(Tail(queue), x) /\ lost' = LostWith(<<Head(queue)>>)
  <2> DEFINE h == Head(queue)
             t == Tail(queue)
  <2>1. queue # << >>
    BY <1>1, <1>3, PathConstants
  <2>2. h \in Commands /\ t \in Seq(Commands)
    BY <1>1, <2>1, HeadTailProperties
  <2>3. lost'[a] = lost[a] + One(h, a)
    BY <1>1, <1>3, <2>2, LostOne
  <2>4. h # a /\ lost[a] = 0
    BY <1>1, <2>3 DEF One
  <2>5. AheadIn(a, b, executions, ea, queue) /\ OnTheWay(a)
    BY <2>4, AcceptedOnTheWay DEF OrderInv, OrderKept
  <2>6. AheadIn(a, b, executions, ea, t)
    BY <1>1, <2>1, <2>4, <2>5, AheadTail
  <2>7. a \in Elements(queue) => a \in Elements(t)
    <3>1. \A i \in DOMAIN queue : i = 1 \/ (i - 1 \in DOMAIN t /\ t[i - 1] = queue[i])
      BY <1>1, <2>1
    <3>2. queue[1] = h
      OBVIOUS
    <3> HIDE DEF t, h
    <3> QED
      BY <2>4, <3>1, <3>2 DEF Elements
  <2> HIDE DEF t
  <2>8. AheadIn(a, b, executions, ea, Append(t, x))
    BY <2>2, <2>5, <2>6, <2>7, AheadAppend DEF OnTheWay
  <2> QED
    BY <1>3, <2>8 DEF t
<1> QED
  BY <1>1, <1>2, <1>3, PathConstants DEF Enqueue

LEMMA BridgeSendOrderInOrder ==
  ASSUME CopiesInv, OrderInv, NEW c \in Trades, NEW n \in Nat, NEW answered \in BOOLEAN,
         BridgeSendOrder(c, n, answered)
  PROVE  OrderInv'
<1>1. /\ arrivals' = [arrivals EXCEPT ![c] = @ + 1] /\ Enqueue(c)
      /\ UNCHANGED <<calls, ea, executions>>
      /\ calling' \in {calling, NoCommand}
      /\ \/ answered /\ calling = c /\ outcome' = [outcome EXCEPT ![c] = "accepted"]
         \/ ~answered /\ outcome' = outcome
  BY DEF BridgeSendOrder
<1>2. /\ arrivals \in [Trades -> Nat] /\ calls \in Seq(Trades)
      /\ outcome \in [Trades -> {"none", "pending", "accepted", "raised"}]
  BY DEF CopiesInv, PathTyped
<1>3. arrivals[c] \in Nat /\ arrivals'[c] = arrivals[c] + 1 /\ \A d \in Trades \ {c} : arrivals'[d] = arrivals[d]
  BY <1>1, <1>2
<1>4. \A d \in Trades \ {c} : outcome'[d] = outcome[d]
  BY <1>1, <1>2
<1>5. outcome'[c] = "accepted" \/ outcome'[c] = outcome[c]
  BY <1>1, <1>2
<1>6. CallsInv'
  <2>1. \A i \in DOMAIN calls : calls[i] \in Trades
    BY <1>2
  <2>2. \A i \in DOMAIN calls : outcome'[calls[i]] # "none"
    BY <1>4, <1>5, <2>1 DEF OrderInv, CallsInv
  <2>3. \A d \in Trades : outcome'[d] = "accepted" => arrivals'[d] # 0
    BY <1>3, <1>4 DEF OrderInv, CallsInv
  <2> QED
    BY <1>1, <2>2, <2>3 DEF OrderInv, CallsInv
<1>7. OrderKept'
  <2> SUFFICES ASSUME NEW a \in Trades, NEW b \in Trades, CalledBefore(a, b),
                      outcome'[a] = "accepted", lost'[a] = 0
               PROVE  AheadIn(a, b, executions, ea, queue')
    BY <1>1 DEF OrderKept, CalledBefore
  <2>1. outcome[a] = "accepted"
    <3>1. CASE answered /\ a = c
      <4>1. calling # NoCommand /\ calling = c
        BY <1>1, <3>1, PathConstants
      <4>2. calls[Len(calls)] = c /\ Len(calls) \in DOMAIN calls /\ Len(calls) \in Nat
        BY <1>2, <4>1 DEF OrderInv, CallsInv
      <4>3. PICK i, j \in DOMAIN calls : i < j /\ calls[i] = a /\ calls[j] = b
        BY DEF CalledBefore
      <4>4. i = Len(calls)
        BY <3>1, <4>2, <4>3 DEF OrderInv, CallsInv
      <4>5. j <= Len(calls)
        BY <1>2, <4>3
      <4> QED
        BY <4>2, <4>3, <4>4, <4>5
    <3>2. CASE ~(answered /\ a = c)
      BY <1>1, <1>4, <3>2
    <3> QED
      BY <3>1, <3>2
  <2> QED
    BY <1>1, <2>1, EnqueuedInOrder DEF Commands
<1> QED
  BY <1>6, <1>7 DEF OrderInv

\* The other steps move what is on its way and leave the calls alone.
LEMMA MovedInOrder ==
  ASSUME CopiesInv, OrderInv, UNCHANGED <<calls, calling, outcome, arrivals>>,
         \A a, b \in Trades :
           CalledBefore(a, b) /\ outcome[a] = "accepted" /\ lost'[a] = 0
             => AheadIn(a, b, executions', ea', queue')
  PROVE  OrderInv'
BY DEF OrderInv, CallsInv, OrderKept, CalledBefore

\* What was ahead, where nothing more was lost of it.
LEMMA WasAhead ==
  ASSUME OrderInv, NEW a \in Trades, NEW b \in Trades,
         CalledBefore(a, b), outcome[a] = "accepted", lost[a] = 0
  PROVE  AheadIn(a, b, executions, ea, queue)
BY DEF OrderInv, OrderKept

LEMMA CommandTakenInOrder ==
  ASSUME CopiesInv, OrderInv, GetCommand \/ GetCommandLost
  PROVE  OrderInv'
<1>1. /\ PathTyped /\ ea = NoCommand /\ queue # << >> /\ queue' = Tail(queue)
      /\ UNCHANGED <<calling, outcome, calls, executions, arrivals>>
      /\ queue \in Seq(Commands) /\ Head(queue) \in Commands
      /\ \/ ea' = Head(queue) /\ lost' = lost
         \/ ea' = ea /\ lost' = LostWith(<<Head(queue)>>)
  BY Dequeued DEF CopiesInv, PathTyped, GetCommand, GetCommandLost, client
<1>2. ASSUME NEW a \in Trades, NEW b \in Trades,
             CalledBefore(a, b), outcome[a] = "accepted", lost'[a] = 0
      PROVE  AheadIn(a, b, executions', ea', queue')
  <2>1. CASE ea' = Head(queue) /\ lost' = lost
    <3>1. AheadIn(a, b, executions, NoCommand, queue)
      BY <1>1, <1>2, <2>1, WasAhead
    <3>2. AheadIn(a, b, executions, Head(queue), Tail(queue))
      BY <1>1, <3>1, AheadTaken
    <3> QED
      BY <1>1, <2>1, <3>2
  <2>2. CASE ea' = ea /\ lost' = LostWith(<<Head(queue)>>)
    <3>1. lost'[a] = lost[a] + One(Head(queue), a) /\ lost[a] \in Nat
      BY <1>1, <2>2, LostOne DEF PathTyped
    <3>2. lost[a] = 0 /\ Head(queue) # a
      BY <1>2, <3>1 DEF One
    <3>3. AheadIn(a, b, executions, ea, Tail(queue))
      BY <1>1, <1>2, <3>2, WasAhead, AheadTail
    <3> QED
      BY <1>1, <2>2, <3>3
  <2> QED
    BY <1>1, <2>1, <2>2
<1> QED
  BY <1>1, <1>2, MovedInOrder

LEMMA EaInOrder ==
  ASSUME CopiesInv, OrderInv, ea \in Commands, EaRestart \/ \E posted \in BOOLEAN : ActAndReport(posted)
  PROVE  OrderInv'
<1>1. PathTyped /\ executions \in Seq(Commands) /\ queue' = queue /\ ea' = NoCommand
      /\ UNCHANGED <<calling, outcome, calls, arrivals>>
      /\ \/ executions' = Append(executions, ea) /\ lost' = lost
         \/ executions' = executions /\ lost' = LostWith(<<ea>>)
  BY DEF CopiesInv, PathTyped, EaRestart, ActAndReport, client, bridge
<1>2. ASSUME NEW a \in Trades, NEW b \in Trades,
             CalledBefore(a, b), outcome[a] = "accepted", lost'[a] = 0
      PROVE  AheadIn(a, b, executions', ea', queue')
  <2>1. CASE executions' = Append(executions, ea) /\ lost' = lost
    <3>1. AheadIn(a, b, executions, ea, queue)
      BY <1>2, <2>1, WasAhead
    <3>2. AheadIn(a, b, Append(executions, ea), NoCommand, queue)
      BY <1>1, <3>1, AheadActed
    <3> QED
      BY <1>1, <2>1, <3>2
  <2>2. CASE executions' = executions /\ lost' = LostWith(<<ea>>)
    <3>1. lost'[a] = lost[a] + One(ea, a) /\ lost[a] \in Nat
      BY <1>1, <2>2, LostOne DEF PathTyped
    <3>2. lost[a] = 0 /\ ea # a /\ b # NoCommand
      BY <1>2, <3>1, PathConstants DEF One
    <3>3. AheadIn(a, b, executions, ea, queue)
      BY <1>2, <3>2, WasAhead
    <3>4. AheadIn(a, b, executions, NoCommand, queue)
      BY <3>2, <3>3 DEF AheadIn
    <3> QED
      BY <1>1, <2>2, <3>4
  <2> QED
    BY <1>1, <2>1, <2>2
<1> QED
  BY <1>1, <1>2, MovedInOrder

LEMMA BridgeRestartInOrder ==
  ASSUME CopiesInv, OrderInv, BridgeRestart
  PROVE  OrderInv'
<1>1. /\ queue' = << >> /\ lost' = LostWith(queue)
      /\ UNCHANGED <<calling, outcome, calls, ea, executions, arrivals>>
  BY DEF BridgeRestart, client
<1>2. lost \in [Trades -> Nat] /\ queue \in Seq(Commands)
  BY DEF CopiesInv, PathTyped
<1>3. ASSUME NEW a \in Trades, NEW b \in Trades,
             CalledBefore(a, b), outcome[a] = "accepted", lost'[a] = 0
      PROVE  AheadIn(a, b, executions', ea', queue')
  <2>1. lost'[a] = lost[a] + Copies(a, queue) /\ lost[a] \in Nat /\ Copies(a, queue) \in Nat
    BY <1>1, <1>2, CopiesCounted DEF LostWith
  <2>2. lost[a] = 0
    BY <1>3, <2>1
  <2>3. AheadIn(a, b, executions, ea, queue)
    BY <1>3, <2>2, WasAhead
  <2> QED
    BY <1>1, <2>3 DEF AheadIn
<1> QED
  BY <1>1, <1>3, MovedInOrder

LEMMA OrderInductive == Spec => [](CopiesInv /\ OrderInv)
<1>1. Init => OrderInv
  BY DEF Init, OrderInv, CallsInv, OrderKept, CalledBefore
<1>2. ASSUME CopiesInv, OrderInv, [Next]_vars
      PROVE  OrderInv'
  <2> USE <1>2
  <2>1. ASSUME NEW unsent \in BOOLEAN, AttemptFails(unsent)
        PROVE  OrderInv'
    <3>1. UNCHANGED <<calls, executions, ea, queue, lost, arrivals>>
      BY <2>1 DEF AttemptFails, bridge
    <3>2. \/ UNCHANGED <<calling, outcome>>
          \/ calling' = NoCommand /\ outcome' = [outcome EXCEPT ![calling] = "raised"]
      BY <2>1 DEF AttemptFails
    <3>3. outcome \in [Trades -> {"none", "pending", "accepted", "raised"}]
      BY DEF CopiesInv, PathTyped
    <3> QED
      BY <3>1, <3>2, <3>3, OrderQuiet
  <2>2. ASSUME NEW f \in Fetches, BridgeSendFetch(f)
        PROVE  OrderInv'
    <3>1. Enqueue(f) /\ UNCHANGED <<calls, calling, outcome, arrivals, ea, executions>>
      BY <2>2 DEF BridgeSendFetch, client
    <3> QED
      BY <3>1, EnqueuedInOrder, MovedInOrder DEF Commands
  <2>3. ASSUME NEW c \in Trades, NEW n \in 1 .. MAX_ATTEMPTS, NEW answered \in BOOLEAN,
               BridgeSendOrder(c, n, answered)
        PROVE  OrderInv'
    <3>1. n \in Nat
      BY PathConstants
    <3> QED
      BY <2>3, <3>1, BridgeSendOrderInOrder
  <2>4. ASSUME NEW posted \in BOOLEAN, ExecuteTrade(posted) \/ FetchHistory(posted)
        PROVE  OrderInv'
    <3>1. ea \in Commands /\ ActAndReport(posted)
      BY <2>4 DEF ExecuteTrade, FetchHistory, Commands
    <3> QED
      BY <3>1, EaInOrder
  <2>5. CASE EaRestart
    <3>1. ea \in Commands
      BY <2>5 DEF EaRestart, CopiesInv, PathTyped
    <3> QED
      BY <2>5, <3>1, EaInOrder
  <2>6. ASSUME NEW r \in Readers, NEW arrives \in BOOLEAN, GetResults(r, arrives)
        PROVE  OrderInv'
    BY <2>6, OrderQuiet DEF GetResults, client
  <2>7. CASE UNCHANGED vars
    BY <2>7, OrderQuiet DEF vars, client, bridge
  <2> QED
    BY <2>1, <2>2, <2>3, <2>4, <2>5, <2>6, <2>7, SendOrderInOrder, CommandTakenInOrder,
       BridgeRestartInOrder DEF Next, EaStep
<1> QED
  BY <1>1, <1>2, CopiesInductive, PTL DEF Spec

\* An order accepted before another was called is executed first, unless a copy of it was
\* lost: its first copy is ahead of all of the other's, wherever they are.
THEOREM InOrder == Spec => []AcceptedInOrder
<1>1. OrderInv /\ CopiesInv => AcceptedInOrder
  <2> SUFFICES ASSUME OrderInv, CopiesInv, NEW a \in Trades, NEW b \in Trades,
                      CalledBefore(a, b), outcome[a] = "accepted", lost[a] = 0,
                      b \in Elements(executions)
               PROVE  \E i \in DOMAIN executions :
                        executions[i] = a /\ \A j \in 1 .. i : executions[j] # b
    BY DEF AcceptedInOrder
  <2> DEFINE T == {j \in DOMAIN executions : executions[j] = b}
  <2>1. T \subseteq Nat /\ T # {} /\ DOMAIN executions = 1..Len(executions) /\ Len(executions) \in Nat
    BY DEF Elements, CopiesInv, PathTyped
  <2>2. PICK j \in T : \A k \in T : j <= k
    <3> HIDE DEF T
    <3> QED
      BY <2>1, LeastNatural
  <2>3. PICK i \in DOMAIN executions : i < j /\ executions[i] = a
    BY WasAhead DEF AheadIn
  <2>4. \A k \in 1 .. i : k \in DOMAIN executions /\ k < j
    BY <2>1, <2>3
  <2>5. ASSUME NEW k \in 1 .. i, executions[k] = b
        PROVE  FALSE
    <3>1. k \in T /\ k < j /\ k \in Nat /\ j \in Nat
      BY <2>1, <2>2, <2>4, <2>5
    <3> QED
      BY <2>2, <3>1
  <2> QED
    BY <2>3, <2>5
<1> QED
  BY <1>1, OrderInductive, PTL

=============================================================================
