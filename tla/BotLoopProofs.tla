---------------------------- MODULE BotLoopProofs -----------------------------
(***************************************************************************)
(* The loop in every account, with any limits, pause and number of orders, *)
(* wherever it is stopped or killed: what is taken at its target, what is  *)
(* protected, and that a pause outlives a stop.  Then the supervisor that  *)
(* spawns the loop's process: that there is one bot at most, and never one *)
(* without its supervisor.                                                 *)
(***************************************************************************)
EXTENDS BotLoop, ProcessSupervisor, FiniteSetTheorems, WellFoundedInduction, TLAPS

\* Only issued tickets have a position or are remembered; what is being taken, is left
\* to manage, and is remembered are three different things, and the first two are empty
\* outside the management of positions.
Ticketed ==
  /\ DOMAIN positions \cup tp1Hit \subseteq 1 .. issued
  /\ todo \cap tp1Hit = {} /\ taking \notin tp1Hit \cup todo
  /\ taking # None => taking \in DOMAIN positions
  /\ at # "manage" => todo = {} /\ taking = None

\* What was taken is remembered, or is being taken.
TakesCounted == \A t \in Tickets : takes[t] = IF t \in tp1Hit \/ t = taking THEN 1 ELSE 0

\* In a pass without trouble every position at its target is remembered, or its turn comes.
InHand == at = "manage" /\ ~trouble => hit \cap DOMAIN positions \subseteq tp1Hit \cup todo \cup {taking}

\* A pause that nothing forgot is the loop's, or the checkpoint's while the loop is down,
\* and no pass gets beyond the gate in it.
PauseKept ==
  /\ pauseLeft > 0 /\ ~forgot =>
       /\ at # "down" => cooling = pauseLeft
       /\ at = "down" => saved.kind = "state" /\ saved.cooling = pauseLeft
  /\ at \in {"account", "orders"} => pauseLeft = 0 \/ forgot

LoopInv ==
  TypeOK /\ Ticketed /\ TakesCounted /\ TakenIsProtected /\ InHand /\ TargetsManaged /\ PauseKept

USE DEF state, broker, management, history, None, Off, Tickets

-----------------------------------------------------------------------------
(* What the steps have in common. *)

\* Management, the pause and what is saved are left alone, and the pass neither enters
\* nor leaves the management of positions.
LEMMA ManagementQuiet ==
  ASSUME LoopInv, UNCHANGED <<positions, issued, hit, tp1Hit, todo, taking, takes>>,
         at # "manage", at' # "manage", at' = "sleep" => at = "sleep" \/ verdict' = "cooling_off",
         at' = "sleep" => verdict' = verdict \/ verdict' = "cooling_off",
         at' = "sleep" /\ at = "sleep" => trouble' = trouble
  PROVE  Ticketed' /\ TakesCounted' /\ TakenIsProtected' /\ InHand' /\ TargetsManaged'
BY DEF LoopInv, Ticketed, TakesCounted, TakenIsProtected, InHand, TargetsManaged

\* The pause and its checkpoint are left alone, by a loop that is up.
LEMMA PauseQuiet ==
  ASSUME LoopInv, UNCHANGED <<pauseLeft, forgot, saved>>, at # "down", at' # "down",
         pauseLeft > 0 /\ ~forgot => cooling' = cooling,
         at' \in {"account", "orders"} => at \in {"account", "orders"} \/ cooling <= 0
  PROVE  PauseKept'
<1>1. pauseLeft \in 0 .. COOLING
  BY DEF LoopInv, TypeOK
<1> QED
  BY <1>1, LoopConstants DEF LoopInv, PauseKept

\* What the checkpoint may be.
SavedOK ==
  \/ saved \in {NoFile, Torn}
  \/ /\ saved = Checkpoint(saved.peak, saved.day0, saved.newDay, saved.cooling)
     /\ saved.peak \in Nat /\ saved.day0 \in Nat
     /\ saved.newDay \in BOOLEAN /\ saved.cooling \in Pauses

LEMMA SavedFields ==
  ASSUME SavedOK, saved.kind = "state"
  PROVE  /\ saved = Checkpoint(saved.peak, saved.day0, saved.newDay, saved.cooling)
         /\ saved.peak \in Nat /\ saved.day0 \in Nat
         /\ saved.newDay \in BOOLEAN /\ saved.cooling \in Pauses
BY DEF SavedOK, NoFile, Torn

LEMMA CheckpointFields ==
  ASSUME NEW p, NEW d, NEW n, NEW c, NEW s, s = Checkpoint(p, d, n, c)
  PROVE  /\ s.kind = "state" /\ s.peak = p /\ s.day0 = d /\ s.newDay = n /\ s.cooling = c
BY DEF Checkpoint

\* A pause runs on within its bounds.
LEMMA PausePasses ==
  ASSUME NEW c \in Pauses
  PROVE  /\ TimePassed(c) \in Pauses /\ c \in Int
         /\ c \in 0 .. COOLING => TimePassed(c) \in 0 .. COOLING
BY LoopConstants DEF TimePassed, Pauses

-----------------------------------------------------------------------------
(* The steps of a pass. *)

LEMMA GateKeeps ==
  ASSUME LoopInv, GateClosed \/ GateOpen
  PROVE  LoopInv'
<1>1. TypeOK'
  <2>1. Off \in Pauses
    BY DEF Pauses
  <2> QED
    BY <2>1 DEF LoopInv, TypeOK, GateClosed, GateOpen, Verdicts
<1>2. Ticketed' /\ TakesCounted' /\ TakenIsProtected' /\ InHand' /\ TargetsManaged'
  BY ManagementQuiet DEF GateClosed, GateOpen
<1>3. PauseKept'
  <2>1. pauseLeft > 0 /\ ~forgot => cooling = pauseLeft
    BY DEF LoopInv, PauseKept, GateClosed, GateOpen
  <2>2. pauseLeft \in Int /\ cooling \in Int
    BY LoopConstants DEF LoopInv, TypeOK, Pauses
  <2> QED
    BY <2>1, <2>2, PauseQuiet DEF GateClosed, GateOpen
<1> QED
  BY <1>1, <1>2, <1>3 DEF LoopInv

LEMMA JudgedKeeps ==
  ASSUME LoopInv, at = "account", NEW v \in Verdicts \ {"cooling_off"}, Judged(v),
         UNCHANGED <<broker, management, saved>>,
         peak' \in Nat, day0' \in Nat, newDay' \in BOOLEAN, trouble' \in BOOLEAN
  PROVE  LoopInv'
<1>1. COOLING \in Pauses /\ COOLING \in 0 .. COOLING /\ COOLING \in Nat
  BY LoopConstants DEF Pauses
<1>2. TypeOK'
  <2>1. at' \in {"orders", "tick"} /\ verdict' \in Verdicts
    BY DEF Judged
  <2>2. cooling' \in Pauses /\ pauseLeft' \in 0 .. COOLING /\ forgot' \in BOOLEAN
    BY <1>1 DEF Judged, LoopInv, TypeOK
  <2> QED
    BY <2>1, <2>2 DEF LoopInv, TypeOK
<1>3. at' \in {"orders", "tick"}
  BY DEF Judged
<1>4. Ticketed' /\ TakesCounted' /\ TakenIsProtected' /\ InHand' /\ TargetsManaged'
  BY <1>3, ManagementQuiet
<1>5. PauseKept'
  <2>1. CASE v = "consecutive_losses" /\ cooling = Off
    BY <1>1, <2>1 DEF Judged, PauseKept
  <2>2. CASE ~(v = "consecutive_losses" /\ cooling = Off)
    BY <1>3, <2>2, PauseQuiet DEF Judged
  <2> QED
    BY <2>1, <2>2
<1> QED
  BY <1>2, <1>4, <1>5 DEF LoopInv

LEMMA AccountKeeps ==
  ASSUME LoopInv, AccountStale \/ \E e \in Equities : AccountFresh(e)
  PROVE  LoopInv'
<1>1. CASE AccountStale
  BY <1>1, JudgedKeeps DEF AccountStale, Verdicts, LoopInv, TypeOK
<1>2. ASSUME NEW e \in Equities, AccountFresh(e)
      PROVE  LoopInv'
  <2>1. /\ at = "account" /\ Judged(CheckCircuitBreakers(e, peak', day0', tail))
        /\ UNCHANGED <<trouble, broker, management, saved>>
    BY <1>2 DEF AccountFresh
  <2>2. CheckCircuitBreakers(e, peak', day0', tail) \in Verdicts \ {"cooling_off"}
    BY DEF CheckCircuitBreakers, Verdicts
  <2>3. peak' \in Nat /\ day0' \in Nat /\ newDay' \in BOOLEAN /\ trouble' \in BOOLEAN
    BY <1>2, LoopConstants DEF AccountFresh, LoopInv, TypeOK
  <2> QED
    BY <2>1, <2>2, <2>3, JudgedKeeps
<1> QED
  BY <1>1, <1>2

LEMMA NoOrderKeeps ==
  ASSUME LoopInv, NoOrder
  PROVE  LoopInv'
<1>1. TypeOK'
  BY DEF LoopInv, TypeOK, NoOrder
<1>2. Ticketed' /\ TakesCounted' /\ TakenIsProtected' /\ InHand' /\ TargetsManaged'
  BY ManagementQuiet DEF NoOrder
<1>3. PauseKept'
  BY PauseQuiet DEF NoOrder
<1> QED
  BY <1>1, <1>2, <1>3 DEF LoopInv

\* A new ticket was neither taken nor remembered before.
LEMMA PlaceOrderKeeps ==
  ASSUME LoopInv, NEW beyond \in BOOLEAN, PlaceOrder(beyond)
  PROVE  LoopInv'
<1> DEFINE t == issued + 1
<1>1. /\ at = "orders" /\ at' = "tick" /\ issued < Orders /\ issued' = t
      /\ t \notin DOMAIN positions /\ DOMAIN positions' = DOMAIN positions \cup {t}
      /\ positions'[t] = [volume |-> Volume, sl |-> "initial"]
      /\ \A u \in DOMAIN positions : positions'[u] = positions[u]
      /\ hit' \in {hit, hit \cup {t}}
      /\ UNCHANGED <<state, verdict, tail, tp1Hit, todo, taking, takes, trouble, saved, history>>
  BY DEF PlaceOrder, B!Open, B!Opened
<1>2. issued \in Nat /\ Orders \in Nat /\ t \in Tickets /\ t \in 0 .. Orders
  BY <1>1, LoopConstants DEF LoopInv, TypeOK
<1>3. \A u \in 1 .. issued : u \in 1 .. t /\ u # t
  BY <1>2
<1> HIDE DEF t
<1>4. TypeOK'
  <2>1. [volume |-> Volume, sl |-> "initial"] \in [volume: 0 .. Volume, sl: {"initial", "breakeven"}]
    BY LoopConstants
  <2>2. \A u \in DOMAIN positions' :
          positions'[u] \in [volume: 0 .. Volume, sl: {"initial", "breakeven"}]
    BY <1>1, <2>1 DEF LoopInv, TypeOK
  <2>3. DOMAIN positions' \subseteq Tickets /\ hit' \subseteq Tickets
    BY <1>1, <1>2 DEF LoopInv, TypeOK
  <2> QED
    BY <1>1, <1>2, <2>2, <2>3 DEF LoopInv, TypeOK
<1>5. t \notin tp1Hit
  BY <1>3 DEF LoopInv, Ticketed
<1>6. Ticketed'
  <2>1. DOMAIN positions' \cup tp1Hit' \subseteq 1 .. issued'
    <3>1. t \in 1 .. t
      BY <1>2 DEF t
    <3> QED
      BY <1>1, <1>3, <3>1 DEF LoopInv, Ticketed
  <2> QED
    BY <1>1, <2>1 DEF LoopInv, Ticketed
<1>7. TakesCounted' /\ TakenIsProtected' /\ InHand' /\ TargetsManaged'
  BY <1>1, <1>5 DEF LoopInv, TakesCounted, TakenIsProtected, InHand, TargetsManaged
<1>8. PauseKept'
  BY <1>1, PauseQuiet
<1> QED
  BY <1>4, <1>6, <1>7, <1>8 DEF LoopInv

LEMMA GetTickKeeps ==
  ASSUME LoopInv, GetTick
  PROVE  LoopInv'
<1>1. /\ at = "tick" /\ at' = "manage" /\ todo = {} /\ taking = None
      /\ \/ todo' = {t \in hit \cap DOMAIN positions : t \notin tp1Hit} /\ trouble' = trouble
         \/ todo' = {} /\ trouble' = TRUE
      /\ UNCHANGED <<state, verdict, broker, hit, tp1Hit, taking, takes, saved, history>>
  BY DEF GetTick, LoopInv, Ticketed
<1>2. todo' \subseteq Tickets /\ trouble' \in BOOLEAN
  BY <1>1 DEF LoopInv, TypeOK
<1>3. TypeOK'
  BY <1>1, <1>2 DEF LoopInv, TypeOK
<1>4. todo' \cap tp1Hit = {} /\ 0 \notin todo'
  BY <1>1 DEF LoopInv, TypeOK
<1>5. Ticketed'
  BY <1>1, <1>4 DEF LoopInv, Ticketed
<1>6. TakesCounted' /\ TakenIsProtected' /\ TargetsManaged'
  BY <1>1 DEF LoopInv, TakesCounted, TakenIsProtected, TargetsManaged
<1>7. InHand'
  BY <1>1 DEF InHand
<1>8. PauseKept'
  BY <1>1, PauseQuiet
<1> QED
  BY <1>3, <1>5, <1>6, <1>7, <1>8 DEF LoopInv

-----------------------------------------------------------------------------
(* The management of positions at their target. *)

Shape == [volume: 0 .. Volume, sl: {"initial", "breakeven"}]

\* What the bookkeeping of a closed trade keeps.
LEMMA RecordedTyped ==
  ASSUME NEW s \in Seq({"win", "loss"}), Len(s) <= LOSSES, NEW x \in {"win", "loss"}
  PROVE  Recorded(s, x) \in Seq({"win", "loss"}) /\ Len(Recorded(s, x)) <= LOSSES
<1> DEFINE longer == Append(s, x)
<1>1. longer \in Seq({"win", "loss"}) /\ Len(longer) = Len(s) + 1 /\ longer # << >>
  OBVIOUS
<1>2. Len(s) \in Nat /\ LOSSES \in Nat
  BY LoopConstants
<1> HIDE DEF longer
<1>3. Tail(longer) \in Seq({"win", "loss"}) /\ Len(Tail(longer)) = Len(longer) - 1
  BY <1>1
<1> QED
  BY <1>1, <1>2, <1>3 DEF Recorded, longer

\* A position that shrinks keeps its stop, one whose stop moves keeps its volume.
LEMMA ReducedShape ==
  ASSUME NEW b, \A u \in DOMAIN b : b[u] \in Shape,
         NEW t \in DOMAIN b, NEW cv \in Nat, cv <= b[t].volume
  PROVE  /\ DOMAIN B!Reduced(b, t, cv) = DOMAIN b
         /\ \A u \in DOMAIN b : B!Reduced(b, t, cv)[u] \in Shape /\ B!Reduced(b, t, cv)[u].sl = b[u].sl
<1> DEFINE r == B!Reduced(b, t, cv)
<1>1. DOMAIN r = DOMAIN b /\ \A u \in DOMAIN b \ {t} : r[u] = b[u]
  BY DEF B!Reduced
<1>2. r[t] = [b[t] EXCEPT !.volume = b[t].volume - cv]
  BY DEF B!Reduced
<1>3. b[t] \in Shape /\ b[t].volume - cv \in 0 .. Volume
  BY LoopConstants DEF Shape
<1>4. r[t] \in Shape /\ r[t].sl = b[t].sl
  BY <1>2, <1>3 DEF Shape
<1> HIDE DEF r
<1>5. \A u \in DOMAIN b : r[u] \in Shape /\ r[u].sl = b[u].sl
  BY <1>1, <1>4
<1> QED
  BY <1>1, <1>5 DEF r

LEMMA StopMovedShape ==
  ASSUME NEW b, NEW t \in DOMAIN b, \A u \in DOMAIN b : b[u] \in Shape
  PROVE  /\ DOMAIN B!StopMoved(b, t) = DOMAIN b
         /\ B!StopMoved(b, t)[t].sl = "breakeven"
         /\ \A u \in DOMAIN b :
              /\ B!StopMoved(b, t)[u] \in Shape
              /\ u # t => B!StopMoved(b, t)[u] = b[u]
<1> DEFINE r == B!StopMoved(b, t)
<1>1. DOMAIN r = DOMAIN b /\ \A u \in DOMAIN b \ {t} : r[u] = b[u]
  BY DEF B!StopMoved
<1>2. r[t] = [b[t] EXCEPT !.sl = "breakeven"]
  BY DEF B!StopMoved
<1>3. b[t] \in Shape
  OBVIOUS
<1>4. r[t] \in Shape /\ r[t].sl = "breakeven"
  BY <1>2, <1>3 DEF Shape
<1> HIDE DEF r
<1>5. \A u \in DOMAIN b : r[u] \in Shape /\ (u # t => r[u] = b[u])
  BY <1>1, <1>4
<1> QED
  BY <1>1, <1>4, <1>5 DEF r

\* Within the management nothing happens to the pause.
LEMMA ManagingQuiet ==
  ASSUME LoopInv, at = "manage", at' = "manage", UNCHANGED <<state, history, saved>>
  PROVE  PauseKept' /\ TargetsManaged'
<1>1. PauseKept'
  BY PauseQuiet
<1> QED
  BY <1>1 DEF TargetsManaged

LEMMA PartialCloseStaleKeeps ==
  ASSUME LoopInv, NEW t \in todo, PartialCloseStale(t)
  PROVE  LoopInv'
<1>1. /\ at = "manage" /\ at' = "manage" /\ taking = None /\ todo' = todo \ {t} /\ trouble' = TRUE
      /\ UNCHANGED <<state, verdict, broker, hit, tp1Hit, taking, takes, saved, history>>
  BY DEF PartialCloseStale
<1>2. TypeOK'
  BY <1>1 DEF LoopInv, TypeOK
<1>3. Ticketed'
  BY <1>1 DEF LoopInv, Ticketed
<1>4. TakesCounted' /\ TakenIsProtected' /\ InHand'
  BY <1>1 DEF LoopInv, TakesCounted, TakenIsProtected, InHand
<1>5. PauseKept' /\ TargetsManaged'
  BY <1>1, ManagingQuiet
<1> QED
  BY <1>2, <1>3, <1>4, <1>5 DEF LoopInv

LEMMA PartialCloseKeeps ==
  ASSUME LoopInv, NEW t \in todo, NEW sign \in {"win", "loss"}, PartialClose(t, sign)
  PROVE  LoopInv'
<1>1. /\ at = "manage" /\ at' = "manage" /\ taking = None /\ taking' = t
      /\ todo' = todo \ {t} /\ takes' = [takes EXCEPT ![t] = takes[t] + 1]
      /\ tail' = Recorded(tail, sign)
      /\ UNCHANGED <<state, verdict, issued, hit, tp1Hit, trouble, saved, history>>
  BY DEF PartialClose
<1>2. PICK cv \in HalfOf(positions[t].volume) : B!Reduce(t, cv)
  BY DEF PartialClose
<1>3. /\ t \in DOMAIN positions /\ cv <= positions[t].volume
      /\ positions' = B!Reduced(positions, t, cv)
  BY <1>2 DEF B!Reduce
<1>4. \A u \in DOMAIN positions : positions[u] \in Shape
  BY DEF LoopInv, TypeOK, Shape
<1>5. cv \in Nat
  <2>1. positions[t].volume \in Nat
    BY <1>3, <1>4, LoopConstants DEF Shape
  <2> QED
    BY <2>1 DEF HalfOf
<1>6. /\ DOMAIN positions' = DOMAIN positions
      /\ \A u \in DOMAIN positions : positions'[u] \in Shape /\ positions'[u].sl = positions[u].sl
  BY <1>3, <1>4, <1>5, ReducedShape
<1>7. t \in Tickets /\ t # None /\ t \notin tp1Hit
  <2>1. t \in Tickets
    BY DEF LoopInv, TypeOK
  <2>2. t \notin tp1Hit
    BY DEF LoopInv, Ticketed
  <2> QED
    BY <2>1, <2>2
<1>8. takes \in [Tickets -> Nat] /\ takes[t] = 0
  BY <1>1, <1>7 DEF LoopInv, TypeOK, TakesCounted
<1>9. TypeOK'
  <2>1. tail' \in Seq({"win", "loss"}) /\ Len(tail') <= LOSSES
    BY <1>1, RecordedTyped DEF LoopInv, TypeOK
  <2>2. takes' \in [Tickets -> Nat]
    BY <1>1, <1>7, <1>8
  <2>3. \A u \in DOMAIN positions' : positions'[u] \in [volume: 0 .. Volume, sl: {"initial", "breakeven"}]
    BY <1>6 DEF Shape
  <2> QED
    BY <1>1, <1>6, <1>7, <2>1, <2>2, <2>3 DEF LoopInv, TypeOK
<1>10. Ticketed'
  BY <1>1, <1>3, <1>6, <1>7 DEF LoopInv, Ticketed
<1>11. TakesCounted'
  BY <1>1, <1>7, <1>8 DEF LoopInv, TakesCounted
<1>12. TakenIsProtected' /\ InHand'
  <2>1. TakenIsProtected'
    BY <1>1, <1>6 DEF LoopInv, TakenIsProtected
  <2>2. 0 \notin hit
    BY DEF LoopInv, TypeOK
  <2>3. InHand'
    BY <1>1, <1>6, <2>2 DEF LoopInv, InHand
  <2> QED
    BY <2>1, <2>3
<1>13. PauseKept' /\ TargetsManaged'
  BY <1>1, ManagingQuiet
<1> QED
  BY <1>9, <1>10, <1>11, <1>12, <1>13 DEF LoopInv

LEMMA SetBreakevenKeeps ==
  ASSUME LoopInv, SetBreakeven
  PROVE  LoopInv'
<1>1. /\ at = "manage" /\ at' = "manage" /\ taking # None /\ taking' = None
      /\ tp1Hit' = tp1Hit \cup {taking}
      /\ taking \in DOMAIN positions /\ positions' = B!StopMoved(positions, taking)
      /\ UNCHANGED <<state, verdict, tail, issued, hit, todo, takes, trouble, saved, history>>
  BY DEF SetBreakeven, B!MoveStop
<1>2. \A u \in DOMAIN positions : positions[u] \in Shape
  BY DEF LoopInv, TypeOK, Shape
<1> DEFINE moved == B!StopMoved(positions, taking)
<1>0. /\ DOMAIN moved = DOMAIN positions /\ moved[taking].sl = "breakeven"
      /\ \A u \in DOMAIN positions : moved[u] \in Shape /\ (u # taking => moved[u] = positions[u])
  BY <1>1, <1>2, StopMovedShape
<1> HIDE DEF moved
<1>3. /\ DOMAIN positions' = DOMAIN positions /\ positions'[taking].sl = "breakeven"
      /\ \A u \in DOMAIN positions : positions'[u] \in Shape /\ (u # taking => positions'[u] = positions[u])
  <2>1. positions' = moved
    BY <1>1 DEF moved
  <2> QED
    BY <1>0, <2>1
<1>4. taking \in Tickets /\ taking \notin tp1Hit \cup todo
  BY <1>1 DEF LoopInv, TypeOK, Ticketed
<1>5. TypeOK'
  <2>1. \A u \in DOMAIN positions' : positions'[u] \in [volume: 0 .. Volume, sl: {"initial", "breakeven"}]
    BY <1>3 DEF Shape
  <2> QED
    BY <1>1, <1>3, <1>4, <2>1 DEF LoopInv, TypeOK
<1>6. Ticketed'
  <2>1. 0 \notin tp1Hit' \cup todo'
    BY <1>1, <1>4 DEF LoopInv, TypeOK
  <2> QED
    BY <1>1, <1>3, <1>4, <2>1 DEF LoopInv, Ticketed
<1>7. TakesCounted'
  BY <1>1, <1>4 DEF LoopInv, TakesCounted
<1>8. TakenIsProtected' /\ InHand'
  BY <1>1, <1>3 DEF LoopInv, TakenIsProtected, InHand
<1>9. PauseKept' /\ TargetsManaged'
  BY <1>1, ManagingQuiet
<1> QED
  BY <1>5, <1>6, <1>7, <1>8, <1>9 DEF LoopInv

LEMMA ManagementErrorKeeps ==
  ASSUME LoopInv, ManagementError
  PROVE  LoopInv'
<1>1. /\ at = "manage" /\ at' = "manage" /\ taking # None /\ taking' = None /\ trouble' = TRUE
      /\ positions' \in {positions, B!StopMoved(positions, taking)}
      /\ takes' = [takes EXCEPT ![taking] = takes[taking] - 1]
      /\ UNCHANGED <<state, verdict, tail, issued, hit, tp1Hit, todo, saved, history>>
  BY DEF ManagementError
<1>2. \A u \in DOMAIN positions : positions[u] \in Shape
  BY DEF LoopInv, TypeOK, Shape
<1>3. taking \in Tickets /\ taking \notin tp1Hit \cup todo /\ taking \in DOMAIN positions
  BY <1>1 DEF LoopInv, TypeOK, Ticketed
<1> DEFINE moved == B!StopMoved(positions, taking)
<1>0. /\ DOMAIN moved = DOMAIN positions
      /\ \A u \in DOMAIN positions : moved[u] \in Shape /\ (u # taking => moved[u] = positions[u])
  BY <1>2, <1>3, StopMovedShape
<1> HIDE DEF moved
<1>4. /\ DOMAIN positions' = DOMAIN positions
      /\ \A u \in DOMAIN positions : positions'[u] \in Shape /\ (u # taking => positions'[u] = positions[u])
  <2>1. positions' \in {positions, moved}
    BY <1>1 DEF moved
  <2> QED
    BY <1>0, <1>2, <2>1
<1>5. takes \in [Tickets -> Nat] /\ takes[taking] = 1
  BY <1>3 DEF LoopInv, TypeOK, TakesCounted
<1>6. takes' = [takes EXCEPT ![taking] = 0]
  BY <1>1, <1>5
<1>7. TypeOK'
  <2>1. takes' \in [Tickets -> Nat]
    BY <1>5, <1>6
  <2>2. \A u \in DOMAIN positions' : positions'[u] \in [volume: 0 .. Volume, sl: {"initial", "breakeven"}]
    BY <1>4 DEF Shape
  <2> QED
    BY <1>1, <1>4, <2>1, <2>2 DEF LoopInv, TypeOK
<1>8. 0 \notin tp1Hit \cup todo
  BY DEF LoopInv, TypeOK
<1>9. Ticketed'
  BY <1>1, <1>4, <1>8 DEF LoopInv, Ticketed
<1>10. TakesCounted'
  BY <1>1, <1>3, <1>5, <1>6 DEF LoopInv, TakesCounted
<1>11. TakenIsProtected' /\ InHand'
  BY <1>1, <1>3, <1>4 DEF LoopInv, TakenIsProtected, InHand
<1>12. PauseKept' /\ TargetsManaged'
  BY <1>1, ManagingQuiet
<1> QED
  BY <1>7, <1>9, <1>10, <1>11, <1>12 DEF LoopInv

\* All that was at its target is remembered when nothing is left, unless a call failed.
LEMMA EndOfPassKeeps ==
  ASSUME LoopInv, EndOfPass
  PROVE  LoopInv'
<1>1. /\ at = "manage" /\ at' = "sleep" /\ taking = None /\ todo = {}
      /\ UNCHANGED <<state, verdict, broker, management, trouble, saved, history>>
  BY DEF EndOfPass
<1>2. TypeOK'
  BY <1>1 DEF LoopInv, TypeOK
<1>3. Ticketed' /\ TakesCounted' /\ TakenIsProtected' /\ InHand'
  BY <1>1 DEF LoopInv, Ticketed, TakesCounted, TakenIsProtected, InHand
<1>4. 0 \notin hit
  BY DEF LoopInv, TypeOK
<1>5. TargetsManaged'
  BY <1>1, <1>4 DEF LoopInv, InHand, TargetsManaged
<1>6. PauseKept'
  BY <1>1, PauseQuiet
<1> QED
  BY <1>2, <1>3, <1>5, <1>6 DEF LoopInv

-----------------------------------------------------------------------------
(* Stops, restarts and the time that passes. *)

\* Nothing of a process that ends is left but the positions and what was saved.
LEMMA EndProcessKeeps ==
  ASSUME LoopInv, EndProcess, at # "down", SavedOK', forgot' \in BOOLEAN,
         pauseLeft > 0 /\ ~forgot' => ~forgot /\ saved'.kind = "state" /\ saved'.cooling = cooling
  PROVE  LoopInv'
<1>1. /\ at' = "down" /\ peak' = None /\ day0' = None /\ newDay' = TRUE /\ cooling' = Off
      /\ verdict' = "ok" /\ tail' = << >> /\ trouble' = FALSE
      /\ tp1Hit' = {} /\ todo' = {} /\ taking' = None
      /\ takes' = [t \in Tickets |-> 0]
      /\ UNCHANGED <<positions, issued, hit, pauseLeft>>
  BY DEF EndProcess
<1>2. TypeOK'
  <2>1. << >> \in Seq({"win", "loss"}) /\ Len(<< >>) <= LOSSES
    BY LoopConstants
  <2>2. cooling' \in Pauses /\ verdict' \in Verdicts /\ peak' \in Nat /\ day0' \in Nat
    BY <1>1 DEF Pauses, Verdicts
  <2>3. takes' \in [Tickets -> Nat]
    BY <1>1
  <2> QED
    BY <1>1, <2>1, <2>2, <2>3 DEF LoopInv, TypeOK, SavedOK
<1>3. Ticketed'
  BY <1>1 DEF LoopInv, Ticketed
<1>4. TakesCounted'
  BY <1>1 DEF TakesCounted
<1>5. TakenIsProtected' /\ InHand' /\ TargetsManaged'
  BY <1>1 DEF TakenIsProtected, InHand, TargetsManaged
<1>6. PauseKept'
  BY <1>1 DEF LoopInv, PauseKept
<1> QED
  BY <1>2, <1>3, <1>4, <1>5, <1>6 DEF LoopInv

LEMMA StopKeeps ==
  ASSUME LoopInv, Stop
  PROVE  LoopInv'
<1>1. at # "down" /\ EndProcess /\ Saves(cooling)
  BY DEF Stop, MayStop
<1>2. /\ peak \in Nat /\ day0 \in Nat /\ newDay \in BOOLEAN /\ cooling \in Pauses /\ forgot \in BOOLEAN
      /\ SavedOK
  BY DEF LoopInv, TypeOK, SavedOK
<1>3. CASE saved' = Checkpoint(peak, day0, newDay, cooling) /\ forgot' = forgot
  <2>1. /\ saved'.kind = "state" /\ saved'.peak = peak /\ saved'.day0 = day0
        /\ saved'.newDay = newDay /\ saved'.cooling = cooling
    BY <1>3, CheckpointFields
  <2>2. SavedOK'
    BY <1>2, <1>3, <2>1 DEF SavedOK
  <2> QED
    BY <1>1, <1>2, <1>3, <2>1, <2>2, EndProcessKeeps
<1>4. CASE saved' \in {saved, Torn} /\ forgot' = (forgot \/ pauseLeft > 0)
  <2>1. SavedOK'
    <3>1. CASE saved' = saved
      BY <1>2, <3>1 DEF SavedOK
    <3>2. CASE saved' = Torn
      BY <3>2 DEF SavedOK
    <3> QED
      BY <1>4, <3>1, <3>2
  <2>2. (pauseLeft > 0 => forgot') /\ forgot' \in BOOLEAN
    BY <1>2, <1>4
  <2> QED
    BY <1>1, <2>1, <2>2, EndProcessKeeps
<1> QED
  BY <1>1, <1>3, <1>4 DEF Saves

LEMMA CrashKeeps ==
  ASSUME LoopInv, Crash
  PROVE  LoopInv'
<1>1. /\ at # "down" /\ EndProcess /\ saved' \in {saved, Torn}
      /\ forgot' = (forgot \/ pauseLeft > 0)
  BY DEF Crash
<1>2. SavedOK /\ forgot \in BOOLEAN
  BY DEF LoopInv, TypeOK, SavedOK
<1>3. SavedOK'
  <2>1. CASE saved' = saved
    BY <1>2, <2>1 DEF SavedOK
  <2>2. CASE saved' = Torn
    BY <2>2 DEF SavedOK
  <2> QED
    BY <1>1, <2>1, <2>2
<1>4. forgot' \in BOOLEAN /\ (forgot' \/ ~(pauseLeft > 0))
  BY <1>1, <1>2
<1> QED
  BY <1>1, <1>3, <1>4, EndProcessKeeps

\* A resumed pause is as long as the checkpoint's; a fresh start forgets the one there was.
LEMMA StartKeeps ==
  ASSUME LoopInv, NEW resume \in BOOLEAN, Start(resume)
  PROVE  LoopInv'
<1>1. /\ at = "down" /\ at' = "gate"
      /\ forgot' = (forgot \/ (~resume /\ pauseLeft > 0))
      /\ UNCHANGED <<verdict, broker, management, trouble, saved, pauseLeft>>
  BY DEF Start
<1>2. SavedOK /\ forgot \in BOOLEAN
  BY DEF LoopInv, TypeOK, SavedOK
<1>3. \/ /\ resume /\ saved.kind = "state"
         /\ peak' = saved.peak /\ day0' = saved.day0 /\ newDay' = saved.newDay /\ cooling' = saved.cooling
      \/ (~resume \/ saved = NoFile) /\ UNCHANGED state
  BY DEF Start
<1>4. peak' \in Nat /\ day0' \in Nat /\ newDay' \in BOOLEAN /\ cooling' \in Pauses
  <2>1. CASE resume /\ saved.kind = "state"
    BY <1>2, <1>3, <2>1, SavedFields DEF LoopInv, TypeOK
  <2>2. CASE ~(resume /\ saved.kind = "state")
    BY <1>3, <2>2 DEF LoopInv, TypeOK
  <2> QED
    BY <2>1, <2>2
<1>5. TypeOK'
  BY <1>1, <1>2, <1>4 DEF LoopInv, TypeOK
<1>6. Ticketed' /\ TakesCounted' /\ TakenIsProtected' /\ InHand' /\ TargetsManaged'
  BY <1>1, ManagementQuiet
<1>7. PauseKept'
  <2>1. pauseLeft > 0 /\ ~forgot' => resume /\ saved.kind = "state" /\ saved.cooling = pauseLeft
    BY <1>1 DEF LoopInv, PauseKept
  <2>2. saved.kind = "state" => saved # NoFile
    BY DEF NoFile
  <2> QED
    BY <1>1, <1>3, <2>1, <2>2 DEF PauseKept
<1> QED
  BY <1>5, <1>6, <1>7 DEF LoopInv

\* The checkpoint with what time does to it.
LEMMA SavedMoves ==
  ASSUME SavedOK, saved.kind = "state", NEW n \in BOOLEAN, NEW c \in Pauses,
         saved' = [saved EXCEPT !.newDay = n, !.cooling = c]
  PROVE  SavedOK' /\ saved'.kind = "state" /\ saved'.cooling = c
<1>1. /\ saved = Checkpoint(saved.peak, saved.day0, saved.newDay, saved.cooling)
      /\ saved.peak \in Nat /\ saved.day0 \in Nat
  BY SavedFields
<1>2. saved' = Checkpoint(saved.peak, saved.day0, n, c)
  BY <1>1 DEF Checkpoint
<1>3. /\ saved'.kind = "state" /\ saved'.peak = saved.peak /\ saved'.day0 = saved.day0
      /\ saved'.newDay = n /\ saved'.cooling = c
  BY <1>2, CheckpointFields
<1> QED
  BY <1>1, <1>2, <1>3 DEF SavedOK

LEMMA TickKeeps ==
  ASSUME LoopInv, Tick
  PROVE  LoopInv'
<1>1. /\ at \in {"sleep", "down"} /\ at' = (IF at = "sleep" THEN "gate" ELSE at)
      /\ cooling' = (IF at = "sleep" THEN TimePassed(cooling) ELSE cooling)
      /\ saved' = (IF saved.kind = "state"
                   THEN [saved EXCEPT !.cooling = TimePassed(saved.cooling)] ELSE saved)
      /\ pauseLeft' = TimePassed(pauseLeft)
      /\ hit' \in SUBSET (DOMAIN positions \ tp1Hit)
      /\ verdict' = (IF verdict = "cooling_off" THEN verdict ELSE "ok")
      /\ trouble' = FALSE
      /\ UNCHANGED <<peak, day0, newDay, broker, tp1Hit, todo, taking, takes, forgot>>
  BY DEF Tick
<1>2. cooling \in Pauses /\ pauseLeft \in 0 .. COOLING /\ pauseLeft \in Pauses /\ SavedOK
  BY DEF LoopInv, TypeOK, SavedOK, Pauses
<1>3. SavedOK' /\ (saved.kind = "state" => saved'.kind = "state" /\ saved'.cooling = TimePassed(saved.cooling))
  <2>1. CASE saved.kind = "state"
    <3>1. saved.newDay \in BOOLEAN /\ TimePassed(saved.cooling) \in Pauses
      BY <1>2, <2>1, SavedFields, PausePasses
    <3>2. saved' = [saved EXCEPT !.newDay = saved.newDay, !.cooling = TimePassed(saved.cooling)]
      <4>1. saved = Checkpoint(saved.peak, saved.day0, saved.newDay, saved.cooling)
        BY <1>2, <2>1, SavedFields
      <4> QED
        BY <1>1, <2>1, <4>1 DEF Checkpoint
    <3> QED
      BY <1>2, <2>1, <3>1, <3>2, SavedMoves
  <2>2. CASE saved.kind # "state"
    BY <1>1, <1>2, <2>2 DEF SavedOK
  <2> QED
    BY <2>1, <2>2
<1>4. TypeOK'
  <2>1. cooling' \in Pauses /\ pauseLeft' \in 0 .. COOLING
    BY <1>1, <1>2, PausePasses
  <2>2. at' \in {"gate", "down"} /\ verdict' \in Verdicts /\ trouble' \in BOOLEAN /\ hit' \subseteq Tickets
    BY <1>1 DEF LoopInv, TypeOK, Verdicts
  <2> QED
    BY <1>1, <1>3, <2>1, <2>2 DEF LoopInv, TypeOK, SavedOK
<1>5. Ticketed' /\ TakesCounted' /\ TakenIsProtected' /\ InHand' /\ TargetsManaged'
  BY <1>1 DEF LoopInv, Ticketed, TakesCounted, TakenIsProtected, InHand, TargetsManaged
<1>6. PauseKept'
  <2>1. pauseLeft' > 0 => pauseLeft > 0
    BY <1>1, <1>2, PausePasses DEF TimePassed
  <2>2. CASE at = "sleep"
    BY <1>1, <2>1, <2>2 DEF LoopInv, PauseKept
  <2>3. CASE at = "down"
    BY <1>1, <1>3, <2>1, <2>3 DEF LoopInv, PauseKept
  <2> QED
    BY <1>1, <2>2, <2>3
<1> QED
  BY <1>4, <1>5, <1>6 DEF LoopInv

LEMMA MidnightKeeps ==
  ASSUME LoopInv, Midnight
  PROVE  LoopInv'
<1>1. /\ at \in {"sleep", "down"} /\ newDay' = TRUE
      /\ saved' = (IF saved.kind = "state" THEN [saved EXCEPT !.newDay = TRUE] ELSE saved)
      /\ UNCHANGED <<at, peak, day0, cooling, verdict, broker, management, trouble, history>>
  BY DEF Midnight
<1>2. SavedOK
  BY DEF LoopInv, TypeOK, SavedOK
<1>3. SavedOK' /\ (saved.kind = "state" => saved'.kind = "state" /\ saved'.cooling = saved.cooling)
  <2>1. CASE saved.kind = "state"
    <3>1. /\ saved = Checkpoint(saved.peak, saved.day0, saved.newDay, saved.cooling)
          /\ saved.cooling \in Pauses
      BY <1>2, <2>1, SavedFields
    <3>2. saved' = [saved EXCEPT !.newDay = TRUE, !.cooling = saved.cooling]
      BY <1>1, <2>1, <3>1 DEF Checkpoint
    <3> QED
      BY <1>2, <2>1, <3>1, <3>2, SavedMoves
  <2>2. CASE saved.kind # "state"
    BY <1>1, <1>2, <2>2 DEF SavedOK
  <2> QED
    BY <2>1, <2>2
<1>4. TypeOK'
  BY <1>1, <1>3 DEF LoopInv, TypeOK, SavedOK
<1>5. Ticketed' /\ TakesCounted' /\ TakenIsProtected' /\ InHand' /\ TargetsManaged'
  BY <1>1 DEF LoopInv, Ticketed, TakesCounted, TakenIsProtected, InHand, TargetsManaged
<1>6. PauseKept'
  BY <1>1, <1>3 DEF LoopInv, PauseKept
<1> QED
  BY <1>4, <1>5, <1>6 DEF LoopInv

-----------------------------------------------------------------------------
(* The theorems. *)

LEMMA LoopStep == LoopInv /\ [Next]_vars => LoopInv'
<1> SUFFICES ASSUME LoopInv, [Next]_vars
             PROVE  LoopInv'
  OBVIOUS
<1>1. CASE Pass
  <2>1. CASE \E t \in todo : PartialCloseStale(t) \/ \E sign \in {"win", "loss"} : PartialClose(t, sign)
    BY <2>1, PartialCloseStaleKeeps, PartialCloseKeeps
  <2>2. CASE NoOrder \/ \E beyond \in BOOLEAN : PlaceOrder(beyond)
    BY <2>2, NoOrderKeeps, PlaceOrderKeeps
  <2> QED
    BY <1>1, <2>1, <2>2, GateKeeps, AccountKeeps, GetTickKeeps, SetBreakevenKeeps, ManagementErrorKeeps,
       EndOfPassKeeps, TickKeeps DEF Pass
<1>2. CASE \E resume \in BOOLEAN : Start(resume)
  BY <1>2, StartKeeps
<1>3. CASE Stop \/ Crash \/ Midnight
  BY <1>3, StopKeeps, CrashKeeps, MidnightKeeps
<1>4. CASE UNCHANGED vars
  BY <1>4 DEF vars, LoopInv, TypeOK, Ticketed, TakesCounted, TakenIsProtected, InHand, TargetsManaged,
              PauseKept
<1> QED
  BY <1>1, <1>2, <1>3, <1>4 DEF Next

LEMMA LoopStart == Init => LoopInv
<1> SUFFICES ASSUME Init
             PROVE  LoopInv
  OBVIOUS
<1>1. TypeOK
  <2>1. /\ << >> \in Seq({"win", "loss"}) /\ Len(<< >>) <= LOSSES /\ DOMAIN << >> = {}
        /\ 0 \in 0 .. Orders /\ 0 \in 0 .. COOLING /\ -1 \in Pauses /\ "ok" \in Verdicts
    BY LoopConstants DEF Pauses, Verdicts
  <2>2. takes \in [Tickets -> Nat]
    BY DEF Init
  <2> QED
    BY <2>1, <2>2 DEF Init, TypeOK
<1>2. Ticketed /\ TakesCounted /\ TakenIsProtected /\ InHand /\ TargetsManaged /\ PauseKept
  BY DEF Init, Ticketed, TakesCounted, TakenIsProtected, InHand, TargetsManaged, PauseKept
<1> QED
  BY <1>1, <1>2 DEF LoopInv

LEMMA LoopInductive == Spec => []LoopInv
  BY LoopStart, LoopStep, PTL DEF Spec

\* The variables keep their types: a pause never grows beyond its length, and the breaker
\* reads no more than the last trades, through any stops and resumes.
THEOREM TypesKept == Spec => []TypeOK
<1>1. LoopInv => TypeOK
  BY DEF LoopInv
<1> QED
  BY <1>1, LoopInductive, PTL

\* A process halves a position at its target at most once, however many passes see it
\* there, unless a call after the partial close failed.
THEOREM TakenOnce == Spec => []TargetTakenOnce
<1>1. LoopInv => TargetTakenOnce
  BY DEF LoopInv, TakesCounted, TargetTakenOnce
<1> QED
  BY <1>1, LoopInductive, PTL

\* Every position remembered as taken has its stop at break-even, whatever failed.
THEOREM TakenProtected == Spec => []TakenIsProtected
<1>1. LoopInv => TakenIsProtected
  BY DEF LoopInv
<1> QED
  BY <1>1, LoopInductive, PTL

\* A pass in which nothing failed leaves no position at its target unmanaged, halted or not.
THEOREM AllManaged == Spec => []TargetsManaged
<1>1. LoopInv => TargetsManaged
  BY DEF LoopInv
<1> QED
  BY <1>1, LoopInductive, PTL

\* Orders wait for the end of the pause, over any number of stops and resumes, unless a
\* process was killed during it, could not save its state or came up without --resume.
THEOREM PauseOutlivesStops == Spec => PauseHonoured
<1>1. LoopInv /\ [Next]_vars => [issued' > issued => pauseLeft = 0 \/ forgot]_vars
  <2> SUFFICES ASSUME LoopInv, Next, issued' > issued
               PROVE  pauseLeft = 0 \/ forgot
    OBVIOUS
  <2>1. issued \in Int
    BY DEF LoopInv, TypeOK
  <2>2. issued' # issued
    BY <2>1
  <2>3. \E beyond \in BOOLEAN : PlaceOrder(beyond)
    BY <2>2 DEF Next, Pass, Start, Stop, Saves, Crash, EndProcess, Midnight, GateClosed, GateOpen, AccountStale,
                AccountFresh, NoOrder, GetTick, PartialCloseStale, PartialClose, SetBreakeven,
                ManagementError, EndOfPass, Tick
  <2> QED
    BY <2>3 DEF PlaceOrder, LoopInv, PauseKept
<1> QED
  BY <1>1, LoopInductive, PTL DEF Spec, PauseHonoured

-----------------------------------------------------------------------------
(* The supervisor that spawns the bot. *)

(***************************************************************************)
(* ChildIsOwned says where run() may be while a child runs; alone it does  *)
(* not survive a step, because nothing says that the process a Popen object*)
(* is held of is there, nor that the other points of the loop are reached  *)
(* without one.  The invariant says of every point of run() what it knows  *)
(* of the child: the loop comes back to its top, backs off and spawns with *)
(* none, the polling loop holds one, the verdict is passed on one that has *)
(* exited, and the kill is for one that has ignored SIGTERM.               *)
(***************************************************************************)
Gone == child \in {"none", "exited"}

ChildOfPc ==
  /\ pc \in {"gate", "spawn", "watch", "judge", "backoff", "shutdown", "kill", "ended"}
  /\ child \in {"none", "alive", "deaf", "exited"}
  /\ pc \in {"gate", "spawn", "backoff", "ended"} => Gone
  /\ pc \in {"watch", "judge", "shutdown", "kill"} => held /\ child # "none"
  /\ pc = "judge" => child = "exited"

LEMMA ChildOfPcInductive == ChildOfPc /\ [SupervisorNext]_supervisorVars => ChildOfPc'
<1> SUFFICES ASSUME ChildOfPc, [SupervisorNext]_supervisorVars
             PROVE  ChildOfPc'
  OBVIOUS
<1> USE DEF ChildOfPc, Gone
<1>1. CASE WaitForMarketOpen
  BY <1>1 DEF WaitForMarketOpen
<1>2. CASE Spawn
  BY <1>2 DEF Spawn
<1>3. CASE Watch
  BY <1>3 DEF Watch
<1>4. CASE Judge
  BY <1>4 DEF Judge
<1>5. CASE Backoff
  BY <1>5 DEF Backoff
<1>6. CASE ShutdownChild
  BY <1>6 DEF ShutdownChild
<1>7. CASE KillChild
  BY <1>7 DEF KillChild
<1>8. CASE RequestStop
  BY <1>8 DEF RequestStop
<1>9. CASE ChildExits
  BY <1>9 DEF ChildExits, Running
<1>10. CASE HourPasses
  BY <1>10 DEF HourPasses
<1>11. CASE UNCHANGED supervisorVars
  BY <1>11 DEF supervisorVars
<1> QED
  BY <1>1, <1>2, <1>3, <1>4, <1>5, <1>6, <1>7, <1>8, <1>9, <1>10, <1>11 DEF SupervisorNext, Run

\* There is never a second bot, nor one that run() has left behind: a child runs only
\* while run() watches it or shuts it down (_shutdown_child, the finally of run).
THEOREM ChildAlwaysOwned == SupervisorSpec => []ChildIsOwned
<1>1. SupervisorInit => ChildOfPc
  BY DEF SupervisorInit, ChildOfPc, Gone
<1>2. ChildOfPc => ChildIsOwned
  BY DEF ChildOfPc, Gone, ChildIsOwned, Running
<1> QED
  BY <1>1, <1>2, ChildOfPcInductive, PTL DEF SupervisorSpec

\* A child is spawned only when the one before it is gone: two bots never trade at
\* once, whenever the stop request, the exit and the clock come (run, spawn_fn).
THEOREM OneChildAtATime == SupervisorSpec => [][Spawn => ~Running]_supervisorVars
<1>1. ChildOfPc /\ [SupervisorNext]_supervisorVars => [Spawn => ~Running]_supervisorVars
  BY DEF ChildOfPc, Gone, Running, Spawn
<1>2. SupervisorInit => ChildOfPc
  BY DEF SupervisorInit, ChildOfPc, Gone
<1> QED
  BY <1>1, <1>2, ChildOfPcInductive, PTL DEF SupervisorSpec

\* The restarts are counted and the loop ends at the limit: the bot is never spawned
\* again once max_restarts is reached (the two checks of restart_count in run).
Counted ==
  /\ restarts \in Nat
  /\ MAX_RESTARTS # 0 => restarts <= MAX_RESTARTS
  /\ (MAX_RESTARTS # 0 /\ pc # "ended") => restarts < MAX_RESTARTS

THEOREM RestartsLimited == SupervisorSpec => []Counted
<1>1. SupervisorInit => Counted
  BY SupervisorConstants DEF SupervisorInit, Counted
<1>2. Counted /\ ChildOfPc /\ [SupervisorNext]_supervisorVars => Counted'
  <2> SUFFICES ASSUME Counted, ChildOfPc, [SupervisorNext]_supervisorVars
               PROVE  Counted'
    OBVIOUS
  <2> USE SupervisorConstants DEF Counted, TooMany
  <2>1. CASE Judge
    BY <2>1 DEF Judge
  <2>2. CASE Backoff
    BY <2>2 DEF Backoff
  <2>3. CASE ~Judge /\ ~Backoff
    BY <2>3 DEF SupervisorNext, Run, supervisorVars, ChildOfPc, WaitForMarketOpen, Spawn, Watch,
                ShutdownChild, KillChild, RequestStop, ChildExits, HourPasses
  <2> QED
    BY <2>1, <2>2, <2>3
<1>3. SupervisorInit => ChildOfPc
  BY DEF SupervisorInit, ChildOfPc, Gone
<1> QED
  BY <1>1, <1>2, <1>3, ChildOfPcInductive, PTL DEF SupervisorSpec

\* Induction over the naturals, for a set of them: the smallest number outside it would be
\* one whose 0..n has no smaller one.
LEMMA NaturalInduction ==
  ASSUME NEW T, 0 \in T, \A n \in Nat : n \in T => n + 1 \in T
  PROVE  Nat \subseteq T
<1> SUFFICES ASSUME NEW m \in Nat, m \notin T PROVE FALSE
  OBVIOUS
<1> DEFINE Q == {0..n : n \in (0..m) \ T}
<1>1. IsFiniteSet(0..m)
  BY FS_Interval
<1>2. Q \subseteq FiniteSubsetsOf(0..m) /\ 0..m \in Q
  <2>1. \A n \in 0..m : 0..n \subseteq 0..m /\ IsFiniteSet(0..n)
    BY FS_Interval
  <2> QED BY <2>1 DEF FiniteSubsetsOf
<1>3. PICK A \in Q : \A D \in Q : <<D, A>> \notin StrictSubsetOrdering(0..m)
  <2> HIDE DEF Q
  <2> QED BY <1>2, FS_StrictSubsetOrderingWellFounded, WFMin
<1>4. PICK n \in 0..m : n \notin T /\ A = 0..n
  BY <1>3
<1>5. n # 0 /\ n - 1 \in 0..m /\ n - 1 \in Nat
  BY <1>4
<1>6. n - 1 \notin T
  BY <1>4, <1>5
<1>7. 0..(n - 1) \in Q
  BY <1>5, <1>6
<1>8. <<0..(n - 1), 0..n>> \in StrictSubsetOrdering(0..m)
  <2>1. 0..(n - 1) \subseteq 0..n /\ 0..n \subseteq 0..m /\ n \in 0..n /\ n \notin 0..(n - 1)
    BY <1>5
  <2> QED BY <2>1 DEF StrictSubsetOrdering
<1> QED BY <1>3, <1>4, <1>7, <1>8

\* f holds the powers of the multiplier up to the n-th.
Powers(f, n) == f = [k \in 0..n |-> IF k = 0 THEN 1 ELSE MULT * f[k - 1]]

LEMMA PowersExist == ASSUME NEW n \in Nat PROVE \E f : Powers(f, n)
<1> DEFINE T == {m \in Nat : \E f : Powers(f, m)}
<1>1. 0 \in T
  <2>1. Powers([k \in 0..0 |-> 1], 0)
    BY DEF Powers
  <2> QED BY <2>1
<1>2. ASSUME NEW m \in Nat, m \in T PROVE m + 1 \in T
  <2>1. PICK f : f = [k \in 0..m |-> IF k = 0 THEN 1 ELSE MULT * f[k - 1]]
    BY <1>2 DEF Powers
  <2> DEFINE g == [k \in 0..(m + 1) |-> IF k = m + 1 THEN MULT * f[m] ELSE f[k]]
             e(k) == IF k = 0 THEN 1 ELSE MULT * g[k - 1]
  <2>2. \A k \in 0..(m + 1) : g[k] = e(k)
    <3> SUFFICES ASSUME NEW k \in 0..(m + 1) PROVE g[k] = e(k)
      OBVIOUS
    <3>1. CASE k = m + 1
      BY <3>1
    <3>2. CASE k \in 0..m
      <4>1. f[k] = IF k = 0 THEN 1 ELSE MULT * f[k - 1]
        BY <2>1, <3>2, Zenon
      <4> QED BY <3>2, <4>1
    <3> QED BY <3>1, <3>2
  <2>3. g = [k \in 0..(m + 1) |-> g[k]]
    OBVIOUS
  <2> HIDE DEF g
  <2>4. Powers(g, m + 1)
    BY <2>2, <2>3 DEF Powers
  <2> QED BY <2>4
<1> HIDE DEF T
<1>3. n \in T
  BY <1>1, <1>2, NaturalInduction
<1> QED BY <1>3 DEF T

\* A back-off is never longer than its cap, whatever the multiplier and the count.
LEMMA BackoffCapped ==
  ASSUME NEW n \in Nat
  PROVE  ComputeBackoff(n) \in 0..CAP
<1>1. PICK g : Powers(g, n)
  BY PowersExist
<1>2. PICK f : Powers(f, n) /\ ComputeBackoff(n) = IF f[n] < CAP THEN f[n] ELSE CAP
  BY <1>1, Zenon DEF ComputeBackoff, Powers
<1>3. \A k \in 0..n : f[k] = IF k = 0 THEN 1 ELSE MULT * f[k - 1]
  BY <1>2, Zenon DEF Powers
<1> DEFINE T == {k \in Nat : k =< n => f[k] \in Nat}
<1>4. 0 \in T
  BY <1>3
<1>5. ASSUME NEW k \in Nat, k \in T PROVE k + 1 \in T
  <2> SUFFICES ASSUME k + 1 =< n PROVE f[k + 1] \in Nat
    OBVIOUS
  <2>1. f[k] \in Nat /\ k + 1 \in 0..n /\ k + 1 # 0 /\ (k + 1) - 1 = k
    BY <1>5
  <2>2. f[k + 1] = MULT * f[k]
    BY <1>3, <2>1
  <2>3. MULT \in Nat
    BY SupervisorConstants
  <2> QED BY <2>1, <2>2, <2>3
<1> HIDE DEF T
<1>6. n \in T
  BY <1>4, <1>5, NaturalInduction
<1>7. f[n] \in Nat /\ CAP \in Nat
  BY <1>6, SupervisorConstants DEF T
<1> QED BY <1>2, <1>7

Types ==
  /\ stop \in BOOLEAN /\ held \in BOOLEAN /\ failed \in BOOLEAN
  /\ clock \in 0..Week - 1
  /\ delay \in 0..CAP

\* Every variable keeps its type: no back-off is longer than its cap and no restart is
\* counted beyond the limit (compute_backoff, run).
THEOREM SupervisorTypes == SupervisorSpec => []SupervisorTypeOK
<1>c. CAP \in Nat /\ Week \in Nat \ {0}
  BY SupervisorConstants DEF Week
<1>1. SupervisorInit => Types
  <2>1. 0 \in 0..CAP /\ 0 \in 0..Week - 1
    BY <1>c
  <2> QED BY <2>1 DEF SupervisorInit, Types
<1>2. Types /\ Counted /\ [SupervisorNext]_supervisorVars => Types'
  <2> SUFFICES ASSUME Types, Counted, [SupervisorNext]_supervisorVars PROVE Types'
    OBVIOUS
  <2> USE DEF Types
  <2>1. CASE Spawn
    BY <2>1, BackoffCapped DEF Spawn, Counted
  <2>2. CASE Judge
    <3>1. held' \in BOOLEAN /\ UNCHANGED <<stop, failed, clock>>
      BY <2>2 DEF Judge
    <3>2. restarts \in Nat /\ restarts + 1 \in Nat
      BY DEF Counted
    <3>3. delay' \in 0..CAP
      BY <2>2, <3>2, BackoffCapped DEF Judge
    <3> QED BY <3>1, <3>3
  <2>3. CASE Backoff
    <3>1. (delay' = delay - 1 /\ delay > 0) \/ delay' = 0
      BY <2>3 DEF Backoff
    <3>2. delay' \in 0..CAP
      BY <1>c, <3>1
    <3>3. failed' \in BOOLEAN /\ UNCHANGED <<stop, held, clock>>
      BY <2>3 DEF Backoff
    <3> QED BY <3>2, <3>3
  <2>4. CASE HourPasses
    <3>1. clock + 1 \in Nat /\ Week \in Nat \ {0}
      BY <1>c
    <3>2. (clock + 1) % Week \in 0..Week - 1
      BY <3>1
    <3> QED BY <2>4, <3>2 DEF HourPasses
  <2>5. CASE \/ WaitForMarketOpen \/ Watch \/ ShutdownChild \/ KillChild
             \/ RequestStop \/ ChildExits
    BY <2>5 DEF WaitForMarketOpen, Watch, ShutdownChild, KillChild, RequestStop,
                ChildExits
  <2>6. CASE UNCHANGED supervisorVars
    BY <2>6 DEF supervisorVars
  <2> QED
    BY <2>1, <2>2, <2>3, <2>4, <2>5, <2>6 DEF SupervisorNext, Run
<1>3. Types /\ Counted /\ ChildOfPc => SupervisorTypeOK
  BY DEF Types, Counted, ChildOfPc, SupervisorTypeOK
<1>4. SupervisorInit => ChildOfPc
  BY DEF SupervisorInit, ChildOfPc, Gone
<1> QED
  BY <1>1, <1>2, <1>3, <1>4, RestartsLimited, ChildOfPcInductive, PTL DEF SupervisorSpec

=============================================================================
