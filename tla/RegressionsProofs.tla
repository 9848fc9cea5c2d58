------------------------- MODULE RegressionsProofs --------------------------
(***************************************************************************)
(* What the supervisor keeps of its regressions, its attempts, its alerts  *)
(* and the working tree, for every number of regressions and causes, every *)
(* limit, day and cooldown, and however often it dies.                     *)
(***************************************************************************)
EXTENDS Regressions, FiniteSetTheorems, SequenceTheorems, TLAPS

Statuses == {"detected", "issue_filed", "patching", "patch_failed", "merged"}
EventRows == [key : Keys, status : Statuses, pr : Nat]
Updates == [event : Nat, status : {"merged", "patch_failed"}]
PrStates == {"open", "closed", "merged"}
Days == 0..(LAST_TIME \div DAY)

\* The row at hand is being looked at, an attempt has begun, the agent works.
AtHand == pc \in {"file", "budget", "count", "launch", "edit", "test", "push", "finally", "record"}
Begun == pc \in {"count", "launch", "edit", "test", "push", "finally", "record"}
AtWork == pc \in {"edit", "test", "push", "finally", "record"}

-----------------------------------------------------------------------------
(* The table of events: its types, and which of its rows are at hand, are  *)
(* watched or wait for their update.  A row that is watched or waits is    *)
(* still patching, and waits once: so no update takes a merged row back,   *)
(* which is what OneOpenEvent needs beside the check before the insert.    *)

EventsTyped ==
  /\ pc \in {"off", "next", "file", "budget", "count", "launch", "edit", "test", "push", "finally",
            "record", "gate", "alert", "post", "wait", "sleep"}
  /\ found \in Seq(Keys)
  /\ event \in Nat /\ slots \in Nat
  /\ events \in Seq(EventRows)
  /\ prs \in Seq(PrStates)
  /\ pr \in 0..Len(prs)
  /\ \A i \in DOMAIN events : events[i].pr \in 0..Len(prs)
  /\ updates \in Seq(Updates)
  /\ stashed \in BOOLEAN

RowAtHand ==
  /\ AtHand => event \in DOMAIN events /\ events[event].pr = NoPr
  /\ AtHand /\ ~AtWork => events[event].status \in {"detected", "issue_filed"}
  /\ AtWork => events[event].status = "patching"

RowsWaiting ==
  /\ pc # "gate" => watched = {} /\ updates = << >>
  /\ watched \subseteq Patching
  /\ \A i \in DOMAIN updates :
       /\ updates[i].event \in Patching \ watched
       /\ \A j \in DOMAIN updates : updates[i].event = updates[j].event => i = j

EventsInv == EventsTyped /\ RowAtHand /\ RowsWaiting /\ OneOpenEvent

\* RegressionDetector.scan's result is a sequence of keys.
LEMMA FoundTyped ==
  ASSUME NEW some \in SUBSET Keys
  PROVE  SetToSeq(some) \in Seq(Keys)
<1>1. IsFiniteSet(some)
  BY RegressionConstants, FS_Subset
<1>2. Cardinality(some) \in Nat /\ ExistsBijection(1..Cardinality(some), some)
  BY <1>1, FS_CardinalityType
<1>3. PICK f \in [1..Cardinality(some) -> some] : IsInjective(f)
  BY <1>2 DEF ExistsBijection, Bijection, Injection
<1>4. SetToSeq(some) \in [1..Cardinality(some) -> some]
  BY <1>3 DEF SetToSeq
<1> QED
  BY <1>2, <1>4

\* update_regression_event: one field of one row.
LEMMA StatusUpdated ==
  ASSUME NEW rows \in Seq(EventRows), NEW e \in DOMAIN rows, NEW s \in Statuses,
         NEW new, new = [rows EXCEPT ![e].status = s]
  PROVE  /\ new \in Seq(EventRows)
         /\ DOMAIN new = DOMAIN rows
         /\ new[e].key = rows[e].key /\ new[e].pr = rows[e].pr /\ new[e].status = s
         /\ \A i \in DOMAIN rows \ {e} : new[i] = rows[i]
<1>1. rows[e] \in EventRows
  OBVIOUS
<1>2. [rows[e] EXCEPT !.status = s] \in EventRows
  BY <1>1 DEF EventRows
<1> QED
  BY <1>1, <1>2 DEF EventRows

LEMMA PrUpdated ==
  ASSUME NEW rows \in Seq(EventRows), NEW e \in DOMAIN rows, NEW p \in Nat,
         NEW new, new = [rows EXCEPT ![e].pr = p]
  PROVE  /\ new \in Seq(EventRows)
         /\ DOMAIN new = DOMAIN rows
         /\ new[e].key = rows[e].key /\ new[e].pr = p /\ new[e].status = rows[e].status
         /\ \A i \in DOMAIN rows \ {e} : new[i] = rows[i]
<1>1. rows[e] \in EventRows
  OBVIOUS
<1>2. [rows[e] EXCEPT !.pr = p] \in EventRows
  BY <1>1 DEF EventRows
<1> QED
  BY <1>1, <1>2 DEF EventRows

\* A nonempty set of naturals has a least element: otherwise the intervals below its
\* elements would descend for ever.
LEMMA LeastNatural ==
  ASSUME NEW T, T \subseteq Nat, T # {}
  PROVE  \E x \in T : \A y \in T : x <= y
<1> DEFINE R == StrictSubsetOrdering(Nat)
           F == FiniteSubsetsOf(Nat)
           U == {1..x : x \in T}
<1>1. IsWellFoundedOn(R, F)
  BY FS_StrictSubsetOrderingWellFounded
<1>2. U \subseteq F /\ U # {}
  <2>1. \A x \in T : 1..x \in SUBSET Nat /\ IsFiniteSet(1..x)
    BY FS_Interval
  <2>2. \A x \in T : 1..x \in F
    BY <2>1 DEF FiniteSubsetsOf
  <2> HIDE DEF F
  <2> QED
    BY <2>2
<1>3. \A x, y \in T : y < x => <<1..y, 1..x>> \in R
  BY DEF StrictSubsetOrdering
<1> HIDE DEF R, F
<1>4. \E X \in U : \A Y \in U : <<Y, X>> \notin R
  <2> HIDE DEF U
  <2> QED
    BY <1>1, <1>2, WFMin
<1>5. PICK x \in T : \A Y \in U : <<Y, 1..x>> \notin R
  BY <1>4
<1>6. \A y \in T : <<1..y, 1..x>> \notin R
  BY <1>5
<1>7. ASSUME NEW y \in T, y < x
      PROVE  FALSE
  <2>1. <<1..y, 1..x>> \in R
    BY <1>3, <1>7
  <2> QED
    BY <2>1, <1>6
<1> QED
  BY <1>7

\* The gate takes the watched events in order: there is a first one.
LEMMA WatchedHasFirst ==
  ASSUME EventsInv, watched # {}
  PROVE  (CHOOSE i \in watched : \A j \in watched : i <= j) \in watched
<1>1. watched \subseteq Nat
  BY DEF EventsInv, EventsTyped, RowsWaiting, Patching
<1>2. \E i \in watched : \A j \in watched : i <= j
  BY <1>1, LeastNatural
<1> QED
  BY <1>2

\* The table and what is known of it are left alone.
LEMMA EventsQuiet ==
  ASSUME EventsInv, UNCHANGED <<events, watched, updates>>,
         pc = "gate" /\ pc' # "gate" => watched = {} /\ updates = << >>,
         \/ ~AtHand'
         \/ event' = event /\ AtHand /\ (AtWork <=> AtWork')
  PROVE  RowAtHand' /\ RowsWaiting' /\ OneOpenEvent'
<1>1. RowAtHand'
  BY DEF EventsInv, RowAtHand, AtHand, AtWork
<1>2. RowsWaiting'
  BY DEF EventsInv, RowsWaiting, Patching
<1>3. OneOpenEvent'
  BY DEF EventsInv, OneOpenEvent
<1> QED
  BY <1>1, <1>2, <1>3

\* One row that is not merged is changed, and not by taking it back.
LEMMA OpenStays ==
  ASSUME EventsInv, NEW e \in DOMAIN events, events[e].status # "merged",
         DOMAIN events' = DOMAIN events, events'[e].key = events[e].key,
         \A i \in DOMAIN events \ {e} : events'[i] = events[i]
  PROVE  OneOpenEvent'
  BY DEF EventsInv, OneOpenEvent

LEMMA EventsInductive == EventsInv /\ [Next]_vars => EventsInv'
<1> SUFFICES ASSUME EventsInv, [Next]_vars
             PROVE  EventsInv'
  OBVIOUS
<1>0. EventsTyped /\ RowAtHand /\ RowsWaiting /\ OneOpenEvent
  BY DEF EventsInv
<1>a. events \in Seq(EventRows) /\ 0 \in 0..Len(prs) /\ updates \in Seq(Updates)
  BY DEF EventsInv, EventsTyped
<1> USE DEF db, git, agent, alarm, locals, history, NoPr
<1>1. CASE DetectRegressions
  <2>1. Cardinality(Patching) \in Nat
    <3>1. IsFiniteSet(DOMAIN events)
      <4>1. DOMAIN events = 1..Len(events) /\ Len(events) \in Int
        BY <1>0 DEF EventsTyped
      <4> QED
        BY <4>1, FS_Interval
    <3>2. Patching \in SUBSET DOMAIN events
      BY DEF Patching
    <3> QED
      BY <3>1, <3>2, FS_Subset, FS_CardinalityType
  <2>2. found' \in Seq(Keys)
    BY <1>1, FoundTyped DEF DetectRegressions
  <2>3. EventsTyped'
    BY <1>0, <1>1, <2>1, <2>2 DEF DetectRegressions, EventsTyped
  <2> QED
    BY <1>1, <2>3, EventsQuiet DEF DetectRegressions, EventsInv, AtHand
<1>2. CASE InsertEvent
  <2> DEFINE row == [key |-> Head(found), status |-> "detected", pr |-> NoPr]
             n == Len(events) + 1
  <2>1. pc = "next" /\ Head(found) \in Keys /\ found' \in Seq(Keys) /\ row \in EventRows
    BY <1>0, <1>2 DEF InsertEvent, EventsTyped, EventRows, Statuses
  <2>2. CASE AlreadyDetected(Head(found))
    <3>1. EventsTyped'
      BY <1>0, <1>2, <2>1, <2>2 DEF InsertEvent, EventsTyped
    <3> QED
      BY <1>2, <2>2, <3>1, EventsQuiet DEF InsertEvent, EventsInv, AtHand
  <2>3. CASE ~AlreadyDetected(Head(found))
    <3>1. /\ events' = Append(events, row) /\ pc' \in {"file", "next"}
          /\ pc' = "file" => event' = n
          /\ event' \in {event, n} /\ n \in Nat
          /\ UNCHANGED <<watched, updates, prs, pr, stashed, slots>>
      BY <1>0, <1>2, <2>1, <2>3 DEF InsertEvent, EventsTyped
    <3>2. /\ events' \in Seq(EventRows) /\ DOMAIN events' = DOMAIN events \cup {n}
          /\ n \notin DOMAIN events /\ events'[n] = row
          /\ \A i \in DOMAIN events : events'[i] = events[i]
      BY <1>0, <2>1, <3>1 DEF EventsTyped
    <3>3. EventsTyped'
      BY <1>0, <2>1, <3>1, <3>2 DEF EventsTyped
    <3>4. RowAtHand'
      BY <3>1, <3>2 DEF RowAtHand, AtHand, AtWork
    <3>5. RowsWaiting'
      BY <1>0, <2>1, <3>1, <3>2 DEF RowsWaiting, Patching
    <3>6. OneOpenEvent'
      BY <1>0, <2>3, <3>2 DEF OneOpenEvent, AlreadyDetected
    <3> QED
      BY <3>3, <3>4, <3>5, <3>6 DEF EventsInv
  <2> QED
    BY <2>2, <2>3
<1>3. CASE FileIssue
  <2>1. CASE UNCHANGED events
    <3>1. EventsTyped'
      BY <1>0, <1>3, <2>1 DEF FileIssue, EventsTyped
    <3> QED
      BY <1>3, <2>1, <3>1, EventsQuiet DEF FileIssue, EventsInv, AtHand, AtWork
  <2>2. CASE events' = [events EXCEPT ![event].status = "issue_filed"]
    <3>0. event \in DOMAIN events /\ events[event].status \in {"detected", "issue_filed"}
          /\ events[event].pr = NoPr
      BY <1>0, <1>3 DEF FileIssue, RowAtHand, AtHand, AtWork
    <3>1. /\ events' \in Seq(EventRows) /\ DOMAIN events' = DOMAIN events
          /\ events'[event].status = "issue_filed" /\ events'[event].pr = NoPr
          /\ events'[event].key = events[event].key
          /\ \A i \in DOMAIN events \ {event} : events'[i] = events[i]
      BY <1>a, <2>2, <3>0, StatusUpdated DEF Statuses
    <3>2. EventsTyped'
      BY <1>0, <1>3, <3>0, <3>1 DEF FileIssue, EventsTyped
    <3>3. RowAtHand'
      BY <1>3, <3>0, <3>1 DEF FileIssue, RowAtHand, AtHand, AtWork
    <3>4. RowsWaiting'
      BY <1>0, <1>3, <3>0, <3>1 DEF FileIssue, RowsWaiting, Patching
    <3> QED
      BY <3>0, <3>1, <3>2, <3>3, <3>4, OpenStays DEF EventsInv
  <2> QED
    BY <1>3, <2>1, <2>2 DEF FileIssue
<1>4. CASE CheckBudget
  <2>1. EventsTyped'
    BY <1>0, <1>4 DEF CheckBudget, EventsTyped
  <2> QED
    BY <1>4, <2>1, EventsQuiet DEF CheckBudget, EventsInv, AtHand, AtWork
<1>5. CASE CountAttempt
  <2>1. EventsTyped'
    BY <1>0, <1>5 DEF CountAttempt, EventsTyped
  <2> QED
    BY <1>5, <2>1, EventsQuiet DEF CountAttempt, EventsInv, AtHand, AtWork
<1>6. CASE StashTree
  <2>1. /\ event \in DOMAIN events /\ events[event].pr = NoPr
        /\ events[event].status \in {"detected", "issue_filed"}
        /\ events' = [events EXCEPT ![event].status = "patching"]
    BY <1>0, <1>6 DEF StashTree, RowAtHand, AtHand, AtWork
  <2>2. /\ events' \in Seq(EventRows) /\ DOMAIN events' = DOMAIN events
        /\ events'[event].status = "patching" /\ events'[event].pr = NoPr
        /\ events'[event].key = events[event].key
        /\ \A i \in DOMAIN events \ {event} : events'[i] = events[i]
    BY <1>a, <2>1, StatusUpdated DEF Statuses
  <2>3. EventsTyped'
    BY <1>0, <1>6, <2>1, <2>2 DEF StashTree, EventsTyped
  <2>4. RowAtHand'
    BY <1>6, <2>1, <2>2 DEF StashTree, RowAtHand, AtHand, AtWork
  <2>5. RowsWaiting'
    BY <1>0, <1>6, <2>1, <2>2 DEF StashTree, RowsWaiting, Patching
  <2> QED
    BY <2>1, <2>2, <2>3, <2>4, <2>5, OpenStays DEF EventsInv
<1>7. CASE EditFiles
  <2>1. EventsTyped'
    BY <1>0, <1>7 DEF EditFiles, EventsTyped
  <2> QED
    BY <1>7, <2>1, EventsQuiet DEF EditFiles, EventsInv, AtHand, AtWork
<1>8. CASE TestAndCommit
  <2>1. EventsTyped'
    BY <1>0, <1>8 DEF TestAndCommit, EventsTyped
  <2> QED
    BY <1>8, <2>1, EventsQuiet DEF TestAndCommit, EventsInv, AtHand, AtWork
<1>9. CASE CreatePr
  <2>1. /\ prs' \in Seq(PrStates) /\ Len(prs') \in Nat /\ Len(prs') >= Len(prs)
        /\ pr' \in 0..Len(prs')
    <3>1. "open" \in PrStates /\ prs \in Seq(PrStates) /\ pr \in 0..Len(prs) /\ Len(prs) \in Nat
      BY <1>0 DEF EventsTyped, PrStates
    <3>2. CASE UNCHANGED <<pr, prs>>
      BY <3>1, <3>2
    <3>3. CASE prs' = Append(prs, "open") /\ pr' \in {NoPr, Len(prs')}
      BY <3>1, <3>3
    <3> QED
      BY <1>9, <3>2, <3>3 DEF CreatePr
  <2>2. EventsTyped'
    BY <1>0, <1>9, <2>1 DEF CreatePr, EventsTyped
  <2> QED
    BY <1>9, <2>2, EventsQuiet DEF CreatePr, EventsInv, AtHand, AtWork
<1>10. CASE RestoreTree
  <2>1. EventsTyped'
    <3>1. CASE ~stashed
      BY <1>0, <1>a, <1>10, <3>1 DEF RestoreTree, EventsTyped
    <3>2. CASE stashed
      <4>1. pc' = "record" /\ UNCHANGED <<found, event, slots, pr, events, prs, updates, stashed>>
        BY <1>10, <3>2 DEF RestoreTree
      <4> QED
        BY <1>0, <4>1 DEF EventsTyped
    <3> QED
      BY <3>1, <3>2
  <2> QED
    BY <1>10, <2>1, EventsQuiet DEF RestoreTree, EventsInv, AtHand, AtWork
<1>11. CASE RecordPatch
  <2>1. /\ event \in DOMAIN events /\ events[event].pr = NoPr
        /\ events[event].status = "patching"
    BY <1>0, <1>11 DEF RecordPatch, RowAtHand, AtHand, AtWork
  <2>2. \/ events' = [events EXCEPT ![event].pr = pr]
        \/ events' = [events EXCEPT ![event].status = "patch_failed"]
    BY <1>11 DEF RecordPatch
  <2>3. /\ events' \in Seq(EventRows) /\ DOMAIN events' = DOMAIN events
        /\ events'[event].status # "merged" /\ events'[event].pr \in {NoPr, pr}
        /\ events'[event].key = events[event].key
        /\ \A i \in DOMAIN events \ {event} : events'[i] = events[i]
    <3>1. pr \in Nat /\ "patch_failed" \in Statuses /\ "patch_failed" # "merged"
      BY <1>0 DEF EventsTyped, Statuses
    <3>2. CASE events' = [events EXCEPT ![event].pr = pr]
      BY <1>a, <2>1, <3>1, <3>2, PrUpdated
    <3>3. CASE events' = [events EXCEPT ![event].status = "patch_failed"]
      BY <1>a, <2>1, <3>1, <3>3, StatusUpdated
    <3> QED
      BY <2>2, <3>2, <3>3
  <2>4. EventsTyped'
    <3>1. /\ pc' = "next" /\ event' = 0 /\ stashed' = FALSE /\ pr' = NoPr
          /\ slots' \in {slots, slots + 1} /\ UNCHANGED <<found, updates, prs>>
      BY <1>11 DEF RecordPatch
    <3>2. \A i \in DOMAIN events' : events'[i].pr \in 0..Len(prs)
      BY <1>0, <2>3 DEF EventsTyped
    <3> QED
      <4>1. slots' \in Nat
        BY <1>0, <3>1 DEF EventsTyped
      <4> QED
        BY <1>0, <1>a, <2>3, <3>1, <3>2, <4>1 DEF EventsTyped
  <2>5. RowAtHand'
    BY <1>11 DEF RecordPatch, RowAtHand, AtHand, AtWork
  <2>6. RowsWaiting'
    BY <1>0, <1>11, <2>1, <2>3 DEF RecordPatch, RowsWaiting, Patching
  <2> QED
    BY <2>1, <2>3, <2>4, <2>5, <2>6, OpenStays DEF EventsInv
<1>12. CASE EndPatches
  <2>1. EventsTyped'
    BY <1>0, <1>12 DEF EndPatches, EventsTyped
  <2>2. RowAtHand' /\ OneOpenEvent'
    BY <1>0, <1>12 DEF EndPatches, RowAtHand, AtHand, AtWork, OneOpenEvent
  <2>3. RowsWaiting'
    BY <1>0, <1>12 DEF EndPatches, RowsWaiting, Patching
  <2> QED
    BY <2>1, <2>2, <2>3 DEF EventsInv
<1>13. CASE CheckPr
  <2> DEFINE e == CHOOSE i \in watched : \A j \in watched : i <= j
  <2>1. e \in watched
    BY <1>0, <1>13, WatchedHasFirst DEF CheckPr
  <2>2. e \in DOMAIN events /\ e \in Nat /\ events[e].pr \in 1..Len(prs)
    BY <1>0, <2>1 DEF RowsWaiting, Patching, EventsTyped
  <2>3. /\ pc = "gate" /\ pc' = "gate" /\ watched' = watched \ {e}
        /\ UNCHANGED <<found, event, slots, events, pr, stashed>>
    BY <1>13 DEF CheckPr
  <2>4. \/ prs' = prs /\ updates' = updates
        \/ \E state \in PrStates, status \in {"merged", "patch_failed"} :
             /\ prs' = [prs EXCEPT ![events[e].pr] = state]
             /\ updates' = Append(updates, [event |-> e, status |-> status])
    <3>1. prs[events[e].pr] \in PrStates
      BY <1>0, <2>2 DEF EventsTyped
    <3> QED
      BY <1>13, <3>1 DEF CheckPr, PrStates
  <2>5. prs' \in Seq(PrStates) /\ Len(prs') = Len(prs)
    <3>1. prs \in Seq(PrStates) /\ events[e].pr \in DOMAIN prs
      BY <1>0, <2>2 DEF EventsTyped
    <3> HIDE DEF e
    <3> QED
      BY <2>4, <3>1
  <2>6. \/ updates' = updates
        \/ \E u \in Updates : u.event = e /\ updates' = Append(updates, u)
    BY <2>2, <2>4 DEF Updates
  <2>7. EventsTyped'
    <3>1. updates' \in Seq(Updates)
      BY <1>a, <2>6
    <3> QED
      BY <1>0, <2>3, <2>5, <3>1 DEF EventsTyped
  <2>8. RowAtHand' /\ OneOpenEvent'
    BY <1>0, <2>3 DEF RowAtHand, AtHand, AtWork, OneOpenEvent
  <2>9. RowsWaiting'
    <3>1. Patching' = Patching
      BY <2>3 DEF Patching
    <3>2. CASE updates' = updates
      BY <1>0, <2>3, <3>1, <3>2 DEF RowsWaiting
    <3>3. ASSUME NEW u \in Updates, u.event = e, updates' = Append(updates, u)
          PROVE  RowsWaiting'
      <4>1. /\ DOMAIN updates' = DOMAIN updates \cup {Len(updates) + 1}
            /\ Len(updates) + 1 \notin DOMAIN updates
            /\ updates'[Len(updates) + 1] = u
            /\ \A i \in DOMAIN updates : updates'[i] = updates[i]
        BY <1>0, <3>3 DEF EventsTyped
      <4>2. /\ watched' \subseteq Patching
            /\ \A i \in DOMAIN updates : updates[i].event \in Patching \ watched
            /\ \A i, j \in DOMAIN updates : updates[i].event = updates[j].event => i = j
        BY <1>0, <2>3 DEF RowsWaiting
      <4>3. \A i \in DOMAIN updates' : updates'[i].event \in Patching \ watched'
        BY <1>0, <2>1, <2>3, <3>3, <4>1, <4>2 DEF RowsWaiting
      <4>4. \A i, j \in DOMAIN updates' : updates'[i].event = updates'[j].event => i = j
        <5>1. \A i \in DOMAIN updates : updates[i].event # e
          BY <2>1, <4>2
        <5>2. updates'[Len(updates) + 1].event = e
          BY <3>3, <4>1
        <5> HIDE DEF e
        <5> QED
          BY <4>1, <4>2, <5>1, <5>2
      <4> QED
        BY <2>3, <3>1, <4>2, <4>3, <4>4 DEF RowsWaiting
    <3> QED
      BY <2>6, <3>2, <3>3
  <2> QED
    BY <2>7, <2>8, <2>9 DEF EventsInv
<1>14. CASE ApplyUpdate
  <2> DEFINE u == Head(updates)
  <2>1. /\ u \in Updates /\ u = updates[1] /\ 1 \in DOMAIN updates /\ updates' \in Seq(Updates)
        /\ \A i \in DOMAIN updates' : i + 1 \in DOMAIN updates /\ updates'[i] = updates[i + 1]
    BY <1>0, <1>14, HeadTailProperties DEF ApplyUpdate, EventsTyped
  <2>2. /\ u.event \in DOMAIN events /\ events[u.event].status = "patching"
        /\ u.status \in Statuses /\ u.event \in Patching
    BY <1>0, <2>1 DEF RowsWaiting, Patching, Updates, Statuses
  <2>3. /\ events' = [events EXCEPT ![u.event].status = u.status]
        /\ pc = "gate" /\ pc' = "gate" /\ watched = {} /\ watched' = {}
        /\ UNCHANGED <<found, event, slots, pr, stashed, prs>>
    BY <1>14 DEF ApplyUpdate
  <2>4. /\ events' \in Seq(EventRows) /\ DOMAIN events' = DOMAIN events
        /\ events'[u.event].key = events[u.event].key /\ events'[u.event].pr = events[u.event].pr
        /\ \A i \in DOMAIN events \ {u.event} : events'[i] = events[i]
    <3>1. u.event \in DOMAIN events /\ u.status \in Statuses
      BY <2>2
    <3>2. events' = [events EXCEPT ![u.event].status = u.status]
      BY <2>3
    <3> HIDE DEF u
    <3> QED
      BY <1>a, <3>1, <3>2, StatusUpdated
  <2>5. EventsTyped'
    BY <1>0, <2>1, <2>2, <2>3, <2>4 DEF EventsTyped
  <2>6. RowAtHand'
    BY <2>3 DEF RowAtHand, AtHand, AtWork
  <2>7. RowsWaiting'
    <3>0. \A i, j \in DOMAIN updates : updates[i].event = updates[j].event => i = j
      BY <1>0 DEF RowsWaiting
    <3>1. \A i \in DOMAIN updates' : updates'[i].event \in Patching \ {u.event}
      <4>1. \A i \in DOMAIN updates' : i \in Nat /\ i >= 1
        BY <2>1
      <4>2. \A i \in DOMAIN updates : updates[i].event \in Patching
        BY <1>0 DEF RowsWaiting
      <4> QED
        BY <2>1, <3>0, <4>1, <4>2
    <3>2. Patching \ {u.event} \subseteq Patching'
      BY <2>4 DEF Patching
    <3>3. \A i, j \in DOMAIN updates' : updates'[i].event = updates'[j].event => i = j
      <4>1. \A i \in DOMAIN updates' : i \in Nat
        BY <2>1
      <4> QED
        BY <2>1, <3>0, <4>1
    <3> QED
      BY <2>3, <3>1, <3>2, <3>3 DEF RowsWaiting
  <2> QED
    BY <2>2, <2>4, <2>5, <2>6, <2>7, OpenStays DEF EventsInv
<1>15. CASE EndGate
  <2>1. EventsTyped'
    BY <1>0, <1>15 DEF EndGate, EventsTyped
  <2> QED
    BY <1>15, <2>1, EventsQuiet DEF EndGate, EventsInv, AtHand
<1>16. CASE Escalate
  <2>1. EventsTyped'
    BY <1>0, <1>16 DEF Escalate, EventsTyped
  <2> QED
    BY <1>16, <2>1, EventsQuiet DEF Escalate, EventsInv, AtHand
<1>17. CASE PostNtfy
  <2>1. EventsTyped'
    BY <1>0, <1>17 DEF PostNtfy, AlertDone, EventsTyped
  <2> QED
    BY <1>17, <2>1, EventsQuiet DEF PostNtfy, AlertDone, EventsInv, AtHand
<1>18. CASE EndIteration
  <2>1. EventsTyped'
    BY <1>0, <1>18 DEF EndIteration, EventsTyped
  <2> QED
    BY <1>18, <2>1, EventsQuiet DEF EndIteration, EventsInv, AtHand
<1>19. CASE Clock
  <2>1. EventsTyped'
    BY <1>0, <1>19 DEF Clock, EventsTyped
  <2> QED
    BY <1>19, <2>1, EventsQuiet DEF Clock, EventsInv, AtHand, AtWork
<1>20. CASE UserEdits
  <2>1. EventsTyped'
    BY <1>0, <1>20 DEF UserEdits, EventsTyped
  <2> QED
    BY <1>20, <2>1, EventsQuiet DEF UserEdits, EventsInv, AtHand
<1>21. CASE Crash
  <2>1. EventsTyped'
    <3>1. << >> \in Seq(Keys) /\ << >> \in Seq(Updates)
      OBVIOUS
    <3> QED
      BY <1>0, <1>a, <1>21, <3>1 DEF Crash, EventsTyped
  <2>2. RowAtHand' /\ OneOpenEvent'
    BY <1>0, <1>21 DEF Crash, RowAtHand, AtHand, AtWork, OneOpenEvent
  <2>3. RowsWaiting'
    BY <1>21 DEF Crash, RowsWaiting
  <2> QED
    BY <2>1, <2>2, <2>3 DEF EventsInv
<1>22. CASE UNCHANGED vars
  <2>1. EventsTyped'
    BY <1>0, <1>22 DEF vars, EventsTyped
  <2> QED
    BY <1>22, <2>1, EventsQuiet DEF vars, EventsInv, AtHand, AtWork
<1> QED
  BY <1>1, <1>2, <1>3, <1>4, <1>5, <1>6, <1>7, <1>8, <1>9, <1>10, <1>11, <1>12, <1>13, <1>14,
     <1>15, <1>16, <1>17, <1>18, <1>19, <1>20, <1>21, <1>22 DEF Next

LEMMA OpenInit == Init => EventsInv
<1> SUFFICES ASSUME Init
             PROVE  EventsInv
  OBVIOUS
<1>1. /\ pc = "off" /\ found = << >> /\ event = 0 /\ slots = 0 /\ watched = {} /\ updates = << >>
      /\ pr = 0 /\ stashed = FALSE /\ events = << >> /\ prs = << >>
  BY DEF Init, NoPr
<1>2. EventsTyped
  <2>1. Len(prs) = 0 /\ prs \in Seq(PrStates) /\ updates \in Seq(Updates) /\ found \in Seq(Keys)
    BY <1>1
  <2>2. events \in Seq(EventRows) /\ DOMAIN events = {}
    BY <1>1
  <2>3. pr \in 0..Len(prs) /\ event \in Nat /\ slots \in Nat /\ stashed \in BOOLEAN
    <3>1. pr = 0 /\ event = 0 /\ slots = 0 /\ stashed = FALSE
      BY <1>1
    <3>2. Len(prs) = 0
      BY <2>1
    <3>3. pr \in 0..Len(prs)
      BY <3>1, <3>2
    <3>4. stashed \in BOOLEAN
      BY <3>1
    <3> QED
      BY <3>1, <3>3, <3>4
  <2>4. \A i \in DOMAIN events : events[i].pr \in 0..Len(prs)
    BY <2>2
  <2> QED
    BY <1>1, <2>1, <2>2, <2>3, <2>4 DEF EventsTyped
<1>3. DOMAIN events = {} /\ DOMAIN updates = {}
  BY <1>1
<1> QED
  BY <1>1, <1>2, <1>3 DEF EventsInv, RowAtHand, RowsWaiting, OneOpenEvent, AtHand, AtWork

\* A regression has at most one row that is not merged, over iterations, deaths and
\* restarts (regression_already_detected before insert_regression_event).
THEOREM OneOpen == Spec => []OneOpenEvent
<1>1. Init => EventsInv
  BY OpenInit
<1>2. EventsInv => OneOpenEvent
  BY DEF EventsInv
<1> QED
  BY <1>1, <1>2, EventsInductive, PTL DEF Spec

-----------------------------------------------------------------------------
(* The limits.  Midnight may fall between the look at the day's budget and *)
(* the row that counts the attempt: the attempt is then counted to a day   *)
(* that has none, so the invariant says of every later day that it has     *)
(* none.  And it may fall between that row and the launch: the launch is   *)
(* then one more than the attempts of its day, and the day of the row has  *)
(* one launch less.  The slots are the pull requests that are watched,     *)
(* exactly, while phase 5 runs; a death forgets the number, not the rows.  *)

LEMMA DivMonotone ==
  ASSUME NEW a \in Nat, NEW b \in Nat, a <= b, NEW d \in Nat \ {0}
  PROVE  a \div d \in Nat /\ a \div d <= b \div d
<1> DEFINE p == a \div d
           q == b \div d
           r == a % d
           t == b % d
<1>1. /\ p \in Nat /\ q \in Nat /\ r \in 0..d - 1 /\ t \in 0..d - 1
      /\ a = d * p + r /\ b = d * q + t
  OBVIOUS
<1> HIDE DEF p, q, r, t
<1>2. ASSUME q < p
      PROVE  FALSE
  <2>1. d * p >= d * (q + 1)
    BY <1>1, <1>2
  <2>2. d * (q + 1) = d * q + d
    BY <1>1
  <2> QED
    BY <1>1, <2>1, <2>2
<1> QED
  BY <1>1, <1>2 DEF p, q

\* An attempt of the day is left to be launched, or one of an earlier day.
LaunchLeft(d) == launched[d] < attempts[d] \/ (launched[d] = attempts[d] /\ SpareBefore(d))

BudgetInv ==
  /\ now \in 0..LAST_TIME
  /\ attempts \in [Days -> Nat] /\ launched \in [Days -> Nat]
  /\ \A d \in Days :
       /\ attempts[d] <= MAX_PER_DAY /\ launched[d] <= attempts[d] + 1
       /\ launched[d] > attempts[d] => SpareBefore(d)
       /\ d > Today => attempts[d] = 0 /\ launched[d] = 0
       /\ pc = "launch" /\ d = Today => LaunchLeft(d)
  /\ pc = "count" => attempts[Today] < MAX_PER_DAY

LEMMA TodayIsDay ==
  ASSUME now \in 0..LAST_TIME
  PROVE  Today \in Days /\ Days \subseteq Nat
<1>1. LAST_TIME \in Nat /\ DAY \in Nat \ {0} /\ now \in Nat /\ now <= LAST_TIME
  BY RegressionConstants
<1>2. Today \in Nat /\ LAST_TIME \div DAY \in Nat /\ Today <= LAST_TIME \div DAY
  BY <1>1, DivMonotone DEF Today
<1> QED
  BY <1>2 DEF Days

LEMMA TodayGrows ==
  ASSUME now \in Nat, now' = now + 1, now' \in 0..LAST_TIME
  PROVE  Today' \in Days /\ Today <= Today'
<1>1. /\ LAST_TIME \in Nat /\ DAY \in Nat \ {0} /\ now + 1 \in Nat /\ now + 1 <= LAST_TIME
      /\ now <= now + 1
  BY RegressionConstants
<1>2. now \div DAY <= (now + 1) \div DAY
  BY <1>1, DivMonotone
<1>3. (now + 1) \div DAY \in Nat /\ LAST_TIME \div DAY \in Nat /\ (now + 1) \div DAY <= LAST_TIME \div DAY
  BY <1>1, DivMonotone
<1>4. Today' = (now + 1) \div DAY
  BY DEF Today
<1> QED
  BY <1>2, <1>3, <1>4 DEF Today, Days

LEMMA BudgetInductive == BudgetInv /\ [Next]_vars => BudgetInv'
<1> SUFFICES ASSUME BudgetInv, [Next]_vars
             PROVE  BudgetInv'
  OBVIOUS
<1>0. /\ Today \in Days /\ Days \subseteq Nat /\ MAX_PER_DAY \in Nat \ {0}
      /\ DOMAIN launched = Days
      /\ \A d \in Days : launched[d] \in Nat /\ attempts[d] \in Nat
  BY TodayIsDay, RegressionConstants DEF BudgetInv
<1> USE DEF BudgetInv, db, git, agent, alarm, locals, history
<1>1. CASE CheckBudget
  BY <1>0, <1>1 DEF CheckBudget, Today, SpareBefore, LaunchLeft
<1>2. CASE CountAttempt
  <2>1. /\ attempts' \in [Days -> Nat] /\ attempts'[Today] = attempts[Today] + 1
        /\ \A d \in Days \ {Today} : attempts'[d] = attempts[d]
        /\ attempts[Today] < MAX_PER_DAY
        /\ pc = "count" /\ pc' = "launch" /\ UNCHANGED <<now, launched>>
    BY <1>0, <1>2 DEF CountAttempt
  <2>2. Today' = Today
    BY <2>1 DEF Today
  <2>3. \A d \in Days : attempts[d] <= attempts'[d] /\ attempts'[d] \in Nat
    BY <1>0, <2>1
  <2>4. \A d \in Days : SpareBefore(d) => SpareBefore(d)'
    BY <1>0, <2>1, <2>3 DEF SpareBefore
  <2>5. \A d \in Days :
          /\ attempts'[d] <= MAX_PER_DAY /\ launched[d] <= attempts'[d] + 1
          /\ launched[d] > attempts'[d] => SpareBefore(d)'
          /\ d > Today => attempts'[d] = 0 /\ launched[d] = 0
    <3> SUFFICES ASSUME NEW d \in Days
                 PROVE  /\ attempts'[d] <= MAX_PER_DAY /\ launched[d] <= attempts'[d] + 1
                        /\ launched[d] > attempts'[d] => SpareBefore(d)'
                        /\ d > Today => attempts'[d] = 0 /\ launched[d] = 0
      OBVIOUS
    <3>1. CASE d = Today
      BY <1>0, <2>1, <2>3, <2>4, <3>1
    <3>2. CASE d # Today
      BY <1>0, <2>1, <2>4, <3>2
    <3> QED
      BY <3>1, <3>2
  <2>6. \A d \in Days : d = Today => LaunchLeft(d)'
    <3> SUFFICES ASSUME NEW d \in Days, d = Today
                 PROVE  launched[d] < attempts'[d] \/ (launched[d] = attempts'[d] /\ SpareBefore(d)')
      BY <2>1 DEF LaunchLeft
    <3> QED
      BY <1>0, <2>1, <2>4
  <2> QED
    BY <1>0, <2>1, <2>2, <2>5, <2>6
<1>3. CASE StashTree
  <2>1. /\ launched' \in [Days -> Nat] /\ launched'[Today] = launched[Today] + 1
        /\ \A d \in Days \ {Today} : launched'[d] = launched[d]
        /\ pc = "launch" /\ pc' = "edit" /\ UNCHANGED <<now, attempts>>
        /\ LaunchLeft(Today)
    BY <1>0, <1>3 DEF StashTree
  <2>2. Today' = Today
    BY <2>1 DEF Today
  <2>3. \A d \in Days : d <= Today /\ SpareBefore(d) => SpareBefore(d)'
    BY <1>0, <2>1 DEF SpareBefore
  <2>4. ASSUME NEW d \in Days
        PROVE  /\ launched'[d] <= attempts[d] + 1
               /\ launched'[d] > attempts[d] => SpareBefore(d)'
               /\ d > Today => launched'[d] = 0
    <3>1. CASE d = Today
      <4>1. launched[d] < attempts[d] \/ (launched[d] = attempts[d] /\ SpareBefore(d))
        BY <2>1, <3>1 DEF LaunchLeft
      <4> QED
        BY <1>0, <2>1, <2>3, <3>1, <4>1
    <3>2. CASE d < Today
      BY <1>0, <2>1, <2>3, <3>2
    <3>3. CASE d > Today
      BY <1>0, <2>1, <3>3
    <3> QED
      BY <1>0, <3>1, <3>2, <3>3
  <2> QED
    BY <1>0, <2>1, <2>2, <2>4
<1>4. CASE Clock
  <2>1. now \in Nat /\ now' = now + 1 /\ now' \in 0..LAST_TIME /\ DAY \in Nat \ {0}
    BY <1>4, RegressionConstants DEF Clock
  <2>2. Today' \in Days /\ Today' \in Nat /\ Today <= Today'
    BY <1>0, <2>1, TodayGrows
  <2>3. UNCHANGED <<attempts, launched>> /\ pc' \in {pc, "sleep"}
    BY <1>4 DEF Clock
  <2>4. \A d \in Days : (SpareBefore(d)' <=> SpareBefore(d)) /\ (LaunchLeft(d)' <=> LaunchLeft(d))
    BY <2>3 DEF SpareBefore, LaunchLeft
  <2>5. Today' # Today => Today' > Today /\ attempts[Today'] = 0 /\ launched[Today'] = 0
    BY <1>0, <2>2
  <2>6. pc' = "count" => attempts[Today'] < MAX_PER_DAY
    BY <1>0, <2>3, <2>5
  <2>7. ASSUME NEW d \in Days, pc' = "launch", d = Today'
        PROVE  LaunchLeft(d)
    <3>1. pc = "launch"
      BY <2>3, <2>7
    <3>2. CASE d = Today
      BY <3>1, <3>2
    <3>3. CASE d # Today
      <4>1. d > Today /\ attempts[d] = 0 /\ launched[d] = 0
        BY <2>5, <2>7, <3>3
      <4>2. \E e \in Days : e < d /\ launched[e] < attempts[e]
        <5>1. CASE launched[Today] < attempts[Today]
          BY <1>0, <4>1, <5>1
        <5>2. CASE SpareBefore(Today)
          BY <1>0, <4>1, <5>2 DEF SpareBefore
        <5> QED
          BY <1>0, <3>1, <5>1, <5>2 DEF LaunchLeft
      <4> QED
        BY <1>0, <4>1, <4>2 DEF LaunchLeft, SpareBefore
    <3> QED
      BY <3>2, <3>3
  <2>8. \A d \in Days : d > Today' => attempts[d] = 0 /\ launched[d] = 0
    BY <1>0, <2>2
  <2> QED
    BY <1>0, <2>1, <2>2, <2>3, <2>4, <2>6, <2>7, <2>8
<1>5. CASE UNCHANGED <<now, attempts, launched>> /\ pc' \notin {"count", "launch"}
  BY <1>5 DEF Today, SpareBefore
<1>6. CASE UNCHANGED vars
  BY <1>6 DEF vars, Today, SpareBefore, LaunchLeft
<1> QED
  BY <1>1, <1>2, <1>3, <1>4, <1>5, <1>6
  DEF Next, DetectRegressions, InsertEvent, FileIssue, EditFiles, TestAndCommit, CreatePr,
      RestoreTree, RecordPatch, EndPatches, CheckPr, ApplyUpdate, EndGate, Escalate, PostNtfy,
      AlertDone, EndIteration, UserEdits, Crash

\* Phase 5, up to where it forgets its slots.
Patches == AtHand \/ pc = "next"

SlotsInv ==
  /\ Cardinality(Patching) <= MAX_CONCURRENT
  /\ Patches => slots = Cardinality(Patching)
  /\ Begun => slots < MAX_CONCURRENT

LEMMA PatchingFinite ==
  ASSUME EventsTyped
  PROVE  IsFiniteSet(Patching) /\ Cardinality(Patching) \in Nat
<1>1. DOMAIN events = 1..Len(events) /\ Len(events) \in Int
  BY DEF EventsTyped
<1>2. IsFiniteSet(DOMAIN events) /\ Patching \in SUBSET DOMAIN events
  BY <1>1, FS_Interval DEF Patching
<1> QED
  BY <1>2, FS_Subset, FS_CardinalityType

\* A row that has no pull request is not watched, whatever its status becomes.
LEMMA FreshRowChanged ==
  ASSUME EventsTyped, RowAtHand, AtHand, NEW s \in Statuses,
         events' = [events EXCEPT ![event].status = s]
  PROVE  Patching' = Patching
<1>1. event \in DOMAIN events /\ events[event].pr = NoPr /\ events \in Seq(EventRows)
  BY DEF EventsTyped, RowAtHand
<1>2. /\ DOMAIN events' = DOMAIN events /\ events'[event].pr = NoPr
      /\ \A i \in DOMAIN events \ {event} : events'[i] = events[i]
  BY <1>1, StatusUpdated
<1> QED
  BY <1>1, <1>2 DEF Patching

LEMMA SlotsInductive == EventsInv /\ SlotsInv /\ [Next]_vars => SlotsInv'
<1> SUFFICES ASSUME EventsInv, SlotsInv, [Next]_vars
             PROVE  SlotsInv'
  OBVIOUS
<1>0. /\ EventsTyped /\ EventsTyped' /\ RowAtHand /\ RowsWaiting
      /\ MAX_CONCURRENT \in Nat \ {0} /\ slots \in Nat /\ event \in Nat
      /\ IsFiniteSet(Patching) /\ Cardinality(Patching) \in Nat
  BY EventsInductive, PatchingFinite, RegressionConstants DEF EventsInv, EventsTyped
<1> USE DEF SlotsInv, Patches, AtHand, Begun, db, git, agent, alarm, locals, history
<1>1. CASE DetectRegressions
  BY <1>0, <1>1 DEF DetectRegressions, Patching
<1>2. CASE InsertEvent
  <2>1. Patching' = Patching
    <3>1. CASE UNCHANGED events
      BY <3>1 DEF Patching
    <3>2. ASSUME NEW row, row.status = "detected", events' = Append(events, row)
          PROVE  Patching' = Patching
      <4>1. /\ DOMAIN events' = DOMAIN events \cup {Len(events) + 1}
            /\ Len(events) + 1 \notin DOMAIN events
            /\ events'[Len(events) + 1] = row
            /\ \A i \in DOMAIN events : events'[i] = events[i]
        BY <1>0, <3>2 DEF EventsTyped
      <4> QED
        BY <3>2, <4>1 DEF Patching
    <3> QED
      BY <1>2, <3>1, <3>2 DEF InsertEvent
  <2> QED
    BY <1>0, <1>2, <2>1 DEF InsertEvent
<1>3. CASE FileIssue
  <2>1. Patching' = Patching
    <3>1. CASE UNCHANGED events
      BY <3>1 DEF Patching
    <3>2. CASE events' = [events EXCEPT ![event].status = "issue_filed"]
      BY <1>0, <1>3, <3>2, FreshRowChanged DEF FileIssue, Statuses
    <3> QED
      BY <1>3, <3>1, <3>2 DEF FileIssue
  <2> QED
    BY <1>0, <1>3, <2>1 DEF FileIssue
<1>4. CASE CheckBudget
  BY <1>0, <1>4 DEF CheckBudget, Patching
<1>5. CASE CountAttempt
  BY <1>0, <1>5 DEF CountAttempt, Patching
<1>6. CASE StashTree
  <2>1. Patching' = Patching
    BY <1>0, <1>6, FreshRowChanged DEF StashTree, Statuses
  <2> QED
    BY <1>0, <1>6, <2>1 DEF StashTree
<1>7. CASE RecordPatch
  <2>1. pc = "record" /\ pc' = "next" /\ event \in DOMAIN events /\ events[event].pr = NoPr
        /\ events[event].status = "patching" /\ events \in Seq(EventRows) /\ pr \in Nat
    BY <1>0, <1>7 DEF RecordPatch, RowAtHand, AtWork, EventsTyped
  <2>2. CASE pr = NoPr
    <3>1. Patching' = Patching
      BY <1>0, <1>7, <2>2, FreshRowChanged DEF RecordPatch, Statuses
    <3> QED
      BY <1>0, <1>7, <2>1, <2>2, <3>1 DEF RecordPatch
  <2>3. CASE pr # NoPr
    <3>1. events' = [events EXCEPT ![event].pr = pr] /\ slots' = slots + 1
      BY <1>7, <2>3 DEF RecordPatch
    <3>2. /\ DOMAIN events' = DOMAIN events
          /\ events'[event].pr = pr /\ events'[event].status = "patching"
          /\ \A i \in DOMAIN events \ {event} : events'[i] = events[i]
      BY <2>1, <3>1, PrUpdated
    <3>3. Patching' = Patching \cup {event} /\ event \notin Patching
      BY <2>1, <2>3, <3>2 DEF Patching
    <3>4. Cardinality(Patching') = Cardinality(Patching) + 1
      BY <1>0, <3>3, FS_AddElement
    <3> QED
      BY <1>0, <2>1, <3>1, <3>4
  <2> QED
    BY <2>2, <2>3
<1>8. CASE ApplyUpdate
  <2>1. Patching' \in SUBSET Patching
    <3> DEFINE u == Head(updates)
    <3>1. u \in Updates /\ u = updates[1] /\ 1 \in DOMAIN updates
      BY <1>0, <1>8, HeadTailProperties DEF ApplyUpdate, EventsTyped
    <3>2. u.event \in DOMAIN events /\ u.status \in {"merged", "patch_failed"}
      BY <1>0, <3>1 DEF RowsWaiting, Patching, Updates
    <3>3. events' = [events EXCEPT ![u.event].status = u.status] /\ events \in Seq(EventRows)
      BY <1>0, <1>8 DEF ApplyUpdate, EventsTyped
    <3> HIDE DEF u
    <3>4. /\ DOMAIN events' = DOMAIN events
          /\ events'[u.event].status \in {"merged", "patch_failed"}
          /\ \A i \in DOMAIN events \ {u.event} : events'[i] = events[i]
      BY <3>2, <3>3, StatusUpdated DEF Statuses
    <3> QED
      BY <3>2, <3>4 DEF Patching
  <2>2. Cardinality(Patching') <= Cardinality(Patching) /\ Cardinality(Patching') \in Nat
    BY <1>0, <2>1, FS_Subset, FS_CardinalityType
  <2> QED
    BY <1>0, <1>8, <2>2 DEF ApplyUpdate
<1>9. CASE RestoreTree
  BY <1>0, <1>9 DEF RestoreTree, Patching
<1>10. CASE EditFiles \/ TestAndCommit \/ CreatePr
  BY <1>0, <1>10 DEF EditFiles, TestAndCommit, CreatePr, Patching
<1>11. CASE EndPatches \/ CheckPr \/ EndGate \/ Escalate \/ PostNtfy \/ EndIteration \/ UserEdits \/ Crash
  BY <1>0, <1>11 DEF EndPatches, CheckPr, EndGate, Escalate, PostNtfy, AlertDone, EndIteration, UserEdits,
                     Crash, Patching
<1>12. CASE Clock \/ UNCHANGED vars
  BY <1>0, <1>12 DEF Clock, vars, Patching
<1> QED
  BY <1>1, <1>2, <1>3, <1>4, <1>5, <1>6, <1>7, <1>8, <1>9, <1>10, <1>11, <1>12 DEF Next

\* The agent is launched at most max_patch_attempts_per_day times a day, and once more
\* only when an attempt counted on an earlier day had not launched it then, for every
\* limit and length of day, whenever midnight falls and however often the supervisor
\* dies (_phase5_issues_and_patches, increment_patch_attempts).
THEOREM Limits == Spec => []WithinBudget
<1>1. Init => BudgetInv
  <2> SUFFICES ASSUME Init
               PROVE  BudgetInv
    OBVIOUS
  <2>1. /\ now = 0 /\ LAST_TIME \in Nat /\ MAX_PER_DAY \in Nat /\ pc = "off"
        /\ attempts = [d \in Days |-> 0] /\ launched = [d \in Days |-> 0]
    BY RegressionConstants DEF Init, Days
  <2> QED
    BY <2>1 DEF BudgetInv
<1>2. BudgetInv => WithinBudget
  <2> SUFFICES ASSUME BudgetInv
               PROVE  WithinBudget
    OBVIOUS
  <2>1. /\ DOMAIN launched = Days /\ MAX_PER_DAY \in Nat
        /\ \A d \in Days : launched[d] \in Nat /\ attempts[d] \in Nat
    BY RegressionConstants DEF BudgetInv
  <2> QED
    BY <2>1 DEF BudgetInv, WithinBudget
<1> QED
  BY <1>1, <1>2, BudgetInductive, PTL DEF Spec

\* No more pull requests are watched than max_concurrent_patch_attempts, for every
\* limit (_phase5_issues_and_patches looks at the table once and counts from there on).
THEOREM SlotsLimited == Spec => []WithinSlots
<1>1. Init => EventsInv
  BY OpenInit
<1>2. Init => SlotsInv
  <2> SUFFICES ASSUME Init
               PROVE  SlotsInv
    OBVIOUS
  <2>1. Patching = {} /\ pc = "off"
    BY DEF Init, Patching
  <2> QED
    BY <2>1, FS_EmptySet, RegressionConstants DEF SlotsInv, Patches, AtHand, Begun
<1>3. SlotsInv => WithinSlots
  BY DEF SlotsInv, WithinSlots
<1> QED
  BY <1>1, <1>2, <1>3, EventsInductive, SlotsInductive, PTL DEF Spec

-----------------------------------------------------------------------------
(* The alerts.  What arrives of a cause is never later than now and never  *)
(* earlier than its row, and the rows of a cause are a cooldown apart;     *)
(* those that arrive for one row are no more than the posts of one alert,  *)
(* so that RETRIES arrivals further on another row is at hand.             *)

\* While an alert is posted: what has arrived of its row is among its posts in vain.
Posting ==
  /\ alerts # {} /\ tries \in 0..RETRIES - 1 /\ logged[Cause] \in Nat
  /\ \A i \in DOMAIN delivered[Cause] :
       \/ delivered[Cause][i].row = logged[Cause] /\ i > Len(delivered[Cause]) - tries
       \/ logged[Cause] - delivered[Cause][i].row >= COOLDOWN

AlertsTyped ==
  /\ now \in Nat /\ alerts \subseteq Causes /\ tries \in Nat
  /\ logged \in [Causes -> Int] /\ delivered \in [Causes -> Seq(Arrivals)]

AlertsInv ==
  /\ AlertsTyped
  /\ \A c \in Causes : logged[c] <= now /\ \A i \in DOMAIN delivered[c] :
       /\ delivered[c][i].row <= delivered[c][i].at /\ delivered[c][i].row <= logged[c]
       /\ \A j \in DOMAIN delivered[c] : i < j =>
            \/ delivered[c][i].row = delivered[c][j].row /\ j - i < RETRIES
            \/ delivered[c][j].row - delivered[c][i].row >= COOLDOWN
  /\ pc = "post" => Posting
  /\ pc # "post" => tries = 0

LEMMA AlertsInductive == AlertsInv /\ [Next]_vars => AlertsInv'
<1> SUFFICES ASSUME AlertsInv, [Next]_vars
             PROVE  AlertsInv'
  OBVIOUS
<1>0. /\ alerts # {} => Cause \in alerts /\ Cause \in Causes
      /\ COOLDOWN \in Nat \ {0} /\ RETRIES \in Nat \ {0}
  BY RegressionConstants DEF AlertsInv, AlertsTyped, Cause
<1>00. ASSUME NEW c \in Causes
       PROVE  /\ delivered[c] \in Seq(Arrivals) /\ logged[c] \in Int /\ now \in Nat
              /\ DOMAIN delivered[c] = 1..Len(delivered[c]) /\ Len(delivered[c]) \in Nat
              /\ \A i \in DOMAIN delivered[c] : delivered[c][i].row \in Nat /\ delivered[c][i].at \in Nat
  <2>1. delivered[c] \in Seq(Arrivals) /\ logged[c] \in Int /\ now \in Nat
    BY DEF AlertsInv, AlertsTyped
  <2>2. \A i \in DOMAIN delivered[c] : delivered[c][i] \in Arrivals
    BY <2>1
  <2> QED
    BY <2>1, <2>2 DEF Arrivals
<1> USE DEF AlertsInv, AlertsTyped, alarm, db, git, agent, locals, history
<1>1. CASE Escalate
  <2>1. CASE CooldownOk(Cause)
    <3>1. /\ logged' = [logged EXCEPT ![Cause] = now] /\ pc' = "post" /\ alerts # {} /\ tries = 0
          /\ UNCHANGED <<alerts, tries, now, delivered>>
      BY <1>1, <2>1 DEF Escalate
    <3>2. Cause' = Cause /\ Cause \in Causes
      BY <1>0, <3>1 DEF Cause
    <3>3. \A i \in DOMAIN delivered[Cause] : now - delivered[Cause][i].row >= COOLDOWN
      BY <1>0, <1>00, <2>1, <3>2 DEF CooldownOk
    <3>4. /\ logged' \in [Causes -> Int] /\ logged'[Cause] = now /\ logged[Cause] <= now
          /\ \A c \in Causes \ {Cause} : logged'[c] = logged[c]
      BY <3>1, <3>2
    <3>5. Posting'
      BY <1>0, <3>1, <3>2, <3>3, <3>4 DEF Posting
    <3>6. \A c \in Causes : logged'[c] <= now /\ logged'[c] >= logged[c] /\ logged'[c] \in Int
      <4> TAKE c \in Causes
      <4>1. logged[c] \in Int /\ logged[c] <= now /\ now \in Nat
        BY <1>00
      <4>2. logged'[c] \in {now, logged[c]}
        BY <3>4
      <4> QED
        BY <4>1, <4>2
    <3>7. \A c \in Causes : \A i \in DOMAIN delivered[c] : delivered[c][i].row <= logged'[c]
      <4> TAKE c \in Causes
      <4> TAKE i \in DOMAIN delivered[c]
      <4>1. delivered[c][i].row \in Nat /\ logged[c] \in Int /\ delivered[c][i].row <= logged[c]
        BY <1>00
      <4> QED
        BY <3>6, <4>1
    <3> QED
      BY <3>1, <3>4, <3>5, <3>6, <3>7
  <2>2. CASE ~CooldownOk(Cause)
    <3>1. /\ pc = "alert" /\ pc' = "alert" /\ alerts' \subseteq alerts
          /\ UNCHANGED <<now, tries, logged, delivered>>
      BY <1>1, <2>2 DEF Escalate
    <3> QED
      BY <3>1
  <2> QED
    BY <2>1, <2>2
<1>2. CASE PostNtfy
  <2> DEFINE d == delivered[Cause]
             arrival == [row |-> logged[Cause], at |-> now]
             n == Len(d) + 1
  <2>1. /\ pc = "post" /\ Posting /\ Cause \in Causes /\ alerts # {} /\ UNCHANGED <<now, logged>>
        /\ delivered' = [delivered EXCEPT ![Cause] = Append(d, arrival)] \/ UNCHANGED delivered
        /\ \/ pc' = "alert" /\ tries' = 0 /\ alerts' \subseteq alerts
           \/ pc' = pc /\ tries' = tries + 1 /\ tries + 1 # RETRIES /\ alerts' = alerts
    <3>1. pc = "post" /\ Posting /\ alerts # {} /\ UNCHANGED <<now, logged>>
      BY <1>2 DEF PostNtfy, Posting
    <3>2. PICK arrives \in BOOLEAN, success \in BOOLEAN :
             /\ delivered' = IF arrives THEN [delivered EXCEPT ![Cause] = Append(@, arrival)]
                                        ELSE delivered
             /\ IF success \/ tries + 1 = RETRIES
                THEN AlertDone
                ELSE tries' = tries + 1 /\ UNCHANGED <<pc, alerts>>
      BY <1>2 DEF PostNtfy
    <3>3. /\ \/ pc' = "alert" /\ tries' = 0 /\ alerts' \subseteq alerts
             \/ pc' = pc /\ tries' = tries + 1 /\ tries + 1 # RETRIES /\ alerts' = alerts
      BY <3>2 DEF AlertDone
    <3> QED
      BY <1>0, <3>1, <3>2, <3>3
  <2>2. /\ d \in Seq(Arrivals) /\ DOMAIN d = 1..Len(d) /\ Len(d) \in Nat
        /\ logged[Cause] \in Nat /\ logged[Cause] <= now /\ now \in Nat
        /\ tries \in 0..RETRIES - 1
        /\ \A i \in DOMAIN d :
             /\ d[i].row \in Nat /\ d[i].at \in Nat
             /\ \/ d[i].row = logged[Cause] /\ i > Len(d) - tries
                \/ logged[Cause] - d[i].row >= COOLDOWN
    BY <1>00, <2>1 DEF Posting
  <2>3. CASE UNCHANGED delivered
    <3>1. pc' = "post" => Cause' = Cause /\ Posting'
      <4> SUFFICES ASSUME pc' = "post"
                   PROVE  Cause' = Cause /\ Posting'
        OBVIOUS
      <4>1. tries' = tries + 1 /\ tries + 1 # RETRIES /\ alerts' = alerts
        BY <2>1
      <4>2. Cause' = Cause
        BY <4>1 DEF Cause
      <4>3. tries' \in 0..RETRIES - 1
        BY <1>0, <2>2, <4>1
      <4>4. \A i \in DOMAIN d : i > Len(d) - tries => i > Len(d) - tries'
        BY <2>2, <4>1
      <4> QED
        BY <2>1, <2>2, <2>3, <4>1, <4>2, <4>3, <4>4 DEF Posting
    <3>2. tries' \in Nat /\ alerts' \subseteq Causes /\ (pc' # "post" => tries' = 0)
      BY <2>1
    <3> QED
      BY <2>1, <2>3, <3>1, <3>2
  <2>4. CASE delivered' = [delivered EXCEPT ![Cause] = Append(d, arrival)]
    <3>1. arrival \in Arrivals /\ arrival.row = logged[Cause] /\ arrival.at = now
      BY <2>2 DEF Arrivals
    <3> HIDE DEF arrival
    <3>2. /\ delivered' \in [Causes -> Seq(Arrivals)] /\ delivered'[Cause] = Append(d, arrival)
          /\ \A c \in Causes \ {Cause} : delivered'[c] = delivered[c]
      BY <2>1, <2>2, <2>4, <3>1
    <3>3. /\ DOMAIN delivered'[Cause] = 1..n /\ Len(delivered'[Cause]) = n
          /\ delivered'[Cause][n] = arrival
          /\ \A i \in DOMAIN d : delivered'[Cause][i] = d[i]
      BY <2>2, <3>1, <3>2
    <3>4. \A i \in DOMAIN d : \/ d[i].row = arrival.row /\ n - i < RETRIES
                            \/ arrival.row - d[i].row >= COOLDOWN
      BY <1>0, <2>2, <3>1
    <3>5. \A i \in DOMAIN delivered'[Cause] :
            /\ delivered'[Cause][i].row <= delivered'[Cause][i].at
            /\ delivered'[Cause][i].row <= logged[Cause]
            /\ \A j \in DOMAIN delivered'[Cause] : i < j =>
                 \/ /\ delivered'[Cause][i].row = delivered'[Cause][j].row
                    /\ j - i < RETRIES
                 \/ delivered'[Cause][j].row - delivered'[Cause][i].row >= COOLDOWN
      <4> SUFFICES ASSUME NEW i \in 1..n
                   PROVE  /\ delivered'[Cause][i].row <= delivered'[Cause][i].at
                          /\ delivered'[Cause][i].row <= logged[Cause]
                          /\ \A j \in 1..n : i < j =>
                               \/ /\ delivered'[Cause][i].row = delivered'[Cause][j].row
                                  /\ j - i < RETRIES
                               \/ delivered'[Cause][j].row - delivered'[Cause][i].row >= COOLDOWN
        BY <3>3
      <4>1. CASE i = n
        BY <2>2, <3>1, <3>3, <4>1
      <4>2. CASE i # n
        <5>1. i \in DOMAIN d /\ delivered'[Cause][i] = d[i]
          BY <2>2, <3>3, <4>2
        <5>2. d[i].row <= d[i].at /\ d[i].row <= logged[Cause]
          BY <2>1, <5>1
        <5>3. ASSUME NEW j \in 1..n, i < j
              PROVE  \/ d[i].row = delivered'[Cause][j].row /\ j - i < RETRIES
                     \/ delivered'[Cause][j].row - d[i].row >= COOLDOWN
          <6>1. CASE j = n
            BY <3>3, <3>4, <5>1, <6>1
          <6>2. CASE j # n
            <7>1. j \in DOMAIN d /\ delivered'[Cause][j] = d[j]
              BY <2>2, <3>3, <6>2
            <7> QED
              BY <2>1, <5>1, <5>3, <7>1
          <6> QED
            BY <6>1, <6>2
        <5> QED
          BY <5>1, <5>2, <5>3
      <4> QED
        BY <4>1, <4>2
    <3>6. pc' = "post" => Posting'
      <4> SUFFICES ASSUME pc' = "post"
                   PROVE  Posting'
        OBVIOUS
      <4>1. tries' = tries + 1 /\ tries + 1 # RETRIES /\ alerts' = alerts
        BY <2>1
      <4>2. Cause' = Cause
        BY <4>1 DEF Cause
      <4>3. tries' \in 0..RETRIES - 1
        BY <1>0, <2>2, <4>1
      <4>4. \A i \in 1..n :
              \/ delivered'[Cause][i].row = logged[Cause] /\ i > n - tries'
              \/ logged[Cause] - delivered'[Cause][i].row >= COOLDOWN
        <5> TAKE i \in 1..n
        <5>1. CASE i = n
          BY <2>2, <3>1, <3>3, <4>1, <5>1
        <5>2. CASE i # n
          <6>1. i \in DOMAIN d /\ delivered'[Cause][i] = d[i]
            BY <2>2, <3>3, <5>2
          <6> QED
            BY <2>2, <4>1, <6>1
        <5> QED
          BY <5>1, <5>2
      <4> QED
        BY <2>1, <3>3, <4>1, <4>2, <4>3, <4>4 DEF Posting
    <3>7. tries' \in Nat /\ alerts' \subseteq Causes /\ (pc' # "post" => tries' = 0)
      BY <2>1
    <3> QED
      BY <2>1, <3>2, <3>5, <3>6, <3>7
  <2> QED
    BY <2>1, <2>3, <2>4
<1>3. CASE Clock
  <2>1. pc' \in {pc, "sleep"} /\ (pc' # pc => pc = "wait") /\ now' = now + 1
        /\ UNCHANGED <<alerts, tries, logged, delivered>>
    BY <1>3 DEF Clock
  <2>2. \A c \in Causes : logged[c] <= now'
    BY <1>00, <2>1
  <2>3. Cause' = Cause
    BY <2>1 DEF Cause
  <2> QED
    BY <2>1, <2>2, <2>3 DEF Posting
<1>4. CASE EndGate
  <2>1. pc = "gate" /\ pc' = "alert" /\ alerts' \subseteq Causes
        /\ UNCHANGED <<now, tries, logged, delivered>>
    BY <1>4 DEF EndGate
  <2> QED
    BY <2>1
<1>5. CASE UNCHANGED <<now, logged, delivered>> /\ alerts' \in {alerts, {}} /\ pc' # "post"
           /\ (tries' = 0 \/ (pc # "post" /\ tries' = tries))
  BY <1>5
<1>6. CASE UNCHANGED vars
  <2>1. UNCHANGED <<pc, now, alerts, tries, logged, delivered>> /\ Cause' = Cause
    BY <1>6 DEF vars, Cause
  <2> QED
    BY <2>1 DEF Posting
<1> QED
  BY <1>1, <1>2, <1>3, <1>4, <1>5, <1>6
  DEF Next, DetectRegressions, InsertEvent, FileIssue, CheckBudget, CountAttempt, StashTree,
      EditFiles, TestAndCommit, CreatePr, RestoreTree, RecordPatch, EndPatches, CheckPr,
      ApplyUpdate, EndIteration, UserEdits, Crash

\* One alert arrives at most RETRIES times and another of its cause not within the
\* cooldown, for every cooldown and number of posts, whatever the posts are answered and
\* whenever the supervisor dies (escalate: the row before the posts).
THEOREM Spaced == Spec => []AlertsSpaced
<1>1. Init => AlertsInv
  <2> SUFFICES ASSUME Init
               PROVE  AlertsInv
    OBVIOUS
  <2>1. /\ now = 0 /\ alerts = {} /\ pc = "off" /\ tries = 0
        /\ logged = [c \in Causes |-> -1] /\ delivered = [c \in Causes |-> << >>]
    BY DEF Init
  <2>2. \A c \in Causes : delivered[c] = << >> /\ DOMAIN delivered[c] = {}
    BY <2>1
  <2>3. << >> \in Seq(Arrivals)
    OBVIOUS
  <2> QED
    BY <2>1, <2>2, <2>3 DEF AlertsInv, AlertsTyped
<1>2. AlertsInv => AlertsSpaced
  <2> SUFFICES ASSUME AlertsInv, NEW c \in Causes,
                      NEW i \in DOMAIN delivered[c], NEW j \in DOMAIN delivered[c], j - i >= RETRIES
               PROVE  delivered[c][j].at - delivered[c][i].row >= COOLDOWN
    BY DEF AlertsSpaced
  <2>1. /\ i \in Nat /\ j \in Nat /\ RETRIES \in Nat \ {0} /\ COOLDOWN \in Nat
        /\ delivered[c][i] \in Arrivals /\ delivered[c][j] \in Arrivals
    BY RegressionConstants DEF AlertsInv, AlertsTyped
  <2>2. delivered[c][j].row <= delivered[c][j].at
    BY DEF AlertsInv
  <2>3. delivered[c][j].row - delivered[c][i].row >= COOLDOWN
    BY <2>1 DEF AlertsInv
  <2> QED
    BY <2>1, <2>2, <2>3 DEF Arrivals
<1> QED
  BY <1>1, <1>2, AlertsInductive, PTL DEF Spec

-----------------------------------------------------------------------------
(* The working tree.  Only the agent's files and what it commits can take *)
(* other changes with them; git stash has put those to tracked files away  *)
(* by then, unless it failed.                                              *)

TreeInv ==
  /\ tree \subseteq Changes /\ stash \in Seq(SUBSET Changes)
  /\ pc \in {"edit", "test"} /\ stashed => "own" \notin tree

LEMMA TreeInductive == TreeInv /\ [Next]_vars => TreeInv'
<1> SUFFICES ASSUME TreeInv, [Next]_vars
             PROVE  TreeInv'
  OBVIOUS
<1> USE DEF TreeInv, Changes, alarm, db, git, agent, locals, history
<1>1. CASE StashTree
  <2>1. <<tree \ {"new"}>> \o stash \in Seq(SUBSET Changes)
    OBVIOUS
  <2> QED
    BY <1>1, <2>1 DEF StashTree, Stash
<1>2. CASE EditFiles
  BY <1>2 DEF EditFiles
<1>3. CASE TestAndCommit
  BY <1>3 DEF TestAndCommit
<1>4. CASE RestoreTree
  <2>1. stash # << >> => Head(stash) \in SUBSET Changes /\ Tail(stash) \in Seq(SUBSET Changes)
    BY HeadTailProperties
  <2>2. tree' \subseteq Changes /\ stash' \in Seq(SUBSET Changes) /\ pc' \notin {"edit", "test"}
    BY <1>4, <2>1 DEF RestoreTree
  <2> QED
    BY <2>2
<1>5. CASE UserEdits
  BY <1>5 DEF UserEdits
<1>6. CASE UNCHANGED <<tree, stash>> /\ (pc' \in {"edit", "test"} => pc' = pc /\ stashed' = stashed)
  BY <1>6
<1> QED
  BY <1>1, <1>2, <1>3, <1>4, <1>5, <1>6
  DEF Next, DetectRegressions, InsertEvent, FileIssue, CheckBudget, CountAttempt, CreatePr,
      RecordPatch, EndPatches, CheckPr, ApplyUpdate, EndGate, Escalate, PostNtfy, AlertDone,
      EndIteration, Clock, Crash, vars

\* git stash takes nothing out of the stash, and puts into it what leaves the tree.
LEMMA StashKeeps ==
  ASSUME TreeInv, Stash, NEW change \in Changes, Kept(change)
  PROVE  Kept(change)'
<1>1. CASE tree \subseteq {"new"}
  BY <1>1 DEF Stash, Kept
<1>2. CASE ~(tree \subseteq {"new"})
  <2> DEFINE entry == tree \ {"new"}
  <2>1. entry \in SUBSET Changes /\ stash \in Seq(SUBSET Changes)
        /\ stash' = <<entry>> \o stash /\ tree' = tree \cap {"new"}
    BY <1>2 DEF Stash, TreeInv
  <2> HIDE DEF entry
  <2>2. <<entry>> \in Seq(SUBSET Changes) /\ Len(<<entry>>) = 1
    BY <2>1
  <2>3. /\ Len(stash') = 1 + Len(stash) /\ stash' \in Seq(SUBSET Changes)
        /\ \A i \in 1..1 + Len(stash) :
             stash'[i] = IF i <= 1 THEN <<entry>>[i] ELSE stash[i - 1]
    BY <2>1, <2>2, ConcatProperties
  <2>4. /\ DOMAIN stash' = 1..Len(stash) + 1 /\ DOMAIN stash = 1..Len(stash) /\ Len(stash) \in Nat
        /\ stash'[1] = entry /\ \A i \in 1..Len(stash) : stash'[i + 1] = stash[i]
    BY <2>1, <2>2, <2>3
  <2>5. change \in tree => change \in tree' \/ change \in entry
    BY <2>1 DEF entry
  <2> QED
    BY <2>4, <2>5 DEF Kept
<1> QED
  BY <1>1, <1>2

\* git stash pop: what leaves the stash is in the tree.
LEMMA PopKeeps ==
  ASSUME TreeInv, stash # << >>, tree' = tree \cup Head(stash), stash' \in {stash, Tail(stash)},
         NEW change \in Changes, Kept(change)
  PROVE  Kept(change)'
<1>1. CASE stash' = stash
  BY <1>1 DEF Kept
<1>2. CASE stash' = Tail(stash)
  <2>1. /\ Len(stash') = Len(stash) - 1 /\ stash' \in Seq(SUBSET Changes) /\ Len(stash) \in Nat
        /\ stash \in Seq(SUBSET Changes)
        /\ \A i \in 1..Len(stash') : stash'[i] = stash[i + 1]
        /\ Head(stash) = stash[1]
    BY <1>2, HeadTailProperties DEF TreeInv
  <2>2. ASSUME NEW i \in DOMAIN stash, change \in stash[i]
        PROVE  Kept(change)'
    <3>1. CASE i = 1
      BY <2>1, <2>2, <3>1 DEF Kept
    <3>2. CASE i # 1
      <4>1. i - 1 \in DOMAIN stash' /\ stash'[i - 1] = stash[i]
        BY <2>1, <3>2
      <4> QED
        BY <2>2, <4>1 DEF Kept
    <3> QED
      BY <3>1, <3>2
  <2> QED
    BY <2>2 DEF Kept
<1> QED
  BY <1>1, <1>2

\* Changes of the people who work in the tree stay in it or in the stash, whatever step
\* of the agent fails or is its last; only where git stash failed may files written or
\* committed take those to tracked files, and only files written those it does not
\* track (PatchAgent.run).
THEOREM ChangesKept == Spec => OwnKept
<1> DEFINE Keeps == /\ Kept("own") => Kept("own")' \/ (pc \in {"edit", "test"} /\ ~stashed)
                    /\ Kept("new") => Kept("new")' \/ pc = "edit"
<1>1. Init => TreeInv
  BY DEF Init, TreeInv, Changes
<1>2. TreeInv /\ [Next]_vars => [Keeps]_vars
  <2> SUFFICES ASSUME TreeInv, Next
               PROVE  Keeps
    OBVIOUS
  <2>0. "own" \in Changes /\ "new" \in Changes
    BY DEF Changes
  <2> USE DEF alarm, db, git, agent, locals, history
  <2>1. CASE StashTree
    <3>1. CASE UNCHANGED <<stash, tree>>
      BY <3>1 DEF Kept
    <3>2. CASE Stash
      BY <2>0, <3>2, StashKeeps
    <3> QED
      BY <2>1, <3>1, <3>2 DEF StashTree
  <2>2. CASE EditFiles
    <3>1. pc = "edit" /\ UNCHANGED stash
      BY <2>2 DEF EditFiles
    <3>2. stashed => "own" \notin tree
      BY <3>1 DEF TreeInv
    <3> QED
      BY <3>1, <3>2 DEF Kept
  <2>3. CASE TestAndCommit
    <3>1. pc = "test" /\ UNCHANGED <<stash, stashed>> /\ ("new" \in tree => "new" \in tree')
      BY <2>3 DEF TestAndCommit
    <3>2. stashed => "own" \notin tree
      BY <3>1 DEF TreeInv
    <3> QED
      BY <3>1, <3>2 DEF Kept
  <2>4. CASE RestoreTree
    <3>1. CASE UNCHANGED <<stash, tree>>
      BY <3>1 DEF Kept
    <3>2. CASE stash # << >> /\ tree' = tree \cup Head(stash) /\ stash' \in {stash, Tail(stash)}
      BY <2>0, <3>2, PopKeeps
    <3> QED
      BY <2>4, <3>1, <3>2 DEF RestoreTree
  <2>5. CASE UserEdits
    BY <2>5 DEF UserEdits, Kept
  <2>6. CASE UNCHANGED <<tree, stash>>
    BY <2>6 DEF Kept
  <2> QED
    BY <2>1, <2>2, <2>3, <2>4, <2>5, <2>6
    DEF Next, DetectRegressions, InsertEvent, FileIssue, CheckBudget, CountAttempt, CreatePr,
        RecordPatch, EndPatches, CheckPr, ApplyUpdate, EndGate, Escalate, PostNtfy, AlertDone,
        EndIteration, Clock, Crash
<1> QED
  BY <1>1, <1>2, TreeInductive, PTL DEF Spec, OwnKept
=============================================================================
