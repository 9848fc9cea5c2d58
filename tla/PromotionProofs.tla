-------------------------- MODULE PromotionProofs ---------------------------
(***************************************************************************)
(* The supervisor's sweep records a combo once per iteration, and the first*)
(* parameters it promotes are earned, for every number of combos, of       *)
(* iterations and of deaths.                                               *)
(***************************************************************************)
EXTENDS Promotion, FiniteSetTheorems, TLAPS

-----------------------------------------------------------------------------
(* The types of the variables, and where idx points.                       *)

Scores == Measured \cup {Unproven}
ParamFiles == [combo : Combos \cup {-1, 0}, dsr : Scores]
RunRows == [iteration : Nat, combo : Combos, promoted : {-1, 0, 1}, snapshot : ParamFiles]
IterationRows == [status : {"running", "complete"}, last : Combos \cup {NoCombo}]
Sweeping == {"phase1", "sweep", "search", "record"}

Promoting == {"check", "demote", "gate", "mark"}
UnderWay == pc \notin {"off", "sleep"}

Typed ==
  /\ pc \in Sweeping \cup Promoting \cup {"off", "sleep", "late"}
  /\ idx \in Nat /\ results \in Seq(Results)
  /\ pc \in {"off", "sleep", "phase1", "late"} => results = << >>
  /\ pc \in Sweeping => idx \in 1..N + 1
  /\ pc \in {"search", "record"} => idx <= N
  /\ pc \in {"sweep", "search"} => Len(results) < idx
  /\ pc = "record" => Len(results) <= idx
  /\ pc \in Promoting => Len(results) <= N /\ idx >= 1
  /\ pc \in Promoting \ {"check"} => idx <= Len(results)
  /\ snapshot \in ParamFiles
  /\ iterations \in Seq(IterationRows)
  /\ UnderWay => Running >= 1
  /\ runs \in Seq(RunRows)
  /\ params \in [Combos -> Scores]
  /\ base \in ParamFiles
  /\ crashes \in Nat

-----------------------------------------------------------------------------
(* What the writes to the two tables do to their rows.                     *)

\* A nonempty set of naturals has a least element: otherwise the intervals below its
\* elements would descend for ever.
LEMMA LeastNatural ==
  ASSUME NEW T, T \subseteq Nat, T # {}
  PROVE  \E x \in T : \A y \in T : x <= y
<1> DEFINE R == StrictSubsetOrdering(Nat)
           F == FiniteSubsetsOf(Nat)
           U == {1..x : x \in T}
<1>1. IsWellFoundedOn(R, F)
  BY FS_StrictSubsetOrderingWellFounded
<1>2. U \subseteq F /\ U # {}
  <2>1. \A x \in T : 1..x \in SUBSET Nat /\ IsFiniteSet(1..x)
    BY FS_Interval
  <2>2. \A x \in T : 1..x \in F
    BY <2>1 DEF FiniteSubsetsOf
  <2> HIDE DEF F
  <2> QED
    BY <2>2
<1>3. \A x, y \in T : y < x => <<1..y, 1..x>> \in R
  BY DEF StrictSubsetOrdering
<1> HIDE DEF R, F
<1>4. \E X \in U : \A Y \in U : <<Y, X>> \notin R
  <2> HIDE DEF U
  <2> QED
    BY <1>1, <1>2, WFMin
<1>5. PICK x \in T : \A Y \in U : <<Y, 1..x>> \notin R
  BY <1>4
<1>6. \A y \in T : <<1..y, 1..x>> \notin R
  BY <1>5
<1>7. ASSUME NEW y \in T, y < x
      PROVE  FALSE
  <2>1. <<1..y, 1..x>> \in R
    BY <1>3, <1>7
  <2> QED
    BY <2>1, <1>6
<1> QED
  BY <1>7

\* The newest of some rows is one of them.
LEMMA NewestIsOne ==
  ASSUME NEW n \in Nat, NEW ids \in SUBSET (1..n), ids # {}
  PROVE  Newest(ids) \in ids
<1> DEFINE Bounds == {k \in Nat : \A j \in ids : j <= k}
<1>1. n \in Bounds /\ Bounds \subseteq Nat
  OBVIOUS
<1>2. PICK x \in Bounds : \A y \in Bounds : x <= y
  BY <1>1, LeastNatural
<1>3. x \in ids
  <2> SUFFICES ASSUME x \notin ids
               PROVE  FALSE
    OBVIOUS
  <2>1. x \in Nat /\ \A j \in ids : j <= x
    OBVIOUS
  <2>2. PICK j \in ids : TRUE
    OBVIOUS
  <2>3. x - 1 \in Nat /\ \A i \in ids : i <= x - 1
    BY <2>1, <2>2
  <2>4. x - 1 \in Bounds
    BY <2>3
  <2> QED
    BY <1>2, <2>1, <2>4
<1>4. \E i \in ids : \A j \in ids : j <= i
  BY <1>2, <1>3
<1> QED
  BY <1>4 DEF Newest

\* update_autoresearch_run changes neither the iteration nor the combo of a row.
LEMMA RunUpdated ==
  ASSUME NEW rows \in Seq(RunRows), NEW new, NEW k, NEW p \in {-1, 0, 1}, NEW file \in ParamFiles,
         \/ new = [rows EXCEPT ![k].promoted = p]
         \/ new = [rows EXCEPT ![k].promoted = p, ![k].snapshot = file]
  PROVE  /\ new \in Seq(RunRows)
         /\ DOMAIN new = DOMAIN rows
         /\ \A i \in DOMAIN rows :
              /\ new[i].iteration = rows[i].iteration
              /\ new[i].combo = rows[i].combo
              /\ new[i].promoted = IF i = k THEN p ELSE rows[i].promoted
<1>1. /\ DOMAIN new = 1..Len(rows) /\ DOMAIN rows = 1..Len(rows) /\ Len(rows) \in Nat
      /\ \A i \in 1..Len(rows) : rows[i] \in RunRows
  OBVIOUS
<1>2. \A i \in 1..Len(rows) :
        /\ new[i] \in RunRows
        /\ new[i].iteration = rows[i].iteration
        /\ new[i].combo = rows[i].combo
        /\ new[i].promoted = IF i = k THEN p ELSE rows[i].promoted
  <2> SUFFICES ASSUME NEW i \in 1..Len(rows)
               PROVE  /\ new[i] \in RunRows
                      /\ new[i].iteration = rows[i].iteration
                      /\ new[i].combo = rows[i].combo
                      /\ new[i].promoted = IF i = k THEN p ELSE rows[i].promoted
    OBVIOUS
  <2>1. rows[i] \in RunRows
    BY <1>1
  <2>2. CASE i # k
    BY <1>1, <2>1, <2>2
  <2>3. CASE i = k
    <3>1. \/ new[i] = [rows[i] EXCEPT !.promoted = p]
          \/ new[i] = [rows[i] EXCEPT !.promoted = p, !.snapshot = file]
      BY <1>1, <2>3
    <3> QED
      BY <2>1, <2>3, <3>1 DEF RunRows
  <2> QED
    BY <2>2, <2>3
<1>3. new = [i \in 1..Len(rows) |-> new[i]]
  BY <1>1
<1>4. new \in [1..Len(rows) -> RunRows]
  BY <1>2, <1>3
<1>5. new \in Seq(RunRows)
  BY <1>1, <1>4
<1> QED
  BY <1>1, <1>2, <1>5

\* update_iteration, of the latest row.
LEMMA IterationUpdated ==
  ASSUME NEW rows \in Seq(IterationRows), Len(rows) >= 1
  PROVE  /\ \A c \in Combos :
              /\ [rows EXCEPT ![Len(rows)].last = c] \in Seq(IterationRows)
              /\ Len([rows EXCEPT ![Len(rows)].last = c]) = Len(rows)
              /\ [rows EXCEPT ![Len(rows)].last = c][Len(rows)].last = c
         /\ [rows EXCEPT ![Len(rows)].status = "complete"] \in Seq(IterationRows)
         /\ Len([rows EXCEPT ![Len(rows)].status = "complete"]) = Len(rows)
         /\ [rows EXCEPT ![Len(rows)].status = "complete"][Len(rows)].last = rows[Len(rows)].last
<1>1. rows[Len(rows)] \in IterationRows /\ Len(rows) \in 1..Len(rows)
  OBVIOUS
<1>2. \A c \in Combos : [rows[Len(rows)] EXCEPT !.last = c] \in IterationRows
  BY <1>1 DEF IterationRows
<1>3. [rows[Len(rows)] EXCEPT !.status = "complete"] \in IterationRows
  BY <1>1 DEF IterationRows
<1> QED
  BY <1>1, <1>2, <1>3 DEF IterationRows

-----------------------------------------------------------------------------
LEMMA InitTyped == Init => Typed
  BY PromotionConstants
  DEF Init, Typed, ParamFiles, Scores, Combos, NoSnapshot, Unproven, Measured, Sweeping, Promoting, UnderWay

\* A search, finished or failed, leaves scores in the files.
LEMMA SearchedFiles ==
  ASSUME Typed, NEW c \in Combos, NEW result \in Results, RunCombo(c, result)
  PROVE  /\ params' \in [Combos -> Scores]
         /\ result.combo = c
         /\ result.dsr # Unproven => params'[c] = result.dsr
         /\ \A d \in Combos \ {c} : params'[d] = params[d]
  BY DEF Typed, RunCombo, Results, Scores, Measured, Unproven, Low, Mid, High

LEMMA TypedInductive == Typed /\ [Next]_vars => Typed'
<1> SUFFICES ASSUME Typed, [Next]_vars
             PROVE  Typed'
  OBVIOUS
<1> USE PromotionConstants DEF Typed, Sweeping, Promoting, UnderWay, Running, Combos
<1>0. NoSnapshot \in ParamFiles
  BY DEF NoSnapshot, ParamFiles, Scores
<1>1. CASE BeginIteration
  <2>1. ResumeInfo.start \in 1..N + 1
    <3>1. Running > 0 => iterations[Running] \in IterationRows
      OBVIOUS
    <3> QED
      BY <3>1 DEF ResumeInfo, NoCombo, IterationRows
  <2>2. [status |-> "running", last |-> NoCombo] \in IterationRows
    BY DEF IterationRows
  <2>3. iterations' \in Seq(IterationRows) /\ Len(iterations') >= 1
    BY <1>1, <2>2 DEF BeginIteration, ResumeInfo
  <2> QED
    BY <1>1, <2>1, <2>3 DEF BeginIteration, files
<1>2. CASE MarketCheck
  BY <1>2 DEF MarketCheck, db, files
<1>3. CASE BeginCombo
  <2>1. iterations' \in Seq(IterationRows)
    <3>1. idx \in Combos /\ iterations' = [iterations EXCEPT ![Len(iterations)].last = idx]
      BY <1>3 DEF BeginCombo
    <3>2. Len(iterations) >= 1
      BY <1>3 DEF BeginCombo
    <3> QED
      BY <3>1, <3>2, IterationUpdated
  <2> QED
    BY <1>3, <2>1 DEF BeginCombo, files
<1>4. CASE SearchCombo
  BY <1>4, SearchedFiles DEF SearchCombo, db
<1>5. CASE RecordRun
  <2>1. [iteration |-> Running, combo |-> idx, promoted |-> 0, snapshot |-> NoSnapshot]
          \in RunRows
    BY <1>0, <1>5 DEF RecordRun, RunRows
  <2> QED
    BY <1>5, <2>1 DEF RecordRun, files
<1>6. CASE EndSweep
  BY <1>6 DEF EndSweep, db, files
<1>7. CASE CheckRollback
  <2> DEFINE last == LastPromotedRun(idx)
  <2>1. idx \in Combos
    BY <1>7 DEF CheckRollback
  <2>2. last # 0 => runs[last].snapshot \in ParamFiles
    <3>1. last # 0 => last \in DOMAIN runs
      BY NewestIsOne DEF LastPromotedRun, Newest
    <3>2. last # 0 => runs[last] \in RunRows
      BY <3>1
    <3> QED
      BY <3>2 DEF RunRows
  <2>3. params' \in [Combos -> Scores] /\ base' \in ParamFiles
    BY <1>7, <2>1, <2>2, SearchedFiles DEF CheckRollback, files
  <2> QED
    BY <1>7, <2>3 DEF CheckRollback, db
<1>8. CASE RecordRollback
  <2>1. runs' \in Seq(RunRows)
    BY <1>0, <1>8, RunUpdated DEF RecordRollback
  <2> QED
    BY <1>8, <2>1 DEF RecordRollback, files
<1>9. CASE PromoteCombo
  BY <1>9 DEF PromoteCombo, Content, db, ParamFiles
<1>10. CASE RecordPromotion
  <2>1. runs' \in Seq(RunRows)
    BY <1>10, RunUpdated DEF RecordPromotion
  <2> QED
    BY <1>0, <1>10, <2>1 DEF RecordPromotion, files
<1>11. CASE EndPromotions
  BY <1>11 DEF EndPromotions, db, files
<1>12. CASE CompleteIteration
  <2>1. iterations' \in Seq(IterationRows)
    <3>1. iterations' = [iterations EXCEPT ![Len(iterations)].status = "complete"]
      BY <1>12 DEF CompleteIteration
    <3>2. 1 \in Combos /\ Len(iterations) >= 1
      BY <1>12 DEF CompleteIteration
    <3> QED
      BY <3>1, <3>2, IterationUpdated
  <2> QED
    BY <1>12, <2>1 DEF CompleteIteration, files
<1>13. CASE Shutdown
  BY <1>13 DEF Shutdown, db, files
<1>14. CASE Crash
  BY <1>0, <1>14 DEF Crash, db, Scores
<1>15. CASE UNCHANGED vars
  BY <1>15 DEF vars, db, files
<1> QED
  BY <1>1, <1>2, <1>3, <1>4, <1>5, <1>6, <1>7, <1>8, <1>9, <1>10, <1>11, <1>12, <1>13, <1>14,
     <1>15 DEF Next

-----------------------------------------------------------------------------
(* OneRunPerCombo is not inductive: nothing in it keeps a resumed sweep    *)
(* from a combo that has its row.  What does is the order of the writes.   *)
(* last_combo_index of the iteration under way bounds the combos it has    *)
(* rows of, strictly while one is searched or about to be recorded, and the*)
(* sweep is always beyond it; a row never is of a later iteration, so that *)
(* a new iteration begins with none.                                       *)

RowsBehindSweep ==
  /\ \A i \in DOMAIN runs :
       /\ runs[i].iteration \in 1..Running
       /\ runs[i].iteration = Running => runs[i].combo <= iterations[Running].last
  /\ pc \in {"phase1", "sweep"} => idx > iterations[Running].last
  /\ pc \in {"search", "record"} =>
       /\ iterations[Running].last = idx
       /\ \A i \in DOMAIN runs : runs[i].iteration = Running => runs[i].combo < idx

SweepInv == Typed /\ RowsBehindSweep /\ OneRunPerCombo

LEMMA InitSweep == Init => SweepInv
<1> SUFFICES ASSUME Init
             PROVE  SweepInv
  OBVIOUS
<1>1. DOMAIN runs = {} /\ pc = "off"
  BY DEF Init
<1> QED
  BY <1>1, InitTyped DEF SweepInv, RowsBehindSweep, OneRunPerCombo, UnderWay

\* A step that adds no row, to either table, and leaves last_combo_index alone.
LEMMA RowsQuiet ==
  ASSUME Typed, RowsBehindSweep, OneRunPerCombo,
         Running' = Running, iterations'[Running].last = iterations[Running].last,
         DOMAIN runs' = DOMAIN runs,
         \A i \in DOMAIN runs : runs'[i].iteration = runs[i].iteration /\ runs'[i].combo = runs[i].combo,
         \/ pc' \notin Sweeping
         \/ pc' = pc /\ idx' = idx
         \/ pc = "phase1" /\ pc' = "sweep" /\ idx' = idx
         \/ pc = "search" /\ pc' = "record" /\ idx' = idx
  PROVE  RowsBehindSweep' /\ OneRunPerCombo'
<1>1. OneRunPerCombo'
  BY DEF OneRunPerCombo
<1>2. RowsBehindSweep'
  BY DEF RowsBehindSweep, Sweeping
<1> QED
  BY <1>1, <1>2

LEMMA RowTypes ==
  ASSUME Typed
  PROVE  /\ Running >= 1 => iterations[Running].last \in Int
         /\ \A i \in DOMAIN runs : runs[i].combo \in Combos /\ runs[i].combo \in Int
<1>1. Running >= 1 => iterations[Running] \in IterationRows
  BY DEF Typed, Running
<1>2. \A i \in DOMAIN runs : runs[i] \in RunRows
  BY DEF Typed
<1> QED
  BY <1>1, <1>2, PromotionConstants DEF IterationRows, RunRows, Combos, NoCombo

LEMMA SweepInductive == SweepInv /\ [Next]_vars => SweepInv'
<1> SUFFICES ASSUME SweepInv, [Next]_vars
             PROVE  RowsBehindSweep' /\ OneRunPerCombo'
  BY TypedInductive DEF SweepInv
<1>0. Typed /\ Typed' /\ RowsBehindSweep /\ OneRunPerCombo /\ Running \in Nat
  BY TypedInductive DEF SweepInv, Typed, Running
<1>1. CASE BeginIteration
  <2>1. CASE ResumeInfo.resume
    <3>1. /\ Running > 0 /\ idx' = iterations[Running].last + 1 /\ iterations[Running].last \in Int
          /\ pc' = "phase1" /\ runs' = runs /\ iterations' = iterations
      <4>1. Running > 0 => iterations[Running].last \in Int
        BY <1>0, RowTypes
      <4> QED
        BY <1>0, <1>1, <2>1, <4>1 DEF BeginIteration, ResumeInfo
    <3>2. RowsBehindSweep'
      BY <1>0, <3>1 DEF RowsBehindSweep, Running
    <3> QED
      BY <1>0, <3>1, <3>2 DEF OneRunPerCombo
  <2>2. CASE ~ResumeInfo.resume
    <3>1. Running' = Running + 1 /\ iterations'[Running + 1].last = NoCombo
      BY <1>0, <1>1, <2>2 DEF BeginIteration, Running, Typed
    <3>2. idx' = 1 /\ pc' = "phase1" /\ runs' = runs
      BY <1>1, <2>2 DEF BeginIteration, ResumeInfo
    <3>3. \A i \in DOMAIN runs : runs[i].iteration \in 1..Running
      BY <1>0 DEF RowsBehindSweep
    <3>4. RowsBehindSweep'
      BY <1>0, <3>1, <3>2, <3>3 DEF RowsBehindSweep, NoCombo
    <3> QED
      BY <1>0, <3>2, <3>4 DEF OneRunPerCombo
  <2> QED
    BY <2>1, <2>2
<1>2. CASE MarketCheck
  BY <1>0, <1>2, RowsQuiet DEF MarketCheck, db, Running, Sweeping
<1>3. CASE BeginCombo
  <2>1. /\ pc = "sweep" /\ pc' = "search" /\ idx' = idx /\ runs' = runs /\ idx \in Combos
        /\ iterations' = [iterations EXCEPT ![Len(iterations)].last = idx]
    BY <1>0, <1>3 DEF BeginCombo, Running, Typed, Sweeping, Combos
  <2>2. Running' = Running /\ iterations'[Running].last = idx
    BY <1>0, <2>1, IterationUpdated DEF Running, Typed, UnderWay
  <2>3. \A i \in DOMAIN runs : runs[i].iteration = Running => runs[i].combo < idx
    <3>1. iterations[Running].last < idx /\ iterations[Running].last \in Int /\ idx \in Int
      BY <1>0, <2>1, RowTypes DEF RowsBehindSweep, Combos, UnderWay, Typed
    <3> QED
      BY <1>0, <3>1, RowTypes DEF RowsBehindSweep
  <2>4. RowsBehindSweep'
    <3>1. idx \in Int /\ Running >= 1
      BY <1>0, <2>1 DEF Combos, Typed, UnderWay
    <3> QED
      BY <1>0, <2>1, <2>2, <2>3, <3>1, RowTypes DEF RowsBehindSweep
  <2> QED
    BY <1>0, <2>1, <2>4 DEF OneRunPerCombo
<1>4. CASE SearchCombo
  BY <1>0, <1>4, RowsQuiet DEF SearchCombo, db, Running
<1>5. CASE RecordRun
  <2> DEFINE row == [iteration |-> Running, combo |-> idx, promoted |-> 0, snapshot |-> NoSnapshot]
             n == Len(runs) + 1
  <2>1. /\ pc = "record" /\ pc' = "sweep" /\ idx' = idx + 1 /\ idx \in Nat
        /\ runs' = Append(runs, row) /\ iterations' = iterations
    BY <1>0, <1>5 DEF RecordRun, Typed
  <2>2. /\ DOMAIN runs' = DOMAIN runs \cup {n} /\ n \notin DOMAIN runs
        /\ runs'[n] = row /\ \A i \in DOMAIN runs : runs'[i] = runs[i]
    BY <1>0, <2>1 DEF Typed
  <2>3. /\ iterations[Running].last = idx /\ Running >= 1
        /\ \A i \in DOMAIN runs : runs[i].iteration = Running => runs[i].combo < idx
    BY <1>0, <2>1 DEF RowsBehindSweep, Typed, UnderWay
  <2>4. RowsBehindSweep'
    BY <1>0, <2>1, <2>2, <2>3 DEF RowsBehindSweep, Running
  <2>5. OneRunPerCombo'
    BY <1>0, <2>2, <2>3, <2>1 DEF OneRunPerCombo
  <2> QED
    BY <2>4, <2>5
<1>6. CASE EndSweep
  BY <1>0, <1>6, RowsQuiet DEF EndSweep, db, Running, Sweeping
<1>7. CASE CheckRollback
  BY <1>0, <1>7, RowsQuiet DEF CheckRollback, db, Running, Sweeping
<1>8. CASE RecordRollback
  <2>1. NoSnapshot \in ParamFiles
    BY DEF NoSnapshot, ParamFiles, Scores
  <2>2. /\ DOMAIN runs' = DOMAIN runs
        /\ \A i \in DOMAIN runs : runs'[i].iteration = runs[i].iteration /\ runs'[i].combo = runs[i].combo
    BY <1>0, <1>8, <2>1, RunUpdated DEF RecordRollback, Typed
  <2> QED
    BY <1>0, <1>8, <2>2, RowsQuiet DEF RecordRollback, Running, Sweeping
<1>9. CASE PromoteCombo
  BY <1>0, <1>9, RowsQuiet DEF PromoteCombo, db, Running, Sweeping
<1>10. CASE RecordPromotion
  <2>1. /\ DOMAIN runs' = DOMAIN runs
        /\ \A i \in DOMAIN runs : runs'[i].iteration = runs[i].iteration /\ runs'[i].combo = runs[i].combo
    BY <1>0, <1>10, RunUpdated DEF RecordPromotion, Typed
  <2> QED
    BY <1>0, <1>10, <2>1, RowsQuiet DEF RecordPromotion, Running, Sweeping
<1>11. CASE EndPromotions
  BY <1>0, <1>11, RowsQuiet DEF EndPromotions, db, Running, Sweeping
<1>12. CASE CompleteIteration
  <2>1. /\ iterations' = [iterations EXCEPT ![Len(iterations)].status = "complete"]
        /\ Len(iterations) >= 1 /\ pc' = "sleep" /\ runs' = runs
    BY <1>0, <1>12 DEF CompleteIteration, Typed, UnderWay, Running
  <2>2. Running' = Running /\ iterations'[Running].last = iterations[Running].last
    BY <1>0, <2>1, IterationUpdated DEF Running, Typed
  <2> QED
    BY <1>0, <2>1, <2>2, RowsQuiet DEF Sweeping
<1>13. CASE Shutdown
  BY <1>0, <1>13, RowsQuiet DEF Shutdown, db, Running, Sweeping
<1>14. CASE Crash
  BY <1>0, <1>14, RowsQuiet DEF Crash, db, Running, Sweeping
<1>15. CASE UNCHANGED vars
  BY <1>0, <1>15, RowsQuiet DEF vars, db, Running
<1> QED
  BY <1>1, <1>2, <1>3, <1>4, <1>5, <1>6, <1>7, <1>8, <1>9, <1>10, <1>11, <1>12, <1>13, <1>14,
     <1>15 DEF Next

\* An iteration has at most one row of a combo, however often it is interrupted and
\* resumed (_resume_info, update_iteration before the search, insert_autoresearch_run
\* after it).
THEOREM OneRun == Spec => []OneRunPerCombo
<1>1. SweepInv => OneRunPerCombo
  BY DEF SweepInv
<1> QED
  BY <1>1, InitSweep, SweepInductive, PTL DEF Spec

-----------------------------------------------------------------------------
(* FirstPromotionEarned is about one step, the copy of a combo's file over *)
(* the base.  What the step needs is that the result at the combo's place  *)
(* is the combo's, and that the file still holds what that search measured:*)
(* phase 3 searches again only combos that have a promoted run.  Without a *)
(* death every sweep begins with the first combo and no results.           *)

ResultsInPlace ==
  /\ pc \in {"off", "sleep"} => Running = 0 \/ iterations[Running].status = "complete"
  /\ pc = "phase1" => idx = 1
  /\ pc \in {"sweep", "search"} => Len(results) = idx - 1
  /\ pc = "record" => Len(results) = idx
  /\ \A c \in DOMAIN results :
       /\ results[c].combo = c
       /\ (NeverPromoted(c) /\ results[c].dsr # Unproven) => params[c] = results[c].dsr

Undisturbed == crashes = 0 => ResultsInPlace

\* What a step of phase 3 or of the bookkeeping needs to show.
LEMMA ResultsQuiet ==
  ASSUME ResultsInPlace, results' = results,
         \A c \in DOMAIN results : NeverPromoted(c)' => NeverPromoted(c) /\ params'[c] = params[c],
         \/ pc' \in Promoting
         \/ pc = "phase1" /\ pc' = "sweep" /\ idx' = idx /\ results = << >>
         \/ pc' = "late"
         \/ pc' = pc /\ idx' = idx /\ iterations' = iterations
         \/ pc = "sweep" /\ pc' = "search" /\ idx' = idx
         \/ pc = "record" /\ pc' = "sweep" /\ idx' = idx + 1 /\ idx \in Nat
         \/ pc = "sleep" /\ pc' = "off" /\ iterations' = iterations
  PROVE  ResultsInPlace'
<1>1. \A c \in DOMAIN results' :
        /\ results'[c].combo = c
        /\ (NeverPromoted(c)' /\ results'[c].dsr # Unproven) => params'[c] = results'[c].dsr
  BY DEF ResultsInPlace
<1>2. Len(<< >>) = 0
  OBVIOUS
<1> QED
  BY <1>1, <1>2 DEF ResultsInPlace, Promoting, Running

LEMMA UndisturbedInductive == SweepInv /\ Undisturbed /\ [Next]_vars => Undisturbed'
<1> SUFFICES ASSUME Typed, Typed', RowsBehindSweep, Undisturbed, [Next]_vars, crashes' = 0
             PROVE  ResultsInPlace'
  BY SweepInductive DEF SweepInv, Undisturbed
<1>0. ResultsInPlace /\ ~Crash
  BY DEF Undisturbed, Typed, Next, BeginIteration, MarketCheck, BeginCombo, SearchCombo, RecordRun,
         EndSweep, CheckRollback, RecordRollback, PromoteCombo, RecordPromotion, EndPromotions,
         CompleteIteration, Shutdown, Crash, vars
<1>1. CASE BeginIteration
  <2>1. ~ResumeInfo.resume /\ ResumeInfo.start = 1
    BY <1>0, <1>1 DEF BeginIteration, ResumeInfo, ResultsInPlace
  <2>2. pc' = "phase1" /\ idx' = 1 /\ results' = results /\ results = << >>
    BY <1>1, <2>1 DEF BeginIteration, Typed
  <2> QED
    BY <2>2 DEF ResultsInPlace
<1>2. CASE MarketCheck
  BY <1>0, <1>2, ResultsQuiet DEF MarketCheck, db, files, Typed, NeverPromoted
<1>3. CASE BeginCombo
  BY <1>0, <1>3, ResultsQuiet DEF BeginCombo, files, NeverPromoted
<1>4. CASE SearchCombo
  <2>1. PICK result \in Results : RunCombo(idx, result) /\ results' = Append(results, result)
    BY <1>4 DEF SearchCombo
  <2>2. /\ pc = "search" /\ pc' = "record" /\ idx' = idx /\ runs' = runs
        /\ idx \in Combos /\ Len(results) = idx - 1 /\ results \in Seq(Results)
    BY <1>0, <1>4 DEF SearchCombo, db, ResultsInPlace, Typed, Sweeping, Combos
  <2>3. /\ result.combo = idx
        /\ result.dsr # Unproven => params'[idx] = result.dsr
        /\ \A d \in Combos \ {idx} : params'[d] = params[d]
    BY <2>1, <2>2, SearchedFiles
  <2>4. /\ DOMAIN results' = DOMAIN results \cup {idx} /\ DOMAIN results = 1..idx - 1
        /\ results'[idx] = result /\ \A c \in DOMAIN results : results'[c] = results[c]
        /\ Len(results') = idx
    BY <2>1, <2>2 DEF Combos
  <2>5. \A c \in DOMAIN results : c \in Combos \ {idx}
    BY <2>2, <2>4, PromotionConstants DEF Combos
  <2> QED
    BY <1>0, <2>2, <2>3, <2>4, <2>5 DEF ResultsInPlace, NeverPromoted
<1>5. CASE RecordRun
  <2>1. /\ \A c : NeverPromoted(c)' => NeverPromoted(c)
        /\ pc = "record" /\ pc' = "sweep" /\ idx' = idx + 1 /\ idx \in Nat
        /\ results' = results /\ params' = params
    BY <1>5 DEF RecordRun, files, Typed, NeverPromoted
  <2> QED
    BY <1>0, <2>1, ResultsQuiet
<1>6. CASE EndSweep
  BY <1>0, <1>6, ResultsQuiet DEF EndSweep, db, files, Promoting, NeverPromoted
<1>7. CASE CheckRollback
  <2>1. /\ pc' \in Promoting /\ results' = results /\ runs' = runs /\ idx \in Combos
        /\ Len(results) <= N /\ results \in Seq(Results)
    <3>1. pc = "check" /\ idx <= Len(results) /\ idx >= 1 /\ idx \in Nat
          /\ Len(results) <= N /\ results \in Seq(Results)
      BY <1>7 DEF CheckRollback, Promoting, Typed
    <3>2. idx \in Combos
      BY <3>1, PromotionConstants DEF Combos
    <3>3. pc' \in Promoting /\ results' = results /\ runs' = runs
      BY <1>7 DEF CheckRollback, db, Promoting
    <3> QED
      BY <3>1, <3>2, <3>3
  <2>2. ASSUME NEW c \in DOMAIN results, NeverPromoted(c)
        PROVE  params'[c] = params[c]
    <3>1. c \in Combos
      BY <2>1, PromotionConstants DEF Combos
    <3>2. CASE LastPromotedRun(idx) = 0
      BY <1>7, <3>2 DEF CheckRollback, files
    <3>3. CASE LastPromotedRun(idx) # 0
      <4>1. c # idx
        BY <2>2, <3>3 DEF LastPromotedRun, Newest, NeverPromoted
      <4> QED
        BY <1>7, <2>1, <3>1, <3>3, <4>1, SearchedFiles DEF CheckRollback
    <3> QED
      BY <3>2, <3>3
  <2> QED
    BY <1>0, <2>1, <2>2, ResultsQuiet DEF NeverPromoted
<1>8. CASE RecordRollback
  <2>1. NoSnapshot \in ParamFiles
    BY DEF NoSnapshot, ParamFiles, Scores
  <2>2. \A c : NeverPromoted(c)' => NeverPromoted(c)
    BY <1>8, <2>1, RunUpdated DEF RecordRollback, NeverPromoted, Typed
  <2> QED
    BY <1>0, <1>8, <2>2, ResultsQuiet DEF RecordRollback, files, Promoting
<1>9. CASE PromoteCombo
  BY <1>0, <1>9, ResultsQuiet DEF PromoteCombo, db, Promoting, NeverPromoted
<1>10. CASE RecordPromotion
  <2>1. \A c : NeverPromoted(c)' => NeverPromoted(c)
    <3>1. /\ DOMAIN runs' = DOMAIN runs
          /\ \A i \in DOMAIN runs :
               runs'[i].combo = runs[i].combo /\ runs'[i].promoted \in {1, runs[i].promoted}
      BY <1>10, RunUpdated DEF RecordPromotion, Typed
    <3> QED
      BY <3>1 DEF NeverPromoted
  <2> QED
    BY <1>0, <1>10, <2>1, ResultsQuiet DEF RecordPromotion, files, Promoting
<1>11. CASE EndPromotions
  BY <1>11 DEF EndPromotions, ResultsInPlace
<1>12. CASE CompleteIteration
  <2>1. /\ iterations' = [iterations EXCEPT ![Running].status = "complete"] /\ pc' = "sleep"
        /\ results' = << >> /\ Running >= 1 /\ iterations \in Seq(IterationRows)
    BY <1>12 DEF CompleteIteration, Typed, UnderWay
  <2>2. iterations'[Running'].status = "complete"
    <3>1. Running \in DOMAIN iterations /\ iterations[Running] \in IterationRows
      BY <2>1 DEF Running
    <3> QED
      BY <2>1, <3>1, IterationUpdated DEF Running, IterationRows
  <2> QED
    BY <2>1, <2>2 DEF ResultsInPlace
<1>13. CASE Shutdown
  BY <1>0, <1>13, ResultsQuiet DEF Shutdown, db, files, NeverPromoted
<1>15. CASE UNCHANGED vars
  BY <1>0, <1>15, ResultsQuiet DEF vars, db, files, NeverPromoted
<1> QED
  BY <1>0, <1>1, <1>2, <1>3, <1>4, <1>5, <1>6, <1>7, <1>8, <1>9, <1>10, <1>11, <1>12, <1>13,
     <1>15 DEF Next

\* The first parameters of a combo that get into the base are its own, and cleared the
\* gate, while no iteration is interrupted (zip in _phase3_promotions, _promote_combo).
THEOREM FirstPromotion == Spec => FirstPromotionEarned
<1>1. Init => Undisturbed
  <2> SUFFICES ASSUME Init
               PROVE  ResultsInPlace
    BY DEF Undisturbed
  <2>1. pc = "off" /\ Running = 0 /\ DOMAIN results = {}
    BY DEF Init, Running
  <2> QED
    BY <2>1 DEF ResultsInPlace
<1>2. SweepInv /\ Undisturbed /\ [Next]_vars =>
        [(crashes = 0 /\ pc = "gate" /\ NeverPromoted(idx) /\ base' # base)
           => base' = [combo |-> idx, dsr |-> High]]_vars
  <2> SUFFICES ASSUME Typed, ResultsInPlace, Next, pc = "gate", NeverPromoted(idx), base' # base
               PROVE  base' = [combo |-> idx, dsr |-> High]
    BY DEF SweepInv, Undisturbed
  <2>1. PromoteCombo
    BY DEF Next, BeginIteration, MarketCheck, BeginCombo, SearchCombo, RecordRun, EndSweep,
           CheckRollback, RecordRollback, RecordPromotion, EndPromotions, CompleteIteration,
           Shutdown, Crash, files
  <2>2. base' = Content(idx) /\ results[idx].dsr = High /\ idx \in DOMAIN results
    BY <2>1 DEF PromoteCombo, Typed, Promoting
  <2>3. params[idx] = High
    BY <2>2 DEF ResultsInPlace, High, Unproven
  <2> QED
    BY <2>2, <2>3 DEF Content
<1> QED
  BY <1>1, <1>2, InitSweep, SweepInductive, UndisturbedInductive, PTL
  DEF Spec, FirstPromotionEarned
=============================================================================
