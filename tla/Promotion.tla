----------------------------- MODULE Promotion ------------------------------
(***************************************************************************)
(* Phases 1 to 3 of the supervisor's iteration (supervisor/loop.py) with   *)
(* its rows in supervisor.db (checkpoint.py) and the search of one combo   *)
(* (autoresearch_runner.py): sweep the combos, promote the parameters of   *)
(* those whose deflated Sharpe ratio (DSR) clears the gate, roll back those*)
(* whose DSR fell, and after a death resume where the iteration stopped.   *)
(*                                                                         *)
(* A params.yaml is the combo it was searched for and the DSR that was     *)
(* measured of it: Low (below the floor), Mid, High (above the threshold)  *)
(* or Unproven, a candidate that no search finished measuring.             *)
(***************************************************************************)
EXTENDS Integers, Sequences, FiniteSets

CONSTANTS
  N,              \* number of combos; a combo is its place in ALL_COMBOS
  MAX_ITERATIONS, \* bound: rows of table iterations
  MAX_CRASHES     \* bound: deaths of the supervisor

ASSUME PromotionConstants ==
  /\ {N, MAX_ITERATIONS} \subseteq Nat \ {0}
  /\ MAX_CRASHES \in Nat

Combos == 1..N
Unproven == -1
Low == 0
Mid == 1
High == 2
Measured == {Low, Mid, High}

NoCombo == -1     \* last_combo_index is NULL
NoSnapshot == [combo |-> -1, dsr |-> Unproven]

VARIABLES
  pc,          \* where run() is; "off" when no supervisor runs
  idx,         \* the combo (phase 2) or the pair of the zip (phase 3) it is at
  results,     \* ar_results, in memory
  snapshot,    \* the snapshot file _promote_combo has just made
  iterations,  \* table iterations: status and last_combo_index, counted from 1
  runs,        \* table autoresearch_runs
  params,      \* combo -> DSR of what its own params.yaml holds
  base,        \* autoresearch/params.yaml, which the bot trades with
  crashes

db == <<iterations, runs>>
files == <<params, base>>
vars == <<pc, idx, results, snapshot, db, files, crashes>>

-----------------------------------------------------------------------------
Running == Len(iterations)   \* the iteration under way is the latest row

\* get_recent_runs_for_combo(n=1), get_last_promoted_run: ids of rows, 0 if none.
Newest(ids) == IF ids = {} THEN 0 ELSE CHOOSE i \in ids : \A j \in ids : j <= i
LastRun(c) == Newest({i \in DOMAIN runs : runs[i].combo = c})
LastPromotedRun(c) == Newest({i \in DOMAIN runs : runs[i].combo = c /\ runs[i].promoted = 1})

Content(c) == [combo |-> c, dsr |-> params[c]]

\* run_combo: the search ends with measured parameters in the combo's file and
\* returns their DSR, with a guard inferred from its log; or it fails (a timeout,
\* an exception) and may leave its candidate there.
RunCombo(c, result) ==
  \/ \E dsr \in Measured, guard \in {"PASS", "FAIL"} :
       /\ params' = [params EXCEPT ![c] = dsr]
       /\ result = [combo |-> c, dsr |-> dsr, ok |-> guard = "PASS"]
  \/ /\ \E left \in {params[c], Unproven} : params' = [params EXCEPT ![c] = left]
     /\ result = [combo |-> c, dsr |-> Unproven, ok |-> FALSE]

Results == [combo : Combos, dsr : Measured \cup {Unproven}, ok : BOOLEAN]

Init ==
  /\ pc = "off" /\ idx = 0 /\ results = << >> /\ snapshot = NoSnapshot
  /\ iterations = << >> /\ runs = << >>
  /\ params = [c \in Combos |-> Unproven]
  /\ base = [combo |-> 0, dsr |-> Unproven]
  /\ crashes = 0

\* Mutant: a resumed sweep starts with the combo it was at.
ResumeInfoSame ==
  LET row == iterations[Running]
  IN IF Running > 0 /\ row.status = "running" /\ row.last # NoCombo
     THEN [resume |-> TRUE, start |-> row.last] ELSE [resume |-> FALSE, start |-> 1]

\* _resume_info: the latest row is resumed when it is still running and a combo
\* was begun, after that combo.
ResumeInfo ==
  LET row == iterations[Running]
  IN IF Running > 0 /\ row.status = "running" /\ row.last # NoCombo
     THEN [resume |-> TRUE, start |-> row.last + 1] ELSE [resume |-> FALSE, start |-> 1]

\* An iteration begins: its row is created or taken up again.
BeginIteration ==
  /\ pc \in {"off", "sleep"}
  /\ ~ResumeInfo.resume => Running < MAX_ITERATIONS
  /\ iterations' = IF ResumeInfo.resume THEN iterations
                   ELSE Append(iterations, [status |-> "running", last |-> NoCombo])
  /\ pc' = "phase1"
  /\ idx' = ResumeInfo.start
  /\ UNCHANGED <<results, snapshot, runs, files, crashes>>

\* Phase 1: without the bridge, or with --skip-autoresearch, phases 2 and 3 are
\* left out.
MarketCheck ==
  /\ pc = "phase1"
  /\ \/ pc' = "sweep" /\ UNCHANGED idx
     \/ pc' = "late" /\ idx' = 0
  /\ UNCHANGED <<results, snapshot, db, files, crashes>>

\* Phase 2: the row says which combo is begun, before it is searched.
BeginCombo ==
  /\ pc = "sweep" /\ idx <= N
  /\ iterations' = [iterations EXCEPT ![Running].last = idx]
  /\ pc' = "search"
  /\ UNCHANGED <<idx, results, snapshot, runs, files, crashes>>

\* Mutant: a search that failed leaves no result.
SearchComboDrops ==
  /\ pc = "search"
  /\ \E result \in Results :
       /\ RunCombo(idx, result)
       /\ results' = IF result.dsr = Unproven THEN results ELSE Append(results, result)
  /\ pc' = "record"
  /\ UNCHANGED <<idx, snapshot, db, base, crashes>>

SearchCombo ==
  /\ pc = "search"
  /\ \E result \in Results :
       RunCombo(idx, result) /\ results' = Append(results, result)
  /\ pc' = "record"
  /\ UNCHANGED <<idx, snapshot, db, base, crashes>>

\* insert_autoresearch_run
RecordRun ==
  /\ pc = "record"
  /\ runs' = Append(runs, [iteration |-> Running, combo |-> idx,
                           promoted |-> 0, snapshot |-> NoSnapshot])
  /\ pc' = "sweep"
  /\ idx' = idx + 1
  /\ UNCHANGED <<results, snapshot, iterations, files, crashes>>

EndSweep ==
  /\ pc = "sweep" /\ idx > N
  /\ pc' = "check" /\ idx' = 1
  /\ UNCHANGED <<results, snapshot, db, files, crashes>>

-----------------------------------------------------------------------------
(* Phase 3: for combo, result in zip(combos, ar_results).                  *)

\* _rollback_if_needed: a combo with a promoted run is searched once more, and
\* when its DSR is below the floor the snapshot of that run becomes the base, unless the
\* snapshot file is missing.
CheckRollback ==
  /\ pc = "check" /\ idx <= Len(results)
  /\ IF LastPromotedRun(idx) = 0
     THEN pc' = "gate" /\ UNCHANGED files
     ELSE \E again \in Results :
            /\ RunCombo(idx, again)
            /\ \/ again.dsr = Low
                  /\ base' = runs[LastPromotedRun(idx)].snapshot /\ pc' = "demote"
               \/ pc' = "gate" /\ UNCHANGED base
  /\ UNCHANGED <<idx, results, snapshot, db, crashes>>

RecordRollback ==
  /\ pc = "demote"
  /\ runs' = [runs EXCEPT ![LastPromotedRun(idx)].promoted = -1]
  /\ pc' = "gate"
  /\ UNCHANGED <<idx, results, snapshot, iterations, files, crashes>>

\* _promote_combo: the gate looks at the sweep's result; the base is copied to a
\* snapshot, the combo's file over the base.
PromoteCombo ==
  /\ pc = "gate"
  /\ IF LastRun(idx) # 0 /\ results[idx].dsr = High /\ results[idx].ok
     THEN base' = Content(idx) /\ snapshot' = base /\ pc' = "mark" /\ UNCHANGED idx
     ELSE pc' = "check" /\ idx' = idx + 1 /\ UNCHANGED <<base, snapshot>>
  /\ UNCHANGED <<results, db, params, crashes>>

\* update_autoresearch_run: the run is promoted, and where the snapshot is.
RecordPromotion ==
  /\ pc = "mark"
  /\ runs' = [runs EXCEPT ![LastRun(idx)].promoted = 1, ![LastRun(idx)].snapshot = snapshot]
  /\ pc' = "check" /\ idx' = idx + 1
  /\ snapshot' = NoSnapshot
  /\ UNCHANGED <<results, iterations, files, crashes>>

EndPromotions ==
  /\ pc = "check" /\ idx > Len(results)
  /\ pc' = "late" /\ idx' = 0 /\ results' = << >>
  /\ UNCHANGED <<snapshot, db, files, crashes>>

\* Phases 4 to 8: they touch neither table until the row is complete.
CompleteIteration ==
  /\ pc = "late"
  /\ iterations' = [iterations EXCEPT ![Running].status = "complete"]
  /\ pc' = "sleep"
  /\ UNCHANGED <<idx, results, snapshot, runs, files, crashes>>

\* SIGTERM is seen between iterations, as is --once.
Shutdown ==
  /\ pc = "sleep"
  /\ pc' = "off"
  /\ UNCHANGED <<idx, results, snapshot, db, files, crashes>>

\* The process dies, or an exception leaves run(); a search that was under way
\* may leave its candidate in the combo's file.
Crash ==
  /\ pc \notin {"off", "sleep"} /\ crashes < MAX_CRASHES
  /\ crashes' = crashes + 1
  /\ pc' = "off" /\ idx' = 0 /\ results' = << >> /\ snapshot' = NoSnapshot
  /\ \/ UNCHANGED params
     \/ pc = "search" /\ params' = [params EXCEPT ![idx] = Unproven]
  /\ UNCHANGED <<db, base>>

Next ==
  \/ BeginIteration \/ MarketCheck
  \/ BeginCombo \/ SearchCombo \/ RecordRun \/ EndSweep
  \/ CheckRollback \/ RecordRollback \/ PromoteCombo \/ RecordPromotion \/ EndPromotions
  \/ CompleteIteration \/ Shutdown \/ Crash

Spec == Init /\ [][Next]_vars

-----------------------------------------------------------------------------
\* An iteration records each combo at most once, however often it is interrupted
\* and resumed: last_combo_index is written before the combo is searched, and the
\* sweep goes on after it.
OneRunPerCombo ==
  \A i, j \in DOMAIN runs :
    (runs[i].iteration = runs[j].iteration /\ runs[i].combo = runs[j].combo) => i = j

NeverPromoted(c) == \A i \in DOMAIN runs : runs[i].combo = c => runs[i].promoted = 0

\* While no iteration is interrupted, the first parameters of a combo that get into
\* the base are its own, and those whose DSR cleared the gate: every search, failed
\* ones included, leaves one result in the order of the combos, and phase 3 pairs
\* results and combos by place alone (_phase3_promotions).
\* Only the first: a combo promoted before is searched again for the rollback, and
\* that search's parameters are in its file when the gate looks at the sweep's score.
FirstPromotionEarned ==
  [][(crashes = 0 /\ pc = "gate" /\ NeverPromoted(idx) /\ base' # base)
       => base' = [combo |-> idx, dsr |-> High]]_vars

=============================================================================
