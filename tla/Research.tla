------------------------------ MODULE Research ------------------------------
(***************************************************************************)
(* research/pipeline: one agent per book (book_agent.py) drives it through *)
(* read, extract, spec, backtest and adr under a semaphore, saving its     *)
(* checkpoint as it goes; the orchestrator starts the agents and then the  *)
(* coordinator, which ranks all trials.  Agents are coroutines of one      *)
(* thread, their backtests run in threads of their own; the process may be *)
(* killed anywhere and is started again, in dry runs as well.              *)
(*                                                                         *)
(* A strategy is its name, in lower case, and its number of parameters; a  *)
(* chunk holds one or none.  A saved one is always read back: it was       *)
(* validated by the schema that wrote it, and the schema does not change.  *)
(* Numbers are left out: a result is its SR id, a deflated Sharpe ratio    *)
(* the number of trials it is over, and the ranking is not modelled.       *)
(***************************************************************************)
EXTENDS Integers, Sequences, SequencesExt, FiniteSets

CONSTANTS
  BOOKS,        \* length of BOOK_LIST
  CHUNKS,       \* book -> its number of chunks
  PARAMETERS,   \* book -> numbers of parameters its strategies may have
  SLOTS,        \* CONCURRENCY
  MAX_RUNS,     \* bound: runs of the orchestrator
  MAX_CRASHES   \* bound: of them killed

ASSUME ResearchConstants ==
  /\ {BOOKS, SLOTS} \subseteq Nat \ {0} /\ CHUNKS \in [1..BOOKS -> Nat \ {0}]
  /\ PARAMETERS \in [1..BOOKS -> SUBSET Nat] /\ {MAX_RUNS, MAX_CRASHES} \subseteq Nat

Books == 1..BOOKS
Pending == 0                 \* DSR_PENDING
Terminal == {"complete", "complete_no_strategies", "failed"}
Fresh == [status |-> "pending", phases |-> {}, chunks_done |-> 0,
          strategies |-> << >>, specs |-> << >>, results |-> << >>]

VARIABLES
  run,       \* "off", "agents" or "coordinate"
  dry,       \* --dry-run
  at,        \* book -> where its agent stands; "none" if it has none
  mapped,    \* book -> mapped_list: [sr, book, strategy]
  results,   \* book -> results: SR ids
  current,   \* book -> the SR id under test
  opened,    \* book -> which trial log its thread has open
  cp,        \* book -> agent_<slug>_state.json; status "pending" if there is none
  counter,   \* _sr_counter.json
  specs,     \* strategy_specs/: [sr, book, strategy]
  log,       \* trial_log.tsv: SR ids
  created,   \* times trial_log.tsv was put in place; 0 if it is missing
  tmp,       \* trial_log.tsv.tmp is there
  adrs,      \* notes: [sr, book, strategy] -> pool of its DSR, or Pending
  pointers,  \* lines of MEMORY.md: [sr, book, strategy], repeats aside
  runs, crashes,
  answered,  \* history: book -> chunks whose answer was saved
  found,     \* history: book -> strategies in those answers
  torn       \* history: books that left a run between two of their backtests

agent == <<at, mapped, results, current, opened>>
trials == <<log, created, tmp>>
notes == <<adrs, pointers>>
bounds == <<runs, crashes>>
history == <<answered, found, torn>>
vars == <<run, dry, agent, cp, counter, specs, trials, notes, bounds, history>>

NoneOf(x) == [b \in Books |-> x]

Init ==
  /\ run = "off" /\ dry = FALSE
  /\ at = NoneOf("none") /\ mapped = NoneOf(<< >>) /\ results = NoneOf(<< >>)
  /\ current = NoneOf(0) /\ opened = NoneOf(0)
  /\ cp = NoneOf(Fresh) /\ counter = 1 /\ specs = {}
  /\ log = << >> /\ created = 0 /\ tmp = FALSE
  /\ adrs = << >> /\ pointers = {}
  /\ runs = 0 /\ crashes = 0
  /\ answered = NoneOf({}) /\ found = NoneOf({}) /\ torn = {}

Goto(b, where) == at' = [at EXCEPT ![b] = where]

\* save_checkpoint, which replaces the file in one step.
SaveAs(b, status, changed) == cp' = [cp EXCEPT ![b] = [changed EXCEPT !.status = status]]
Save(b, changed) == SaveAs(b, "in_progress", changed)

Done(b, phase) == phase \in cp[b].phases
Marked(b, phase) == [cp[b] EXCEPT !.phases = @ \cup {phase}]

\* The agents of a run are gone.
NoAgents ==
  /\ at' = NoneOf("none") /\ mapped' = NoneOf(<< >>) /\ results' = NoneOf(<< >>)
  /\ current' = NoneOf(0) /\ opened' = NoneOf(0)
  /\ torn' = torn \cup {b \in Books :
       cp[b].status = "in_progress" /\ ~Done(b, "backtest") /\ cp[b].results # << >>}

-----------------------------------------------------------------------------
(* orchestrator.py *)

\* _run_all_agents over the first n books: a task for each that is not complete.
Launch(n) ==
  /\ run = "off" /\ runs < MAX_RUNS
  /\ runs' = runs + 1 /\ run' = "agents" /\ dry' \in BOOLEAN
  /\ at' = [b \in Books |->
       IF b <= n /\ cp[b].status \notin {"complete", "complete_no_strategies"}
       THEN "waiting" ELSE "none"]
  /\ UNCHANGED <<mapped, results, current, opened, cp, counter, specs, trials, notes, crashes, history>>

\* Mutant: the orchestrator waits for agents that raised, too.
AgentsDoneRaised ==
  /\ run = "agents" /\ \A b \in Books : at[b] \in {"none", "ended"}
  /\ run' = IF dry THEN "off" ELSE "coordinate"
  /\ dry' = FALSE /\ NoAgents
  /\ UNCHANGED <<cp, counter, specs, trials, notes, bounds, answered, found>>

\* gather(return_exceptions=True) returns when every task has ended or raised; a
\* dry run leaves the coordinator out.
AgentsDone ==
  /\ run = "agents" /\ \A b \in Books : at[b] \in {"none", "ended", "raised"}
  /\ run' = IF dry THEN "off" ELSE "coordinate"
  /\ dry' = FALSE /\ NoAgents
  /\ UNCHANGED <<cp, counter, specs, trials, notes, bounds, answered, found>>

-----------------------------------------------------------------------------
(* coordinator.py *)

\* _backfill_dsr: find_adr takes one note of each SR id in the log, and
\* update_dsr_in_adr fills it in where the placeholder still stands.
Backfilled(chosen) ==
  [a \in DOMAIN adrs |-> IF a \in chosen /\ adrs[a] = Pending THEN Len(log) ELSE adrs[a]]

\* One note at most for each SR id in the log.
Chosen == {c \in SUBSET {a \in DOMAIN adrs : a.sr \in ToSet(log)} :
             \A a, d \in c : a.sr = d.sr => a = d}
Refused == log # << >> /\ \E b \in Books : cp[b].status \notin Terminal \cup {"pending"}

\* run_coordinator: nothing to rank, an agent that is not in a terminal state, or
\* the notes are filled in, each that has trials.
Coordinate ==
  /\ run = "coordinate" /\ run' = "off"
  /\ \/ Refused /\ UNCHANGED adrs
     \/ /\ ~Refused
        /\ \E chosen \in Chosen :
             /\ {a.sr : a \in chosen} = {a.sr : a \in DOMAIN adrs} \cap ToSet(log)
             /\ adrs' = Backfilled(chosen)
  /\ UNCHANGED <<dry, agent, cp, counter, specs, trials, pointers, bounds, history>>

\* --coordinator-only
CoordinatorOnly ==
  /\ run = "off" /\ runs < MAX_RUNS
  /\ runs' = runs + 1 /\ run' = "coordinate" /\ dry' = FALSE
  /\ UNCHANGED <<agent, cp, counter, specs, trials, notes, crashes, history>>

-----------------------------------------------------------------------------
(* book_agent.py: phases read, extract and spec *)

\* Agents inside "async with semaphore".
Holding == {b \in Books : at[b] \notin {"none", "waiting", "ended", "raised"}}

\* The semaphore is acquired and the book read; a book without text ends here.
ReadBook(b) ==
  /\ at[b] = "waiting" /\ Cardinality(Holding) < SLOTS
  /\ \/ /\ IF Done(b, "read") THEN UNCHANGED cp ELSE Save(b, Marked(b, "read"))
        /\ Goto(b, "extract")
     \/ SaveAs(b, "failed", Marked(b, "read")) /\ Goto(b, "ended")
  /\ UNCHANGED <<run, dry, mapped, results, current, opened, counter, specs, trials, notes, bounds, history>>

\* A dry run counts the chunk without asking.
SkipChunk(b) ==
  /\ at[b] = "extract" /\ dry /\ cp[b].chunks_done < CHUNKS[b]
  /\ Save(b, [cp[b] EXCEPT !.chunks_done = @ + 1])
  /\ UNCHANGED <<run, dry, agent, counter, specs, trials, notes, bounds, history>>

\* extract_chunk asks for the next chunk.
AskModel(b) ==
  /\ at[b] = "extract" /\ ~dry /\ cp[b].chunks_done < CHUNKS[b]
  /\ Goto(b, "call")
  /\ UNCHANGED <<run, dry, mapped, results, current, opened, cp, counter, specs, trials, notes, bounds, history>>

Names(strategies) == {strategies[i].name : i \in DOMAIN strategies}

\* Mutant: of two strategies of one name the first stays, whatever it has.
DedupedFirst(strategies, new) ==
  IF new.name \notin Names(strategies) THEN Append(strategies, new) ELSE strategies

\* _dedup_candidates: of two strategies of one name the one with more parameters stays,
\* in the place of the first.
Deduped(strategies, new) ==
  IF new.name \notin Names(strategies) THEN Append(strategies, new)
  ELSE [i \in DOMAIN strategies |->
         IF strategies[i].name = new.name /\ new.parameters > strategies[i].parameters
         THEN new ELSE strategies[i]]

\* The answer, after a second request if the first was no JSON, is saved with the
\* count of chunks: no strategy, or one of a new name or of a name there is.
ModelAnswers(b) ==
  /\ at[b] = "call"
  /\ LET chunk == cp[b].chunks_done + 1
         old == cp[b].strategies
     IN  /\ \/ /\ Save(b, [cp[b] EXCEPT !.chunks_done = chunk])
               /\ UNCHANGED found
            \/ \E name \in {chunk} \cup Names(old), n \in PARAMETERS[b] :
                 LET new == [name |-> name, parameters |-> n] IN
                 /\ Save(b, [cp[b] EXCEPT !.chunks_done = chunk, !.strategies = Deduped(old, new)])
                 /\ found' = [found EXCEPT ![b] = @ \cup {new}]
         /\ answered' = [answered EXCEPT ![b] = @ \cup {chunk}]
  /\ Goto(b, "extract")
  /\ UNCHANGED <<run, dry, mapped, results, current, opened, counter, specs, trials, notes, bounds, torn>>

\* The last retry fails too: the exception ends the agent, and its checkpoint
\* stays as it was saved last.
ModelRaises(b) ==
  /\ at[b] = "call" /\ Goto(b, "raised")
  /\ UNCHANGED <<run, dry, mapped, results, current, opened, cp, counter, specs, trials, notes, bounds, history>>

\* Without strategies the agent is through; so is a dry run, as complete.
EndExtract(b) ==
  /\ at[b] = "extract" /\ cp[b].chunks_done = CHUNKS[b]
  /\ CASE cp[b].strategies = << >> ->
            SaveAs(b, "complete_no_strategies", Marked(b, "extract")) /\ Goto(b, "ended")
       [] cp[b].strategies # << >> /\ dry ->
            /\ SaveAs(b, "complete", [Marked(b, "extract") EXCEPT !.phases = @ \cup {"spec"}])
            /\ Goto(b, "ended")
       [] OTHER ->
            /\ IF Done(b, "extract") THEN UNCHANGED cp ELSE Save(b, Marked(b, "extract"))
            /\ Goto(b, "spec")
  /\ UNCHANGED <<run, dry, mapped, results, current, opened, counter, specs, trials, notes, bounds, history>>

\* write_spec of the first k strategies, each under the next SR id.
Specs(b, k) ==
  [i \in 1..k |-> [sr |-> counter + i - 1, book |-> b, strategy |-> cp[b].strategies[i]]]

\* Phase spec: nothing else runs in the meantime, and it is saved at its end.
WriteSpecs(b) ==
  LET n == Len(cp[b].strategies) IN
  /\ at[b] = "spec" /\ ~Done(b, "spec")
  /\ mapped' = [mapped EXCEPT ![b] = Specs(b, n)]
  /\ specs' = specs \cup ToSet(Specs(b, n)) /\ counter' = counter + n
  /\ Save(b, [Marked(b, "spec") EXCEPT !.specs = @ \o [i \in 1..n |-> counter + i - 1]])
  /\ Goto(b, "backtest")
  /\ UNCHANGED <<run, dry, results, current, opened, trials, notes, bounds, history>>

\* A resumed agent pairs strategies and spec files by place.
ReloadSpecs(b) ==
  /\ at[b] = "spec" /\ Done(b, "spec")
  /\ mapped' = [mapped EXCEPT ![b] = [i \in 1..Len(cp[b].specs) |->
       [sr |-> cp[b].specs[i], book |-> b, strategy |-> cp[b].strategies[i]]]]
  /\ Goto(b, "backtest")
  /\ UNCHANGED <<run, dry, results, current, opened, cp, counter, specs, trials, notes, bounds, history>>

-----------------------------------------------------------------------------
(* backtest_runner.py, in a thread of the agent, and phase backtest *)

Saved(b) == ToSet(cp[b].results)
\* Places in mapped_list.
Untested(b) == {i \in DOMAIN mapped[b] : mapped[b][i].sr \notin Saved(b)}

\* The engine on the next strategy without a saved result: it has no spec, takes too
\* long or prints no Sharpe ratio (an error result, which is no trial), or prints one.
NextBacktest(b) ==
  /\ at[b] = "backtest" /\ ~Done(b, "backtest")
  /\ \E i \in Untested(b) :
       /\ \A j \in Untested(b) : i <= j
       /\ current' = [current EXCEPT ![b] = mapped[b][i].sr]
  /\ Goto(b, "failed") \/ Goto(b, "header")
  /\ UNCHANGED <<run, dry, mapped, results, opened, cp, counter, specs, trials, notes, bounds, history>>

\* _ensure_trial_log_header.
CheckHeader(b) ==
  /\ at[b] = "header" /\ Goto(b, IF created = 0 THEN "tmp" ELSE "open")
  /\ UNCHANGED <<run, dry, mapped, results, current, opened, cp, counter, specs, trials, notes, bounds, history>>

WriteTmp(b) ==
  /\ at[b] = "tmp" /\ tmp' = TRUE /\ Goto(b, "replace")
  /\ UNCHANGED <<run, dry, mapped, results, current, opened, cp, counter, specs, log, created, notes, bounds, history>>

\* The rename puts an empty log in place, over one that is there; without the
\* temporary file, which another thread has renamed, it raises.
ReplaceLog(b) ==
  /\ at[b] = "replace"
  /\ IF tmp
     THEN log' = << >> /\ created' = created + 1 /\ tmp' = FALSE /\ Goto(b, "open")
     ELSE Goto(b, "raised") /\ UNCHANGED trials
  /\ UNCHANGED <<run, dry, mapped, results, current, opened, cp, counter, specs, notes, bounds, history>>

\* append_trial_log opens the log that is there now ...
OpenLog(b) ==
  /\ at[b] = "open" /\ opened' = [opened EXCEPT ![b] = created]
  /\ Goto(b, "row")
  /\ UNCHANGED <<run, dry, mapped, results, current, cp, counter, specs, trials, notes, bounds, history>>

\* ... and adds its row to it, seen by nobody if it was replaced.
AppendRow(b) ==
  /\ at[b] = "row" /\ Goto(b, "tested")
  /\ log' = IF opened[b] = created THEN Append(log, current[b]) ELSE log
  /\ UNCHANGED <<run, dry, mapped, results, current, opened, cp, counter, specs, created, tmp, notes, bounds, history>>

\* Mutant: an error result is saved, and not taken along.
SaveResultError(b) ==
  /\ at[b] \in {"tested", "failed"}
  /\ Save(b, [cp[b] EXCEPT !.results = Append(@, current[b])])
  /\ results' = [results EXCEPT ![b] = IF at[b] = "tested" THEN Append(@, current[b]) ELSE @]
  /\ Goto(b, "backtest")
  /\ UNCHANGED <<run, dry, mapped, current, opened, counter, specs, trials, notes, bounds, history>>

\* Back in the agent, which saves each result.
SaveResult(b) ==
  /\ at[b] \in {"tested", "failed"}
  /\ Save(b, [cp[b] EXCEPT !.results = Append(@, current[b])])
  /\ results' = [results EXCEPT ![b] = Append(@, current[b])]
  /\ Goto(b, "backtest")
  /\ current' = [current EXCEPT ![b] = 0] /\ opened' = [opened EXCEPT ![b] = 0]
  /\ UNCHANGED <<run, dry, mapped, counter, specs, trials, notes, bounds, history>>

EndBacktests(b) ==
  /\ at[b] = "backtest" /\ ~Done(b, "backtest") /\ Untested(b) = {}
  /\ Save(b, Marked(b, "backtest")) /\ Goto(b, "adr")
  /\ UNCHANGED <<run, dry, mapped, results, current, opened, counter, specs, trials, notes, bounds, history>>

\* The n-th of the places with a saved result.
Tested(b) == DOMAIN mapped[b] \ Untested(b)
NthTested(b, n) == CHOOSE i \in Tested(b) : Cardinality({j \in Tested(b) : j <= i}) = n

ReloadResults(b) ==
  /\ at[b] = "backtest" /\ Done(b, "backtest")
  /\ results' = [results EXCEPT ![b] =
       [n \in 1..Cardinality(Tested(b)) |-> mapped[b][NthTested(b, n)].sr]]
  /\ Goto(b, "adr")
  /\ UNCHANGED <<run, dry, mapped, current, opened, cp, counter, specs, trials, notes, bounds, history>>

-----------------------------------------------------------------------------
(* Phase adr, and the end of a run *)

\* write_adr of the first k of zip(mapped_list, results): the note has the
\* result's SR id and the strategy's name, and its DSR is the placeholder (again).
Adrs(b, k) == {[mapped[b][i] EXCEPT !.sr = results[b][i]] : i \in 1..k}
WithAdrs(new) == [a \in DOMAIN adrs \cup new |-> IF a \in new THEN Pending ELSE adrs[a]]
Pairs(b) == IF Len(mapped[b]) < Len(results[b]) THEN Len(mapped[b]) ELSE Len(results[b])

\* The phase and the status are saved at the end.
WriteAdrs(b) ==
  /\ at[b] = "adr"
  /\ adrs' = WithAdrs(Adrs(b, Pairs(b)))
  /\ pointers' = pointers \cup {mapped[b][i] : i \in 1..Pairs(b)}
  /\ SaveAs(b, "complete", Marked(b, "adr")) /\ Goto(b, "ended")
  /\ UNCHANGED <<run, dry, mapped, results, current, opened, counter, specs, trials, bounds, history>>

\* Mutant: the spec file is written before the counter is.
HalfSpecsEarly(b) ==
  \E k \in 0..Len(cp[b].strategies), early \in {0, 1} :
    /\ k + early <= Len(cp[b].strategies)
    /\ counter' = counter + k /\ specs' = specs \cup ToSet(Specs(b, k + early))
    /\ UNCHANGED <<adrs, pointers>>

\* What a kill leaves of a phase it interrupts: SR ids that are used up, the last
\* of them with or without its spec file ...
HalfSpecs(b) ==
  \E k \in 0..Len(cp[b].strategies), late \in {0, 1} :
    /\ late <= k
    /\ counter' = counter + k /\ specs' = specs \cup ToSet(Specs(b, k - late))
    /\ UNCHANGED <<adrs, pointers>>

\* ... or some of the notes.
HalfAdrs(b) ==
  \E k \in 0..Pairs(b) :
    /\ adrs' = WithAdrs(Adrs(b, k)) /\ pointers' = pointers \cup {mapped[b][i] : i \in 1..k}
    /\ UNCHANGED <<counter, specs>>

\* The process is killed; a coordinator may have filled in some notes.
Crash ==
  /\ run # "off" /\ crashes < MAX_CRASHES
  /\ crashes' = crashes + 1 /\ run' = "off" /\ dry' = FALSE
  /\ \/ UNCHANGED <<counter, specs, adrs, pointers>>
     \/ \E b \in Books : at[b] = "spec" /\ ~Done(b, "spec") /\ HalfSpecs(b)
     \/ \E b \in Books : at[b] = "adr" /\ HalfAdrs(b)
     \/ /\ run = "coordinate" /\ ~Refused
        /\ \E chosen \in Chosen : adrs' = Backfilled(chosen)
        /\ UNCHANGED <<counter, specs, pointers>>
  /\ NoAgents
  /\ UNCHANGED <<cp, trials, runs, answered, found>>

-----------------------------------------------------------------------------
AgentStep(b) ==
  \/ ReadBook(b) \/ SkipChunk(b) \/ AskModel(b) \/ ModelAnswers(b) \/ ModelRaises(b)
  \/ EndExtract(b) \/ WriteSpecs(b) \/ ReloadSpecs(b)
  \/ NextBacktest(b) \/ CheckHeader(b) \/ WriteTmp(b) \/ ReplaceLog(b)
  \/ OpenLog(b) \/ AppendRow(b) \/ SaveResult(b) \/ EndBacktests(b) \/ ReloadResults(b)
  \/ WriteAdrs(b)

Next ==
  \/ \E n \in Books : Launch(n)
  \/ AgentsDone \/ Coordinate \/ CoordinatorOnly
  \/ \E b \in Books : AgentStep(b)
  \/ Crash

Spec == Init /\ [][Next]_vars

\* The event loop runs every agent that can go on, an engine is stopped after 600
\* seconds, and a call to the model answers or raises after its last retry.
FairSpec ==
  /\ Spec /\ WF_vars(AgentsDone) /\ WF_vars(Coordinate)
  /\ \A b \in Books : WF_vars(AgentStep(b))

-----------------------------------------------------------------------------
(* Properties *)

\* Among the strategies is one of this name with no fewer parameters.
Kept(strategies, strategy) ==
  \E i \in DOMAIN strategies :
    /\ strategies[i].name = strategy.name
    /\ strategies[i].parameters >= strategy.parameters

\* A chunk whose answer was saved is never sent to the model again, and each strategy in
\* it stays in the checkpoint, or one of its name with no fewer parameters, whatever is
\* killed, raises or runs dry: the resume that book_agent.py (lines 5-7) promises, and
\* what _dedup_candidates (lines 289-298) says it keeps.
AnswersKept ==
  \A b \in Books :
    /\ at[b] = "call" => cp[b].chunks_done + 1 \notin answered[b]
    /\ \A strategy \in found[b] : Kept(cp[b].strategies, strategy)

\* An SR id is never given to two spec files, those a kill left behind included:
\* next_sr_id bumps the counter on disk before write_spec uses the number.
SpecIdsUnique == \A s, t \in specs : s.sr = t.sr => s = t

\* The note of an SR id describes the strategy of that id's spec file, in every
\* book that did not leave a run, killed or by an error, between two backtests: the agent pairs its
\* strategies with the results of this run by place, errors included.
AdrOfOwnStrategy == \A a \in DOMAIN adrs : a \in specs \/ a.book \in torn

\* Every run of the orchestrator comes to its end, though agents raise, engines
\* fail and books wait for a place.
RunEnds == run # "off" ~> run = "off"

=============================================================================
