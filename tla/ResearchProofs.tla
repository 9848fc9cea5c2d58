--------------------------- MODULE ResearchProofs ----------------------------
(***************************************************************************)
(* What an agent keeps of its book, for every number of books, chunks and  *)
(* places and however often agents raise or the process is killed: saved   *)
(* answers, the numbers of the spec files, and whose result a note has.    *)
(***************************************************************************)
EXTENDS Research, FiniteSetTheorems, SequenceTheorems, TLAPS

Phases == {"read", "extract", "spec", "backtest", "adr"}
Strategies == [name : Nat, parameters : Nat]
Checkpoint == [status : Terminal \cup {"pending", "in_progress"}, phases : SUBSET Phases,
               chunks_done : Nat, strategies : Seq(Strategies), specs : Seq(Nat), results : Seq(Nat)]
SpecRecords == [sr : Nat, book : Books, strategy : Strategies]

\* Where an agent stands before its spec files are read or written, while one of them is
\* tested, and from the first test on.
Early == {"none", "waiting", "extract", "call", "spec"}
InTest == {"header", "tmp", "replace", "open", "row", "tested", "failed"}
Late == InTest \cup {"backtest", "adr"}
Gone == {"none", "ended", "raised"}

AgentsTyped ==
  /\ at \in [Books -> Early \cup Late \cup Gone]
  /\ mapped \in [Books -> Seq(SpecRecords)]
  /\ results \in [Books -> Seq(Nat)]
  /\ current \in [Books -> Nat]
  /\ cp \in [Books -> Checkpoint]
  /\ counter \in Nat
  /\ answered \in [Books -> SUBSET Nat]
  /\ found \in [Books -> SUBSET Strategies]

-----------------------------------------------------------------------------
(* An agent, its checkpoint and the spec files. *)

\* The spec file that the checkpoint names for the i-th strategy.
SpecOf(b, i) == [sr |-> cp[b].specs[i], book |-> b, strategy |-> cp[b].strategies[i]]

\* Only unused numbers are left for spec files to come.
NumbersUsed ==
  /\ \A s \in specs : s.sr \in Nat /\ s.sr < counter
  /\ SpecIdsUnique

\* Answers counted, and none asked for when all have been.
Chunks(b) ==
  /\ at[b] = "call" => cp[b].chunks_done < CHUNKS[b]
  /\ at[b] = "spec" => cp[b].chunks_done = CHUNKS[b]
  /\ \A k \in answered[b] : k <= cp[b].chunks_done
  /\ \A s \in found[b] : Kept(cp[b].strategies, s)

\* A checkpoint that is through phase spec, though not complete, names a spec file of
\* each strategy; one that is not names none.
SpecsNamed(b) ==
  /\ ~Done(b, "spec") => cp[b].specs = << >> /\ at[b] \notin Late
  /\ Done(b, "spec") /\ cp[b].status # "complete" =>
       /\ cp[b].chunks_done = CHUNKS[b]
       /\ Len(cp[b].specs) = Len(cp[b].strategies)
       /\ \A i \in DOMAIN cp[b].specs : SpecOf(b, i) \in specs
       /\ \A i, j \in DOMAIN cp[b].specs : cp[b].specs[i] = cp[b].specs[j] => i = j
  /\ at[b] \notin Gone => cp[b].status # "complete"
  /\ at[b] \in Late => mapped[b] = [i \in DOMAIN cp[b].specs |-> SpecOf(b, i)]

\* Saved results are those of the first specs, in order, the one under test next.
ResultsInOrder(b) ==
  /\ Len(cp[b].results) <= Len(cp[b].specs)
  /\ \A i \in DOMAIN cp[b].results : cp[b].results[i] = cp[b].specs[i]
  /\ Done(b, "backtest") => Done(b, "spec") /\ Len(cp[b].results) = Len(cp[b].specs)
  /\ at[b] = "adr" => Done(b, "backtest")
  /\ at[b] \in InTest =>
       /\ ~Done(b, "backtest") /\ Len(cp[b].results) < Len(cp[b].specs)
       /\ current[b] = cp[b].specs[Len(cp[b].results) + 1]

\* The results of this run are all that were saved, except in a book that left a run
\* between two backtests.
ResultsOfRun(b) ==
  /\ at[b] \in Early => results[b] = << >>
  /\ b \notin torn /\ ~Done(b, "backtest") =>
       /\ results[b] = cp[b].results
       /\ results[b] # << >> => cp[b].status = "in_progress"
  /\ b \notin torn /\ at[b] = "adr" => results[b] = cp[b].specs

BookInv(b) == Chunks(b) /\ SpecsNamed(b) /\ ResultsInOrder(b) /\ ResultsOfRun(b)

ResearchInv ==
  /\ AgentsTyped
  /\ run # "agents" => at = NoneOf("none")
  /\ NumbersUsed
  /\ \A b \in Books : BookInv(b)
  /\ AdrOfOwnStrategy

-----------------------------------------------------------------------------
(* What a step leaves of the checkpoints, and which parts it cannot disturb. *)

LEMMA SavedAs ==
  ASSUME AgentsTyped, NEW b \in Books, NEW c \in Checkpoint,
         NEW s \in Terminal \cup {"pending", "in_progress"}, SaveAs(b, s, c)
  PROVE  /\ cp' \in [Books -> Checkpoint]
         /\ cp'[b].status = s /\ cp'[b].phases = c.phases /\ cp'[b].chunks_done = c.chunks_done
         /\ cp'[b].strategies = c.strategies /\ cp'[b].specs = c.specs /\ cp'[b].results = c.results
         /\ \A d \in Books \ {b} : cp'[d] = cp[d]
<1>1. [c EXCEPT !.status = s] \in Checkpoint
  BY DEF Checkpoint
<1> QED
  BY <1>1 DEF SaveAs, AgentsTyped, Checkpoint

LEMMA MarkedPhase ==
  ASSUME AgentsTyped, NEW b \in Books, NEW phase \in Phases
  PROVE  /\ Marked(b, phase) \in Checkpoint
         /\ Marked(b, phase).phases = cp[b].phases \cup {phase}
         /\ Marked(b, phase).status = cp[b].status
         /\ Marked(b, phase).chunks_done = cp[b].chunks_done
         /\ Marked(b, phase).strategies = cp[b].strategies
         /\ Marked(b, phase).specs = cp[b].specs /\ Marked(b, phase).results = cp[b].results
<1>1. cp[b] \in Checkpoint
  BY DEF AgentsTyped
<1>2. Marked(b, phase) \in Checkpoint
  BY <1>1 DEF Marked, Checkpoint
<1> QED
  BY <1>1, <1>2 DEF Marked, Checkpoint

\* The fields of one checkpoint.
LEMMA FieldsTyped ==
  ASSUME AgentsTyped, NEW b \in Books
  PROVE  /\ cp[b] \in Checkpoint /\ cp[b].phases \in SUBSET Phases
         /\ cp[b].status \in Terminal \cup {"pending", "in_progress"}
         /\ cp[b].chunks_done \in Nat /\ cp[b].strategies \in Seq(Strategies)
         /\ cp[b].specs \in Seq(Nat) /\ cp[b].results \in Seq(Nat)
<1>1. cp[b] \in Checkpoint
  BY DEF AgentsTyped
<1> QED
  BY <1>1 DEF Checkpoint

\* Dropping and replacing strategies of one name: each that was kept is kept, and so is
\* the new one.
LEMMA DedupedKeeps ==
  ASSUME NEW s \in Seq(Strategies), NEW new \in Strategies
  PROVE  /\ Deduped(s, new) \in Seq(Strategies)
         /\ \A x \in Strategies : Kept(s, x) => Kept(Deduped(s, new), x)
         /\ Kept(Deduped(s, new), new)
<1> DEFINE d == Deduped(s, new)
<1>0. /\ Len(s) \in Nat /\ DOMAIN s = 1..Len(s)
      /\ \A i \in DOMAIN s : s[i] \in Strategies /\ s[i].parameters \in Nat
      /\ new.parameters \in Nat
  <2>1. Len(s) \in Nat /\ DOMAIN s = 1..Len(s) /\ \A i \in DOMAIN s : s[i] \in Strategies
    OBVIOUS
  <2>2. \A x \in Strategies : x.parameters \in Nat
    BY DEF Strategies
  <2> QED
    BY <2>1, <2>2
<1>1. CASE new.name \notin Names(s)
  <2>1. d = Append(s, new)
    BY <1>1 DEF Deduped
  <2>2. /\ d \in Seq(Strategies) /\ DOMAIN d = 1..Len(s) + 1 /\ d[Len(s) + 1] = new
        /\ \A i \in DOMAIN s : i \in DOMAIN d /\ d[i] = s[i]
    BY <1>0, <2>1
  <2> HIDE DEF d
  <2> QED
    BY <1>0, <2>2 DEF Kept, d
<1>2. CASE new.name \in Names(s)
  <2>1. d = [i \in DOMAIN s |-> IF s[i].name = new.name /\ new.parameters > s[i].parameters
                               THEN new ELSE s[i]]
    BY <1>2 DEF Deduped
  <2>2. d \in Seq(Strategies) /\ DOMAIN d = DOMAIN s
    BY <1>0, <2>1
  <2>3. ASSUME NEW i \in DOMAIN s
        PROVE  d[i].name = s[i].name /\ d[i].parameters >= s[i].parameters
    BY <1>0, <2>1
  <2>4. ASSUME NEW i \in DOMAIN s, s[i].name = new.name
        PROVE  d[i].name = new.name /\ d[i].parameters >= new.parameters
    BY <1>0, <2>1, <2>4
  <2>5. PICK i \in DOMAIN s : s[i].name = new.name
    BY <1>2 DEF Names
  <2>6. \A k \in DOMAIN s : d[k].parameters \in Nat
    BY <1>0, <2>1
  <2> HIDE DEF d
  <2>7. Kept(d, new)
    BY <2>2, <2>4, <2>5 DEF Kept
  <2>8. ASSUME NEW x \in Strategies, Kept(s, x)
        PROVE  Kept(d, x)
    <3>1. PICK k \in DOMAIN s : s[k].name = x.name /\ s[k].parameters >= x.parameters
      BY <2>8 DEF Kept
    <3>2. d[k].name = x.name /\ d[k].parameters >= s[k].parameters /\ x.parameters \in Nat
      BY <2>3, <3>1 DEF Strategies
    <3>3. d[k].parameters >= x.parameters
      BY <1>0, <2>6, <3>1, <3>2
    <3> QED
      BY <2>2, <3>2, <3>3 DEF Kept
  <2> QED
    BY <2>2, <2>7, <2>8 DEF d
<1> QED
  BY <1>1, <1>2

\* A book that a step leaves alone.
LEMMA BookQuiet ==
  ASSUME NEW b \in Books, BookInv(b), torn' = torn, specs \subseteq specs',
         at'[b] = at[b], cp'[b] = cp[b], mapped'[b] = mapped[b], results'[b] = results[b],
         current'[b] = current[b], answered'[b] = answered[b], found'[b] = found[b]
  PROVE  BookInv(b)'
<1>1. Chunks(b)'
  BY DEF BookInv, Chunks
<1>2. SpecsNamed(b)'
  BY DEF BookInv, SpecsNamed, SpecOf, Done
<1>3. ResultsInOrder(b)'
  BY DEF BookInv, ResultsInOrder, Done
<1>4. ResultsOfRun(b)'
  BY DEF BookInv, ResultsOfRun, Done
<1> QED
  BY <1>1, <1>2, <1>3, <1>4 DEF BookInv

\* What a step of one agent has to show.
LEMMA OneAgent ==
  ASSUME ResearchInv, NEW b \in Books, at[b] # "none", run' = run, torn' = torn,
         specs \subseteq specs', AgentsTyped', NumbersUsed', AdrOfOwnStrategy', BookInv(b)',
         \A d \in Books \ {b} :
           /\ at'[d] = at[d] /\ cp'[d] = cp[d] /\ mapped'[d] = mapped[d]
           /\ results'[d] = results[d] /\ current'[d] = current[d]
           /\ answered'[d] = answered[d] /\ found'[d] = found[d]
  PROVE  ResearchInv'
<1>1. run = "agents"
  BY DEF ResearchInv, NoneOf
<1>2. \A d \in Books : BookInv(d)'
  BY BookQuiet DEF ResearchInv
<1> QED
  BY <1>1, <1>2 DEF ResearchInv

\* The spec files and the notes are left alone.
LEMMA FilesQuiet ==
  ASSUME ResearchInv, UNCHANGED <<counter, specs, adrs, torn>>
  PROVE  NumbersUsed' /\ AdrOfOwnStrategy'
BY DEF ResearchInv, NumbersUsed, SpecIdsUnique, AdrOfOwnStrategy

-----------------------------------------------------------------------------
(* The steps of an agent. *)

\* Steps that only move the agent on.
LEMMA AgentMoves ==
  ASSUME ResearchInv, NEW b \in Books, NEW where, Goto(b, where),
         UNCHANGED <<run, torn, mapped, results, current, cp, counter, specs, adrs, answered, found>>,
         \/ at[b] = "extract" /\ where = "call" /\ cp[b].chunks_done < CHUNKS[b]
         \/ at[b] = "call" /\ where = "raised"
         \/ at[b] \in InTest /\ where \in InTest \cup {"raised"}
  PROVE  ResearchInv'
<1>1. AgentsTyped /\ BookInv(b)
  BY DEF ResearchInv
<1>2. at[b] # "none" /\ at'[b] = where /\ \A d \in Books \ {b} : at'[d] = at[d]
  BY <1>1 DEF Goto, AgentsTyped, InTest
<1>3. AgentsTyped'
  BY <1>1, <1>2 DEF Goto, AgentsTyped, InTest, Early, Late, Gone
<1>4. NumbersUsed' /\ AdrOfOwnStrategy'
  BY FilesQuiet
<1>5. BookInv(b)'
  <2>1. Chunks(b)'
    BY <1>1, <1>2 DEF BookInv, Chunks, InTest
  <2>2. SpecsNamed(b)'
    BY <1>1, <1>2 DEF BookInv, SpecsNamed, SpecOf, Done, InTest, Late, Gone
  <2>3. ResultsInOrder(b)'
    BY <1>1, <1>2 DEF BookInv, ResultsInOrder, Done, InTest
  <2>4. ResultsOfRun(b)'
    BY <1>1, <1>2 DEF BookInv, ResultsOfRun, Done, InTest, Early
  <2> QED
    BY <2>1, <2>2, <2>3, <2>4 DEF BookInv
<1> QED
  BY <1>1, <1>2, <1>3, <1>4, <1>5, OneAgent

\* Reading the book: the phase is marked, or the agent has failed.
LEMMA ReadBookKeeps ==
  ASSUME ResearchInv, NEW b \in Books, ReadBook(b)
  PROVE  ResearchInv'
<1>1. AgentsTyped /\ BookInv(b)
  BY DEF ResearchInv
<1>2. /\ at[b] = "waiting" /\ at' \in [Books -> Early \cup Late \cup Gone]
      /\ at'[b] \in {"extract", "ended"} /\ \A d \in Books \ {b} : at'[d] = at[d]
  BY <1>1 DEF ReadBook, Goto, AgentsTyped, Early, Gone
<1>3. /\ cp' \in [Books -> Checkpoint] /\ \A d \in Books \ {b} : cp'[d] = cp[d]
      /\ Done(b, "spec")' = Done(b, "spec") /\ Done(b, "backtest")' = Done(b, "backtest")
      /\ cp'[b].chunks_done = cp[b].chunks_done /\ cp'[b].strategies = cp[b].strategies
      /\ cp'[b].specs = cp[b].specs /\ cp'[b].results = cp[b].results
      /\ cp'[b].status \in {cp[b].status, "in_progress", "failed"}
  <2>1. CASE UNCHANGED cp
    BY <1>1, <2>1 DEF AgentsTyped, Done
  <2>2. CASE \E s \in {"in_progress", "failed"} : SaveAs(b, s, Marked(b, "read"))
    BY <1>1, <2>2, SavedAs, MarkedPhase DEF Done, Terminal, Phases
  <2> QED
    BY <2>1, <2>2 DEF ReadBook, Save
<1>4. UNCHANGED <<run, torn, mapped, results, current, counter, specs, adrs, answered, found>>
  BY DEF ReadBook, bounds, history, notes
<1>5. AgentsTyped'
  BY <1>1, <1>2, <1>3, <1>4 DEF AgentsTyped
<1>6. NumbersUsed' /\ AdrOfOwnStrategy'
  BY <1>4, FilesQuiet
<1>7. BookInv(b)'
  <2>1. Chunks(b)'
    BY <1>1, <1>2, <1>3, <1>4 DEF BookInv, Chunks
  <2>2. SpecsNamed(b)'
    BY <1>1, <1>2, <1>3, <1>4 DEF BookInv, SpecsNamed, SpecOf, InTest, Late, Gone
  <2>3. ResultsInOrder(b)'
    BY <1>1, <1>2, <1>3, <1>4 DEF BookInv, ResultsInOrder, InTest
  <2>4. ResultsOfRun(b)'
    BY <1>1, <1>2, <1>3, <1>4 DEF BookInv, ResultsOfRun, Early
  <2> QED
    BY <2>1, <2>2, <2>3, <2>4 DEF BookInv
<1> QED
  BY <1>1, <1>2, <1>3, <1>4, <1>5, <1>6, <1>7, OneAgent

\* A chunk is counted, with the strategies of its answer in a real run.
LEMMA ChunkCountedKeeps ==
  ASSUME ResearchInv, NEW b \in Books, SkipChunk(b) \/ ModelAnswers(b)
  PROVE  ResearchInv'
<1>1. AgentsTyped /\ BookInv(b)
  BY DEF ResearchInv
<1>2. /\ at[b] \in {"extract", "call"} /\ at' \in [Books -> Early \cup Late \cup Gone]
      /\ at'[b] = "extract" /\ \A d \in Books \ {b} : at'[d] = at[d]
  BY <1>1 DEF SkipChunk, ModelAnswers, Goto, AgentsTyped, Early, agent
<1>3. cp[b].chunks_done # CHUNKS[b]
  <2>1. CHUNKS[b] \in Nat
    BY ResearchConstants DEF Books
  <2> QED
    <3>1. at[b] = "call" => cp[b].chunks_done < CHUNKS[b]
      BY <1>1 DEF BookInv, Chunks
    <3>2. at[b] = "call" \/ cp[b].chunks_done < CHUNKS[b]
      BY DEF SkipChunk, ModelAnswers
    <3>3. cp[b].chunks_done \in Nat
      BY <1>1, FieldsTyped
    <3> QED
      BY <2>1, <3>1, <3>2, <3>3
<1>4. ~Done(b, "spec")
  BY <1>1, <1>2, <1>3 DEF BookInv, SpecsNamed, Gone
<1>5. /\ cp' \in [Books -> Checkpoint] /\ \A d \in Books \ {b} : cp'[d] = cp[d]
      /\ Done(b, "spec")' = Done(b, "spec") /\ Done(b, "backtest")' = Done(b, "backtest")
      /\ cp'[b].chunks_done = cp[b].chunks_done + 1 /\ cp'[b].status = "in_progress"
      /\ cp'[b].specs = cp[b].specs /\ cp'[b].results = cp[b].results
      /\ \A s \in found'[b] : Kept(cp'[b].strategies, s)
      /\ answered'[b] \subseteq answered[b] \cup {cp[b].chunks_done + 1}
      /\ answered' \in [Books -> SUBSET Nat] /\ found' \in [Books -> SUBSET Strategies]
      /\ \A d \in Books \ {b} : answered'[d] = answered[d] /\ found'[d] = found[d]
  <2> DEFINE done == cp[b].chunks_done + 1
  <2>1. /\ done \in Nat /\ cp[b].strategies \in Seq(Strategies)
        /\ \A s \in found[b] : Kept(cp[b].strategies, s) /\ s \in Strategies
    BY <1>1, FieldsTyped DEF BookInv, Chunks, AgentsTyped
  <2>2. CASE SkipChunk(b)
    <3> DEFINE c == [cp[b] EXCEPT !.chunks_done = done]
    <3>1. SaveAs(b, "in_progress", c) /\ UNCHANGED <<answered, found>>
      BY <2>2 DEF SkipChunk, Save, history
    <3>2. /\ c \in Checkpoint /\ c.phases = cp[b].phases /\ c.chunks_done = done
          /\ c.strategies = cp[b].strategies /\ c.specs = cp[b].specs /\ c.results = cp[b].results
      BY <1>1, <2>1, FieldsTyped DEF Checkpoint
    <3> HIDE DEF c
    <3> QED
      BY <1>1, <2>1, <3>1, <3>2, SavedAs DEF Done, AgentsTyped
  <2>3. CASE ModelAnswers(b)
    <3> DEFINE old == cp[b].strategies
    <3>1. PICK kept \in Seq(Strategies), news \in SUBSET Strategies :
            /\ Save(b, [cp[b] EXCEPT !.chunks_done = done, !.strategies = kept])
            /\ found' = [found EXCEPT ![b] = @ \cup news]
            /\ answered' = [answered EXCEPT ![b] = @ \cup {done}]
            /\ \A s \in Strategies : Kept(old, s) => Kept(kept, s)
            /\ \A s \in news : Kept(kept, s)
      <4>1. CASE Save(b, [cp[b] EXCEPT !.chunks_done = done]) /\ UNCHANGED found
        <5>1. cp[b] \in Checkpoint /\ found \in [Books -> SUBSET Strategies]
          BY <1>1, FieldsTyped DEF AgentsTyped
        <5>2. [cp[b] EXCEPT !.chunks_done = done] = [cp[b] EXCEPT !.chunks_done = done, !.strategies = old]
          BY <5>1 DEF Checkpoint
        <5>3. found' = [found EXCEPT ![b] = @ \cup {}]
          BY <4>1, <5>1
        <5> QED
          BY <2>1, <2>3, <4>1, <5>2, <5>3 DEF ModelAnswers
      <4>2. ASSUME NEW name \in {done} \cup Names(old), NEW n \in PARAMETERS[b],
                   NEW new, new = [name |-> name, parameters |-> n],
                   Save(b, [cp[b] EXCEPT !.chunks_done = done, !.strategies = Deduped(old, new)]),
                   found' = [found EXCEPT ![b] = @ \cup {new}]
            PROVE  \E kept \in Seq(Strategies), news \in SUBSET Strategies :
                     /\ Save(b, [cp[b] EXCEPT !.chunks_done = done, !.strategies = kept])
                     /\ found' = [found EXCEPT ![b] = @ \cup news]
                     /\ answered' = [answered EXCEPT ![b] = @ \cup {done}]
                     /\ \A s \in Strategies : Kept(old, s) => Kept(kept, s)
                     /\ \A s \in news : Kept(kept, s)
        <5>1. \A i \in DOMAIN old : old[i].name \in Nat
          <6>1. \A i \in DOMAIN old : old[i] \in Strategies
            BY <2>1
          <6>2. \A x \in Strategies : x.name \in Nat
            BY DEF Strategies
          <6> QED
            BY <6>1, <6>2
        <5>2. name \in Nat /\ n \in Nat
          BY <2>1, <5>1, ResearchConstants DEF Names, Books
        <5>3. new \in Strategies
          BY <4>2, <5>2 DEF Strategies
        <5>4. /\ Deduped(old, new) \in Seq(Strategies) /\ Kept(Deduped(old, new), new)
              /\ \A s \in Strategies : Kept(old, s) => Kept(Deduped(old, new), s)
          BY <2>1, <5>3, DedupedKeeps
        <5>5. answered' = [answered EXCEPT ![b] = @ \cup {done}]
          BY <2>3 DEF ModelAnswers
        <5> DEFINE kept == Deduped(old, new)
                   news == {new}
        <5>6. news \in SUBSET Strategies /\ \A s \in news : Kept(kept, s)
          BY <5>3, <5>4
        <5>7. found' = [found EXCEPT ![b] = @ \cup news]
          BY <4>2
        <5>8. Save(b, [cp[b] EXCEPT !.chunks_done = done, !.strategies = kept])
          BY <4>2
        <5>9. kept \in Seq(Strategies) /\ \A s \in Strategies : Kept(old, s) => Kept(kept, s)
          BY <5>4
        <5> HIDE DEF kept, news, old, done
        <5> QED
          BY <5>5, <5>6, <5>7, <5>8, <5>9
      <4> QED
        BY <2>3, <4>1, <4>2 DEF ModelAnswers
    <3> DEFINE c == [cp[b] EXCEPT !.chunks_done = done, !.strategies = kept]
    <3>2. /\ c \in Checkpoint /\ c.phases = cp[b].phases /\ c.chunks_done = done
          /\ c.strategies = kept /\ c.specs = cp[b].specs /\ c.results = cp[b].results
      BY <1>1, <2>1, FieldsTyped DEF Checkpoint
    <3>3. SaveAs(b, "in_progress", c)
      BY <3>1 DEF Save
    <3> HIDE DEF c, done
    <3>4. /\ cp' \in [Books -> Checkpoint] /\ \A d \in Books \ {b} : cp'[d] = cp[d]
          /\ cp'[b].phases = cp[b].phases /\ cp'[b].chunks_done = done /\ cp'[b].strategies = kept
          /\ cp'[b].specs = cp[b].specs /\ cp'[b].results = cp[b].results
          /\ cp'[b].status = "in_progress"
      BY <1>1, <3>2, <3>3, SavedAs
    <3>5. /\ found' \in [Books -> SUBSET Strategies] /\ found'[b] = found[b] \cup news
          /\ \A d \in Books \ {b} : found'[d] = found[d]
      BY <1>1, <3>1 DEF AgentsTyped
    <3>6. /\ answered' \in [Books -> SUBSET Nat] /\ answered'[b] = answered[b] \cup {done}
          /\ \A d \in Books \ {b} : answered'[d] = answered[d]
      BY <1>1, <2>1, <3>1 DEF AgentsTyped
    <3>7. \A s \in found'[b] : Kept(cp'[b].strategies, s)
      BY <2>1, <3>1, <3>4, <3>5
    <3>8. Done(b, "spec")' = Done(b, "spec") /\ Done(b, "backtest")' = Done(b, "backtest")
      BY <3>4 DEF Done
    <3> QED
      BY <3>4, <3>5, <3>6, <3>7, <3>8 DEF done
  <2> QED
    BY <2>2, <2>3
<1>6. UNCHANGED <<run, torn, mapped, results, current, counter, specs, adrs>>
  BY DEF SkipChunk, ModelAnswers, history, notes, agent
<1>7. AgentsTyped'
  BY <1>1, <1>2, <1>5, <1>6 DEF AgentsTyped
<1>8. NumbersUsed' /\ AdrOfOwnStrategy'
  BY <1>6, FilesQuiet
<1>9. BookInv(b)'
  <2>1. \A k \in answered[b] : k \in Nat /\ k <= cp[b].chunks_done
    BY <1>1 DEF BookInv, Chunks, AgentsTyped
  <2>5. Chunks(b)'
    <3>1. \A k \in answered'[b] : k <= cp'[b].chunks_done
      BY <1>1, <1>5, <2>1, FieldsTyped
    <3> QED
      BY <1>2, <1>5, <3>1 DEF Chunks
  <2>2. SpecsNamed(b)'
    BY <1>1, <1>2, <1>4, <1>5, <1>6 DEF BookInv, SpecsNamed, SpecOf, InTest, Late, Gone
  <2>3. ResultsInOrder(b)'
    BY <1>1, <1>2, <1>5, <1>6 DEF BookInv, ResultsInOrder, InTest
  <2>4. ResultsOfRun(b)'
    BY <1>1, <1>2, <1>5, <1>6 DEF BookInv, ResultsOfRun, Early
  <2> QED
    BY <2>5, <2>2, <2>3, <2>4 DEF BookInv
<1> QED
  BY <1>1, <1>2, <1>5, <1>6, <1>7, <1>8, <1>9, OneAgent

\* Extraction ends: the agent goes on to its specs, or is through.
LEMMA EndExtractKeeps ==
  ASSUME ResearchInv, NEW b \in Books, EndExtract(b)
  PROVE  ResearchInv'
<1>1. AgentsTyped /\ BookInv(b)
  BY DEF ResearchInv
<1>2. /\ at[b] = "extract" /\ cp[b].chunks_done = CHUNKS[b]
      /\ UNCHANGED <<run, torn, mapped, results, current, counter, specs, adrs, answered, found>>
  BY DEF EndExtract, bounds, history, notes
<1>3. /\ cp' \in [Books -> Checkpoint] /\ \A d \in Books \ {b} : cp'[d] = cp[d]
      /\ Done(b, "spec") => Done(b, "spec")'
      /\ Done(b, "backtest")' = Done(b, "backtest")
      /\ cp'[b].chunks_done = cp[b].chunks_done /\ cp'[b].strategies = cp[b].strategies
      /\ cp'[b].specs = cp[b].specs /\ cp'[b].results = cp[b].results
      /\ at' \in [Books -> Early \cup Late \cup Gone] /\ \A d \in Books \ {b} : at'[d] = at[d]
      /\ \/ at'[b] = "ended"
         \/ /\ at'[b] = "spec" /\ Done(b, "spec")' = Done(b, "spec")
            /\ cp'[b].status \in {cp[b].status, "in_progress"}
      /\ Done(b, "spec") \/ ~Done(b, "spec")' \/ cp'[b].status = "complete"
  <2>1. CASE SaveAs(b, "complete_no_strategies", Marked(b, "extract")) /\ Goto(b, "ended")
    <3>1. /\ cp' \in [Books -> Checkpoint] /\ \A d \in Books \ {b} : cp'[d] = cp[d]
          /\ cp'[b].phases = cp[b].phases \cup {"extract"}
          /\ cp'[b].chunks_done = cp[b].chunks_done /\ cp'[b].strategies = cp[b].strategies
          /\ cp'[b].specs = cp[b].specs /\ cp'[b].results = cp[b].results
      BY <1>1, <2>1, SavedAs, MarkedPhase DEF Terminal, Phases
    <3>2. /\ at'[b] = "ended" /\ at' \in [Books -> Early \cup Late \cup Gone]
          /\ \A d \in Books \ {b} : at'[d] = at[d]
      BY <1>1, <2>1 DEF Goto, AgentsTyped, Gone
    <3> QED
      BY <3>1, <3>2 DEF Done
  <2>2. CASE /\ SaveAs(b, "complete", [Marked(b, "extract") EXCEPT !.phases = @ \cup {"spec"}])
             /\ Goto(b, "ended")
    <3> DEFINE c == [Marked(b, "extract") EXCEPT !.phases = @ \cup {"spec"}]
    <3>1. /\ c \in Checkpoint /\ c.phases = cp[b].phases \cup {"extract", "spec"}
          /\ c.chunks_done = cp[b].chunks_done /\ c.strategies = cp[b].strategies
          /\ c.specs = cp[b].specs /\ c.results = cp[b].results
      <4> DEFINE m == Marked(b, "extract")
      <4>1. /\ m \in Checkpoint /\ m.phases = cp[b].phases \cup {"extract"}
            /\ m.chunks_done = cp[b].chunks_done /\ m.strategies = cp[b].strategies
            /\ m.specs = cp[b].specs /\ m.results = cp[b].results
        BY <1>1, MarkedPhase DEF Phases
      <4>2. c = [m EXCEPT !.phases = m.phases \cup {"spec"}]
        OBVIOUS
      <4> HIDE DEF m, c
      <4>3. m.phases \cup {"spec"} \in SUBSET Phases
        BY <4>1 DEF Checkpoint, Phases
      <4> QED
        BY <4>1, <4>2, <4>3 DEF Checkpoint
    <3>2. SaveAs(b, "complete", c) /\ Goto(b, "ended")
      BY <2>2
    <3> HIDE DEF c
    <3>3. /\ cp' \in [Books -> Checkpoint] /\ \A d \in Books \ {b} : cp'[d] = cp[d]
          /\ cp'[b].phases = cp[b].phases \cup {"extract", "spec"}
          /\ cp'[b].chunks_done = cp[b].chunks_done /\ cp'[b].strategies = cp[b].strategies
          /\ cp'[b].specs = cp[b].specs /\ cp'[b].results = cp[b].results
          /\ cp'[b].status = "complete"
      BY <1>1, <3>1, <3>2, SavedAs DEF Terminal
    <3> QED
      <4>1. /\ at'[b] = "ended" /\ at' \in [Books -> Early \cup Late \cup Gone]
            /\ \A d \in Books \ {b} : at'[d] = at[d]
        BY <1>1, <3>2 DEF Goto, AgentsTyped, Gone
      <4> QED
        BY <3>3, <4>1 DEF Done
  <2>3. CASE /\ IF Done(b, "extract") THEN UNCHANGED cp ELSE Save(b, Marked(b, "extract"))
             /\ Goto(b, "spec")
    <3>1. CASE UNCHANGED cp
      BY <1>1, <2>3, <3>1 DEF Done, Goto, AgentsTyped, Early
    <3>2. CASE Save(b, Marked(b, "extract"))
      <4>1. /\ cp' \in [Books -> Checkpoint] /\ \A d \in Books \ {b} : cp'[d] = cp[d]
            /\ cp'[b].phases = cp[b].phases \cup {"extract"}
            /\ cp'[b].chunks_done = cp[b].chunks_done /\ cp'[b].strategies = cp[b].strategies
            /\ cp'[b].specs = cp[b].specs /\ cp'[b].results = cp[b].results
            /\ cp'[b].status = "in_progress"
        BY <1>1, <3>2, SavedAs, MarkedPhase DEF Save, Phases
      <4>2. /\ at'[b] = "spec" /\ at' \in [Books -> Early \cup Late \cup Gone]
            /\ \A d \in Books \ {b} : at'[d] = at[d]
        BY <1>1, <2>3 DEF Goto, AgentsTyped, Early
      <4> QED
        BY <4>1, <4>2 DEF Done
    <3> QED
      BY <2>3, <3>1, <3>2
  <2> QED
    BY <2>1, <2>2, <2>3 DEF EndExtract
<1>4. AgentsTyped'
  BY <1>1, <1>2, <1>3 DEF AgentsTyped
<1>5. NumbersUsed' /\ AdrOfOwnStrategy'
  BY <1>2, FilesQuiet
<1>6. BookInv(b)'
  <2>1. Chunks(b)'
    BY <1>1, <1>2, <1>3 DEF BookInv, Chunks
  <2>2. SpecsNamed(b)'
    BY <1>1, <1>2, <1>3 DEF BookInv, SpecsNamed, SpecOf, InTest, Late, Gone
  <2>3. ResultsInOrder(b)'
    BY <1>1, <1>2, <1>3 DEF BookInv, ResultsInOrder, InTest
  <2>4. ResultsOfRun(b)'
    BY <1>1, <1>2, <1>3 DEF BookInv, ResultsOfRun, Early
  <2> QED
    BY <2>1, <2>2, <2>3, <2>4 DEF BookInv
<1> QED
  BY <1>1, <1>2, <1>3, <1>4, <1>5, <1>6, OneAgent

\* The first k spec files of a book: new numbers, one to each.
LEMMA SpecsTyped ==
  ASSUME ResearchInv, NEW b \in Books, NEW k \in 0..Len(cp[b].strategies)
  PROVE  /\ k \in Nat
         /\ Specs(b, k) \in Seq(SpecRecords) /\ DOMAIN Specs(b, k) = 1..k
         /\ \A i \in 1..k : Specs(b, k)[i] =
              [sr |-> counter + i - 1, book |-> b, strategy |-> cp[b].strategies[i]]
<1>1. counter \in Nat /\ cp[b].strategies \in Seq(Strategies)
  BY FieldsTyped DEF ResearchInv, AgentsTyped
<1>2. k \in Nat /\ \A i \in 1..k : i \in 1..Len(cp[b].strategies)
  BY <1>1
<1>3. \A i \in 1..k : counter + i - 1 \in Nat /\ cp[b].strategies[i] \in Strategies
  BY <1>1, <1>2
<1>4. \A i \in 1..k :
        [sr |-> counter + i - 1, book |-> b, strategy |-> cp[b].strategies[i]] \in SpecRecords
  BY <1>3 DEF SpecRecords
<1> QED
  BY <1>2, <1>4 DEF Specs

\* However far they got, numbers stay unique when the counter is past them all.
LEMMA NumbersStayUnique ==
  ASSUME ResearchInv, NEW b \in Books, NEW k \in 0..Len(cp[b].strategies), NEW n \in 0..k,
         counter' = counter + k, specs' = specs \cup ToSet(Specs(b, n))
  PROVE  NumbersUsed' /\ counter' \in Nat /\ specs \subseteq specs'
<1>1. counter \in Nat /\ cp[b].strategies \in Seq(Strategies) /\ k \in Nat /\ n \in Nat /\ n <= k
  BY FieldsTyped, SpecsTyped DEF ResearchInv, AgentsTyped
<1>2. n \in 0..Len(cp[b].strategies)
  BY <1>1
<1>3. \A s \in ToSet(Specs(b, n)) :
        \E i \in 1..n : s = [sr |-> counter + i - 1, book |-> b, strategy |-> cp[b].strategies[i]]
  BY <1>2, SpecsTyped DEF ToSet
<1>4. \A s \in ToSet(Specs(b, n)) : s.sr \in Nat /\ counter <= s.sr /\ s.sr < counter + k
  BY <1>1, <1>3
<1>5. \A s, t \in ToSet(Specs(b, n)) : s.sr = t.sr => s = t
  <2> SUFFICES ASSUME NEW s \in ToSet(Specs(b, n)), NEW t \in ToSet(Specs(b, n)), s.sr = t.sr
               PROVE  s = t
    OBVIOUS
  <2>1. PICK i \in 1..n : s = [sr |-> counter + i - 1, book |-> b, strategy |-> cp[b].strategies[i]]
    BY <1>3
  <2>2. PICK j \in 1..n : t = [sr |-> counter + j - 1, book |-> b, strategy |-> cp[b].strategies[j]]
    BY <1>3
  <2>3. counter + i - 1 = counter + j - 1
    BY <2>1, <2>2
  <2>4. i = j
    BY <1>1, <2>3
  <2> QED
    BY <2>1, <2>2, <2>4
<1>6. \A s \in specs : s.sr \in Nat /\ s.sr < counter /\ s.sr < counter + k
  BY <1>1 DEF ResearchInv, NumbersUsed
<1>7. \A s, t \in specs : s.sr = t.sr => s = t
  BY DEF ResearchInv, NumbersUsed, SpecIdsUnique
<1>8. \A s \in specs, t \in ToSet(Specs(b, n)) : s.sr # t.sr
  BY <1>1, <1>4, <1>6
<1>9. \A s \in specs' : s.sr \in Nat /\ s.sr < counter'
  BY <1>4, <1>6
<1>10. SpecIdsUnique'
  BY <1>5, <1>7, <1>8 DEF SpecIdsUnique
<1> QED
  BY <1>1, <1>9, <1>10 DEF NumbersUsed

\* Phase spec: a new spec file of every strategy.
LEMMA WriteSpecsKeeps ==
  ASSUME ResearchInv, NEW b \in Books, WriteSpecs(b)
  PROVE  ResearchInv'
<1> DEFINE n == Len(cp[b].strategies)
           new == [i \in 1..n |-> counter + i - 1]
           c == [Marked(b, "spec") EXCEPT !.specs = @ \o new]
<1>1. AgentsTyped /\ BookInv(b)
  BY DEF ResearchInv
<1>2. n \in Nat /\ n \in 0..n /\ counter \in Nat /\ cp[b].strategies \in Seq(Strategies)
  BY <1>1, FieldsTyped DEF AgentsTyped
<1>3. /\ at[b] = "spec" /\ ~Done(b, "spec") /\ cp[b].chunks_done = CHUNKS[b]
      /\ at' \in [Books -> Early \cup Late \cup Gone]
      /\ at'[b] = "backtest" /\ \A d \in Books \ {b} : at'[d] = at[d]
  BY <1>1 DEF WriteSpecs, Goto, AgentsTyped, Late, BookInv, Chunks
<1>4. UNCHANGED <<run, torn, results, current, adrs, answered, found>>
  BY DEF WriteSpecs, bounds, history, notes
<1>5. /\ mapped' = [mapped EXCEPT ![b] = Specs(b, n)] /\ specs' = specs \cup ToSet(Specs(b, n))
      /\ counter' = counter + n /\ SaveAs(b, "in_progress", c)
  BY DEF WriteSpecs, Save
<1>6. new \in Seq(Nat) /\ Len(new) = n /\ DOMAIN new = 1..n /\ \A i \in 1..n : new[i] = counter + i - 1
  BY <1>2
<1>7. cp[b].specs = << >> /\ Len(cp[b].results) = 0
  <2>1. cp[b].specs = << >>
    BY <1>1, <1>3 DEF BookInv, SpecsNamed
  <2> QED
    BY <1>1, <2>1, FieldsTyped DEF BookInv, ResultsInOrder
<1> HIDE DEF new
<1>8. /\ c \in Checkpoint /\ c.phases = cp[b].phases \cup {"spec"} /\ c.chunks_done = cp[b].chunks_done
      /\ c.strategies = cp[b].strategies /\ c.specs = new /\ c.results = cp[b].results
  <2> DEFINE m == Marked(b, "spec")
  <2>1. /\ m \in Checkpoint /\ m.phases = cp[b].phases \cup {"spec"}
        /\ m.chunks_done = cp[b].chunks_done /\ m.strategies = cp[b].strategies
        /\ m.specs = << >> /\ m.results = cp[b].results
    BY <1>1, <1>7, MarkedPhase DEF Phases
  <2>2. << >> \o new = new
    BY <1>6
  <2> HIDE DEF m
  <2>3. c = [m EXCEPT !.specs = new]
    BY <2>1, <2>2 DEF m
  <2> HIDE DEF c
  <2> QED
    BY <1>6, <2>1, <2>3 DEF Checkpoint
<1> HIDE DEF c
<1>9. /\ cp' \in [Books -> Checkpoint] /\ \A d \in Books \ {b} : cp'[d] = cp[d]
      /\ cp'[b].status = "in_progress"
      /\ cp'[b].phases = cp[b].phases \cup {"spec"} /\ cp'[b].chunks_done = cp[b].chunks_done
      /\ cp'[b].strategies = cp[b].strategies /\ cp'[b].specs = new /\ cp'[b].results = cp[b].results
  BY <1>1, <1>5, <1>8, SavedAs
<1>10. Done(b, "spec")' /\ (Done(b, "backtest")' <=> Done(b, "backtest"))
  BY <1>9 DEF Done
<1>11. NumbersUsed' /\ counter' \in Nat /\ specs \subseteq specs'
  BY <1>2, <1>5, NumbersStayUnique
<1>12. /\ Specs(b, n) \in Seq(SpecRecords) /\ DOMAIN Specs(b, n) = 1..n
       /\ \A i \in 1..n : Specs(b, n)[i] = [sr |-> new[i], book |-> b, strategy |-> cp[b].strategies[i]]
  BY <1>2, <1>6, SpecsTyped
<1>13. \A i \in 1..n : SpecOf(b, i)' = Specs(b, n)[i]
  BY <1>9, <1>12 DEF SpecOf
<1>14. /\ mapped' \in [Books -> Seq(SpecRecords)] /\ mapped'[b] = Specs(b, n)
       /\ \A d \in Books \ {b} : mapped'[d] = mapped[d]
  BY <1>1, <1>5, <1>12 DEF AgentsTyped
<1>15. mapped'[b] = [i \in 1..n |-> SpecOf(b, i)']
  BY <1>12, <1>13, <1>14
<1>16. \A i \in 1..n : SpecOf(b, i)' \in specs'
  BY <1>5, <1>12, <1>13 DEF ToSet
<1>17. AgentsTyped'
  BY <1>1, <1>3, <1>4, <1>9, <1>11, <1>14 DEF AgentsTyped
<1>18. AdrOfOwnStrategy'
  BY <1>4, <1>11 DEF ResearchInv, AdrOfOwnStrategy
<1>19. BookInv(b)'
  <2>1. Chunks(b)'
    BY <1>1, <1>3, <1>4, <1>9 DEF BookInv, Chunks
  <2>2. \A i, j \in 1..n : new[i] = new[j] => i = j
    BY <1>2, <1>6
  <2>3. SpecsNamed(b)'
    BY <1>3, <1>6, <1>9, <1>10, <1>15, <1>16, <2>2 DEF SpecsNamed
  <2>4. DOMAIN cp[b].results = {}
    BY <1>1, <1>7, FieldsTyped
  <2>5. Len(cp'[b].results) = 0 /\ Len(cp'[b].specs) = n /\ DOMAIN cp'[b].results = {}
    BY <1>6, <1>7, <1>9, <2>4
  <2>6. ~Done(b, "backtest")'
    BY <1>1, <1>3, <1>10 DEF BookInv, ResultsInOrder
  <2>7. ResultsInOrder(b)'
    BY <1>2, <1>3, <2>5, <2>6 DEF ResultsInOrder, InTest
  <2>8. ResultsOfRun(b)'
    BY <1>1, <1>3, <1>4, <1>9, <1>10 DEF BookInv, ResultsOfRun, Early
  <2> QED
    BY <2>1, <2>3, <2>7, <2>8 DEF BookInv
<1> QED
  BY <1>1, <1>3, <1>4, <1>9, <1>11, <1>14, <1>17, <1>18, <1>19, OneAgent

\* A resumed agent takes its spec files from the checkpoint.
LEMMA ReloadSpecsKeeps ==
  ASSUME ResearchInv, NEW b \in Books, ReloadSpecs(b)
  PROVE  ResearchInv'
<1>1. AgentsTyped /\ BookInv(b)
  BY DEF ResearchInv
<1>2. /\ at[b] = "spec" /\ Done(b, "spec")
      /\ at' \in [Books -> Early \cup Late \cup Gone]
      /\ at'[b] = "backtest" /\ \A d \in Books \ {b} : at'[d] = at[d]
  BY <1>1 DEF ReloadSpecs, Goto, AgentsTyped, Late
<1>3. UNCHANGED <<run, torn, results, current, cp, counter, specs, adrs, answered, found>>
  BY DEF ReloadSpecs, bounds, history, notes
<1>4. cp[b].status # "complete" /\ Len(cp[b].specs) = Len(cp[b].strategies)
  BY <1>1, <1>2 DEF BookInv, SpecsNamed, Gone
<1>5. DOMAIN cp[b].specs = 1..Len(cp[b].specs) /\ Len(cp[b].specs) \in Nat
  BY <1>1, FieldsTyped
<1>6. mapped' = [mapped EXCEPT ![b] = [i \in DOMAIN cp[b].specs |-> SpecOf(b, i)]]
  BY <1>5 DEF ReloadSpecs, SpecOf
<1>7. [i \in DOMAIN cp[b].specs |-> SpecOf(b, i)] \in Seq(SpecRecords)
  <2>1. \A i \in DOMAIN cp[b].specs : cp[b].specs[i] \in Nat /\ cp[b].strategies[i] \in Strategies
    BY <1>1, <1>4, <1>5, FieldsTyped
  <2>2. \A i \in DOMAIN cp[b].specs : SpecOf(b, i) \in SpecRecords
    BY <2>1 DEF SpecOf, SpecRecords
  <2> QED
    BY <1>5, <2>2
<1>8. /\ mapped' \in [Books -> Seq(SpecRecords)]
      /\ mapped'[b] = [i \in DOMAIN cp[b].specs |-> SpecOf(b, i)]
      /\ \A d \in Books \ {b} : mapped'[d] = mapped[d]
  BY <1>1, <1>6, <1>7 DEF AgentsTyped
<1>9. AgentsTyped'
  BY <1>1, <1>2, <1>3, <1>8 DEF AgentsTyped
<1>10. NumbersUsed' /\ AdrOfOwnStrategy'
  BY <1>3, FilesQuiet
<1>11. BookInv(b)'
  <2>1. Chunks(b)'
    BY <1>1, <1>2, <1>3 DEF BookInv, Chunks
  <2>2. SpecsNamed(b)'
    BY <1>1, <1>2, <1>3, <1>4, <1>8 DEF BookInv, SpecsNamed, SpecOf, Done
  <2>3. ResultsInOrder(b)'
    BY <1>1, <1>2, <1>3 DEF BookInv, ResultsInOrder, Done, InTest
  <2>4. ResultsOfRun(b)'
    BY <1>1, <1>2, <1>3 DEF BookInv, ResultsOfRun, Done, Early
  <2> QED
    BY <2>1, <2>2, <2>3, <2>4 DEF BookInv
<1> QED
  BY <1>1, <1>2, <1>3, <1>8, <1>9, <1>10, <1>11, OneAgent

-----------------------------------------------------------------------------
(* Backtests. *)

\* The strategies without a saved result are those after the last saved one.
LEMMA UntestedAreLast ==
  ASSUME ResearchInv, NEW b \in Books, at[b] = "backtest"
  PROVE  /\ Len(cp[b].specs) \in Nat /\ Len(cp[b].results) \in Nat
         /\ DOMAIN mapped[b] = 1..Len(cp[b].specs)
         /\ \A i \in DOMAIN mapped[b] : mapped[b][i].sr = cp[b].specs[i]
         /\ Untested(b) = {i \in 1..Len(cp[b].specs) : Len(cp[b].results) < i}
         /\ cp[b].status # "complete" /\ Done(b, "spec")
<1> DEFINE s == cp[b].specs
           r == cp[b].results
<1>1. AgentsTyped /\ BookInv(b)
  BY DEF ResearchInv
<1>2. s \in Seq(Nat) /\ r \in Seq(Nat) /\ Len(s) \in Nat /\ Len(r) \in Nat /\ Len(r) <= Len(s)
  BY <1>1, FieldsTyped DEF BookInv, ResultsInOrder
<1>3. Done(b, "spec") /\ cp[b].status # "complete"
  BY <1>1 DEF BookInv, SpecsNamed, Late, Gone
<1>4. mapped[b] = [i \in DOMAIN s |-> SpecOf(b, i)]
  BY <1>1 DEF BookInv, SpecsNamed, Late
<1>5. DOMAIN mapped[b] = 1..Len(s) /\ \A i \in DOMAIN mapped[b] : mapped[b][i].sr = s[i]
  BY <1>2, <1>4 DEF SpecOf
<1>6. \A i, j \in 1..Len(s) : s[i] = s[j] => i = j
  BY <1>1, <1>2, <1>3 DEF BookInv, SpecsNamed
<1>7. DOMAIN r = 1..Len(r) /\ \A i \in 1..Len(r) : r[i] = s[i]
  BY <1>1, <1>2 DEF BookInv, ResultsInOrder
<1>8. \A i \in 1..Len(s) : s[i] \in ToSet(r) <=> i <= Len(r)
  <2> HIDE DEF s, r
  <2> TAKE i \in 1..Len(s)
  <2>1. CASE i <= Len(r)
    <3>1. i \in 1..Len(r)
      BY <1>2, <2>1
    <3> QED
      BY <1>7, <2>1, <3>1 DEF ToSet
  <2>2. ASSUME s[i] \in ToSet(r)
        PROVE  i <= Len(r)
    <3>1. PICK j \in 1..Len(r) : s[i] = r[j]
      BY <1>7, <2>2 DEF ToSet
    <3>2. j \in 1..Len(s) /\ s[i] = s[j]
      BY <1>2, <1>7, <3>1
    <3>3. i = j
      BY <1>6, <3>2
    <3> QED
      BY <3>1, <3>3
  <2> QED
    BY <2>1, <2>2
<1>9. Untested(b) = {i \in 1..Len(s) : s[i] \notin ToSet(r)}
  BY <1>5 DEF Untested, Saved
<1>10. \A i \in 1..Len(s) : s[i] \notin ToSet(r) <=> Len(r) < i
  BY <1>2, <1>8
<1> HIDE DEF s, r
<1>11. Untested(b) = {i \in 1..Len(s) : Len(r) < i}
  BY <1>9, <1>10
<1> QED
  BY <1>2, <1>3, <1>5, <1>11 DEF s, r

\* The engine begins with the first of them.
LEMMA NextBacktestKeeps ==
  ASSUME ResearchInv, NEW b \in Books, NextBacktest(b)
  PROVE  ResearchInv'
<1>1. AgentsTyped /\ BookInv(b)
  BY DEF ResearchInv
<1>2. /\ at[b] = "backtest" /\ ~Done(b, "backtest")
      /\ at' \in [Books -> Early \cup Late \cup Gone]
      /\ at'[b] \in InTest /\ \A d \in Books \ {b} : at'[d] = at[d]
  BY <1>1 DEF NextBacktest, Goto, AgentsTyped, Late, InTest
<1>3. UNCHANGED <<run, torn, mapped, results, cp, counter, specs, adrs, answered, found>>
  BY DEF NextBacktest, bounds, history, notes
<1> DEFINE s == cp[b].specs
           r == cp[b].results
<1>4. PICK i \in Untested(b) :
        (\A j \in Untested(b) : i <= j) /\ current' = [current EXCEPT ![b] = mapped[b][i].sr]
  BY DEF NextBacktest
<1>5. /\ Len(s) \in Nat /\ Len(r) \in Nat /\ s \in Seq(Nat)
      /\ Untested(b) = {k \in 1..Len(s) : Len(r) < k}
      /\ DOMAIN mapped[b] = 1..Len(s) /\ \A k \in DOMAIN mapped[b] : mapped[b][k].sr = s[k]
  BY <1>1, <1>2, UntestedAreLast, FieldsTyped
<1> HIDE DEF s, r
<1>6. i \in 1..Len(s) /\ Len(r) < i
  BY <1>4, <1>5
<1>7. Len(r) + 1 \in Untested(b)
  BY <1>5, <1>6
<1>8. i = Len(r) + 1 /\ Len(r) < Len(s)
  <2>1. i <= Len(r) + 1
    BY <1>4, <1>7
  <2> QED
    BY <1>5, <1>6, <2>1
<1>9. mapped[b][i].sr = s[Len(r) + 1] /\ mapped[b][i].sr \in Nat
  BY <1>5, <1>6, <1>8
<1>10. /\ current' \in [Books -> Nat] /\ current'[b] = s[Len(r) + 1]
       /\ \A d \in Books \ {b} : current'[d] = current[d]
  BY <1>1, <1>4, <1>9 DEF AgentsTyped
<1>11. AgentsTyped'
  BY <1>1, <1>2, <1>3, <1>10 DEF AgentsTyped
<1>12. NumbersUsed' /\ AdrOfOwnStrategy'
  BY <1>3, FilesQuiet
<1>13. BookInv(b)'
  <2>1. Chunks(b)'
    BY <1>1, <1>2, <1>3 DEF BookInv, Chunks, InTest
  <2>2. SpecsNamed(b)'
    BY <1>1, <1>2, <1>3 DEF BookInv, SpecsNamed, SpecOf, Done, Late, InTest, Gone
  <2>3. ResultsInOrder(b)'
    BY <1>1, <1>2, <1>3, <1>8, <1>10 DEF BookInv, ResultsInOrder, Done, InTest, s, r
  <2>4. ResultsOfRun(b)'
    BY <1>1, <1>2, <1>3 DEF BookInv, ResultsOfRun, Done, Early, InTest
  <2> QED
    BY <2>1, <2>2, <2>3, <2>4 DEF BookInv
<1> QED
  BY <1>1, <1>2, <1>3, <1>10, <1>11, <1>12, <1>13, OneAgent

\* A result is saved with the spec file's number, and kept in this run.
LEMMA SaveResultKeeps ==
  ASSUME ResearchInv, NEW b \in Books, SaveResult(b)
  PROVE  ResearchInv'
<1> DEFINE s == cp[b].specs
           r == cp[b].results
           new == Append(r, current[b])
           c == [cp[b] EXCEPT !.results = new]
<1>1. AgentsTyped /\ BookInv(b)
  BY DEF ResearchInv
<1>2. /\ at[b] \in {"tested", "failed"}
      /\ at' \in [Books -> Early \cup Late \cup Gone]
      /\ at'[b] = "backtest" /\ \A d \in Books \ {b} : at'[d] = at[d]
  BY <1>1 DEF SaveResult, Goto, AgentsTyped, Late
<1>3. UNCHANGED <<run, torn, mapped, counter, specs, adrs, answered, found>>
  BY DEF SaveResult, bounds, history, notes
<1>4. /\ SaveAs(b, "in_progress", c) /\ results' = [results EXCEPT ![b] = Append(@, current[b])]
      /\ current' = [current EXCEPT ![b] = 0]
  BY DEF SaveResult, Save
<1>5. current[b] \in Nat /\ results[b] \in Seq(Nat) /\ s \in Seq(Nat) /\ r \in Seq(Nat)
  BY <1>1, FieldsTyped DEF AgentsTyped
<1>6. /\ ~Done(b, "backtest") /\ Len(r) < Len(s) /\ current[b] = s[Len(r) + 1]
      /\ \A i \in DOMAIN r : r[i] = s[i]
  BY <1>1, <1>2 DEF BookInv, ResultsInOrder, InTest
<1> HIDE DEF r
<1>7. /\ new \in Seq(Nat) /\ Len(new) = Len(r) + 1 /\ new[Len(r) + 1] = current[b]
      /\ DOMAIN new = DOMAIN r \cup {Len(r) + 1} /\ \A i \in DOMAIN r : new[i] = r[i]
      /\ new # << >>
  BY <1>5
<1> HIDE DEF new
<1>8. /\ c \in Checkpoint /\ c.phases = cp[b].phases /\ c.chunks_done = cp[b].chunks_done
      /\ c.strategies = cp[b].strategies /\ c.specs = s /\ c.results = new
  BY <1>1, <1>7, FieldsTyped DEF Checkpoint
<1> HIDE DEF c
<1>9. /\ cp' \in [Books -> Checkpoint] /\ \A d \in Books \ {b} : cp'[d] = cp[d]
      /\ cp'[b].status = "in_progress"
      /\ cp'[b].phases = cp[b].phases /\ cp'[b].chunks_done = cp[b].chunks_done
      /\ cp'[b].strategies = cp[b].strategies /\ cp'[b].specs = s /\ cp'[b].results = new
  BY <1>1, <1>4, <1>8, SavedAs
<1> HIDE DEF s
<1>10. (Done(b, "spec")' <=> Done(b, "spec")) /\ (Done(b, "backtest")' <=> Done(b, "backtest"))
  BY <1>9 DEF Done
<1>11. /\ results' \in [Books -> Seq(Nat)] /\ results'[b] = Append(results[b], current[b])
       /\ \A d \in Books \ {b} : results'[d] = results[d]
  <2>1. Append(results[b], current[b]) \in Seq(Nat)
    BY <1>5
  <2> QED
    BY <1>1, <1>4, <2>1 DEF AgentsTyped
<1>12. /\ current' \in [Books -> Nat] /\ \A d \in Books \ {b} : current'[d] = current[d]
  BY <1>1, <1>4 DEF AgentsTyped
<1>13. AgentsTyped'
  BY <1>1, <1>2, <1>3, <1>9, <1>11, <1>12 DEF AgentsTyped
<1>14. NumbersUsed' /\ AdrOfOwnStrategy'
  BY <1>3, FilesQuiet
<1>15. BookInv(b)'
  <2>1. Chunks(b)'
    BY <1>1, <1>2, <1>3, <1>9 DEF BookInv, Chunks
  <2>2. SpecsNamed(b)'
    BY <1>1, <1>2, <1>3, <1>9, <1>10 DEF BookInv, SpecsNamed, SpecOf, Late, InTest, Gone, s
  <2>3. ResultsInOrder(b)'
    <3>1. Len(r) \in Nat /\ Len(s) \in Nat
      BY <1>5
    <3>2. \A i \in DOMAIN new : new[i] = s[i]
      BY <1>6, <1>7
    <3>3. Len(new) <= Len(s)
      BY <1>6, <1>7, <3>1
    <3> QED
      BY <1>2, <1>6, <1>9, <1>10, <3>2, <3>3 DEF ResultsInOrder, InTest
  <2>4. ResultsOfRun(b)'
    <3>1. b \notin torn => results[b] = r
      BY <1>1, <1>6 DEF BookInv, ResultsOfRun, r
    <3>2. b \notin torn => results'[b] = new
      BY <1>11, <3>1 DEF new
    <3> QED
      BY <1>2, <1>3, <1>9, <3>2 DEF ResultsOfRun, Early
  <2> QED
    BY <2>1, <2>2, <2>3, <2>4 DEF BookInv
<1> QED
  BY <1>1, <1>2, <1>3, <1>9, <1>11, <1>12, <1>13, <1>14, <1>15, OneAgent

\* When every result is saved the agent goes on to its notes.
LEMMA EndBacktestsKeeps ==
  ASSUME ResearchInv, NEW b \in Books, EndBacktests(b)
  PROVE  ResearchInv'
<1>1. AgentsTyped /\ BookInv(b)
  BY DEF ResearchInv
<1>2. /\ at[b] = "backtest" /\ ~Done(b, "backtest")
      /\ at' \in [Books -> Early \cup Late \cup Gone]
      /\ at'[b] = "adr" /\ \A d \in Books \ {b} : at'[d] = at[d]
  BY <1>1 DEF EndBacktests, Goto, AgentsTyped, Late
<1>3. UNCHANGED <<run, torn, mapped, results, current, counter, specs, adrs, answered, found>>
  BY DEF EndBacktests, bounds, history, notes
<1>4. /\ cp' \in [Books -> Checkpoint] /\ \A d \in Books \ {b} : cp'[d] = cp[d]
      /\ cp'[b].status = "in_progress"
      /\ cp'[b].phases = cp[b].phases \cup {"backtest"} /\ cp'[b].chunks_done = cp[b].chunks_done
      /\ cp'[b].strategies = cp[b].strategies /\ cp'[b].specs = cp[b].specs
      /\ cp'[b].results = cp[b].results
  BY <1>1, SavedAs, MarkedPhase DEF EndBacktests, Save, Phases
<1>5. Done(b, "backtest")' /\ (Done(b, "spec")' <=> Done(b, "spec"))
  BY <1>4 DEF Done
<1>6. Done(b, "spec") /\ Len(cp[b].results) = Len(cp[b].specs)
  <2> DEFINE n == Len(cp[b].specs)
             k == Len(cp[b].results)
  <2>1. /\ n \in Nat /\ k \in Nat /\ Done(b, "spec")
        /\ Untested(b) = {i \in 1..n : k < i} /\ Untested(b) = {}
    BY <1>2, UntestedAreLast DEF EndBacktests
  <2>2. k <= n
    BY <1>1 DEF BookInv, ResultsInOrder
  <2> HIDE DEF n, k
  <2>3. n \in 1..n => ~(k < n)
    BY <2>1
  <2>4. n = k
    BY <2>1, <2>2, <2>3
  <2> QED
    BY <2>1, <2>4 DEF n, k
<1>7. cp[b].results = cp[b].specs
  <2> DEFINE s == cp[b].specs
             r == cp[b].results
  <2>1. s \in Seq(Nat) /\ r \in Seq(Nat) /\ Len(r) = Len(s) /\ \A i \in DOMAIN r : r[i] = s[i]
    BY <1>1, <1>6, FieldsTyped DEF BookInv, ResultsInOrder
  <2> HIDE DEF s, r
  <2>2. \A i \in 1..Len(s) : r[i] = s[i]
    BY <2>1
  <2>3. r = s
    BY <2>1, <2>2
  <2> QED
    BY <2>3 DEF s, r
<1>8. AgentsTyped'
  BY <1>1, <1>2, <1>3, <1>4 DEF AgentsTyped
<1>9. NumbersUsed' /\ AdrOfOwnStrategy'
  BY <1>3, FilesQuiet
<1>10. BookInv(b)'
  <2>1. Chunks(b)'
    BY <1>1, <1>2, <1>3, <1>4 DEF BookInv, Chunks
  <2>2. SpecsNamed(b)'
    BY <1>1, <1>2, <1>3, <1>4, <1>5, <1>6 DEF BookInv, SpecsNamed, SpecOf, Late, Gone
  <2>3. ResultsInOrder(b)'
    BY <1>1, <1>2, <1>3, <1>4, <1>5, <1>6 DEF BookInv, ResultsInOrder, InTest
  <2>4. ResultsOfRun(b)'
    BY <1>1, <1>2, <1>3, <1>4, <1>5, <1>7 DEF BookInv, ResultsOfRun, Early
  <2> QED
    BY <2>1, <2>2, <2>3, <2>4 DEF BookInv
<1> QED
  BY <1>1, <1>2, <1>3, <1>4, <1>8, <1>9, <1>10, OneAgent

\* The n-th of the first k places is n.
LEMMA NthOfAll ==
  ASSUME NEW b \in Books, NEW k \in Nat, Tested(b) = 1..k, NEW n \in 1..k
  PROVE  NthTested(b, n) = n
<1>1. \A i \in 1..k : {j \in Tested(b) : j <= i} = 1..i
  OBVIOUS
<1>2. \A i \in 1..k : Cardinality(1..i) = i
  BY FS_Interval
<1>3. \A i \in Tested(b) : Cardinality({j \in Tested(b) : j <= i}) = n <=> i = n
  BY <1>1, <1>2
<1> QED
  BY <1>3 DEF NthTested

\* A resumed agent takes its results from the checkpoint: that of every spec.
LEMMA ReloadResultsKeeps ==
  ASSUME ResearchInv, NEW b \in Books, ReloadResults(b)
  PROVE  ResearchInv'
<1> DEFINE s == cp[b].specs
<1>1. AgentsTyped /\ BookInv(b)
  BY DEF ResearchInv
<1>2. /\ at[b] = "backtest" /\ Done(b, "backtest")
      /\ at' \in [Books -> Early \cup Late \cup Gone]
      /\ at'[b] = "adr" /\ \A d \in Books \ {b} : at'[d] = at[d]
  BY <1>1 DEF ReloadResults, Goto, AgentsTyped, Late
<1>3. UNCHANGED <<run, torn, mapped, current, cp, counter, specs, adrs, answered, found>>
  BY DEF ReloadResults, bounds, history, notes
<1>4. /\ s \in Seq(Nat) /\ Len(s) \in Nat /\ DOMAIN mapped[b] = 1..Len(s)
      /\ \A i \in 1..Len(s) : mapped[b][i].sr = s[i]
      /\ Untested(b) = {i \in 1..Len(s) : Len(s) < i}
  <2>1. Len(cp[b].results) = Len(s)
    BY <1>1, <1>2 DEF BookInv, ResultsInOrder
  <2> QED
    BY <1>1, <1>2, <2>1, UntestedAreLast, FieldsTyped
<1> HIDE DEF s
<1>5. Tested(b) = 1..Len(s)
  BY <1>4 DEF Tested
<1>6. Cardinality(Tested(b)) = Len(s) /\ \A n \in 1..Len(s) : NthTested(b, n) = n
  <2> DEFINE n == Len(s)
  <2>1. n \in Nat /\ Tested(b) = 1..n
    BY <1>4, <1>5
  <2> HIDE DEF n
  <2>2. Cardinality(1..n) = n
    BY <2>1, FS_Interval
  <2>3. \A m \in 1..n : NthTested(b, m) = m
    BY <2>1, NthOfAll
  <2> QED
    BY <2>1, <2>2, <2>3 DEF n
<1>7. [n \in 1..Cardinality(Tested(b)) |-> mapped[b][NthTested(b, n)].sr] = s
  BY <1>4, <1>6
<1>8. results' \in [Books -> Seq(Nat)] /\ results'[b] = s /\ \A d \in Books \ {b} : results'[d] = results[d]
  BY <1>1, <1>4, <1>7 DEF ReloadResults, AgentsTyped
<1>9. AgentsTyped'
  BY <1>1, <1>2, <1>3, <1>8 DEF AgentsTyped
<1>10. NumbersUsed' /\ AdrOfOwnStrategy'
  BY <1>3, FilesQuiet
<1>11. BookInv(b)'
  <2>1. Chunks(b)'
    BY <1>1, <1>2, <1>3 DEF BookInv, Chunks
  <2>2. SpecsNamed(b)'
    BY <1>1, <1>2, <1>3 DEF BookInv, SpecsNamed, SpecOf, Done, Late, Gone
  <2>3. ResultsInOrder(b)'
    BY <1>1, <1>2, <1>3 DEF BookInv, ResultsInOrder, Done, InTest
  <2>4. ResultsOfRun(b)'
    BY <1>1, <1>2, <1>3, <1>8 DEF BookInv, ResultsOfRun, Done, Early, s
  <2> QED
    BY <2>1, <2>2, <2>3, <2>4 DEF BookInv
<1> QED
  BY <1>1, <1>2, <1>3, <1>8, <1>9, <1>10, <1>11, OneAgent

-----------------------------------------------------------------------------
(* Notes, and the end of a run. *)

\* Notes of the first of the strategies are those of their spec files, except in a book
\* that left a run between two backtests.
LEMMA NotesOfSpecs ==
  ASSUME ResearchInv, NEW b \in Books, at[b] = "adr", NEW k \in 0..Pairs(b),
         adrs' = WithAdrs(Adrs(b, k)), specs' = specs, torn \subseteq torn'
  PROVE  AdrOfOwnStrategy'
<1>1. AgentsTyped /\ BookInv(b)
  BY DEF ResearchInv
<1>2. DOMAIN adrs' = DOMAIN adrs \cup Adrs(b, k)
  BY DEF WithAdrs
<1>3. mapped[b] \in Seq(SpecRecords) /\ results[b] \in Seq(Nat)
  BY <1>1 DEF AgentsTyped
<1>4. \A i \in 1..k : i \in DOMAIN mapped[b] /\ i \in DOMAIN results[b]
  BY <1>3 DEF Pairs
<1>5. /\ Done(b, "spec") /\ cp[b].status # "complete"
      /\ mapped[b] = [i \in DOMAIN cp[b].specs |-> SpecOf(b, i)]
      /\ \A i \in DOMAIN cp[b].specs : SpecOf(b, i) \in specs
  BY <1>1 DEF BookInv, SpecsNamed, Late, Gone
<1>6. ASSUME NEW a \in Adrs(b, k)
      PROVE  a \in specs \/ a.book \in torn
  <2>1. PICK i \in 1..k : a = [mapped[b][i] EXCEPT !.sr = results[b][i]]
    BY DEF Adrs
  <2>2. i \in DOMAIN mapped[b] /\ mapped[b][i] = SpecOf(b, i) /\ i \in DOMAIN cp[b].specs
    BY <1>4, <1>5
  <2>3. a.book = b
    BY <2>1, <2>2 DEF SpecOf
  <2>4. CASE b \notin torn
    <3>1. results[b] = cp[b].specs
      BY <1>1, <2>4 DEF BookInv, ResultsOfRun
    <3>2. a = SpecOf(b, i)
      BY <2>1, <2>2, <3>1 DEF SpecOf
    <3> QED
      BY <1>5, <2>2, <3>2
  <2> QED
    BY <2>3, <2>4
<1> QED
  BY <1>2, <1>6 DEF ResearchInv, AdrOfOwnStrategy

LEMMA WriteAdrsKeeps ==
  ASSUME ResearchInv, NEW b \in Books, WriteAdrs(b)
  PROVE  ResearchInv'
<1>1. AgentsTyped /\ BookInv(b)
  BY DEF ResearchInv
<1>2. /\ at[b] = "adr"
      /\ at' \in [Books -> Early \cup Late \cup Gone]
      /\ at'[b] = "ended" /\ \A d \in Books \ {b} : at'[d] = at[d]
  BY <1>1 DEF WriteAdrs, Goto, AgentsTyped, Gone
<1>3. UNCHANGED <<run, torn, mapped, results, current, counter, specs, answered, found>>
  BY DEF WriteAdrs, bounds, history
<1>4. /\ cp' \in [Books -> Checkpoint] /\ \A d \in Books \ {b} : cp'[d] = cp[d]
      /\ cp'[b].status = "complete"
      /\ cp'[b].phases = cp[b].phases \cup {"adr"} /\ cp'[b].chunks_done = cp[b].chunks_done
      /\ cp'[b].strategies = cp[b].strategies /\ cp'[b].specs = cp[b].specs
      /\ cp'[b].results = cp[b].results
  BY <1>1, SavedAs, MarkedPhase DEF WriteAdrs, Phases, Terminal
<1>5. (Done(b, "spec")' <=> Done(b, "spec")) /\ (Done(b, "backtest")' <=> Done(b, "backtest"))
  BY <1>4 DEF Done
<1>6. AgentsTyped'
  BY <1>1, <1>2, <1>3, <1>4 DEF AgentsTyped
<1>7. NumbersUsed'
  BY <1>3 DEF ResearchInv, NumbersUsed, SpecIdsUnique
<1>8. AdrOfOwnStrategy'
  <2>1. Pairs(b) \in 0..Pairs(b)
    <3>1. mapped[b] \in Seq(SpecRecords) /\ results[b] \in Seq(Nat)
      BY <1>1 DEF AgentsTyped
    <3>2. Pairs(b) \in Nat
      BY <3>1 DEF Pairs
    <3> QED
      BY <3>2
  <2>2. adrs' = WithAdrs(Adrs(b, Pairs(b)))
    BY DEF WriteAdrs
  <2> QED
    BY <1>2, <1>3, <2>1, <2>2, NotesOfSpecs
<1>9. BookInv(b)'
  <2>1. Chunks(b)'
    BY <1>1, <1>2, <1>3, <1>4 DEF BookInv, Chunks
  <2>2. SpecsNamed(b)'
    BY <1>1, <1>2, <1>3, <1>4, <1>5 DEF BookInv, SpecsNamed, SpecOf, InTest, Late, Gone
  <2>3. ResultsInOrder(b)'
    BY <1>1, <1>2, <1>3, <1>4, <1>5 DEF BookInv, ResultsInOrder, InTest
  <2>4. ResultsOfRun(b)'
    BY <1>1, <1>2, <1>3, <1>4, <1>5 DEF BookInv, ResultsOfRun, ResultsInOrder, Early
  <2> QED
    BY <2>1, <2>2, <2>3, <2>4 DEF BookInv
<1> QED
  BY <1>1, <1>2, <1>3, <1>4, <1>6, <1>7, <1>8, <1>9, OneAgent

\* When the agents of a run are gone, a book between two backtests is remembered.
LEMMA NoAgentsKeeps ==
  ASSUME ResearchInv, NoAgents, run' # "agents", NumbersUsed', counter' \in Nat, specs \subseteq specs',
         AdrOfOwnStrategy', UNCHANGED <<cp, answered, found>>
  PROVE  ResearchInv'
<1>1. AgentsTyped /\ torn \subseteq torn'
  BY DEF ResearchInv, NoAgents
<1>2. \A b \in Books : at'[b] = "none" /\ mapped'[b] = << >> /\ results'[b] = << >>
  BY DEF NoAgents, NoneOf
<1>3. AgentsTyped'
  <2>1. << >> \in Seq(SpecRecords) /\ << >> \in Seq(Nat) /\ 0 \in Nat
    OBVIOUS
  <2>2. at' \in [Books -> Early \cup Late \cup Gone]
    BY DEF NoAgents, NoneOf, Early
  <2>3. mapped' \in [Books -> Seq(SpecRecords)] /\ results' \in [Books -> Seq(Nat)]
        /\ current' \in [Books -> Nat]
    BY <2>1 DEF NoAgents, NoneOf
  <2> QED
    BY <1>1, <2>2, <2>3 DEF AgentsTyped
<1>4. at' = NoneOf("none")'
  BY DEF NoAgents, NoneOf
<1>5. ASSUME NEW b \in Books
      PROVE  BookInv(b)'
  <2>1. BookInv(b)
    BY DEF ResearchInv
  <2>2. Chunks(b)'
    BY <1>2, <2>1 DEF BookInv, Chunks
  <2>3. SpecsNamed(b)'
    BY <1>2, <2>1 DEF BookInv, SpecsNamed, SpecOf, Done, Late, InTest, Gone
  <2>4. ResultsInOrder(b)'
    BY <1>2, <2>1 DEF BookInv, ResultsInOrder, Done, InTest
  <2>5. ResultsOfRun(b)'
    <3>1. CASE b \notin torn' /\ ~Done(b, "backtest")
      <4>1. b \notin torn
        BY <1>1, <3>1
      <4>2. cp[b].results # << >> => cp[b].status = "in_progress"
        BY <2>1, <3>1, <4>1 DEF BookInv, ResultsOfRun
      <4>3. cp[b].results = << >>
        BY <3>1, <4>2 DEF NoAgents
      <4> QED
        BY <1>2, <4>3 DEF ResultsOfRun
    <3>2. CASE ~(b \notin torn' /\ ~Done(b, "backtest"))
      BY <1>2, <3>2 DEF ResultsOfRun, Done
    <3> QED
      BY <3>1, <3>2
  <2> QED
    BY <2>2, <2>3, <2>4, <2>5 DEF BookInv
<1> QED
  BY <1>3, <1>4, <1>5 DEF ResearchInv

\* The orchestrator gives an agent to each book that is not through.
LEMMA LaunchKeeps ==
  ASSUME ResearchInv, NEW n \in Books, Launch(n)
  PROVE  ResearchInv'
<1>1. AgentsTyped /\ at = NoneOf("none") /\ run' = "agents"
  BY DEF ResearchInv, Launch
<1>2. UNCHANGED <<mapped, results, current, cp, counter, specs, adrs, answered, found, torn>>
  BY DEF Launch, notes, history
<1>3. /\ at' \in [Books -> {"waiting", "none"}]
      /\ \A b \in Books : at[b] = "none"
      /\ \A b \in Books : at'[b] = "waiting" => cp[b].status # "complete"
  BY <1>1 DEF Launch, NoneOf
<1>4. AgentsTyped'
  BY <1>1, <1>2, <1>3 DEF AgentsTyped, Early
<1>5. NumbersUsed' /\ AdrOfOwnStrategy'
  BY <1>2, FilesQuiet
<1>6. ASSUME NEW b \in Books
      PROVE  BookInv(b)'
  <2>1. BookInv(b) /\ at[b] = "none" /\ at'[b] \in {"waiting", "none"}
        /\ (at'[b] = "waiting" => cp[b].status # "complete")
    BY <1>3 DEF ResearchInv
  <2>2. Chunks(b)'
    BY <1>2, <2>1 DEF BookInv, Chunks
  <2>3. SpecsNamed(b)'
    BY <1>2, <2>1 DEF BookInv, SpecsNamed, SpecOf, Done, Late, InTest, Gone
  <2>4. ResultsInOrder(b)'
    BY <1>2, <2>1 DEF BookInv, ResultsInOrder, Done, InTest
  <2>5. ResultsOfRun(b)'
    BY <1>2, <2>1 DEF BookInv, ResultsOfRun, Done, Early
  <2> QED
    BY <2>2, <2>3, <2>4, <2>5 DEF BookInv
<1> QED
  BY <1>1, <1>4, <1>5, <1>6 DEF ResearchInv

\* The coordinator fills in notes and writes none.
LEMMA CoordinatorKeeps ==
  ASSUME ResearchInv, Coordinate \/ CoordinatorOnly
  PROVE  ResearchInv'
<1>1. UNCHANGED <<at, mapped, results, current, cp, counter, specs, answered, found, torn>>
  BY DEF Coordinate, CoordinatorOnly, agent, history
<1>2. run # "agents" /\ run' # "agents"
  BY DEF Coordinate, CoordinatorOnly
<1>3. DOMAIN adrs' = DOMAIN adrs
  BY DEF Coordinate, CoordinatorOnly, Backfilled, notes
<1>4. AgentsTyped'
  BY <1>1 DEF ResearchInv, AgentsTyped
<1>5. NumbersUsed' /\ AdrOfOwnStrategy'
  BY <1>1, <1>3 DEF ResearchInv, NumbersUsed, SpecIdsUnique, AdrOfOwnStrategy
<1>6. \A b \in Books : BookInv(b)'
  BY <1>1, BookQuiet DEF ResearchInv
<1>7. at' = NoneOf("none")'
  BY <1>1, <1>2 DEF ResearchInv, NoneOf
<1> QED
  BY <1>4, <1>5, <1>6, <1>7 DEF ResearchInv

\* A kill leaves half of phase spec, half of the notes or half of the filling in.
LEMMA CrashKeeps ==
  ASSUME ResearchInv, Crash
  PROVE  ResearchInv'
<1>1. NoAgents /\ run' # "agents" /\ torn \subseteq torn' /\ UNCHANGED <<cp, answered, found>>
  BY DEF Crash, NoAgents
<1>2. counter \in Nat /\ NumbersUsed /\ AdrOfOwnStrategy
  BY DEF ResearchInv, AgentsTyped
<1>3. CASE UNCHANGED <<counter, specs, adrs>>
  BY <1>1, <1>2, <1>3, NoAgentsKeeps DEF NumbersUsed, SpecIdsUnique, AdrOfOwnStrategy
<1>4. ASSUME NEW b \in Books, HalfSpecs(b)
      PROVE  ResearchInv'
  <2>1. PICK k \in 0..Len(cp[b].strategies), late \in {0, 1} :
          late <= k /\ counter' = counter + k /\ specs' = specs \cup ToSet(Specs(b, k - late))
    BY <1>4 DEF HalfSpecs
  <2>2. k \in Nat
    BY SpecsTyped
  <2> DEFINE n == k - late
  <2>3. n \in 0..k /\ specs' = specs \cup ToSet(Specs(b, n))
    BY <2>1, <2>2
  <2> HIDE DEF n
  <2>4. NumbersUsed' /\ counter' \in Nat /\ specs \subseteq specs'
    BY <2>1, <2>3, NumbersStayUnique
  <2>5. AdrOfOwnStrategy'
    BY <1>1, <1>2, <1>4, <2>4 DEF HalfSpecs, AdrOfOwnStrategy
  <2> QED
    BY <1>1, <2>4, <2>5, NoAgentsKeeps
<1>5. ASSUME NEW b \in Books, at[b] = "adr", HalfAdrs(b)
      PROVE  ResearchInv'
  <2>1. UNCHANGED <<counter, specs>>
    BY <1>5 DEF HalfAdrs
  <2>2. NumbersUsed'
    BY <1>2, <2>1 DEF NumbersUsed, SpecIdsUnique
  <2>3. AdrOfOwnStrategy'
    BY <1>1, <1>5, <2>1, NotesOfSpecs DEF HalfAdrs
  <2> QED
    BY <1>1, <1>2, <2>1, <2>2, <2>3, NoAgentsKeeps
<1>6. CASE UNCHANGED <<counter, specs>> /\ \E chosen \in Chosen : adrs' = Backfilled(chosen)
  <2>1. DOMAIN adrs' = DOMAIN adrs
    BY <1>6 DEF Backfilled
  <2>2. NumbersUsed' /\ AdrOfOwnStrategy'
    BY <1>1, <1>2, <1>6, <2>1 DEF NumbersUsed, SpecIdsUnique, AdrOfOwnStrategy
  <2> QED
    BY <1>1, <1>2, <1>6, <2>2, NoAgentsKeeps
<1> QED
  BY <1>3, <1>4, <1>5, <1>6 DEF Crash

-----------------------------------------------------------------------------
(* The invariant, and what it says. *)

LEMMA ResearchInductive == Spec => []ResearchInv
<1>1. ASSUME Init
      PROVE  ResearchInv
  <2> USE <1>1
  <2>1. Fresh \in Checkpoint /\ Fresh.phases = {} /\ Fresh.specs = << >> /\ Fresh.results = << >>
        /\ Fresh.status = "pending" /\ Fresh.chunks_done = 0 /\ Fresh.strategies = << >>
    BY DEF Fresh, Checkpoint, Terminal
  <2>2. \A b \in Books : /\ at[b] = "none" /\ results[b] = << >> /\ cp[b] = Fresh
                         /\ answered[b] = {} /\ found[b] = {}
    BY DEF Init, NoneOf
  <2>3. AgentsTyped
    <3>1. << >> \in Seq(SpecRecords) /\ << >> \in Seq(Nat) /\ 0 \in Nat /\ 1 \in Nat
      OBVIOUS
    <3>2. cp \in [Books -> Checkpoint]
      BY <2>1 DEF Init, NoneOf
    <3>3. at \in [Books -> Early \cup Late \cup Gone]
      BY DEF Init, NoneOf, Early
    <3>4. /\ mapped \in [Books -> Seq(SpecRecords)] /\ results \in [Books -> Seq(Nat)]
          /\ current \in [Books -> Nat] /\ counter \in Nat
      BY <3>1 DEF Init, NoneOf
    <3>5. answered \in [Books -> SUBSET Nat] /\ found \in [Books -> SUBSET Strategies]
      BY DEF Init, NoneOf
    <3> QED
      BY <3>2, <3>3, <3>4, <3>5 DEF AgentsTyped
  <2>4. ASSUME NEW b \in Books
        PROVE  BookInv(b)
    <3>1. Chunks(b)
      BY <2>2 DEF Chunks
    <3>2. SpecsNamed(b)
      BY <2>1, <2>2 DEF SpecsNamed, Done, Gone, Late, InTest
    <3>3. ResultsInOrder(b)
      BY <2>1, <2>2 DEF ResultsInOrder, Done, InTest
    <3>4. ResultsOfRun(b)
      BY <2>1, <2>2 DEF ResultsOfRun, Done
    <3> QED
      BY <3>1, <3>2, <3>3, <3>4 DEF BookInv
  <2>5. NumbersUsed
    BY DEF Init, NumbersUsed, SpecIdsUnique
  <2>6. AdrOfOwnStrategy
    BY DEF Init, AdrOfOwnStrategy
  <2> QED
    BY <2>3, <2>4, <2>5, <2>6 DEF ResearchInv, Init
<1>2. ASSUME ResearchInv, [Next]_vars
      PROVE  ResearchInv'
  <2> USE <1>2
  <2>1. ASSUME NEW b \in Books, AgentStep(b)
        PROVE  ResearchInv'
    <3>1. CASE ReadBook(b)
      BY <3>1, ReadBookKeeps
    <3>2. CASE SkipChunk(b) \/ ModelAnswers(b)
      BY <3>2, ChunkCountedKeeps
    <3>3. CASE AskModel(b) \/ ModelRaises(b)
      BY <3>3, AgentMoves DEF AskModel, ModelRaises, history, notes
    <3>4. CASE EndExtract(b)
      BY <3>4, EndExtractKeeps
    <3>5. CASE WriteSpecs(b)
      BY <3>5, WriteSpecsKeeps
    <3>6. CASE ReloadSpecs(b)
      BY <3>6, ReloadSpecsKeeps
    <3>7. CASE NextBacktest(b)
      BY <3>7, NextBacktestKeeps
    <3>8. CASE CheckHeader(b) \/ WriteTmp(b) \/ ReplaceLog(b) \/ OpenLog(b) \/ AppendRow(b)
      <4>1. UNCHANGED <<run, torn, mapped, results, current, cp, counter, specs, adrs, answered, found>>
        BY <3>8 DEF CheckHeader, WriteTmp, ReplaceLog, OpenLog, AppendRow, history, notes
      <4>2. at[b] \in InTest /\ \E where \in InTest \cup {"raised"} : Goto(b, where)
        BY <3>8 DEF CheckHeader, WriteTmp, ReplaceLog, OpenLog, AppendRow, InTest
      <4> QED
        BY <4>1, <4>2, AgentMoves
    <3>9. CASE SaveResult(b)
      BY <3>9, SaveResultKeeps
    <3>10. CASE EndBacktests(b)
      BY <3>10, EndBacktestsKeeps
    <3>11. CASE ReloadResults(b)
      BY <3>11, ReloadResultsKeeps
    <3>12. CASE WriteAdrs(b)
      BY <3>12, WriteAdrsKeeps
    <3> QED
      BY <2>1, <3>1, <3>2, <3>3, <3>4, <3>5, <3>6, <3>7, <3>8, <3>9, <3>10, <3>11, <3>12
         DEF AgentStep
  <2>2. CASE AgentsDone
    <3>1. NumbersUsed' /\ AdrOfOwnStrategy' /\ counter' \in Nat /\ specs' = specs
      BY <2>2 DEF AgentsDone, NoAgents, notes, ResearchInv, AgentsTyped, NumbersUsed, SpecIdsUnique,
                  AdrOfOwnStrategy
    <3>2. run' # "agents"
      BY <2>2 DEF AgentsDone
    <3> QED
      BY <2>2, <3>1, <3>2, NoAgentsKeeps DEF AgentsDone
  <2>3. CASE Coordinate \/ CoordinatorOnly
    BY <2>3, CoordinatorKeeps
  <2>4. CASE UNCHANGED vars
    <3>1. UNCHANGED <<run, at, mapped, results, current, cp, counter, specs, adrs, answered, found, torn>>
      BY <2>4 DEF vars, agent, history, notes
    <3>2. NumbersUsed' /\ AdrOfOwnStrategy'
      BY <3>1, FilesQuiet
    <3>3. \A b \in Books : BookInv(b)'
      BY <3>1, BookQuiet DEF ResearchInv
    <3> QED
      BY <3>1, <3>2, <3>3 DEF ResearchInv, AgentsTyped, NoneOf
  <2> QED
    BY <1>2, <2>1, <2>2, <2>3, <2>4, LaunchKeeps, CrashKeeps DEF Next
<1> QED
  BY <1>1, <1>2, PTL DEF Spec

\* No saved answer is asked for again, and each of its strategies stays in the checkpoint,
\* or one of its name with no fewer parameters, however runs end: what is answered is
\* counted, an agent asks only for what is not, and _dedup_candidates replaces a strategy
\* only by one of its name with more parameters.
THEOREM Resumes == Spec => []AnswersKept
<1>1. ResearchInv => AnswersKept
  <2> SUFFICES ASSUME ResearchInv, NEW b \in Books
               PROVE  /\ cp[b].chunks_done + 1 \notin answered[b]
                      /\ \A s \in found[b] : Kept(cp[b].strategies, s)
    BY DEF AnswersKept
  <2>1. AgentsTyped /\ Chunks(b)
    BY DEF ResearchInv, BookInv
  <2>2. cp[b].chunks_done \in Nat
    BY <2>1, FieldsTyped
  <2> QED
    BY <2>1, <2>2 DEF Chunks
<1> QED
  BY <1>1, ResearchInductive, PTL

\* No two spec files have the same number, those of a killed run included: the counter on
\* disk is past every number in use, at every moment.
THEOREM UniqueNumbers == Spec => []SpecIdsUnique
<1>1. ResearchInv => SpecIdsUnique
  BY DEF ResearchInv, NumbersUsed
<1> QED
  BY <1>1, ResearchInductive, PTL

\* A note tells of the strategy in its number's spec file, except in books that left a run
\* between two backtests: in the others the results of the run are those of its specs.
THEOREM NotesMatchSpecs == Spec => []AdrOfOwnStrategy
<1>1. ResearchInv => AdrOfOwnStrategy
  BY DEF ResearchInv
<1> QED
  BY <1>1, ResearchInductive, PTL

=============================================================================
