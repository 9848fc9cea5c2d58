---------------------------- MODULE PaperBroker ----------------------------
(***************************************************************************)
(* bot/core/execution/paper_broker.py: the simulated broker of the trading *)
(* bot.  It keeps the open positions in memory and in a JSON state file    *)
(* replaced atomically (_save_state), and appends every open, partial      *)
(* close and close to a CSV journal AFTER leaving the lock and the save.   *)
(*                                                                         *)
(* A call is split where another caller or a crash can come between: the   *)
(* price fetch of close_position runs with the position popped and no lock *)
(* held, and the journal append follows the save.  Volumes are counted in  *)
(* units of 0.01 lot, the rounding step of partial_close.                  *)
(***************************************************************************)
EXTENDS Naturals, Sequences, FiniteSets, FiniteSetsExt

CONSTANTS
  Callers,        \* threads that may call the broker
  INITIAL_TICKET, \* PaperBroker.INITIAL_TICKET
  Volumes,        \* volumes an order may have, in 0.01 lots
  FileDamage,     \* whether the broker's files may be damaged between two runs
  TicketBound,    \* bound: no order is placed beyond this ticket
  JournalBound    \* bound: no call starts once the journal is this long

ASSUME ConstantsAssumption ==
  /\ INITIAL_TICKET \in Nat
  /\ IsFiniteSet(Callers)
  /\ Volumes \subseteq Nat \ {0}
  /\ FileDamage \in BOOLEAN
  /\ TicketBound \in Nat
  /\ JournalBound \in Nat

VARIABLES
  threads,    \* those that do in this run: main.py has one, the lock allows more
  up,         \* the bot process is running
  positions,  \* _positions: ticket -> open position
  closed,     \* tickets of _closed, oldest first: lost when the process ends
  ticketSeq,  \* _ticket_seq_value
  stateFile,  \* checkpoints/paper_broker.json
  journal,    \* logs/trades.csv: the rows appended so far
  legible,    \* csv and int() read every row of the journal
  call,       \* where each caller stands in the broker's code
  blind       \* history: a restart found both files damaged, and counted anew

vars == <<threads, up, positions, closed, ticketSeq, stateFile, journal, legible,
          call, blind>>

-----------------------------------------------------------------------------
Position == [volume: Nat, sl: {"initial", "breakeven"}]

Row == [ticket: Nat, kind: {"open", "partial", "close"}, volume: Nat]

\* The position tables a broker can hold: ticket -> position.
IsPositions(p) ==
  /\ DOMAIN p \subseteq Nat
  /\ \A t \in DOMAIN p : p[t] \in Position

Without(p, t) == [s \in DOMAIN p \ {t} |-> p[s]]
With(p, t, pos) == [s \in DOMAIN p \cup {t} |-> IF s = t THEN pos ELSE p[s]]

Absent == [status |-> "absent"]
Unreadable == [status |-> "unreadable"]
Saved(seq, p) == [status |-> "ok", seq |-> seq, positions |-> p]

Idle == [at |-> "idle"]
Closing(t, pos) == [at |-> "closing", ticket |-> t, pos |-> pos]
Partial(t, cv, rem) ==
  [at |-> "partial", ticket |-> t, closing |-> cv, remaining |-> rem]
Journalling(t, k, v) ==
  [at |-> "journal", row |-> [ticket |-> t, kind |-> k, volume |-> v]]

JournalTickets == {journal[i].ticket : i \in DOMAIN journal}

\* Mutant: always rounded up, so a volume of 0 would close 0.01 lot.
HalfRoundedUp(v) == {v \div 2 + 1}

\* round(volume * 0.5, 2) in 0.01 lots: 0.005 rounds up to 0.01; for the other
\* odd volumes the binary value of the product decides (0.03 gives 0.01, 0.05
\* gives 0.03), so either neighbour is allowed.
HalfRounded(v) == IF v = 1 THEN {1} ELSE {v \div 2, (v + 1) \div 2}

-----------------------------------------------------------------------------
Init ==
  /\ threads \in SUBSET Callers \ {{}}
  /\ up = TRUE
  /\ positions = << >>
  /\ closed = << >>
  /\ ticketSeq = INITIAL_TICKET
  /\ stateFile = Absent
  /\ journal = << >>
  /\ legible = TRUE
  /\ call = [c \in Callers |-> Idle]
  /\ blind = FALSE

MayStart(c) ==
  /\ up
  /\ call[c] = Idle
  /\ Len(journal) < JournalBound

\* Mutant: the state is saved before the counter moves.
PlaceOrderSavesOldSeq(c, v) ==
  /\ MayStart(c)
  /\ ticketSeq <= TicketBound
  /\ positions' = With(positions, ticketSeq, [volume |-> v, sl |-> "initial"])
  /\ ticketSeq' = ticketSeq + 1
  /\ stateFile' = Saved(ticketSeq, positions')
  /\ call' = [call EXCEPT ![c] = Journalling(ticketSeq, "open", v)]
  /\ UNCHANGED <<threads, up, closed, journal, legible, blind>>

\* place_order up to the end of its critical section: a fresh ticket, the
\* position, the save.  (With no usable price it raises before any change.)
PlaceOrder(c, v) ==
  /\ MayStart(c)
  /\ ticketSeq <= TicketBound
  /\ positions' = With(positions, ticketSeq, [volume |-> v, sl |-> "initial"])
  /\ ticketSeq' = ticketSeq + 1
  /\ stateFile' = Saved(ticketSeq', positions')
  /\ call' = [call EXCEPT ![c] = Journalling(ticketSeq, "open", v)]
  /\ UNCHANGED <<threads, up, closed, journal, legible, blind>>

\* The append to the CSV, the last thing a call does, outside the lock.
Journal(c) ==
  /\ up
  /\ call[c].at = "journal"
  /\ journal' = Append(journal, call[c].row)
  /\ call' = [call EXCEPT ![c] = Idle]
  /\ UNCHANGED <<threads, up, positions, closed, ticketSeq, stateFile, legible, blind>>

\* close_position, first critical section: the position is popped and nothing
\* is saved.  (An unknown ticket raises KeyError and changes nothing.)
ClosePop(c, t) ==
  /\ MayStart(c)
  /\ t \in DOMAIN positions
  /\ positions' = Without(positions, t)
  /\ call' = [call EXCEPT ![c] = Closing(t, positions[t])]
  /\ UNCHANGED <<threads, up, closed, ticketSeq, stateFile, journal, legible, blind>>

\* Mutant: the rollback of the pop is missing.
CloseStaleForgets(c) ==
  /\ up
  /\ call[c].at = "closing"
  /\ call' = [call EXCEPT ![c] = Idle]
  /\ UNCHANGED <<threads, up, positions, closed, ticketSeq, stateFile, journal, legible, blind>>

\* _current_prices raised StaleTickError: the position is put back, unsaved.
CloseStale(c) ==
  /\ up
  /\ call[c].at = "closing"
  /\ positions' = With(positions, call[c].ticket, call[c].pos)
  /\ call' = [call EXCEPT ![c] = Idle]
  /\ UNCHANGED <<threads, up, closed, ticketSeq, stateFile, journal, legible, blind>>

\* Mutant: the close is not saved.
CloseCommitUnsaved(c) ==
  /\ up
  /\ call[c].at = "closing"
  /\ closed' = Append(closed, call[c].ticket)
  /\ call' = [call EXCEPT ![c] =
                Journalling(call[c].ticket, "close", call[c].pos.volume)]
  /\ UNCHANGED <<threads, up, positions, ticketSeq, stateFile, journal, legible, blind>>

\* A price arrived: second critical section, _closed.append and the save.
CloseCommit(c) ==
  /\ up
  /\ call[c].at = "closing"
  /\ closed' = Append(closed, call[c].ticket)
  /\ stateFile' = Saved(ticketSeq, positions)
  /\ call' = [call EXCEPT ![c] =
                Journalling(call[c].ticket, "close", call[c].pos.volume)]
  /\ UNCHANGED <<threads, up, positions, ticketSeq, journal, legible, blind>>

\* partial_close(ticket, 0.5), first critical section: the volumes are computed
\* from the position and kept across the unlocked price fetch.
PartialRead(c, t) ==
  /\ MayStart(c)
  /\ t \in DOMAIN positions
  /\ \E cv \in HalfRounded(positions[t].volume) :
       call' = [call EXCEPT ![c] = Partial(t, cv, positions[t].volume - cv)]
  /\ UNCHANGED <<threads, up, positions, closed, ticketSeq, stateFile, journal, legible, blind>>

\* Mutant: the position keeps its volume.
PartialCommitKeepsVolume(c) ==
  LET t == call[c].ticket IN
  /\ up
  /\ call[c].at = "partial"
  /\ t \in DOMAIN positions
  /\ closed' = Append(closed, t)
  /\ stateFile' = Saved(ticketSeq, positions)
  /\ call' = [call EXCEPT ![c] = Journalling(t, "partial", call[c].closing)]
  /\ UNCHANGED <<threads, up, positions, ticketSeq, journal, legible, blind>>

\* Second critical section: the volume computed earlier is stored.
PartialCommit(c) ==
  LET t == call[c].ticket IN
  /\ up
  /\ call[c].at = "partial"
  /\ t \in DOMAIN positions
  /\ positions' = [positions EXCEPT ![t].volume = call[c].remaining]
  /\ closed' = Append(closed, t)
  /\ stateFile' = Saved(ticketSeq, positions')
  /\ call' = [call EXCEPT ![c] = Journalling(t, "partial", call[c].closing)]
  /\ UNCHANGED <<threads, up, ticketSeq, journal, legible, blind>>

\* StaleTickError from the price fetch, or KeyError because the position was
\* popped by another caller since PartialRead: nothing has changed.
PartialRaise(c) ==
  /\ up
  /\ call[c].at = "partial"
  /\ call' = [call EXCEPT ![c] = Idle]
  /\ UNCHANGED <<threads, up, positions, closed, ticketSeq, stateFile, journal, legible, blind>>

\* modify_sl, as called by OrderManager.set_breakeven: one critical section.
ModifySl(c, t) ==
  /\ MayStart(c)
  /\ t \in DOMAIN positions
  /\ positions' = [positions EXCEPT ![t].sl = "breakeven"]
  /\ stateFile' = Saved(ticketSeq, positions')
  /\ UNCHANGED <<threads, up, closed, ticketSeq, journal, call, legible, blind>>

\* The process ends, at any point of any call: memory is gone, files stay.
Crash ==
  /\ up
  /\ up' = FALSE
  /\ positions' = << >>
  /\ closed' = << >>
  /\ ticketSeq' = INITIAL_TICKET
  /\ call' = [c \in Callers |-> Idle]
  /\ UNCHANGED <<threads, stateFile, journal, legible, blind>>

\* The state file is damaged while the bot is down (a power cut before the
\* data reached the disk, an edit by hand).
CorruptStateFile ==
  /\ FileDamage
  /\ ~up
  /\ stateFile.status = "ok"
  /\ stateFile' = Unreadable
  /\ UNCHANGED <<threads, up, positions, closed, ticketSeq, journal, legible, call, blind>>

\* So is the journal: from now on a row of it makes csv or int() raise.
CorruptJournal ==
  /\ FileDamage
  /\ ~up
  /\ journal # << >> /\ legible
  /\ legible' = FALSE
  /\ UNCHANGED <<threads, up, positions, closed, ticketSeq, stateFile, journal, call, blind>>

\* Mutant: reseeded at the last ticket of the journal, not after it.
ReseededAtMax(n) ==
  \/ (journal = << >> \/ ~legible) /\ n = INITIAL_TICKET
  \/ legible /\ n \in JournalTickets /\ \A s \in JournalTickets : s <= n

\* _reseed_ticket_seq_from_csv: max(ticket) + 1 of the journal; the first ticket
\* when it has no row, and also when reading it raises.
Reseeded(n) ==
  \/ (journal = << >> \/ ~legible) /\ n = INITIAL_TICKET
  \/ legible /\ \E t \in JournalTickets : n = t + 1 /\ \A s \in JournalTickets : s <= t

\* __init__ and _load_state.
Restart ==
  /\ ~up
  /\ up' = TRUE
  /\ \/ /\ stateFile.status = "absent"
        /\ ticketSeq' = INITIAL_TICKET
        /\ positions' = << >>
     \/ /\ stateFile.status = "ok"
        /\ ticketSeq' = stateFile.seq
        /\ positions' = stateFile.positions
     \/ /\ stateFile.status = "unreadable"
        /\ \E n \in {INITIAL_TICKET} \cup JournalTickets \cup {t + 1 : t \in JournalTickets} :
             Reseeded(n) /\ ticketSeq' = n
        /\ positions' = << >>
  /\ blind' = (blind \/ (stateFile.status = "unreadable" /\ ~legible))
  /\ UNCHANGED <<threads, closed, stateFile, journal, legible, call>>

CallerStep(c) ==
  \/ \E v \in Volumes : PlaceOrder(c, v)
  \/ \E t \in DOMAIN positions :
       ClosePop(c, t) \/ PartialRead(c, t) \/ ModifySl(c, t)
  \/ Journal(c)
  \/ CloseStale(c)
  \/ CloseCommit(c)
  \/ PartialCommit(c)
  \/ PartialRaise(c)

Next ==
  \/ \E c \in threads : CallerStep(c)
  \/ Crash
  \/ CorruptStateFile
  \/ CorruptJournal
  \/ Restart

Spec == Init /\ [][Next]_vars

-----------------------------------------------------------------------------
Calls ==
  {Idle}
  \cup [at: {"closing"}, ticket: Nat, pos: Position]
  \cup [at: {"partial"}, ticket: Nat, closing: Nat, remaining: Nat]
  \cup [at: {"journal"}, row: Row]

\* Types of all variables; the journal and _closed are sequences.
TypeOK ==
  /\ threads \subseteq Callers
  /\ up \in BOOLEAN
  /\ IsPositions(positions)
  /\ closed \in Seq(Nat)
  /\ ticketSeq \in Nat
  /\ \/ stateFile = Absent
     \/ stateFile = Unreadable
     \/ /\ stateFile = Saved(stateFile.seq, stateFile.positions)
        /\ stateFile.seq \in Nat
        /\ IsPositions(stateFile.positions)
  /\ journal \in Seq(Row)
  /\ legible \in BOOLEAN /\ blind \in BOOLEAN
  /\ call \in [Callers -> Calls]

\* The ticket a call under way is about.
TicketsOf(x) ==
  IF x.at = "idle" THEN {} ELSE IF x.at = "journal" THEN {x.row.ticket} ELSE {x.ticket}

\* Every open ticket is below the counter that issues the next one, in memory, in
\* a call under way and in what a restart would load, whatever is damaged; so is
\* every journalled ticket (CHANGELOG "Ticket-counter collision across restarts"),
\* unless the counter was once rebuilt with both files damaged (blind).
TicketsFresh ==
  /\ up => /\ \A t \in DOMAIN positions : t < ticketSeq
           /\ \A c \in Callers : \A t \in TicketsOf(call[c]) : t < ticketSeq
           /\ ~blind => \A t \in JournalTickets : t < ticketSeq
  /\ stateFile.status = "ok" =>
       /\ \A t \in DOMAIN stateFile.positions : t < stateFile.seq
       /\ ~blind => \A t \in JournalTickets : t < stateFile.seq

\* No ticket number is journalled as opened twice, whatever crashes there were and
\* however often one of the two files was damaged (_load_state, and
\* _reseed_ticket_seq_from_csv), as long as no restart found both damaged.
UniqueOpenRows ==
  ~blind =>
  \A i, j \in DOMAIN journal :
    /\ journal[i].kind = "open" /\ journal[j].kind = "open"
    /\ journal[i].ticket = journal[j].ticket
    => i = j

\* A trade the journal shows closed is closed for good: it has one close row
\* and neither memory, a call under way nor the state file holds it as open,
\* although close_position saves before it journals and may crash anywhere.
\* (Not said once the counter was rebuilt with both files damaged.)
ClosedForGood ==
  ~blind =>
  \A i \in DOMAIN journal : journal[i].kind = "close" =>
    /\ journal[i].ticket \notin DOMAIN positions
    /\ \A c \in Callers : call[c].at = "closing" => call[c].ticket # journal[i].ticket
    /\ stateFile.status = "ok" => journal[i].ticket \notin DOMAIN stateFile.positions
    /\ \A j \in DOMAIN journal :
         journal[j].kind = "close" /\ journal[j].ticket = journal[i].ticket => i = j

OpenTickets ==
  DOMAIN positions
  \cup {call[c].ticket : c \in {d \in Callers : call[d].at = "closing"}}

ClosedTickets == {closed[i] : i \in DOMAIN closed}

\* While the bot runs, an open position disappears only into _closed: neither
\* the pop before the price fetch nor the StaleTickError rollback loses one,
\* and a closed one does not come back (close_position, lines 229-249).
NoSilentLoss ==
  [][up /\ up' => /\ OpenTickets \ OpenTickets' \subseteq ClosedTickets'
                  /\ OpenTickets' \ OpenTickets \subseteq ticketSeq .. ticketSeq']_vars

VolumeOf(t, kinds) ==
  MapThenSumSet(LAMBDA i : journal[i].volume,
                {i \in DOMAIN journal : journal[i].ticket = t /\ journal[i].kind \in kinds})

\* No trade is closed for more than it was opened for: what the journal shows
\* closed, plus what is still open, is at most what it shows opened.  Said of one
\* thread: two concurrent partial_close calls both compute from one volume; and of
\* tickets that were not issued anew by a restart with both files damaged.
VolumeConserved ==
  ~blind =>
  \A i \in DOMAIN journal : journal[i].kind = "open" /\ Cardinality(threads) = 1 =>
    LET t == journal[i].ticket
        stillOpen == IF t \in DOMAIN positions THEN positions[t].volume ELSE 0
    IN VolumeOf(t, {"partial", "close"}) + stillOpen <= journal[i].volume

-----------------------------------------------------------------------------
(* What the broker implements. *)

\* The positions that a crash now would leave: those of memory, the popped ones
\* included (nothing is saved until CloseCommit), or those of the file.
DurablePositions ==
  IF up
  THEN [t \in OpenTickets |->
          IF t \in DOMAIN positions THEN positions[t]
          ELSE call[CHOOSE c \in Callers : call[c].at = "closing" /\ call[c].ticket = t].pos]
  ELSE IF stateFile.status = "ok" THEN stateFile.positions ELSE << >>

Ledger == INSTANCE Book WITH book <- DurablePositions

\* "Restart-safe state" (paper_broker.py, lines 9-12) as a refinement: seen from
\* one thread, every step of the broker, crashes and restarts included, is one
\* step of Book or changes no durable position; all are lost only when the file
\* turns unreadable.
ImplementsBook ==
  /\ Ledger!BookInit
  /\ [][Cardinality(threads) = 1 =>
          \/ \E v \in Volumes : Ledger!Open(ticketSeq, v)
          \/ \E t \in DOMAIN DurablePositions :
               \/ \E cv \in 0 .. DurablePositions[t].volume : Ledger!Reduce(t, cv)
               \/ Ledger!MoveStop(t)
               \/ Ledger!Close(t)
          \/ Ledger!Lose /\ stateFile' = Unreadable]_DurablePositions
=============================================================================
