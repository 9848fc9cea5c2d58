------------------------- MODULE PaperBrokerProofs -------------------------
(***************************************************************************)
(* Theorems about PaperBroker, for any set of threads, any volumes and any *)
(* bounds: the types (TypeCorrect), three that rest on one inductive       *)
(* invariant, IInv (TicketsStayFresh, OpenRowsUnique, CloseIsFinal), that  *)
(* no open position is lost (NothingLostSilently), that it implements Book *)
(* (RefinesBook), and that no trade is closed for more than it was opened  *)
(* for (ClosedVolumeCovered), which rests on sums over the journal.        *)
(***************************************************************************)
EXTENDS PaperBroker, FiniteSetTheorems, WellFoundedInduction, TLAPS

-----------------------------------------------------------------------------
(* The shape of a call record is decided by its field "at". *)

LEMMA CallShapes ==
  ASSUME NEW x \in Calls
  PROVE  /\ x.at \in {"idle", "closing", "partial", "journal"}
         /\ x.at = "idle" => x = Idle
         /\ x.at = "closing" => x.ticket \in Nat /\ x.pos \in Position
         /\ x.at = "partial" =>
              x.ticket \in Nat /\ x.closing \in Nat /\ x.remaining \in Nat
         /\ x.at = "journal" => x.row \in Row
BY DEF Calls, Idle

LEMMA CallConstructors ==
  /\ Idle \in Calls
  /\ \A t \in Nat, pos \in Position : Closing(t, pos) \in Calls
  /\ \A t, cv, rem \in Nat : Partial(t, cv, rem) \in Calls
  /\ \A t, v \in Nat, k \in {"open", "partial", "close"} : Journalling(t, k, v) \in Calls
BY DEF Calls, Idle, Closing, Partial, Journalling, Row

LEMMA HalfInRange ==
  ASSUME NEW v \in Nat, NEW cv \in HalfRounded(v)
  PROVE  cv \in Nat /\ v - cv \in Nat
BY DEF HalfRounded

LEMMA PositionTables ==
  ASSUME NEW p, IsPositions(p), NEW t \in Nat
  PROVE  /\ IsPositions(Without(p, t))
         /\ \A pos \in Position : IsPositions(With(p, t, pos))
BY DEF IsPositions, Without, With

LEMMA SavedFields ==
  ASSUME NEW n, NEW p
  PROVE  /\ Saved(n, p).status = "ok"
         /\ Saved(n, p).seq = n
         /\ Saved(n, p).positions = p
BY DEF Saved

LEMMA StartTyped == Init => TypeOK
<1> SUFFICES ASSUME Init PROVE TypeOK
  OBVIOUS
<1>1. up \in BOOLEAN /\ legible \in BOOLEAN /\ blind \in BOOLEAN
  BY DEF Init
<1>2. IsPositions(positions) /\ closed \in Seq(Nat) /\ journal \in Seq(Row)
  BY DEF Init, IsPositions
<1>3. /\ threads \subseteq Callers /\ ticketSeq \in Nat /\ stateFile = Absent
      /\ call \in [Callers -> Calls]
  BY ConstantsAssumption, CallConstructors DEF Init, ConstantsAssumption
<1> QED BY <1>1, <1>2, <1>3 DEF TypeOK

\* Every variable keeps its type (TypeOK, checked by TLC on two threads).
THEOREM TypeCorrect == Spec => []TypeOK
<1>1. Init => TypeOK
  BY StartTyped
<1>2. TypeOK /\ [Next]_vars => TypeOK'
  <2> SUFFICES ASSUME TypeOK, [Next]_vars PROVE TypeOK'
    OBVIOUS
  <2> USE ConstantsAssumption DEF ConstantsAssumption, TypeOK
  <2>1. ASSUME NEW c \in threads, NEW v \in Volumes, PlaceOrder(c, v) PROVE TypeOK'
    <3>1. v \in Nat /\ c \in Callers /\ ticketSeq' \in Nat
      BY <2>1 DEF PlaceOrder
    <3>2. IsPositions(positions')
      BY <2>1, <3>1, PositionTables DEF PlaceOrder, Position
    <3>3. call' \in [Callers -> Calls]
      BY <2>1, <3>1, CallConstructors DEF PlaceOrder
    <3> QED BY <2>1, <3>1, <3>2, <3>3, SavedFields DEF PlaceOrder
  <2>2. ASSUME NEW c \in threads, Journal(c) PROVE TypeOK'
    <3>1. c \in Callers /\ call[c].row \in Row
      BY <2>2, CallShapes DEF Journal
    <3> QED BY <2>2, <3>1, CallConstructors DEF Journal
  <2>3. ASSUME NEW c \in threads, NEW t \in DOMAIN positions, ClosePop(c, t) PROVE TypeOK'
    <3>1. c \in Callers /\ t \in Nat /\ positions[t] \in Position
      BY DEF IsPositions
    <3>2. IsPositions(positions')
      BY <2>3, <3>1, PositionTables DEF ClosePop
    <3> QED BY <2>3, <3>1, <3>2, CallConstructors DEF ClosePop
  <2>4. ASSUME NEW c \in threads, CloseStale(c) PROVE TypeOK'
    <3>1. c \in Callers /\ call[c].ticket \in Nat /\ call[c].pos \in Position
      BY <2>4, CallShapes DEF CloseStale
    <3>2. IsPositions(positions')
      BY <2>4, <3>1, PositionTables DEF CloseStale
    <3> QED BY <2>4, <3>1, <3>2, CallConstructors DEF CloseStale
  <2>5. ASSUME NEW c \in threads, CloseCommit(c) PROVE TypeOK'
    <3>1. /\ c \in Callers /\ call[c].ticket \in Nat /\ call[c].pos \in Position
          /\ call[c].pos.volume \in Nat
      BY <2>5, CallShapes DEF CloseCommit, Position
    <3> QED BY <2>5, <3>1, CallConstructors, SavedFields DEF CloseCommit
  <2>6. ASSUME NEW c \in threads, NEW t \in DOMAIN positions, PartialRead(c, t) PROVE TypeOK'
    <3>1. c \in Callers /\ t \in Nat /\ positions[t].volume \in Nat
      BY DEF IsPositions, Position
    <3>2. PICK cv \in HalfRounded(positions[t].volume) :
            call' = [call EXCEPT ![c] = Partial(t, cv, positions[t].volume - cv)]
      BY <2>6 DEF PartialRead
    <3>3. Partial(t, cv, positions[t].volume - cv) \in Calls
      BY <3>1, HalfInRange, CallConstructors
    <3> QED BY <2>6, <3>1, <3>2, <3>3 DEF PartialRead
  <2>7. ASSUME NEW c \in threads, PartialCommit(c) PROVE TypeOK'
    <3>1. /\ c \in Callers /\ call[c].ticket \in Nat
          /\ call[c].closing \in Nat /\ call[c].remaining \in Nat
      BY <2>7, CallShapes DEF PartialCommit
    <3>2. IsPositions(positions')
      BY <2>7, <3>1 DEF PartialCommit, IsPositions, Position
    <3> QED BY <2>7, <3>1, <3>2, CallConstructors, SavedFields DEF PartialCommit
  <2>8. ASSUME NEW c \in threads, PartialRaise(c) PROVE TypeOK'
    BY <2>8, CallConstructors DEF PartialRaise
  <2>9. ASSUME NEW c \in threads, NEW t \in DOMAIN positions, ModifySl(c, t) PROVE TypeOK'
    <3>1. IsPositions(positions')
      BY <2>9 DEF ModifySl, IsPositions, Position
    <3> QED BY <2>9, <3>1, SavedFields DEF ModifySl
  <2>10. CASE Crash
    <3>1. IsPositions(positions')
      BY <2>10 DEF Crash, IsPositions
    <3>2. call' \in [Callers -> Calls]
      BY <2>10, CallConstructors DEF Crash
    <3>3. closed' \in Seq(Nat)
      BY <2>10 DEF Crash
    <3> QED BY <2>10, <3>1, <3>2, <3>3 DEF Crash
  <2>11. CASE CorruptStateFile \/ CorruptJournal
    BY <2>11 DEF CorruptStateFile, CorruptJournal
  <2>12. CASE Restart
    <3>1. JournalTickets \subseteq Nat
      <4> SUFFICES ASSUME NEW i \in DOMAIN journal PROVE journal[i].ticket \in Nat
        BY DEF JournalTickets
      <4>1. journal[i] \in Row
        OBVIOUS
      <4> QED BY <4>1 DEF Row
    <3>2. ticketSeq' \in Nat /\ IsPositions(positions')
      BY <2>12, <3>1 DEF Restart, IsPositions, Absent, Unreadable
    <3> QED BY <2>12, <3>2 DEF Restart
  <2>13. CASE UNCHANGED vars
    BY <2>13 DEF vars
  <2> QED
    BY <2>1, <2>2, <2>3, <2>4, <2>5, <2>6, <2>7, <2>8, <2>9, <2>10, <2>11, <2>12, <2>13
    DEF Next, CallerStep
<1> QED BY <1>1, <1>2, PTL DEF Spec

-----------------------------------------------------------------------------
(* The inductive invariant. *)

\* What ties the counter, the file and the process together: the file carries
\* the counter in use, it exists before anything is journalled, and a process
\* that is down has no call under way.
Bookkeeping ==
  /\ up /\ stateFile.status = "ok" => stateFile.seq = ticketSeq
  /\ stateFile.status = "absent" =>
       journal = << >> /\ \A c \in Callers : call[c].at # "journal"
  /\ ~up => positions = << >> /\ \A c \in Callers : call[c] = Idle

PendingRow(c, k) == call[c].at = "journal" /\ call[c].row.kind = k

\* A row "open" on its way to the journal is the only one of its ticket.  What
\* relates a call to the rows of the journal holds of tickets issued past them.
PendingOpensNew ==
  ~blind =>
  \A c \in Callers : PendingRow(c, "open") =>
    /\ \A i \in DOMAIN journal :
         journal[i].kind = "open" => journal[i].ticket # call[c].row.ticket
    /\ \A d \in Callers :
         PendingRow(d, "open") /\ call[d].row.ticket = call[c].row.ticket => d = c

\* A popped position is out of the table, and popped by one call only.
PoppedApart ==
  \A c \in Callers : call[c].at = "closing" =>
    /\ call[c].ticket \notin DOMAIN positions
    /\ \A d \in Callers :
         call[d].at = "closing" /\ call[d].ticket = call[c].ticket => d = c

\* A row "close" on its way to the journal is about a trade nothing holds open.
PendingClosesFinal ==
  ~blind =>
  \A c \in Callers : PendingRow(c, "close") =>
    /\ call[c].row.ticket \notin DOMAIN positions
    /\ \A d \in Callers : call[d].at = "closing" => call[d].ticket # call[c].row.ticket
    /\ stateFile.status = "ok" => call[c].row.ticket \notin DOMAIN stateFile.positions
    /\ \A i \in DOMAIN journal :
         journal[i].kind = "close" => journal[i].ticket # call[c].row.ticket
    /\ \A d \in Callers :
         PendingRow(d, "close") /\ call[d].row.ticket = call[c].row.ticket => d = c

IInv ==
  /\ TypeOK
  /\ TicketsFresh
  /\ Bookkeeping
  /\ PendingOpensNew /\ UniqueOpenRows
  /\ PoppedApart /\ PendingClosesFinal /\ ClosedForGood

-----------------------------------------------------------------------------
(* Facts about the pieces the steps are made of. *)

LEMMA TicketsOfCalls ==
  /\ TicketsOf(Idle) = {}
  /\ \A t, pos : TicketsOf(Closing(t, pos)) = {t}
  /\ \A t, cv, rem : TicketsOf(Partial(t, cv, rem)) = {t}
  /\ \A t, k, v : TicketsOf(Journalling(t, k, v)) = {t}
BY DEF TicketsOf, Idle, Closing, Partial, Journalling

LEMMA TableDomains ==
  ASSUME NEW p, NEW t
  PROVE  /\ DOMAIN Without(p, t) = DOMAIN p \ {t}
         /\ \A pos : DOMAIN With(p, t, pos) = DOMAIN p \cup {t}
BY DEF Without, With

LEMMA JournalTyped ==
  ASSUME TypeOK
  PROVE  /\ \A i \in DOMAIN journal : journal[i] \in Row /\ journal[i].ticket \in JournalTickets
         /\ JournalTickets \subseteq Nat
<1>1. \A i \in DOMAIN journal : journal[i] \in Row
  BY DEF TypeOK
<1> QED BY <1>1 DEF JournalTickets, Row

\* The append of a row: the old rows stay where they are.
LEMMA AppendedRow ==
  ASSUME TypeOK, NEW r \in Row, journal' = Append(journal, r)
  PROVE  /\ DOMAIN journal' = DOMAIN journal \cup {Len(journal) + 1}
         /\ \A i \in DOMAIN journal : journal'[i] = journal[i]
         /\ journal'[Len(journal) + 1] = r
         /\ Len(journal) + 1 \notin DOMAIN journal
         /\ JournalTickets' = JournalTickets \cup {r.ticket}
<1>1. /\ DOMAIN journal' = DOMAIN journal \cup {Len(journal) + 1}
      /\ \A i \in DOMAIN journal : journal'[i] = journal[i]
      /\ journal'[Len(journal) + 1] = r
      /\ Len(journal) + 1 \notin DOMAIN journal
  BY DEF TypeOK
<1> QED BY <1>1 DEF JournalTickets

\* Reseeded gives a number above everything in the journal.
LEMMA ReseedAbove ==
  ASSUME TypeOK, NEW n, Reseeded(n), legible
  PROVE  \A t \in JournalTickets : t < n
<1>1. CASE journal = << >>
  BY <1>1 DEF JournalTickets
<1>2. CASE \E t \in JournalTickets : n = t + 1 /\ \A s \in JournalTickets : s <= t
  BY <1>2, JournalTyped
<1> QED BY <1>1, <1>2 DEF Reseeded

-----------------------------------------------------------------------------
(* Each part of the invariant is kept by every step. *)

\* A counter once rebuilt with both files damaged stays so marked.
LEMMA BlindStays ==
  ASSUME [Next]_vars
  PROVE  ~blind' => ~blind
BY DEF Next, CallerStep, PlaceOrder, Journal, ClosePop, CloseStale, CloseCommit, PartialRead,
       PartialCommit, PartialRaise, ModifySl, Crash, CorruptStateFile, CorruptJournal, Restart, vars

LEMMA FreshStep ==
  ASSUME TypeOK, TypeOK', TicketsFresh, Bookkeeping, [Next]_vars
  PROVE  TicketsFresh' /\ Bookkeeping'
<1> USE DEF TicketsFresh, Bookkeeping
<1>0. /\ ticketSeq \in Nat /\ DOMAIN positions \subseteq Nat /\ JournalTickets \subseteq Nat
      /\ call \in [Callers -> Calls] /\ threads \subseteq Callers
      /\ ~blind' => ~blind
  BY JournalTyped, BlindStays DEF TypeOK, IsPositions
<1>1. ASSUME NEW c \in threads, NEW v \in Volumes, PlaceOrder(c, v)
      PROVE  TicketsFresh' /\ Bookkeeping'
  <2>1. /\ up /\ up' /\ ticketSeq' = ticketSeq + 1
        /\ DOMAIN positions' = DOMAIN positions \cup {ticketSeq}
        /\ JournalTickets' = JournalTickets
    BY <1>1, TableDomains DEF PlaceOrder, MayStart, JournalTickets
  <2>2. \A d \in Callers : \A t \in TicketsOf(call'[d]) : t < ticketSeq'
    <3> SUFFICES ASSUME NEW d \in Callers PROVE \A t \in TicketsOf(call'[d]) : t < ticketSeq'
      OBVIOUS
    <3>1. CASE d = c
      BY <1>0, <1>1, <2>1, <3>1, TicketsOfCalls DEF PlaceOrder
    <3>2. CASE d # c
      <4>1. call'[d] = call[d]
        BY <1>0, <1>1, <3>2 DEF PlaceOrder
      <4>2. \A t \in TicketsOf(call[d]) : t < ticketSeq /\ t \in Nat
        BY <1>0, <2>1, CallShapes DEF TicketsOf, Row
      <4> QED BY <1>0, <2>1, <4>1, <4>2
    <3> QED BY <3>1, <3>2
  <2>3. /\ stateFile'.status = "ok" /\ stateFile'.seq = ticketSeq'
        /\ stateFile'.positions = positions'
    BY <1>1, SavedFields DEF PlaceOrder
  <2>4. /\ \A t \in DOMAIN positions' : t < ticketSeq'
        /\ ~blind' => \A t \in JournalTickets' : t < ticketSeq'
    <3>1. /\ \A t \in DOMAIN positions : t \in Nat /\ t < ticketSeq
          /\ ~blind' => \A t \in JournalTickets : t \in Nat /\ t < ticketSeq
      BY <1>0, <2>1
    <3>2. ticketSeq < ticketSeq' /\ \A t \in Nat : t < ticketSeq => t < ticketSeq'
      BY <1>0, <2>1
    <3> QED BY <2>1, <3>1, <3>2
  <2> QED BY <2>1, <2>2, <2>3, <2>4
<1>2. ASSUME NEW c \in threads, Journal(c) PROVE TicketsFresh' /\ Bookkeeping'
  <2>1. call[c].row \in Row /\ TicketsOf(call[c]) = {call[c].row.ticket}
    BY <1>0, <1>2, CallShapes DEF Journal, TicketsOf
  <2>2. JournalTickets' = JournalTickets \cup {call[c].row.ticket}
    BY <1>2, <2>1, AppendedRow DEF Journal
  <2>3. call[c].row.ticket < ticketSeq
    BY <1>0, <1>2, <2>1 DEF Journal
  <2>4. \A d \in Callers : \A t \in TicketsOf(call'[d]) : t < ticketSeq
    BY <1>0, <1>2, TicketsOfCalls DEF Journal
  <2>5. stateFile.status # "absent"
    BY <1>0, <1>2 DEF Journal
  <2> QED BY <1>0, <1>2, <2>2, <2>3, <2>4, <2>5 DEF Journal
<1>3. ASSUME NEW c \in threads, NEW t \in DOMAIN positions, ClosePop(c, t)
      PROVE  TicketsFresh' /\ Bookkeeping'
  <2>1. up /\ up' /\ DOMAIN positions' \subseteq DOMAIN positions /\ JournalTickets' = JournalTickets
    <3>1. DOMAIN positions' = DOMAIN positions \ {t}
      BY <1>3, TableDomains DEF ClosePop
    <3> QED BY <1>3, <3>1 DEF ClosePop, MayStart, JournalTickets
  <2>2. \A d \in Callers : \A s \in TicketsOf(call'[d]) : s < ticketSeq
    BY <1>0, <1>3, <2>1, TicketsOfCalls DEF ClosePop
  <2>3. \A d \in Callers : call'[d].at = "journal" => call[d].at = "journal"
    BY <1>0, <1>3 DEF ClosePop, Closing
  <2> QED BY <1>0, <1>3, <2>1, <2>2, <2>3 DEF ClosePop
<1>4. ASSUME NEW c \in threads, CloseStale(c) PROVE TicketsFresh' /\ Bookkeeping'
  <2>1. TicketsOf(call[c]) = {call[c].ticket}
    BY <1>4 DEF CloseStale, TicketsOf
  <2>2. /\ up /\ up' /\ DOMAIN positions' = DOMAIN positions \cup {call[c].ticket}
        /\ JournalTickets' = JournalTickets
    BY <1>4, TableDomains DEF CloseStale, JournalTickets
  <2>3. \A d \in Callers : \A s \in TicketsOf(call'[d]) : s < ticketSeq
    BY <1>0, <1>4, <2>2, TicketsOfCalls DEF CloseStale
  <2>4. \A d \in Callers : call'[d].at = "journal" => call[d].at = "journal"
    BY <1>0, <1>4 DEF CloseStale, Idle
  <2> QED BY <1>0, <1>4, <2>1, <2>2, <2>3, <2>4 DEF CloseStale
<1>5. ASSUME NEW c \in threads, CloseCommit(c) PROVE TicketsFresh' /\ Bookkeeping'
  <2>1. TicketsOf(call[c]) = {call[c].ticket} /\ JournalTickets' = JournalTickets
    BY <1>5 DEF CloseCommit, TicketsOf, JournalTickets
  <2>2. \A d \in Callers : \A s \in TicketsOf(call'[d]) : s < ticketSeq
    BY <1>0, <1>5, <2>1, TicketsOfCalls DEF CloseCommit
  <2>3. /\ stateFile'.status = "ok" /\ stateFile'.seq = ticketSeq
        /\ stateFile'.positions = positions
    BY <1>5, SavedFields DEF CloseCommit
  <2> QED BY <1>0, <1>5, <2>1, <2>2, <2>3 DEF CloseCommit
<1>6. ASSUME NEW c \in threads, NEW t \in DOMAIN positions, PartialRead(c, t)
      PROVE  TicketsFresh' /\ Bookkeeping'
  <2>1. PICK cv : call' = [call EXCEPT ![c] = Partial(t, cv, positions[t].volume - cv)]
    BY <1>6 DEF PartialRead
  <2>2. \A d \in Callers : \A s \in TicketsOf(call'[d]) : s < ticketSeq
    BY <1>0, <1>6, <2>1, TicketsOfCalls DEF PartialRead, MayStart
  <2>3. \A d \in Callers : call'[d].at = "journal" => call[d].at = "journal"
    BY <1>0, <2>1 DEF Partial
  <2> QED BY <1>6, <2>2, <2>3 DEF PartialRead, MayStart, JournalTickets
<1>7. ASSUME NEW c \in threads, PartialCommit(c) PROVE TicketsFresh' /\ Bookkeeping'
  <2>1. /\ call[c].ticket \in DOMAIN positions /\ DOMAIN positions' = DOMAIN positions
        /\ JournalTickets' = JournalTickets
    BY <1>7 DEF PartialCommit, JournalTickets
  <2>2. \A d \in Callers : \A s \in TicketsOf(call'[d]) : s < ticketSeq
    BY <1>0, <1>7, <2>1, TicketsOfCalls DEF PartialCommit
  <2>3. /\ stateFile'.status = "ok" /\ stateFile'.seq = ticketSeq
        /\ stateFile'.positions = positions'
    BY <1>7, SavedFields DEF PartialCommit
  <2> QED BY <1>7, <2>1, <2>2, <2>3 DEF PartialCommit
<1>8. ASSUME NEW c \in threads, PartialRaise(c) PROVE TicketsFresh' /\ Bookkeeping'
  <2>1. \A d \in Callers : \A s \in TicketsOf(call'[d]) : s < ticketSeq
    BY <1>0, <1>8, TicketsOfCalls DEF PartialRaise
  <2>2. \A d \in Callers : call'[d].at = "journal" => call[d].at = "journal"
    BY <1>0, <1>8 DEF PartialRaise, Idle
  <2> QED BY <1>8, <2>1, <2>2 DEF PartialRaise, JournalTickets
<1>9. ASSUME NEW c \in threads, NEW t \in DOMAIN positions, ModifySl(c, t)
      PROVE  TicketsFresh' /\ Bookkeeping'
  <2>1. DOMAIN positions' = DOMAIN positions /\ JournalTickets' = JournalTickets
    BY <1>9 DEF ModifySl, JournalTickets
  <2>2. /\ stateFile'.status = "ok" /\ stateFile'.seq = ticketSeq
        /\ stateFile'.positions = positions'
    BY <1>9, SavedFields DEF ModifySl
  <2> QED BY <1>9, <2>1, <2>2 DEF ModifySl, MayStart
<1>10. CASE Crash
  <2>1. \A d \in Callers : call'[d] = Idle
    BY <1>10 DEF Crash
  <2> QED BY <1>10, <2>1 DEF Crash, JournalTickets, Idle
<1>11. CASE CorruptStateFile \/ CorruptJournal
  BY <1>11 DEF CorruptStateFile, CorruptJournal, JournalTickets, Unreadable
<1>12. CASE Restart
  <2>1. /\ ~up /\ up' /\ JournalTickets' = JournalTickets /\ call' = call
        /\ stateFile' = stateFile /\ journal' = journal
        /\ ~blind' /\ stateFile.status = "unreadable" => legible
    BY <1>12 DEF Restart, JournalTickets
  <2>2. \A d \in Callers : call[d] = Idle /\ TicketsOf(call[d]) = {}
    BY <2>1, TicketsOfCalls
  <2>3. CASE stateFile.status = "absent"
    BY <1>0, <1>12, <2>1, <2>2, <2>3 DEF Restart, JournalTickets
  <2>4. CASE stateFile.status = "ok"
    BY <1>0, <1>12, <2>1, <2>2, <2>4 DEF Restart
  <2>5. CASE stateFile.status = "unreadable"
    <3>1. Reseeded(ticketSeq') /\ positions' = << >>
      BY <1>12, <2>5 DEF Restart
    <3> QED BY <2>1, <2>2, <2>5, <3>1, ReseedAbove
  <2> QED BY <1>12, <2>3, <2>4, <2>5 DEF Restart
<1>13. CASE UNCHANGED vars
  BY <1>13 DEF vars, JournalTickets
<1> QED
  BY <1>1, <1>2, <1>3, <1>4, <1>5, <1>6, <1>7, <1>8, <1>9, <1>10, <1>11, <1>12, <1>13
  DEF Next, CallerStep

\* A step that leaves the journal alone and puts no new row "open" on its way.
LEMMA OpensQuiet ==
  ASSUME PendingOpensNew, UniqueOpenRows, journal' = journal, ~blind' => ~blind,
         \A d \in Callers : PendingRow(d, "open")' => PendingRow(d, "open") /\ call'[d] = call[d]
  PROVE  PendingOpensNew' /\ UniqueOpenRows'
BY DEF PendingOpensNew, UniqueOpenRows

LEMMA OpensStep ==
  ASSUME TypeOK, TypeOK', TicketsFresh, Bookkeeping, PendingOpensNew, UniqueOpenRows,
         [Next]_vars
  PROVE  PendingOpensNew' /\ UniqueOpenRows'
<1>0. /\ call \in [Callers -> Calls] /\ threads \subseteq Callers /\ ticketSeq \in Nat
      /\ ~blind' => ~blind
  BY BlindStays DEF TypeOK
<1>1. ASSUME NEW c \in threads, NEW v \in Volumes, PlaceOrder(c, v)
      PROVE  PendingOpensNew' /\ UniqueOpenRows'
  <2>1. /\ up /\ journal' = journal /\ c \in Callers
        /\ call' = [call EXCEPT ![c] = Journalling(ticketSeq, "open", v)]
    BY <1>0, <1>1 DEF PlaceOrder, MayStart
  <2>2. /\ call'[c].at = "journal" /\ call'[c].row.kind = "open"
        /\ call'[c].row.ticket = ticketSeq
        /\ \A d \in Callers : d # c => call'[d] = call[d]
    BY <1>0, <2>1 DEF Journalling
  <2>3. ~blind => \A i \in DOMAIN journal : journal[i].ticket # ticketSeq
    BY <1>0, <2>1, JournalTyped DEF TicketsFresh
  <2>4. \A d \in Callers : PendingRow(d, "open") => call[d].row.ticket # ticketSeq
    BY <1>0, <2>1 DEF TicketsFresh, PendingRow, TicketsOf
  <2> QED BY <1>0, <2>1, <2>2, <2>3, <2>4 DEF PendingOpensNew, UniqueOpenRows, PendingRow
<1>2. ASSUME NEW c \in threads, Journal(c) PROVE PendingOpensNew' /\ UniqueOpenRows'
  <2>1. c \in Callers /\ call[c].row \in Row /\ call[c].at = "journal"
    BY <1>0, <1>2, CallShapes DEF Journal
  <2>2. /\ call'[c].at = "idle"
        /\ \A d \in Callers : d # c => call'[d] = call[d]
    BY <1>0, <1>2 DEF Journal, Idle
  <2> DEFINE n == Len(journal) + 1
  <2>3. /\ DOMAIN journal' = DOMAIN journal \cup {n} /\ n \notin DOMAIN journal
        /\ \A i \in DOMAIN journal : journal'[i] = journal[i]
        /\ journal'[n] = call[c].row
    BY <1>2, <2>1, AppendedRow DEF Journal
  <2> HIDE DEF n
  <2>4. UniqueOpenRows'
    BY <1>0, <2>1, <2>3 DEF UniqueOpenRows, PendingOpensNew, PendingRow
  <2>5. PendingOpensNew'
    BY <1>0, <2>1, <2>2, <2>3 DEF PendingOpensNew, PendingRow
  <2> QED BY <2>4, <2>5
<1>3. ASSUME NEW c \in threads,
             \/ \E t \in DOMAIN positions : ClosePop(c, t) \/ PartialRead(c, t)
             \/ CloseStale(c) \/ CloseCommit(c) \/ PartialCommit(c) \/ PartialRaise(c)
      PROVE  PendingOpensNew' /\ UniqueOpenRows'
  <2>0. \A x : x \in {Idle} \/ (\E t, pos : x = Closing(t, pos))
               \/ (\E t, cv, rem : x = Partial(t, cv, rem))
               \/ (\E t, v : x = Journalling(t, "close", v) \/ x = Journalling(t, "partial", v))
             => ~(x.at = "journal" /\ x.row.kind = "open")
    BY DEF Idle, Closing, Partial, Journalling
  <2> DEFINE Replaced == \E x : /\ call' = [call EXCEPT ![c] = x] /\ journal' = journal
                                /\ ~(x.at = "journal" /\ x.row.kind = "open")
  <2>1. Replaced
    <3>1. CASE CloseStale(c) \/ PartialRaise(c)
      BY <2>0, <3>1 DEF CloseStale, PartialRaise
    <3>2. ASSUME NEW t \in DOMAIN positions, ClosePop(c, t) PROVE Replaced
      BY <2>0, <3>2 DEF ClosePop
    <3>3. ASSUME NEW t \in DOMAIN positions, PartialRead(c, t) PROVE Replaced
      BY <2>0, <3>3 DEF PartialRead
    <3>4. CASE CloseCommit(c)
      BY <2>0, <3>4 DEF CloseCommit
    <3>5. CASE PartialCommit(c)
      BY <2>0, <3>5 DEF PartialCommit
    <3> QED BY <1>3, <3>1, <3>2, <3>3, <3>4, <3>5
  <2> QED BY <1>0, <2>1, OpensQuiet DEF PendingRow
<1>4. ASSUME NEW c \in threads, NEW t \in DOMAIN positions, ModifySl(c, t)
      PROVE  PendingOpensNew' /\ UniqueOpenRows'
  BY <1>0, <1>4, OpensQuiet DEF ModifySl, PendingRow
<1>5. CASE Crash
  <2>1. journal' = journal /\ \A d \in Callers : call'[d].at = "idle"
    BY <1>5 DEF Crash, Idle
  <2> QED BY <1>0, <2>1, OpensQuiet DEF PendingRow
<1>6. CASE CorruptStateFile \/ CorruptJournal \/ Restart \/ UNCHANGED vars
  BY <1>0, <1>6, OpensQuiet DEF CorruptStateFile, CorruptJournal, Restart, vars, PendingRow
<1> QED BY <1>1, <1>2, <1>3, <1>4, <1>5, <1>6 DEF Next, CallerStep

\* A step that opens, pops, closes and saves nothing, or less than before.
LEMMA ClosesQuiet ==
  ASSUME PoppedApart, PendingClosesFinal, ClosedForGood, ~blind' => ~blind,
         journal' = journal, DOMAIN positions' \subseteq DOMAIN positions,
         stateFile'.status = "ok" =>
           \/ stateFile' = stateFile
           \/ DOMAIN stateFile'.positions \subseteq DOMAIN positions,
         \A d \in Callers :
           /\ call'[d].at = "closing" => call'[d] = call[d]
           /\ PendingRow(d, "close")' => call'[d] = call[d]
  PROVE  PoppedApart' /\ PendingClosesFinal' /\ ClosedForGood'
<1> USE DEF PendingRow
<1>1. PoppedApart'
  BY DEF PoppedApart
<1>2. PendingClosesFinal'
  BY DEF PendingClosesFinal
<1>3. ClosedForGood'
  BY DEF ClosedForGood
<1> QED BY <1>1, <1>2, <1>3

LEMMA ClosesStep ==
  ASSUME TypeOK, TypeOK', TicketsFresh, Bookkeeping,
         PoppedApart, PendingClosesFinal, ClosedForGood, [Next]_vars
  PROVE  PoppedApart' /\ PendingClosesFinal' /\ ClosedForGood'
<1> DEFINE Goal == PoppedApart' /\ PendingClosesFinal' /\ ClosedForGood'
<1>0. /\ call \in [Callers -> Calls] /\ threads \subseteq Callers
      /\ ticketSeq \in Nat /\ DOMAIN positions \subseteq Nat
      /\ ~blind' => ~blind
  BY BlindStays DEF TypeOK, IsPositions
<1>1. ASSUME NEW c \in threads, NEW v \in Volumes, PlaceOrder(c, v) PROVE Goal
  <2>1. /\ up /\ journal' = journal /\ c \in Callers
        /\ call' = [call EXCEPT ![c] = Journalling(ticketSeq, "open", v)]
        /\ DOMAIN positions' = DOMAIN positions \cup {ticketSeq}
        /\ stateFile'.positions = positions'
    BY <1>0, <1>1, TableDomains, SavedFields DEF PlaceOrder, MayStart
  <2>2. /\ call'[c].at = "journal" /\ call'[c].row.kind = "open"
        /\ \A d \in Callers : d # c => call'[d] = call[d]
    BY <1>0, <2>1 DEF Journalling
  <2>3. ~blind => \A i \in DOMAIN journal : journal[i].ticket # ticketSeq
    BY <1>0, <2>1, JournalTyped DEF TicketsFresh
  <2>4. \A d \in Callers :
          /\ PendingRow(d, "close") => call[d].row.ticket # ticketSeq
          /\ call[d].at = "closing" => call[d].ticket # ticketSeq
    BY <1>0, <2>1 DEF TicketsFresh, PendingRow, TicketsOf
  <2>5. PoppedApart'
    BY <2>1, <2>2, <2>4 DEF PoppedApart
  <2>6. PendingClosesFinal'
    BY <1>0, <2>1, <2>2, <2>4 DEF PendingClosesFinal, PendingRow
  <2>7. ClosedForGood'
    BY <1>0, <2>1, <2>2, <2>3 DEF ClosedForGood
  <2> QED BY <2>5, <2>6, <2>7
<1>2. ASSUME NEW c \in threads, Journal(c) PROVE Goal
  <2>1. c \in Callers /\ call[c].row \in Row /\ call[c].at = "journal"
    BY <1>0, <1>2, CallShapes DEF Journal
  <2>2. /\ call'[c].at = "idle" /\ positions' = positions /\ stateFile' = stateFile
        /\ \A d \in Callers : d # c => call'[d] = call[d]
    BY <1>0, <1>2 DEF Journal, Idle
  <2> DEFINE n == Len(journal) + 1
  <2>3. /\ DOMAIN journal' = DOMAIN journal \cup {n} /\ n \notin DOMAIN journal
        /\ \A i \in DOMAIN journal : journal'[i] = journal[i]
        /\ journal'[n] = call[c].row
    BY <1>2, <2>1, AppendedRow DEF Journal
  <2> HIDE DEF n
  <2>4. PoppedApart'
    BY <2>2 DEF PoppedApart
  <2>5. PendingClosesFinal'
    BY <1>0, <2>1, <2>2, <2>3 DEF PendingClosesFinal, PendingRow
  <2>6. ClosedForGood'
    BY <1>0, <2>1, <2>2, <2>3 DEF ClosedForGood, PendingClosesFinal, PendingRow
  <2> QED BY <2>4, <2>5, <2>6
<1>3. ASSUME NEW c \in threads, NEW t \in DOMAIN positions, ClosePop(c, t) PROVE Goal
  <2>1. /\ DOMAIN positions' = DOMAIN positions \ {t} /\ c \in Callers
        /\ journal' = journal /\ stateFile' = stateFile
    BY <1>0, <1>3, TableDomains DEF ClosePop
  <2>2. /\ call'[c].at = "closing" /\ call'[c].ticket = t
        /\ \A d \in Callers : d # c => call'[d] = call[d]
    BY <1>0, <1>3 DEF ClosePop, Closing
  <2>3. PoppedApart'
    BY <2>1, <2>2 DEF PoppedApart
  <2>4. PendingClosesFinal'
    BY <1>0, <2>1, <2>2 DEF PendingClosesFinal, PendingRow
  <2>5. ClosedForGood'
    BY <1>0, <2>1, <2>2 DEF ClosedForGood
  <2> QED BY <2>3, <2>4, <2>5
<1>4. ASSUME NEW c \in threads, CloseStale(c) PROVE Goal
  <2>1. /\ DOMAIN positions' = DOMAIN positions \cup {call[c].ticket} /\ c \in Callers
        /\ journal' = journal /\ stateFile' = stateFile /\ call[c].at = "closing"
    BY <1>0, <1>4, TableDomains DEF CloseStale
  <2>2. /\ call'[c].at = "idle"
        /\ \A d \in Callers : d # c => call'[d] = call[d]
    BY <1>0, <1>4 DEF CloseStale, Idle
  <2>3. PoppedApart'
    BY <2>1, <2>2 DEF PoppedApart
  <2>4. PendingClosesFinal'
    BY <1>0, <2>1, <2>2 DEF PendingClosesFinal, PendingRow
  <2>5. ClosedForGood'
    BY <1>0, <2>1, <2>2 DEF ClosedForGood
  <2> QED BY <2>3, <2>4, <2>5
<1>5. ASSUME NEW c \in threads, CloseCommit(c) PROVE Goal
  <2>1. /\ positions' = positions /\ c \in Callers /\ journal' = journal
        /\ stateFile'.positions = positions /\ call[c].at = "closing"
    BY <1>0, <1>5, SavedFields DEF CloseCommit
  <2>2. /\ call'[c].at = "journal" /\ call'[c].row.ticket = call[c].ticket
        /\ \A d \in Callers : d # c => call'[d] = call[d]
    BY <1>0, <1>5 DEF CloseCommit, Journalling
  <2>3. PoppedApart'
    BY <2>1, <2>2 DEF PoppedApart
  <2>4. PendingClosesFinal'
    BY <1>0, <2>1, <2>2 DEF PendingClosesFinal, PoppedApart, ClosedForGood, PendingRow
  <2>5. ClosedForGood'
    BY <1>0, <2>1, <2>2 DEF ClosedForGood
  <2> QED BY <2>3, <2>4, <2>5
<1>6. ASSUME NEW c \in threads, NEW t \in DOMAIN positions, PartialRead(c, t) PROVE Goal
  <2>1. PICK cv : call' = [call EXCEPT ![c] = Partial(t, cv, positions[t].volume - cv)]
    BY <1>6 DEF PartialRead
  <2>2. /\ call'[c].at = "partial" /\ \A d \in Callers : d # c => call'[d] = call[d]
    BY <1>0, <2>1 DEF Partial
  <2> QED BY <1>0, <1>6, <2>2, ClosesQuiet DEF PartialRead, PendingRow
<1>7. ASSUME NEW c \in threads, PartialCommit(c) PROVE Goal
  <2>1. /\ call'[c].at = "journal" /\ call'[c].row.kind = "partial"
        /\ \A d \in Callers : d # c => call'[d] = call[d]
    BY <1>0, <1>7 DEF PartialCommit, Journalling
  <2>2. DOMAIN positions' = DOMAIN positions /\ stateFile'.positions = positions'
    BY <1>7, SavedFields DEF PartialCommit
  <2> QED BY <1>0, <1>7, <2>1, <2>2, ClosesQuiet DEF PartialCommit, PendingRow
<1>8. ASSUME NEW c \in threads, PartialRaise(c) PROVE Goal
  <2>1. /\ call'[c].at = "idle" /\ \A d \in Callers : d # c => call'[d] = call[d]
    BY <1>0, <1>8 DEF PartialRaise, Idle
  <2> QED BY <1>0, <1>8, <2>1, ClosesQuiet DEF PartialRaise, PendingRow
<1>9. ASSUME NEW c \in threads, NEW t \in DOMAIN positions, ModifySl(c, t) PROVE Goal
  <2>1. DOMAIN positions' = DOMAIN positions /\ stateFile'.positions = positions'
    BY <1>9, SavedFields DEF ModifySl
  <2> QED BY <1>0, <1>9, <2>1, ClosesQuiet DEF ModifySl, PendingRow
<1>10. CASE Crash
  <2>1. \A d \in Callers : call'[d].at = "idle"
    BY <1>10 DEF Crash, Idle
  <2>2. DOMAIN positions' \subseteq DOMAIN positions
    BY <1>10 DEF Crash
  <2> QED BY <1>0, <1>10, <2>1, <2>2, ClosesQuiet DEF Crash, PendingRow
<1>11. CASE CorruptStateFile \/ CorruptJournal
  BY <1>0, <1>11, ClosesQuiet DEF CorruptStateFile, CorruptJournal, Unreadable, PendingRow
<1>12. CASE Restart
  <2>1. /\ ~up /\ journal' = journal /\ stateFile' = stateFile
        /\ \A d \in Callers : call'[d].at = "idle"
    BY <1>12 DEF Restart, Bookkeeping, Idle
  <2>2. \/ DOMAIN positions' = {}
        \/ stateFile.status = "ok" /\ positions' = stateFile.positions
    BY <1>12 DEF Restart
  <2>3. PoppedApart' /\ PendingClosesFinal'
    BY <1>0, <2>1 DEF PoppedApart, PendingClosesFinal, PendingRow
  <2>4. ClosedForGood'
    BY <1>0, <2>1, <2>2 DEF ClosedForGood
  <2> QED BY <2>3, <2>4
<1>13. CASE UNCHANGED vars
  BY <1>0, <1>13, ClosesQuiet DEF vars, PendingRow
<1> QED
  BY <1>1, <1>2, <1>3, <1>4, <1>5, <1>6, <1>7, <1>8, <1>9, <1>10, <1>11, <1>12, <1>13
  DEF Next, CallerStep

-----------------------------------------------------------------------------
(* The theorems. *)

\* IInv holds initially and every step keeps it.
THEOREM Inductive == Spec => []IInv
<1>1. Init => IInv
  <2> SUFFICES ASSUME Init PROVE IInv
    OBVIOUS
  <2>1. /\ DOMAIN journal = {} /\ JournalTickets = {} /\ stateFile.status = "absent"
        /\ DOMAIN positions = {} /\ up
        /\ \A c \in Callers : call[c].at = "idle" /\ TicketsOf(call[c]) = {}
    BY TicketsOfCalls DEF Init, JournalTickets, Absent, Idle
  <2>2. TypeOK
    BY StartTyped
  <2>3. TicketsFresh /\ Bookkeeping
    BY <2>1 DEF Init, TicketsFresh, Bookkeeping
  <2>4. PendingOpensNew /\ UniqueOpenRows
    BY <2>1 DEF PendingOpensNew, UniqueOpenRows, PendingRow
  <2>5. PoppedApart /\ PendingClosesFinal /\ ClosedForGood
    BY <2>1 DEF PoppedApart, PendingClosesFinal, ClosedForGood, PendingRow
  <2> QED BY <2>2, <2>3, <2>4, <2>5 DEF IInv
<1>2. IInv /\ TypeOK' /\ [Next]_vars => IInv'
  BY FreshStep, OpensStep, ClosesStep DEF IInv
<1> QED BY <1>1, <1>2, TypeCorrect, PTL DEF Spec

\* CHANGELOG "Ticket-counter collision across restarts": whatever crashes there are
\* and whatever is damaged, the counter stays above every open ticket, and above
\* every journalled one unless a restart once found both files damaged.
THEOREM TicketsStayFresh == Spec => []TicketsFresh
<1>1. IInv => TicketsFresh
  BY DEF IInv
<1> QED BY <1>1, Inductive, PTL

\* logs/trades.csv never shows one ticket number opened twice, as long as no restart
\* finds both the state file and the journal damaged.
THEOREM OpenRowsUnique == Spec => []UniqueOpenRows
<1>1. IInv => UniqueOpenRows
  BY DEF IInv
<1> QED BY <1>1, Inductive, PTL

\* A trade journalled as closed is never open again and never closed twice,
\* for any number of threads inside close_position and partial_close.
THEOREM CloseIsFinal == Spec => []ClosedForGood
<1>1. IInv => ClosedForGood
  BY DEF IInv
<1> QED BY <1>1, Inductive, PTL

-----------------------------------------------------------------------------
(* What becomes of an open position while the bot runs. *)

LEMMA OpenMeans ==
  /\ \A t : t \in OpenTickets <=>
       t \in DOMAIN positions \/ \E d \in Callers : call[d].at = "closing" /\ call[d].ticket = t
  /\ \A t : t \in OpenTickets' <=>
       t \in DOMAIN positions' \/ \E d \in Callers : call'[d].at = "closing" /\ call'[d].ticket = t
BY DEF OpenTickets

\* A step after which the table has the same tickets and the same ones are popped.
LEMMA OpenQuiet ==
  ASSUME DOMAIN positions' = DOMAIN positions,
         \A d \in Callers : (call[d].at = "closing" \/ call'[d].at = "closing") => call'[d] = call[d]
  PROVE  OpenTickets' = OpenTickets
BY OpenMeans

LEMMA OpenStep ==
  ASSUME TypeOK, [Next]_vars, up, up'
  PROVE  /\ OpenTickets \ OpenTickets' \subseteq ClosedTickets'
         /\ OpenTickets' \ OpenTickets \subseteq ticketSeq .. ticketSeq'
<1> DEFINE Goal == /\ OpenTickets \ OpenTickets' \subseteq ClosedTickets'
                   /\ OpenTickets' \ OpenTickets \subseteq ticketSeq .. ticketSeq'
<1>0. /\ call \in [Callers -> Calls] /\ threads \subseteq Callers
      /\ ticketSeq \in Nat /\ closed \in Seq(Nat)
  BY DEF TypeOK
<1>1. ASSUME NEW c \in threads, NEW v \in Volumes, PlaceOrder(c, v) PROVE Goal
  <2>0. c \in Callers /\ call[c].at = "idle"
    BY <1>0, <1>1 DEF PlaceOrder, MayStart, Idle
  <2>1. /\ ticketSeq' = ticketSeq + 1
        /\ call' = [call EXCEPT ![c] = Journalling(ticketSeq, "open", v)]
        /\ DOMAIN positions' = DOMAIN positions \cup {ticketSeq}
    BY <1>1, TableDomains DEF PlaceOrder
  <2>2. call'[c].at = "journal" /\ \A d \in Callers : d # c => call'[d] = call[d]
    BY <1>0, <2>0, <2>1 DEF Journalling
  <2>3. OpenTickets' = OpenTickets \cup {ticketSeq}
    BY <2>0, <2>1, <2>2, OpenMeans
  <2> QED BY <1>0, <2>1, <2>3
<1>2. ASSUME NEW c \in threads, NEW t \in DOMAIN positions, ClosePop(c, t) PROVE Goal
  <2>0. c \in Callers /\ call[c].at = "idle"
    BY <1>0, <1>2 DEF ClosePop, MayStart, Idle
  <2>1. /\ DOMAIN positions' = DOMAIN positions \ {t}
        /\ call' = [call EXCEPT ![c] = Closing(t, positions[t])]
    BY <1>2, TableDomains DEF ClosePop
  <2>2. /\ call'[c].at = "closing" /\ call'[c].ticket = t
        /\ \A d \in Callers : d # c => call'[d] = call[d]
    BY <1>0, <2>0, <2>1 DEF Closing
  <2>3. ASSUME NEW u PROVE u \in OpenTickets' <=> u \in OpenTickets
    <3>1. CASE u = t
      BY <2>0, <2>2, <3>1, OpenMeans
    <3>2. CASE u # t
      BY <2>0, <2>1, <2>2, <3>2, OpenMeans
    <3> QED BY <3>1, <3>2
  <2> QED BY <2>3
<1>3. ASSUME NEW c \in threads, CloseStale(c) PROVE Goal
  <2>1. /\ c \in Callers /\ call[c].at = "closing"
        /\ DOMAIN positions' = DOMAIN positions \cup {call[c].ticket}
        /\ call'[c].at = "idle" /\ \A d \in Callers : d # c => call'[d] = call[d]
    BY <1>0, <1>3, TableDomains DEF CloseStale, Idle
  <2>2. ASSUME NEW u PROVE u \in OpenTickets' <=> u \in OpenTickets
    <3>1. CASE u = call[c].ticket
      BY <2>1, <3>1, OpenMeans
    <3>2. CASE u # call[c].ticket
      BY <2>1, <3>2, OpenMeans
    <3> QED BY <3>1, <3>2
  <2> QED BY <2>2
<1>4. ASSUME NEW c \in threads, CloseCommit(c) PROVE Goal
  <2>1. /\ c \in Callers /\ call[c].at = "closing" /\ positions' = positions
        /\ call'[c].at = "journal" /\ \A d \in Callers : d # c => call'[d] = call[d]
    BY <1>0, <1>4 DEF CloseCommit, Journalling
  <2>2. OpenTickets' \subseteq OpenTickets /\ OpenTickets \ OpenTickets' \subseteq {call[c].ticket}
    BY <2>1, OpenMeans
  <2>3. call[c].ticket \in ClosedTickets'
    <3>1. call[c].ticket \in Nat /\ closed' = Append(closed, call[c].ticket)
      BY <1>0, <1>4, <2>1, CallShapes DEF CloseCommit
    <3>2. Len(closed) + 1 \in DOMAIN closed' /\ closed'[Len(closed) + 1] = call[c].ticket
      BY <1>0, <3>1
    <3> QED BY <3>2 DEF ClosedTickets
  <2> QED BY <2>2, <2>3
<1>5. ASSUME NEW c \in threads,
             \/ Journal(c) \/ PartialCommit(c) \/ PartialRaise(c)
             \/ \E t \in DOMAIN positions : PartialRead(c, t)
      PROVE  Goal
  <2>1. DOMAIN positions' = DOMAIN positions /\ c \in Callers
    BY <1>0, <1>5 DEF Journal, PartialCommit, PartialRaise, PartialRead
  <2>2. call[c].at # "closing"
    BY <1>5 DEF Journal, PartialCommit, PartialRaise, PartialRead, MayStart, Idle
  <2>3. \E x : call' = [call EXCEPT ![c] = x] /\ x.at # "closing"
    <3>1. CASE Journal(c) \/ PartialRaise(c)
      BY <3>1 DEF Journal, PartialRaise, Idle
    <3>2. CASE PartialCommit(c)
      <4>1. Journalling(call[c].ticket, "partial", call[c].closing).at # "closing"
        BY DEF Journalling
      <4> QED BY <3>2, <4>1 DEF PartialCommit
    <3>3. CASE \E t \in DOMAIN positions : PartialRead(c, t)
      <4>1. \A t, cv, rem : Partial(t, cv, rem).at # "closing"
        BY DEF Partial
      <4>2. PICK t, cv, rem : call' = [call EXCEPT ![c] = Partial(t, cv, rem)]
        BY <3>3 DEF PartialRead
      <4> QED BY <4>1, <4>2
    <3> QED BY <1>5, <3>1, <3>2, <3>3
  <2>4. OpenTickets' = OpenTickets
    BY <1>0, <2>1, <2>2, <2>3, OpenQuiet
  <2> QED BY <2>4
<1>6. ASSUME NEW c \in threads, NEW t \in DOMAIN positions, ModifySl(c, t) PROVE Goal
  <2>1. OpenTickets' = OpenTickets
    BY <1>6, OpenQuiet DEF ModifySl
  <2> QED BY <2>1
<1>7. CASE Crash \/ CorruptStateFile \/ CorruptJournal \/ Restart
  BY <1>7 DEF Crash, CorruptStateFile, CorruptJournal, Restart
<1>8. CASE UNCHANGED vars
  <2>1. OpenTickets' = OpenTickets
    BY <1>8, OpenQuiet DEF vars
  <2> QED BY <2>1
<1> QED
  BY <1>1, <1>2, <1>3, <1>4, <1>5, <1>6, <1>7, <1>8 DEF Next, CallerStep

\* While the bot runs a position leaves only into _closed, and only a new ticket joins,
\* for any number of threads that pop, roll back and close at once.
THEOREM NothingLostSilently == Spec => NoSilentLoss
<1>1. TypeOK /\ [Next]_vars =>
        [up /\ up' => /\ OpenTickets \ OpenTickets' \subseteq ClosedTickets'
                      /\ OpenTickets' \ OpenTickets \subseteq ticketSeq .. ticketSeq']_vars
  BY OpenStep
<1> QED BY <1>1, TypeCorrect, PTL DEF Spec, NoSilentLoss


-----------------------------------------------------------------------------
(* The broker implements Book, seen from one thread. *)

\* What the state file holds open.
InFile == IF stateFile.status = "ok" THEN stateFile.positions ELSE << >>

\* What c, the only thread, holds open: the table, and the position it has popped.
Memory(c) ==
  IF call[c].at = "closing" THEN With(positions, call[c].ticket, call[c].pos) ELSE positions

\* A partial close under way was computed from the volume the position has now, and the
\* file holds what the thread does, whatever step of a call it is at.
InStep(c) ==
  /\ call[c].at = "partial" =>
       /\ call[c].ticket \in DOMAIN positions
       /\ call[c].closing \in 0 .. positions[call[c].ticket].volume
       /\ call[c].remaining = positions[call[c].ticket].volume - call[c].closing
  /\ up => Memory(c) = InFile

LedgerInv ==
  /\ \A d \in Callers \ threads : call[d] = Idle
  /\ positions \in [DOMAIN positions -> Position]
  /\ stateFile.status = "ok" => stateFile.positions \in [DOMAIN stateFile.positions -> Position]
  /\ \A c \in Callers : threads = {c} => InStep(c)

LEMMA EmptyTable == << >> \in [DOMAIN << >> -> Position] /\ DOMAIN << >> = {}
OBVIOUS

LEMMA TableOf ==
  ASSUME NEW p, IsPositions(p), p \in [DOMAIN p -> Position], NEW t
  PROVE  /\ \A pos \in Position :
              With(p, t, pos) \in [DOMAIN With(p, t, pos) -> Position]
         /\ Without(p, t) \in [DOMAIN Without(p, t) -> Position]
         /\ t \in DOMAIN p => With(Without(p, t), t, p[t]) = p
BY DEF With, Without

\* A step of thread c that saves the table it leaves, and pops nothing.
LEMMA SavesTable ==
  ASSUME LedgerInv, NEW c \in threads, threads \subseteq Callers, call \in [Callers -> Calls],
         threads' = threads, NEW x, call' = [call EXCEPT ![c] = x], x.at \notin {"closing", "partial"},
         positions' \in [DOMAIN positions' -> Position], NEW n, stateFile' = Saved(n, positions')
  PROVE  LedgerInv'
<1>1. stateFile'.status = "ok" /\ stateFile'.positions = positions'
  BY SavedFields
<1>2. call'[c].at \notin {"closing", "partial"} /\ \A d \in Callers : d # c => call'[d] = call[d]
  OBVIOUS
<1>3. \A e \in Callers : threads' = {e} => InStep(e)'
  BY <1>1, <1>2 DEF InStep, Memory, InFile
<1> QED BY <1>1, <1>2, <1>3 DEF LedgerInv

\* One that saves nothing, and changes neither what it holds nor a volume it has computed.
LEMMA SavesNothing ==
  ASSUME LedgerInv, NEW c \in threads, threads \subseteq Callers, call \in [Callers -> Calls],
         UNCHANGED <<threads, up, stateFile>>, NEW x, call' = [call EXCEPT ![c] = x],
         positions' \in [DOMAIN positions' -> Position],
         Memory(c)' = Memory(c), x.at # "partial"
  PROVE  LedgerInv'
<1>1. call'[c].at # "partial" /\ \A d \in Callers : d # c => call'[d] = call[d]
  OBVIOUS
<1>2. \A e \in Callers : threads' = {e} => InStep(e)'
  <2> SUFFICES ASSUME NEW e \in Callers, threads' = {e} PROVE InStep(e)'
    OBVIOUS
  <2>1. e = c /\ InStep(c)
    BY DEF LedgerInv
  <2>2. InFile' = InFile
    BY DEF InFile
  <2> QED BY <1>1, <2>1, <2>2 DEF InStep
<1> QED BY <1>1, <1>2 DEF LedgerInv

LEMMA LedgerStep ==
  ASSUME TypeOK, TypeOK', Bookkeeping, LedgerInv, [Next]_vars
  PROVE  LedgerInv'
<1>0. /\ call \in [Callers -> Calls] /\ threads \subseteq Callers /\ ticketSeq \in Nat
      /\ IsPositions(positions) /\ positions \in [DOMAIN positions -> Position]
  BY DEF TypeOK, LedgerInv
<1>1. ASSUME NEW c \in threads, NEW v \in Volumes, PlaceOrder(c, v) PROVE LedgerInv'
  <2> DEFINE x == Journalling(ticketSeq, "open", v)
             pos == [volume |-> v, sl |-> "initial"]
  <2>1. x.at = "journal"
    BY DEF Journalling
  <2>2. pos \in Position
    BY ConstantsAssumption DEF Position
  <2>3. /\ threads' = threads /\ call' = [call EXCEPT ![c] = x]
        /\ positions' = With(positions, ticketSeq, pos) /\ stateFile' = Saved(ticketSeq', positions')
    BY <1>1 DEF PlaceOrder
  <2> HIDE DEF x, pos
  <2>4. positions' \in [DOMAIN positions' -> Position]
    BY <1>0, <2>2, <2>3, TableOf
  <2> QED BY <1>0, <2>1, <2>3, <2>4, SavesTable
<1>2. ASSUME NEW c \in threads, Journal(c) PROVE LedgerInv'
  <2>1. Memory(c)' = Memory(c)
    BY <1>0, <1>2 DEF Memory, Journal, Idle
  <2>2. UNCHANGED <<threads, up, stateFile, positions>> /\ call' = [call EXCEPT ![c] = Idle]
    BY <1>2 DEF Journal
  <2>3. Idle.at = "idle"
    BY DEF Idle
  <2>4. positions' \in [DOMAIN positions' -> Position]
    BY <1>0, <2>2
  <2> QED BY <1>0, <2>1, <2>2, <2>3, <2>4, SavesNothing
<1>3. ASSUME NEW c \in threads, NEW t \in DOMAIN positions, ClosePop(c, t) PROVE LedgerInv'
  <2> DEFINE x == Closing(t, positions[t])
  <2>1. x.at = "closing" /\ x.ticket = t /\ x.pos = positions[t]
    BY DEF Closing
  <2>2. /\ UNCHANGED <<threads, up, stateFile>> /\ call' = [call EXCEPT ![c] = x]
        /\ positions' = Without(positions, t) /\ call[c].at = "idle"
    BY <1>3 DEF ClosePop, MayStart, Idle
  <2> HIDE DEF x
  <2>3. positions' \in [DOMAIN positions' -> Position]
    BY <1>0, <2>2, TableOf
  <2>4. Memory(c)' = Memory(c)
    <3>1. call'[c] = x
      BY <1>0, <2>2
    <3>2. Memory(c)' = With(Without(positions, t), t, positions[t])
      BY <2>1, <2>2, <3>1 DEF Memory
    <3>3. With(Without(positions, t), t, positions[t]) = positions
      BY <1>0, TableOf
    <3> QED BY <2>2, <3>2, <3>3 DEF Memory
  <2> QED BY <1>0, <2>1, <2>2, <2>3, <2>4, SavesNothing
<1>4. ASSUME NEW c \in threads, CloseStale(c) PROVE LedgerInv'
  <2>1. call[c].pos \in Position /\ call[c].at = "closing"
    BY <1>0, <1>4, CallShapes DEF CloseStale
  <2>2. /\ UNCHANGED <<threads, up, stateFile>> /\ call' = [call EXCEPT ![c] = Idle]
        /\ positions' = With(positions, call[c].ticket, call[c].pos)
    BY <1>4 DEF CloseStale
  <2>3. positions' \in [DOMAIN positions' -> Position]
    BY <1>0, <2>1, <2>2, TableOf
  <2>4. Memory(c)' = Memory(c)
    BY <1>0, <2>1, <2>2 DEF Memory, Idle
  <2>5. Idle.at = "idle"
    BY DEF Idle
  <2> QED BY <1>0, <2>2, <2>3, <2>4, <2>5, SavesNothing
<1>5. ASSUME NEW c \in threads, CloseCommit(c) PROVE LedgerInv'
  <2> DEFINE x == Journalling(call[c].ticket, "close", call[c].pos.volume)
  <2>1. x.at = "journal"
    BY DEF Journalling
  <2>2. /\ threads' = threads /\ call' = [call EXCEPT ![c] = x]
        /\ positions' = positions /\ stateFile' = Saved(ticketSeq, positions')
    BY <1>5 DEF CloseCommit
  <2> HIDE DEF x
  <2> QED BY <1>0, <2>1, <2>2, SavesTable
<1>6. ASSUME NEW c \in threads, NEW t \in DOMAIN positions, PartialRead(c, t) PROVE LedgerInv'
  <2>1. PICK cv \in HalfRounded(positions[t].volume) :
          call' = [call EXCEPT ![c] = Partial(t, cv, positions[t].volume - cv)]
    BY <1>6 DEF PartialRead
  <2> DEFINE x == Partial(t, cv, positions[t].volume - cv)
  <2>2. /\ x.at = "partial" /\ x.ticket = t /\ x.closing = cv
        /\ x.remaining = positions[t].volume - cv
    BY DEF Partial
  <2>3. call'[c] = x /\ \A d \in Callers : d # c => call'[d] = call[d]
    BY <1>0, <2>1
  <2> HIDE DEF x
  <2>4. UNCHANGED <<threads, up, stateFile, positions>> /\ call[c].at = "idle"
    BY <1>6 DEF PartialRead, MayStart, Idle
  <2>5. cv \in 0 .. positions[t].volume
    <3>1. positions[t].volume \in Nat
      BY <1>0 DEF Position
    <3> QED BY <3>1, HalfInRange
  <2>6. \A e \in Callers : threads' = {e} => InStep(e)'
    <3> SUFFICES ASSUME NEW e \in Callers, threads' = {e} PROVE InStep(e)'
      OBVIOUS
    <3>1. e = c /\ InStep(c)
      BY <2>4 DEF LedgerInv
    <3>2. Memory(c)' = Memory(c) /\ InFile' = InFile
      BY <2>2, <2>3, <2>4 DEF Memory, InFile
    <3> QED BY <2>2, <2>3, <2>4, <2>5, <3>1, <3>2 DEF InStep
  <2> QED BY <2>3, <2>4, <2>6 DEF LedgerInv
<1>7. ASSUME NEW c \in threads, PartialCommit(c) PROVE LedgerInv'
  <2> DEFINE x == Journalling(call[c].ticket, "partial", call[c].closing)
  <2>1. x.at = "journal"
    BY DEF Journalling
  <2>2. /\ threads' = threads /\ call' = [call EXCEPT ![c] = x]
        /\ positions' = [positions EXCEPT ![call[c].ticket].volume = call[c].remaining]
        /\ stateFile' = Saved(ticketSeq, positions')
    BY <1>7 DEF PartialCommit
  <2> HIDE DEF x
  <2>3. call[c].remaining \in Nat
    BY <1>0, <1>7, CallShapes DEF PartialCommit
  <2>4. positions' \in [DOMAIN positions' -> Position]
    BY <1>0, <2>2, <2>3 DEF Position
  <2> QED BY <1>0, <2>1, <2>2, <2>4, SavesTable
<1>8. ASSUME NEW c \in threads, PartialRaise(c) PROVE LedgerInv'
  <2>1. Memory(c)' = Memory(c)
    BY <1>0, <1>8 DEF Memory, PartialRaise, Idle
  <2>2. UNCHANGED <<threads, up, stateFile, positions>> /\ call' = [call EXCEPT ![c] = Idle]
    BY <1>8 DEF PartialRaise
  <2>3. Idle.at = "idle"
    BY DEF Idle
  <2>4. positions' \in [DOMAIN positions' -> Position]
    BY <1>0, <2>2
  <2> QED BY <1>0, <2>1, <2>2, <2>3, <2>4, SavesNothing
<1>9. ASSUME NEW c \in threads, NEW t \in DOMAIN positions, ModifySl(c, t) PROVE LedgerInv'
  <2>1. /\ threads' = threads /\ call[c] = Idle /\ call' = [call EXCEPT ![c] = Idle]
        /\ positions' = [positions EXCEPT ![t].sl = "breakeven"]
        /\ stateFile' = Saved(ticketSeq, positions')
    BY <1>0, <1>9 DEF ModifySl, MayStart
  <2>2. positions' \in [DOMAIN positions' -> Position]
    BY <1>0, <2>1 DEF Position
  <2>3. Idle.at = "idle"
    BY DEF Idle
  <2> QED BY <1>0, <2>1, <2>2, <2>3, SavesTable
<1>10. CASE Crash
  <2>1. /\ ~up' /\ positions' = << >> /\ UNCHANGED <<threads, stateFile>>
        /\ \A d \in Callers : call'[d] = Idle
    BY <1>10 DEF Crash
  <2>2. \A e \in Callers : InStep(e)'
    BY <2>1 DEF InStep, Idle
  <2> QED BY <2>1, <2>2, EmptyTable DEF LedgerInv
<1>11. CASE CorruptStateFile \/ CorruptJournal
  <2>1. /\ ~up /\ ~up' /\ UNCHANGED <<threads, positions, call>>
        /\ stateFile'.status = "unreadable" \/ stateFile' = stateFile
    BY <1>11 DEF CorruptStateFile, CorruptJournal, Unreadable
  <2> QED BY <2>1 DEF LedgerInv, InStep
<1>12. CASE Restart
  <2>1. /\ UNCHANGED <<threads, stateFile, call>> /\ \A d \in Callers : call[d].at = "idle"
        /\ positions' = InFile
    BY <1>12 DEF Restart, Bookkeeping, Idle, InFile
  <2>2. InFile \in [DOMAIN InFile -> Position]
    BY EmptyTable DEF InFile, LedgerInv
  <2>3. InFile' = InFile
    BY <2>1 DEF InFile
  <2>4. \A e \in Callers : InStep(e)'
    BY <2>1, <2>3 DEF InStep, Memory
  <2> QED BY <2>1, <2>2, <2>4 DEF LedgerInv
<1>13. CASE UNCHANGED vars
  BY <1>13 DEF vars, LedgerInv, InStep, Memory, InFile
<1> QED
  BY <1>1, <1>2, <1>3, <1>4, <1>5, <1>6, <1>7, <1>8, <1>9, <1>10, <1>11, <1>12, <1>13
  DEF Next, CallerStep

LEMMA LedgerStart == Init => LedgerInv
<1> SUFFICES ASSUME Init PROVE LedgerInv
  OBVIOUS
<1>1. /\ positions = << >> /\ stateFile.status = "absent" /\ \A d \in Callers : call[d] = Idle
  BY DEF Init, Absent
<1>2. \A c \in Callers : InStep(c)
  BY <1>1 DEF InStep, Memory, InFile, Idle
<1> QED BY <1>1, <1>2, EmptyTable DEF LedgerInv

\* What a crash would leave is what the one thread holds, or what the file does.
Durable ==
  /\ \A c \in Callers : up /\ threads = {c} => DurablePositions = Memory(c)
  /\ ~up => DurablePositions = InFile

LEMMA DurableIs ==
  ASSUME TypeOK, PoppedApart, LedgerInv
  PROVE  Durable
<1>1. ASSUME NEW c \in Callers, up, threads = {c} PROVE DurablePositions = Memory(c)
  <2>0. positions = [t \in DOMAIN positions |-> positions[t]] /\ \A d \in Callers \ {c} : call[d].at = "idle"
    BY <1>1 DEF LedgerInv, Idle
  <2>1. CASE call[c].at = "closing"
    <3> DEFINE u == call[c].ticket
               popper(t) == CHOOSE d \in Callers : call[d].at = "closing" /\ call[d].ticket = t
    <3>1. OpenTickets = DOMAIN positions \cup {u} /\ u \notin DOMAIN positions
      BY <1>1, <2>0, <2>1, OpenMeans DEF PoppedApart
    <3>2. popper(u) = c
      BY <1>1, <2>0, <2>1
    <3>3. DurablePositions =
            [t \in OpenTickets |-> IF t \in DOMAIN positions THEN positions[t] ELSE call[popper(t)].pos]
      BY <1>1 DEF DurablePositions
    <3> HIDE DEF popper, u
    <3>4. DurablePositions =
            [t \in DOMAIN positions \cup {u} |-> IF t = u THEN call[c].pos ELSE positions[t]]
      BY <3>1, <3>2, <3>3
    <3> QED BY <2>1, <3>4 DEF Memory, With, u
  <2>2. CASE call[c].at # "closing"
    <3>1. OpenTickets = DOMAIN positions
      BY <2>0, <2>2, OpenMeans
    <3>2. DurablePositions = [t \in DOMAIN positions |-> positions[t]]
      BY <1>1, <3>1 DEF DurablePositions
    <3> QED BY <2>0, <2>2, <3>2 DEF Memory
  <2> QED BY <2>1, <2>2
<1>2. ~up => DurablePositions = InFile
  BY DEF DurablePositions, InFile
<1> QED BY <1>1, <1>2 DEF Durable

\* The step of Book that a step of the broker is.
BookStep ==
  \/ \E v \in Volumes : Ledger!Open(ticketSeq, v)
  \/ \E t \in DOMAIN DurablePositions :
       \/ \E cv \in 0 .. DurablePositions[t].volume : Ledger!Reduce(t, cv)
       \/ Ledger!MoveStop(t)
       \/ Ledger!Close(t)
  \/ Ledger!Lose /\ stateFile' = Unreadable

LEMMA BookSteps ==
  ASSUME TypeOK, TicketsFresh, Bookkeeping, PoppedApart, LedgerInv, LedgerInv', Durable, Durable',
         Next, Cardinality(threads) = 1
  PROVE  BookStep \/ DurablePositions' = DurablePositions
<1> DEFINE Goal == BookStep \/ DurablePositions' = DurablePositions
<1>0. /\ call \in [Callers -> Calls] /\ threads \subseteq Callers /\ ticketSeq \in Nat
      /\ IsPositions(positions) /\ positions \in [DOMAIN positions -> Position]
  BY DEF TypeOK, LedgerInv
<1>1. PICK c \in Callers : threads = {c}
  <2>1. IsFiniteSet(threads)
    BY <1>0, ConstantsAssumption, FS_Subset
  <2> QED BY <1>0, <2>1, FS_Singleton
<1>2. InStep(c)
  BY <1>1 DEF LedgerInv
<1>3. /\ up => DurablePositions = Memory(c)
      /\ threads' = threads /\ up' => DurablePositions' = Memory(c)'
  BY <1>1 DEF Durable
<1>4. ASSUME NEW v \in Volumes, PlaceOrder(c, v) PROVE Goal
  <2>1. /\ up /\ up' /\ threads' = threads /\ call[c].at = "idle" /\ call'[c].at = "journal"
        /\ positions' = With(positions, ticketSeq, [volume |-> v, sl |-> "initial"])
    BY <1>0, <1>4 DEF PlaceOrder, MayStart, Idle, Journalling
  <2>2. DurablePositions = positions /\ DurablePositions' = positions'
    BY <1>3, <2>1 DEF Memory
  <2>3. ticketSeq \notin DOMAIN positions
    BY <1>0, <2>1 DEF TicketsFresh, IsPositions
  <2>4. Ledger!Open(ticketSeq, v)
    BY <2>1, <2>2, <2>3 DEF Ledger!Open, Ledger!Opened, With
  <2> QED BY <2>4 DEF BookStep
<1>5. ASSUME NEW t \in DOMAIN positions, ClosePop(c, t) PROVE Goal
  <2>1. /\ up /\ up' /\ threads' = threads /\ stateFile' = stateFile
    BY <1>5 DEF ClosePop, MayStart
  <2>2. InStep(c)' /\ InFile' = InFile
    BY <1>1, <2>1 DEF LedgerInv, InFile
  <2> QED BY <1>2, <1>3, <2>1, <2>2 DEF InStep
<1>6. ASSUME CloseStale(c) \/ Journal(c) \/ PartialRaise(c) \/ \E t \in DOMAIN positions : PartialRead(c, t)
      PROVE  Goal
  <2>1. /\ up /\ up' /\ threads' = threads /\ stateFile' = stateFile
    BY <1>6 DEF CloseStale, Journal, PartialRaise, PartialRead, MayStart
  <2>2. InStep(c)' /\ InFile' = InFile
    BY <1>1, <2>1 DEF LedgerInv, InFile
  <2> QED BY <1>2, <1>3, <2>1, <2>2 DEF InStep
<1>7. ASSUME CloseCommit(c) PROVE Goal
  <2> DEFINE t == call[c].ticket
  <2>1. /\ up /\ up' /\ threads' = threads /\ call[c].at = "closing" /\ call'[c].at = "journal"
        /\ positions' = positions
    BY <1>0, <1>7 DEF CloseCommit, Journalling
  <2>2. DurablePositions = With(positions, t, call[c].pos) /\ DurablePositions' = positions
    BY <1>3, <2>1 DEF Memory
  <2>3. t \notin DOMAIN positions
    BY <2>1 DEF PoppedApart
  <2>4. DOMAIN DurablePositions = DOMAIN positions \cup {t}
    BY <2>2, TableDomains
  <2>5. \A s \in DOMAIN positions : DurablePositions[s] = positions[s]
    BY <2>2, <2>3 DEF With
  <2>6. positions = [s \in DOMAIN positions |-> positions[s]]
    BY <1>0
  <2> HIDE DEF t
  <2>7. [s \in DOMAIN DurablePositions \ {t} |-> DurablePositions[s]] = [s \in DOMAIN positions |-> positions[s]]
    BY <2>3, <2>4, <2>5
  <2>8. Ledger!Close(t) /\ t \in DOMAIN DurablePositions
    BY <2>2, <2>4, <2>6, <2>7 DEF Ledger!Close
  <2> QED BY <2>8 DEF BookStep
<1>8. ASSUME PartialCommit(c) PROVE Goal
  <2> DEFINE t == call[c].ticket
             cv == call[c].closing
  <2>1. /\ up /\ up' /\ threads' = threads /\ call[c].at = "partial" /\ call'[c].at = "journal"
        /\ positions' = [positions EXCEPT ![t].volume = call[c].remaining]
    BY <1>0, <1>8 DEF PartialCommit, Journalling
  <2>2. DurablePositions = positions /\ DurablePositions' = positions'
    BY <1>3, <2>1 DEF Memory
  <2>3. /\ t \in DOMAIN positions /\ cv \in 0 .. positions[t].volume
        /\ call[c].remaining = positions[t].volume - cv
    BY <1>2, <2>1 DEF InStep
  <2> HIDE DEF t, cv
  <2>4. cv <= positions[t].volume
    BY <1>0, <2>3 DEF Position
  <2>5. Ledger!Reduce(t, cv)
    BY <2>1, <2>2, <2>3, <2>4 DEF Ledger!Reduce, Ledger!Reduced
  <2> QED BY <2>2, <2>3, <2>5 DEF BookStep
<1>9. ASSUME NEW t \in DOMAIN positions, ModifySl(c, t) PROVE Goal
  <2>1. /\ up /\ up' /\ threads' = threads /\ call[c].at = "idle" /\ call' = call
        /\ positions' = [positions EXCEPT ![t].sl = "breakeven"]
    BY <1>9 DEF ModifySl, MayStart, Idle
  <2>2. DurablePositions = positions /\ DurablePositions' = positions'
    BY <1>3, <2>1 DEF Memory
  <2>3. Ledger!MoveStop(t)
    BY <2>1, <2>2 DEF Ledger!MoveStop, Ledger!StopMoved
  <2> QED BY <2>2, <2>3 DEF BookStep
<1>10. CASE Crash
  <2>1. up /\ ~up' /\ stateFile' = stateFile
    BY <1>10 DEF Crash
  <2>2. DurablePositions' = InFile' /\ InFile' = InFile
    BY <2>1 DEF Durable, InFile
  <2> QED BY <1>2, <1>3, <2>1, <2>2 DEF InStep
<1>11. CASE CorruptStateFile
  <2>1. ~up' /\ stateFile' = Unreadable /\ stateFile'.status = "unreadable"
    BY <1>11 DEF CorruptStateFile, Unreadable
  <2>2. DurablePositions' = << >>
    BY <2>1 DEF Durable, InFile
  <2> QED BY <2>1, <2>2 DEF BookStep, Ledger!Lose, Ledger!EmptyBook
<1>12. CASE Restart
  <2>1. ~up /\ up' /\ threads' = threads /\ stateFile' = stateFile
    BY <1>12 DEF Restart
  <2>2. InStep(c)' /\ InFile' = InFile
    BY <1>1, <2>1 DEF LedgerInv, InFile
  <2> QED BY <1>3, <2>1, <2>2 DEF InStep, Durable
<1>13. CASE CorruptJournal
  <2>1. ~up /\ ~up' /\ stateFile' = stateFile
    BY <1>13 DEF CorruptJournal
  <2> QED BY <2>1 DEF Durable, InFile
<1> QED
  BY <1>1, <1>4, <1>5, <1>6, <1>7, <1>8, <1>9, <1>10, <1>11, <1>12, <1>13 DEF Next, CallerStep

\* "Restart-safe state": with one thread the broker implements Book, step by step, for
\* any volumes and wherever it is killed.
THEOREM RefinesBook == Spec => ImplementsBook
<1>1. Init => Ledger!BookInit
  <2> SUFFICES ASSUME Init PROVE Ledger!BookInit
    OBVIOUS
  <2>1. up /\ positions = << >> /\ \A d \in Callers : call[d].at = "idle"
    BY DEF Init, Idle
  <2>2. OpenTickets = {}
    BY <2>1, OpenMeans
  <2>3. DurablePositions = << >>
    BY <2>1, <2>2 DEF DurablePositions
  <2> QED BY <2>3 DEF Ledger!BookInit, Ledger!EmptyBook
<1>2. TypeOK /\ TypeOK' /\ Bookkeeping /\ LedgerInv /\ [Next]_vars => LedgerInv'
  BY LedgerStep
<1>3. TypeOK /\ PoppedApart /\ LedgerInv => Durable
  BY DurableIs
<1>4. /\ TypeOK /\ TicketsFresh /\ Bookkeeping /\ PoppedApart
      /\ LedgerInv /\ LedgerInv' /\ Durable /\ Durable' /\ [Next]_vars
      => [Cardinality(threads) = 1 => BookStep]_DurablePositions
  <2> SUFFICES ASSUME TypeOK, TicketsFresh, Bookkeeping, PoppedApart,
                      LedgerInv, LedgerInv', Durable, Durable', [Next]_vars, Cardinality(threads) = 1
               PROVE  BookStep \/ DurablePositions' = DurablePositions
    OBVIOUS
  <2>1. CASE Next
    BY <2>1, BookSteps
  <2>2. CASE UNCHANGED vars
    <3>1. UNCHANGED OpenTickets
      BY <2>2 DEF vars, OpenTickets
    <3> QED BY <2>2, <3>1 DEF vars, DurablePositions
  <2> QED BY <2>1, <2>2
<1>5. IInv => TypeOK /\ TicketsFresh /\ Bookkeeping /\ PoppedApart
  BY DEF IInv
<1>6. Spec => [][Cardinality(threads) = 1 => BookStep]_DurablePositions
  BY <1>2, <1>3, <1>4, <1>5, LedgerStart, Inductive, PTL DEF Spec
<1> QED BY <1>1, <1>6, PTL DEF Spec, ImplementsBook, BookStep

-----------------------------------------------------------------------------
(* Sums over a finite set of rows.  MapThenSumSet is a recursive function  *)
(* over the subsets of the set; that it exists, that the order it takes    *)
(* the rows in makes no difference and that it depends on these rows alone *)
(* are proved by the smallest subset for which they would fail.            *)

\* The row that MapThenSumSet takes next.
Pick(s) == CHOOSE x \in s : TRUE

\* f is the function that MapThenSumSet computes the volumes of the rows in S by.
Sums(f, rows, S) ==
  f = [s \in SUBSET S |-> IF s = {} THEN 0 ELSE rows[Pick(s)].volume + f[s \ {Pick(s)}]]

\* What the rows in S add up to, as VolumeOf says it.
Total(rows, S) == MapThenSumSet(LAMBDA i : rows[i].volume, S)

HasVolumes(rows, S) == \A i \in S : rows[i].volume \in Nat

\* Induction over a finite set: a collection of its subsets has a smallest member.
LEMMA SmallestSubset ==
  ASSUME NEW S, IsFiniteSet(S), NEW Q, Q \subseteq SUBSET S, Q # {}
  PROVE  \E A \in Q : \A B \in Q : ~(B \subseteq A /\ B # A)
<1>1. Q \subseteq FiniteSubsetsOf(S)
  BY FS_Subset DEF FiniteSubsetsOf
<1>2. PICK A \in Q : \A B \in Q : <<B, A>> \notin StrictSubsetOrdering(S)
  BY <1>1, FS_StrictSubsetOrderingWellFounded, WFMin
<1> QED
  BY <1>2 DEF StrictSubsetOrdering

LEMMA PickFrom == ASSUME NEW s, s # {} PROVE Pick(s) \in s /\ s \ {Pick(s)} # s
BY DEF Pick

LEMMA SumsAt ==
  ASSUME NEW f, NEW rows, NEW S, Sums(f, rows, S), NEW A \in SUBSET S
  PROVE  /\ A = {} => f[A] = 0
         /\ A # {} => f[A] = rows[Pick(A)].volume + f[A \ {Pick(A)}]
<1>1. f[A] = IF A = {} THEN 0 ELSE rows[Pick(A)].volume + f[A \ {Pick(A)}]
  BY Zenon DEF Sums
<1> QED BY <1>1

\* Two such functions agree on the sets they share, when the rows do.
LEMMA SumsAgree ==
  ASSUME NEW f, NEW g, NEW v, NEW w, NEW S, NEW R, Sums(f, v, S), Sums(g, w, R),
         NEW A, A \subseteq S, A \subseteq R, IsFiniteSet(A),
         \A i \in A : v[i].volume = w[i].volume
  PROVE  f[A] = g[A]
<1> DEFINE Q == {B \in SUBSET A : f[B] # g[B]}
<1> SUFFICES ASSUME Q # {} PROVE FALSE
  OBVIOUS
<1>0. Q \subseteq SUBSET A
  OBVIOUS
<1> HIDE DEF Q
<1>1. PICK B \in Q : \A C \in Q : ~(C \subseteq B /\ C # B)
  BY <1>0, SmallestSubset
<1>2. B \subseteq A /\ f[B] # g[B]
  BY DEF Q
<1>3. B # {}
  BY <1>2, SumsAt
<1>4. Pick(B) \in B /\ B \ {Pick(B)} # B
  BY <1>3, PickFrom
<1>5. B \ {Pick(B)} \notin Q
  BY <1>1, <1>4
<1>6. f[B \ {Pick(B)}] = g[B \ {Pick(B)}]
  BY <1>2, <1>5 DEF Q
<1>7. v[Pick(B)].volume = w[Pick(B)].volume
  BY <1>2, <1>4
<1> QED BY <1>2, <1>3, <1>6, <1>7, SumsAt

\* There is one, for any rows.
LEMMA SumsExist ==
  ASSUME NEW rows, NEW S, IsFiniteSet(S)
  PROVE  \E f : Sums(f, rows, S)
<1> DEFINE Q == {B \in SUBSET S : ~\E f : Sums(f, rows, B)}
<1> SUFFICES ASSUME Q # {} PROVE FALSE
  OBVIOUS
<1>0. Q \subseteq SUBSET S
  OBVIOUS
<1> HIDE DEF Q
<1>1. PICK A \in Q : \A B \in Q : ~(B \subseteq A /\ B # A)
  BY <1>0, SmallestSubset
<1>2. A \subseteq S /\ ~\E f : Sums(f, rows, A)
  BY DEF Q
<1> DEFINE h(B) == CHOOSE f : Sums(f, rows, B)
<1>3. ASSUME NEW B, B \subseteq A, B # A PROVE Sums(h(B), rows, B)
  <2>1. \E f : Sums(f, rows, B)
    BY <1>1, <1>2, <1>3 DEF Q
  <2> QED BY <2>1
<1> HIDE DEF h
<1> DEFINE g == [s \in SUBSET A |-> IF s = {} THEN 0
                   ELSE rows[Pick(s)].volume + h(s \ {Pick(s)})[s \ {Pick(s)}]]
<1>4. ASSUME NEW s \in SUBSET A, s # {}
      PROVE  h(s \ {Pick(s)})[s \ {Pick(s)}] = g[s \ {Pick(s)}]
  <2> DEFINE r == s \ {Pick(s)}
  <2>1. r \in SUBSET A /\ r # A
    BY <1>4, PickFrom
  <2>2. Sums(h(r), rows, r)
    BY <1>3, <2>1
  <2>3. CASE r = {}
    BY <2>1, <2>2, <2>3, SumsAt
  <2>4. CASE r # {}
    <3> DEFINE q == r \ {Pick(r)}
    <3> HIDE DEF r
    <3>1. q \subseteq r /\ q # A /\ q \in SUBSET A
      BY <2>1, <2>4, PickFrom
    <3>2. Sums(h(q), rows, q)
      BY <1>3, <3>1
    <3>3. IsFiniteSet(q)
      BY <1>2, <3>1, FS_Subset
    <3>4. h(r)[q] = h(q)[q]
      BY <2>2, <3>1, <3>2, <3>3, SumsAgree
    <3>5. h(r)[r] = rows[Pick(r)].volume + h(r)[q]
      BY <2>2, <2>4, SumsAt
    <3>6. g[r] = rows[Pick(r)].volume + h(q)[q]
      BY <2>1, <2>4
    <3> QED BY <3>4, <3>5, <3>6 DEF r
  <2> QED BY <2>3, <2>4
<1>5. g = [s \in SUBSET A |-> IF s = {} THEN 0 ELSE rows[Pick(s)].volume + g[s \ {Pick(s)}]]
  <2> DEFINE e(s) == IF s = {} THEN 0 ELSE rows[Pick(s)].volume + h(s \ {Pick(s)})[s \ {Pick(s)}]
             d(s) == IF s = {} THEN 0 ELSE rows[Pick(s)].volume + g[s \ {Pick(s)}]
  <2>1. \A s \in SUBSET A : e(s) = d(s)
    BY <1>4
  <2>2. g = [s \in SUBSET A |-> e(s)]
    OBVIOUS
  <2> HIDE DEF g, e, d
  <2>3. g = [s \in SUBSET A |-> d(s)]
    BY <2>1, <2>2
  <2> QED BY <2>3 DEF d
<1> QED BY <1>2, <1>5, Zenon DEF Sums

LEMMA TotalIs ==
  ASSUME NEW rows, NEW S, IsFiniteSet(S)
  PROVE  \E f : Sums(f, rows, S) /\ Total(rows, S) = f[S]
<1>1. PICK g : Sums(g, rows, S)
  BY SumsExist
<1> QED BY <1>1, Zenon DEF Total, MapThenSumSet, MapThenFoldSet, Sums, Pick

\* The order the rows are taken in makes no difference.
LEMMA SumsAnyOrder ==
  ASSUME NEW f, NEW rows, NEW S, IsFiniteSet(S), Sums(f, rows, S), HasVolumes(rows, S)
  PROVE  /\ f[S] \in Nat
         /\ \A x \in S : f[S] = rows[x].volume + f[S \ {x}]
<1> DEFINE Good(B) == f[B] \in Nat /\ \A x \in B : f[B] = rows[x].volume + f[B \ {x}]
           Q == {B \in SUBSET S : ~Good(B)}
<1> SUFFICES ASSUME Q # {} PROVE FALSE
  BY DEF Q
<1>0. Q \subseteq SUBSET S
  OBVIOUS
<1> HIDE DEF Q
<1>1. PICK A \in Q : \A B \in Q : ~(B \subseteq A /\ B # A)
  BY <1>0, SmallestSubset
<1>2. A \subseteq S /\ ~Good(A)
  BY DEF Q
<1>3. ASSUME NEW B, B \subseteq A, B # A PROVE Good(B)
  BY <1>1, <1>2, <1>3 DEF Q
<1>4. A # {}
  BY <1>2, SumsAt
<1> DEFINE y == Pick(A)
<1>5. y \in A /\ f[A] = rows[y].volume + f[A \ {y}]
  BY <1>2, <1>4, PickFrom, SumsAt
<1> HIDE DEF y
<1>6. rows[y].volume \in Nat /\ f[A \ {y}] \in Nat
  BY <1>2, <1>3, <1>5 DEF HasVolumes
<1>7. ASSUME NEW x \in A PROVE f[A] = rows[x].volume + f[A \ {x}]
  <2>1. CASE x = y
    BY <1>5, <2>1
  <2>2. CASE x # y
    <3>1. x \in A \ {y} /\ y \in A \ {x} /\ (A \ {y}) \ {x} = (A \ {x}) \ {y}
      BY <1>5, <2>2
    <3>2. f[A \ {y}] = rows[x].volume + f[(A \ {y}) \ {x}]
      BY <1>3, <1>5, <3>1
    <3>3. f[A \ {x}] = rows[y].volume + f[(A \ {x}) \ {y}]
      BY <1>3, <3>1
    <3>4. f[(A \ {x}) \ {y}] \in Nat /\ rows[x].volume \in Nat
      BY <1>2, <1>3, <3>1 DEF HasVolumes
    <3> HIDE DEF Good
    <3> QED BY <1>5, <1>6, <3>1, <3>2, <3>3, <3>4
  <2> QED BY <2>1, <2>2
<1> QED BY <1>2, <1>5, <1>6, <1>7

\* The volume of a set of rows: nothing without rows, and more by that of a row that joins.
LEMMA TotalOfRows ==
  ASSUME NEW rows, NEW S, IsFiniteSet(S), HasVolumes(rows, S)
  PROVE  /\ Total(rows, S) \in Nat
         /\ S = {} => Total(rows, S) = 0
         /\ \A x \in S : Total(rows, S) = rows[x].volume + Total(rows, S \ {x})
<1>1. PICK f : Sums(f, rows, S) /\ Total(rows, S) = f[S]
  BY TotalIs
<1>2. ASSUME NEW x \in S PROVE Total(rows, S \ {x}) = f[S \ {x}]
  <2>1. IsFiniteSet(S \ {x})
    BY FS_RemoveElement
  <2>2. PICK g : Sums(g, rows, S \ {x}) /\ Total(rows, S \ {x}) = g[S \ {x}]
    BY <2>1, TotalIs
  <2> QED BY <1>1, <2>1, <2>2, SumsAgree
<1>3. S = {} => f[S] = 0
  BY <1>1, SumsAt
<1>4. f[S] \in Nat /\ \A x \in S : f[S] = rows[x].volume + f[S \ {x}]
  BY <1>1, SumsAnyOrder
<1> HIDE DEF Total
<1> QED BY <1>1, <1>2, <1>3, <1>4

\* It depends on the rows of the set alone.
LEMMA TotalOfEqualRows ==
  ASSUME NEW v, NEW w, NEW S, IsFiniteSet(S), \A i \in S : v[i].volume = w[i].volume
  PROVE  Total(v, S) = Total(w, S)
<1>1. PICK f : Sums(f, v, S) /\ Total(v, S) = f[S]
  BY TotalIs
<1>2. PICK g : Sums(g, w, S) /\ Total(w, S) = g[S]
  BY TotalIs
<1> QED BY <1>1, <1>2, SumsAgree

-----------------------------------------------------------------------------
(* No trade is closed for more than it was opened for, seen from one thread. *)
(* What is journalled as closed of a trade, what the thread has closed and *)
(* not yet journalled, and what the file holds open never exceed the volume*)
(* of its open row: a close moves volume from the last to the first, and   *)
(* a crash in between loses what was on its way.                           *)

\* The rows of journal j that close all or part of trade t, and what they add up to.
ClosingRows(j, t) == {i \in DOMAIN j : j[i].ticket = t /\ j[i].kind \in {"partial", "close"}}
ClosedBy(j, t) == Total(j, ClosingRows(j, t))

\* What row r closes of trade t, what c has closed of it and not yet journalled, and what
\* the state file holds open of it.
Closes(r, t) == IF r.ticket = t /\ r.kind # "open" THEN r.volume ELSE 0
OnItsWay(c, t) == IF call[c].at = "journal" THEN Closes(call[c].row, t) ELSE 0
Held(t) == IF t \in DOMAIN InFile THEN InFile[t].volume ELSE 0

\* The balance of trade t while c runs alone, if it was opened for volume v.
InBalance(c, t, v) == ClosedBy(journal, t) + OnItsWay(c, t) + Held(t) <= v

\* It holds of every open row, journalled or on its way; nothing of a trade is journalled
\* before its open row is.
BalancedAt(c) ==
  /\ \A i \in DOMAIN journal :
       journal[i].kind = "open" => InBalance(c, journal[i].ticket, journal[i].volume)
  /\ PendingRow(c, "open") =>
       /\ call[c].row.ticket \notin JournalTickets
       /\ Held(call[c].row.ticket) <= call[c].row.volume

Balanced == ~blind => \A c \in Callers : threads = {c} => BalancedAt(c)

LEMMA VolumeIs == \A t : VolumeOf(t, {"partial", "close"}) = ClosedBy(journal, t)
BY DEF VolumeOf, ClosedBy, ClosingRows, Total

LEMMA RowsClosed ==
  ASSUME NEW j \in Seq(Row), NEW t
  PROVE  /\ IsFiniteSet(ClosingRows(j, t)) /\ HasVolumes(j, ClosingRows(j, t))
         /\ ClosedBy(j, t) \in Nat
         /\ (\A i \in DOMAIN j : j[i].ticket # t) => ClosedBy(j, t) = 0
<1>1. IsFiniteSet(DOMAIN j)
  BY FS_Interval
<1>2. ClosingRows(j, t) \in SUBSET (DOMAIN j)
  BY DEF ClosingRows
<1>3. IsFiniteSet(ClosingRows(j, t))
  BY <1>1, <1>2, FS_Subset
<1>4. \A i \in DOMAIN j : j[i] \in Row
  OBVIOUS
<1>5. HasVolumes(j, ClosingRows(j, t))
  BY <1>2, <1>4 DEF HasVolumes, Row
<1>6. (\A i \in DOMAIN j : j[i].ticket # t) => ClosingRows(j, t) = {}
  BY DEF ClosingRows
<1> QED BY <1>3, <1>5, <1>6, TotalOfRows DEF ClosedBy

\* What the append of row r adds to what is closed of each trade.
LEMMA RowCounted ==
  ASSUME NEW j \in Seq(Row), NEW r \in Row, NEW t
  PROVE  ClosedBy(Append(j, r), t) = ClosedBy(j, t) + Closes(r, t)
<1> DEFINE n == Len(j) + 1
           k == Append(j, r)
           C == ClosingRows(j, t)
           D == ClosingRows(k, t)
<1>1. /\ DOMAIN k = DOMAIN j \cup {n} /\ n \notin DOMAIN j
      /\ \A i \in DOMAIN j : k[i] = j[i]
      /\ k[n] = r /\ k \in Seq(Row)
  OBVIOUS
<1>2. r.kind \in {"open", "partial", "close"} /\ r.volume \in Nat
  BY DEF Row
<1> HIDE DEF n, k
<1>3. /\ IsFiniteSet(C) /\ IsFiniteSet(D) /\ HasVolumes(k, D) /\ ClosedBy(j, t) \in Nat
  BY <1>1, RowsClosed
<1>4. Total(k, C) = ClosedBy(j, t)
  <2>1. \A i \in C : k[i].volume = j[i].volume
    BY <1>1 DEF ClosingRows
  <2> QED BY <1>3, <2>1, TotalOfEqualRows DEF ClosedBy
<1>5. ClosedBy(k, t) = ClosedBy(j, t) + Closes(r, t)
  <2>1. CASE r.ticket = t /\ r.kind # "open"
    <3>1. n \in D /\ D \ {n} = C
      BY <1>1, <1>2, <2>1 DEF ClosingRows
    <3>2. Total(k, D) = k[n].volume + Total(k, D \ {n})
      BY <1>3, <3>1, TotalOfRows
    <3>3. ClosedBy(k, t) = r.volume + ClosedBy(j, t) /\ Closes(r, t) = r.volume
      BY <1>1, <1>4, <2>1, <3>1, <3>2 DEF ClosedBy, Closes
    <3> QED BY <1>2, <1>3, <3>3
  <2>2. CASE ~(r.ticket = t /\ r.kind # "open")
    <3>1. D = C
      BY <1>1, <2>2 DEF ClosingRows
    <3>2. ClosedBy(k, t) = ClosedBy(j, t) /\ Closes(r, t) = 0
      BY <1>4, <2>2, <3>1 DEF ClosedBy, Closes
    <3> QED BY <1>3, <3>2
  <2> QED BY <2>1, <2>2
<1> QED BY <1>5 DEF k

LEMMA VolumesHeld ==
  ASSUME TypeOK, NEW c \in Callers, NEW t
  PROVE  /\ ClosedBy(journal, t) \in Nat
         /\ OnItsWay(c, t) \in Nat
         /\ Held(t) \in Nat
<1>1. ClosedBy(journal, t) \in Nat
  BY RowsClosed DEF TypeOK
<1>2. call[c].at = "journal" => call[c].row \in Row
  BY CallShapes DEF TypeOK
<1>3. IsPositions(InFile)
  BY DEF TypeOK, InFile, IsPositions, Absent, Unreadable
<1> QED BY <1>1, <1>2, <1>3 DEF OnItsWay, Closes, Row, Held, IsPositions, Position

\* A step that journals nothing moves volume between what is held and what is on its way.
LEMMA Moved ==
  ASSUME TypeOK, TypeOK', NEW c \in Callers, BalancedAt(c), journal' = journal,
         ~PendingRow(c, "open")',
         \A t \in JournalTickets : OnItsWay(c, t)' + Held(t)' <= OnItsWay(c, t) + Held(t)
  PROVE  BalancedAt(c)'
<1> SUFFICES ASSUME NEW i \in DOMAIN journal, journal[i].kind = "open",
                    NEW t, t = journal[i].ticket, NEW v, v = journal[i].volume
             PROVE  InBalance(c, t, v)'
  BY DEF BalancedAt
<1>1. t \in JournalTickets /\ v \in Nat
  BY JournalTyped DEF Row
<1>2. InBalance(c, t, v)
  BY DEF BalancedAt
<1>3. /\ ClosedBy(journal, t) \in Nat /\ OnItsWay(c, t) \in Nat /\ Held(t) \in Nat
  BY VolumesHeld
<1>4. OnItsWay(c, t)' \in Nat /\ Held(t)' \in Nat
  <2>1. OnItsWay(c, t)' \in Nat
    BY CallShapes DEF TypeOK, OnItsWay, Closes, Row
  <2>2. Held(t)' \in Nat
    BY DEF TypeOK, Held, InFile, IsPositions, Position, Absent, Unreadable
  <2> QED BY <2>1, <2>2
<1>5. ClosedBy(journal, t) + OnItsWay(c, t)' + Held(t)' <= v
  BY <1>1, <1>2, <1>3, <1>4 DEF InBalance
<1> QED BY <1>5 DEF InBalance

LEMMA BalancedStep ==
  ASSUME TypeOK, TypeOK', TicketsFresh, Bookkeeping, PoppedApart, LedgerInv, LedgerInv',
         Balanced, [Next]_vars
  PROVE  Balanced'
<1> SUFFICES ASSUME ~blind', NEW c \in Callers, threads' = {c} PROVE BalancedAt(c)'
  BY DEF Balanced
<1>0. /\ ~blind /\ threads = {c} /\ call \in [Callers -> Calls] /\ ticketSeq \in Nat
      /\ BalancedAt(c)
  <2>1. threads' = threads
    BY DEF Next, CallerStep, vars, PlaceOrder, Journal, ClosePop, CloseStale, CloseCommit,
           PartialRead, PartialCommit, PartialRaise, ModifySl, Crash, CorruptStateFile,
           CorruptJournal, Restart
  <2> QED BY <2>1, BlindStays DEF TypeOK, Balanced
<1>H. /\ \A t : ClosedBy(journal, t) \in Nat /\ OnItsWay(c, t) \in Nat /\ Held(t) \in Nat
      /\ up => Memory(c) = InFile
      /\ up' => Memory(c)' = InFile'
  BY <1>0, VolumesHeld DEF LedgerInv, InStep
<1>1. ASSUME NEW v \in Volumes, PlaceOrder(c, v) PROVE BalancedAt(c)'
  <2> PICK u : u = ticketSeq
    OBVIOUS
  <2>1. /\ call'[c].at = "journal" /\ call'[c].row.ticket = u
        /\ call'[c].row.kind = "open" /\ call'[c].row.volume = v
    BY <1>0, <1>1 DEF PlaceOrder, Journalling
  <2>2. call[c].at = "idle" /\ up /\ up' /\ journal' = journal
    BY <1>1 DEF PlaceOrder, MayStart, Idle
  <2>3. InFile = positions /\ InFile' = positions'
    BY <1>H, <2>1, <2>2 DEF Memory
  <2>4. positions' = With(positions, u, [volume |-> v, sl |-> "initial"])
    BY <1>1 DEF PlaceOrder
  <2>5. Held(u)' = v /\ \A t : t # u => Held(t)' = Held(t)
    BY <2>3, <2>4 DEF Held, With
  <2>6. v \in Nat
    BY ConstantsAssumption DEF ConstantsAssumption
  <2>7. u \notin JournalTickets /\ JournalTickets' = JournalTickets
    <3>1. u \notin JournalTickets
      BY <1>0, <2>2 DEF TicketsFresh
    <3>2. JournalTickets' = JournalTickets
      BY <2>2 DEF JournalTickets
    <3> QED BY <3>1, <3>2
  <2>8. \A t : OnItsWay(c, t)' = 0 /\ OnItsWay(c, t) = 0
    BY <2>1, <2>2 DEF OnItsWay, Closes
  <2>9. ASSUME NEW i \in DOMAIN journal, journal[i].kind = "open",
               NEW t, t = journal[i].ticket, NEW w, w = journal[i].volume
        PROVE  InBalance(c, t, w)'
    <3>1. t # u /\ InBalance(c, t, w)
      BY <1>0, <2>7, <2>9 DEF BalancedAt, JournalTickets
    <3> QED BY <2>2, <2>5, <2>8, <3>1 DEF InBalance
  <2>10. Held(call[c].row.ticket)' <= call'[c].row.volume
    BY <2>1, <2>5, <2>6
  <2> QED BY <2>1, <2>2, <2>7, <2>9, <2>10 DEF BalancedAt
<1>2. CASE Journal(c)
  <2> PICK r : r = call[c].row
    OBVIOUS
  <2>1. /\ call[c].at = "journal" /\ r \in Row /\ journal' = Append(journal, r)
        /\ call'[c].at = "idle" /\ stateFile' = stateFile
    BY <1>0, <1>2, CallShapes DEF Journal, Idle
  <2>2. \A t : ClosedBy(journal', t) = ClosedBy(journal, t) + Closes(r, t)
    BY <2>1, RowCounted DEF TypeOK
  <2>3. \A t : OnItsWay(c, t) = Closes(r, t) /\ OnItsWay(c, t)' = 0 /\ Held(t)' = Held(t)
    BY <2>1 DEF OnItsWay, Held, InFile
  <2>4. /\ DOMAIN journal' = DOMAIN journal \cup {Len(journal) + 1}
        /\ \A i \in DOMAIN journal : journal'[i] = journal[i]
        /\ journal'[Len(journal) + 1] = r
    BY <2>1, AppendedRow
  <2>5. ASSUME NEW t, NEW v, InBalance(c, t, v) PROVE InBalance(c, t, v)'
    <3>1. ClosedBy(journal', t) + OnItsWay(c, t)' + Held(t)' = ClosedBy(journal, t) + OnItsWay(c, t) + Held(t)
      BY <1>H, <2>2, <2>3
    <3> QED BY <2>5, <3>1 DEF InBalance
  <2>6. r.kind = "open" => InBalance(c, r.ticket, r.volume)'
    <3> SUFFICES ASSUME r.kind = "open" PROVE InBalance(c, r.ticket, r.volume)'
      OBVIOUS
    <3>1. r.ticket \notin JournalTickets /\ Held(r.ticket) <= r.volume
      BY <1>0, <2>1 DEF BalancedAt, PendingRow
    <3>2. ClosedBy(journal, r.ticket) = 0
      BY <3>1, RowsClosed DEF TypeOK, JournalTickets
    <3>3. Closes(r, r.ticket) = 0
      BY DEF Closes
    <3> QED BY <1>H, <2>2, <2>3, <3>1, <3>2, <3>3 DEF InBalance
  <2>7. ASSUME NEW i \in DOMAIN journal', journal'[i].kind = "open",
               NEW t, t = journal'[i].ticket, NEW v, v = journal'[i].volume
        PROVE  InBalance(c, t, v)'
    <3>1. CASE i \in DOMAIN journal
      BY <1>0, <2>4, <2>5, <2>7, <3>1 DEF BalancedAt
    <3>2. CASE i = Len(journal) + 1
      BY <2>4, <2>6, <2>7, <3>2
    <3> QED BY <2>4, <3>1, <3>2
  <2> QED BY <2>1, <2>7 DEF BalancedAt, PendingRow
\* Nothing is journalled or on its way, and nothing is saved.
<1>3. CASE \/ CloseStale(c) \/ PartialRaise(c)
           \/ \E t \in DOMAIN positions : ClosePop(c, t) \/ PartialRead(c, t)
  <2>1. journal' = journal /\ stateFile' = stateFile
    BY <1>3 DEF CloseStale, PartialRaise, ClosePop, PartialRead
  <2>2. call'[c].at # "journal"
    BY <1>0, <1>3 DEF CloseStale, PartialRaise, ClosePop, PartialRead, Idle, Closing, Partial
  <2>3. \A t : OnItsWay(c, t)' = 0 /\ Held(t)' = Held(t)
    BY <2>1, <2>2 DEF OnItsWay, Held, InFile
  <2>4. \A t : OnItsWay(c, t)' + Held(t)' <= OnItsWay(c, t) + Held(t)
    BY <1>H, <2>3
  <2> QED BY <1>0, <2>1, <2>2, <2>4, Moved DEF PendingRow
<1>4. CASE CloseCommit(c)
  <2> PICK u : u = call[c].ticket
    OBVIOUS
  <2>1. /\ call[c].at = "closing" /\ call[c].pos.volume \in Nat
        /\ journal' = journal /\ positions' = positions /\ up /\ up'
        /\ call'[c].at = "journal" /\ call'[c].row.kind = "close"
        /\ call'[c].row.ticket = u /\ call'[c].row.volume = call[c].pos.volume
    BY <1>0, <1>4, CallShapes DEF CloseCommit, Journalling, Position
  <2>2. u \notin DOMAIN positions
    BY <2>1 DEF PoppedApart
  <2>3. InFile = With(positions, u, call[c].pos) /\ InFile' = positions
    BY <1>H, <2>1 DEF Memory
  <2>4. /\ Held(u) = call[c].pos.volume /\ Held(u)' = 0
        /\ \A t : t # u => Held(t)' = Held(t)
    BY <2>2, <2>3 DEF Held, With
  <2>5. /\ OnItsWay(c, u)' = call[c].pos.volume /\ \A t : t # u => OnItsWay(c, t)' = 0
    BY <2>1 DEF OnItsWay, Closes
  <2>6. ASSUME NEW t PROVE OnItsWay(c, t)' + Held(t)' <= OnItsWay(c, t) + Held(t)
    <3>1. OnItsWay(c, t) \in Nat /\ Held(t) \in Nat
      BY <1>H
    <3> QED BY <2>1, <2>4, <2>5, <3>1
  <2> QED BY <1>0, <2>1, <2>6, Moved DEF PendingRow
<1>5. CASE PartialCommit(c)
  <2> PICK u : u = call[c].ticket
    OBVIOUS
  <2>1. /\ call[c].at = "partial" /\ call[c].closing \in Nat /\ call[c].remaining \in Nat
        /\ u \in DOMAIN positions /\ positions[u].volume = call[c].closing + call[c].remaining
    <3>1. positions[u].volume \in Nat
      BY <1>5 DEF PartialCommit, TypeOK, IsPositions, Position
    <3>2. InStep(c) /\ call[c].at = "partial" /\ u \in DOMAIN positions
      BY <1>0, <1>5 DEF PartialCommit, LedgerInv
    <3> QED BY <1>0, <3>1, <3>2, CallShapes DEF InStep
  <2>2. /\ journal' = journal /\ up /\ up'
        /\ positions' = [positions EXCEPT ![u].volume = call[c].remaining]
        /\ call'[c].at = "journal" /\ call'[c].row.kind = "partial"
        /\ call'[c].row.ticket = u /\ call'[c].row.volume = call[c].closing
    BY <1>0, <1>5 DEF PartialCommit, Journalling
  <2>3. InFile = positions /\ InFile' = positions'
    BY <1>H, <2>1, <2>2 DEF Memory
  <2>4. positions[u] \in Position
    BY <2>1 DEF TypeOK, IsPositions
  <2>5. /\ Held(u) = call[c].closing + call[c].remaining /\ Held(u)' = call[c].remaining
        /\ \A t : t # u => Held(t)' = Held(t)
    BY <2>1, <2>2, <2>3, <2>4 DEF Held, Position
  <2>6. OnItsWay(c, u)' = call[c].closing /\ \A t : t # u => OnItsWay(c, t)' = 0
    BY <2>2 DEF OnItsWay, Closes
  <2>7. ASSUME NEW t PROVE OnItsWay(c, t)' + Held(t)' <= OnItsWay(c, t) + Held(t)
    <3>1. OnItsWay(c, t) \in Nat /\ Held(t) \in Nat
      BY <1>H
    <3> QED BY <2>1, <2>5, <2>6, <3>1
  <2> QED BY <1>0, <2>2, <2>7, Moved DEF PendingRow
<1>6. ASSUME NEW u \in DOMAIN positions, ModifySl(c, u) PROVE BalancedAt(c)'
  <2>1. /\ journal' = journal /\ up /\ up' /\ call[c].at = "idle" /\ call'[c].at = "idle"
        /\ positions' = [positions EXCEPT ![u].sl = "breakeven"] /\ positions[u] \in Position
    BY <1>0, <1>6 DEF ModifySl, MayStart, Idle, TypeOK, IsPositions
  <2>2. InFile = positions /\ InFile' = positions'
    BY <1>H, <2>1 DEF Memory
  <2>3. \A t : Held(t)' = Held(t) /\ OnItsWay(c, t)' = OnItsWay(c, t)
    BY <2>1, <2>2 DEF Held, OnItsWay, Position
  <2>4. \A t : OnItsWay(c, t)' + Held(t)' <= OnItsWay(c, t) + Held(t)
    BY <1>H, <2>3
  <2> QED BY <1>0, <2>1, <2>4, Moved DEF PendingRow
\* The process ends, a file is damaged, a new process starts: no call is under way.
<1>7. CASE Crash \/ CorruptStateFile \/ CorruptJournal \/ Restart
  <2>1. journal' = journal /\ call'[c].at = "idle"
    BY <1>7 DEF Crash, CorruptStateFile, CorruptJournal, Restart, Bookkeeping, Idle
  <2>2. \A t : OnItsWay(c, t)' = 0 /\ (Held(t)' = Held(t) \/ Held(t)' = 0)
    BY <1>7, <2>1 DEF Crash, CorruptStateFile, CorruptJournal, Restart, OnItsWay, Held, InFile, Unreadable
  <2>3. \A t : OnItsWay(c, t)' + Held(t)' <= OnItsWay(c, t) + Held(t)
    BY <1>H, <2>2
  <2> QED BY <1>0, <2>1, <2>3, Moved DEF PendingRow
<1>8. CASE UNCHANGED vars
  BY <1>0, <1>8 DEF vars, BalancedAt, InBalance, PendingRow, JournalTickets, OnItsWay, Held, InFile
<1> QED
  BY <1>0, <1>1, <1>2, <1>3, <1>4, <1>5, <1>6, <1>7, <1>8 DEF Next, CallerStep

\* No trade is closed for more than it was opened for: however often it is closed in part,
\* for any volumes, any rounding of the halves and wherever the one thread is killed
\* (partial_close, close_position and _save_state), while its ticket is not issued again.
THEOREM ClosedVolumeCovered == Spec => []VolumeConserved
<1>1. Init => Balanced
  BY DEF Init, Balanced, BalancedAt, PendingRow, Idle
<1>2. (/\ TypeOK /\ TypeOK' /\ TicketsFresh /\ Bookkeeping /\ PoppedApart /\ LedgerInv /\ LedgerInv'
       /\ Balanced /\ [Next]_vars) => Balanced'
  BY BalancedStep
<1>3. TypeOK /\ TypeOK' /\ Bookkeeping /\ LedgerInv /\ [Next]_vars => LedgerInv'
  BY LedgerStep
<1>4. TypeOK /\ Bookkeeping /\ PoppedApart /\ LedgerInv /\ Balanced => VolumeConserved
  <2> SUFFICES ASSUME TypeOK, Bookkeeping, PoppedApart, LedgerInv, Balanced, ~blind,
                      NEW i \in DOMAIN journal, journal[i].kind = "open", Cardinality(threads) = 1,
                      NEW stillOpen,
                      stillOpen = (IF journal[i].ticket \in DOMAIN positions
                                   THEN positions[journal[i].ticket].volume ELSE 0)
               PROVE  ClosedBy(journal, journal[i].ticket) + stillOpen <= journal[i].volume
    BY VolumeIs DEF VolumeConserved
  <2> PICK t : t = journal[i].ticket
    OBVIOUS
  <2>1. PICK c \in Callers : threads = {c}
    BY FS_Singleton, FS_Subset, ConstantsAssumption DEF TypeOK, ConstantsAssumption
  <2>2. InBalance(c, t, journal[i].volume)
    BY <2>1 DEF Balanced, BalancedAt
  <2>3. /\ ClosedBy(journal, t) \in Nat /\ OnItsWay(c, t) \in Nat /\ Held(t) \in Nat
    BY VolumesHeld
  <2>4. journal[i].volume \in Nat
    BY JournalTyped DEF Row
  <2>5. t \in DOMAIN positions => positions[t].volume = Held(t)
    <3> SUFFICES ASSUME t \in DOMAIN positions PROVE positions[t].volume = Held(t)
      OBVIOUS
    <3>1. up
      BY DEF Bookkeeping
    <3>2. t \in DOMAIN Memory(c) /\ Memory(c)[t] = positions[t]
      BY <2>1 DEF Memory, With, PoppedApart
    <3>3. Memory(c) = InFile
      BY <2>1, <3>1 DEF LedgerInv, InStep
    <3> QED BY <3>2, <3>3 DEF Held
  <2>6. stillOpen \in 0 .. Held(t)
    BY <2>3, <2>5
  <2>7. ClosedBy(journal, t) + stillOpen <= journal[i].volume
    BY <2>2, <2>3, <2>4, <2>6 DEF InBalance
  <2> QED BY <2>7
<1>5. IInv => TypeOK /\ TicketsFresh /\ Bookkeeping /\ PoppedApart
  BY DEF IInv
<1> QED
  BY <1>1, <1>2, <1>3, <1>4, <1>5, LedgerStart, Inductive, PTL DEF Spec
=============================================================================
