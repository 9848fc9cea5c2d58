------------------------------ MODULE BotLoop ------------------------------
(***************************************************************************)
(* bot/main.py: the trading loop in paper mode, with the circuit breakers  *)
(* of core/risk/manager.py and the checkpoint of core/checkpoint/state.py. *)
(*                                                                         *)
(* One pass of the loop is: cooling-off gate, account and breakers, orders,*)
(* management of positions that reached their target (partial close, then *)
(* stop to break-even), sleep.  The broker is Book; PaperBroker implements *)
(* it.  One symbol is traded, so one order at most per pass.               *)
(*                                                                         *)
(* Time counts only while a pause runs: cooling_off_until is kept as the   *)
(* ticks left of it, and a tick passes while the loop sleeps or is down.   *)
(***************************************************************************)
EXTENDS Integers, Sequences, FiniteSets

CONSTANTS
  Equities,      \* values the account's equity takes
  HALT_DD,       \* trailing_dd_halt, in percent
  DAILY_LIMIT,   \* daily_loss_limit, in percent
  LOSSES,        \* consecutive_loss_halt
  COOLING,       \* cooling_off_hours, in ticks
  Volume,        \* volume of an order, in 0.01 lots
  Orders         \* bound: tickets 1 .. Orders are issued

ASSUME LoopConstants ==
  /\ Equities \subseteq Nat \ {0}
  /\ {HALT_DD, DAILY_LIMIT} \subseteq Nat
  /\ {LOSSES, COOLING, Volume, Orders} \subseteq Nat \ {0}

VARIABLES
  at,          \* where the loop stands; "down" when the process is not running
  peak, day0,  \* state.peak_equity, state.day_start_equity
  newDay,      \* today is not state.day_start_date
  cooling,     \* state.cooling_off_until: Off (0.0) or the ticks left
  verdict,     \* of check_circuit_breakers in this pass, or "cooling_off" at the gate
  tail,        \* profit signs of the last LOSSES entries of _closed
  positions,   \* the broker's open positions
  issued,      \* tickets issued so far
  hit,         \* tickets whose target the market is at
  tp1Hit,      \* _tp1_hit_tickets
  todo,        \* tickets left to manage in this pass
  taking,      \* ticket between its partial close and its break-even stop
  trouble,     \* a tick or a call failed in this pass
  saved,       \* newest file of checkpoints/
  takes,       \* history: partial closes of a ticket that nothing failed after
  pauseLeft,   \* history: ticks left of the last pause, restarts or not
  forgot       \* history: since then a process was killed, failed to save its state
               \* or was started without --resume

state == <<peak, day0, newDay, cooling>>
broker == <<tail, positions, issued>>
management == <<hit, tp1Hit, todo, taking, takes>>
history == <<pauseLeft, forgot>>
vars == <<at, state, verdict, broker, management, trouble, saved, history>>

B == INSTANCE Book WITH book <- positions

-----------------------------------------------------------------------------
Off == -1   \* cooling_off_until = 0.0
None == 0   \* no ticket, and peak_equity = 0.0
Tickets == 1 .. Orders

NoFile == [kind |-> "none"]
Torn == [kind |-> "torn"]
Checkpoint(p, d, n, c) ==
  [kind |-> "state", peak |-> p, day0 |-> d, newDay |-> n, cooling |-> c]

TimePassed(c) == IF c > 0 THEN c - 1 ELSE c

\* float(profit) < 0 of each of the last LOSSES closed trades.
ConsecutiveLosses(closed) ==
  Len(closed) >= LOSSES /\ \A i \in DOMAIN closed : closed[i] = "loss"

\* RiskManager.check_circuit_breakers: the first breaker that trips, or "ok".
CheckCircuitBreakers(equity, p, d, closed) ==
  IF p > 0 /\ (p - equity) * 100 >= HALT_DD * p THEN "trailing_dd_halt"
  ELSE IF ConsecutiveLosses(closed) THEN "consecutive_losses"
  ELSE IF d > 0 /\ (d - equity) * 100 >= DAILY_LIMIT * d THEN "daily_loss_limit"
  ELSE "ok"

\* A trade joins _closed: the breaker reads only the last LOSSES of them.
Recorded(closed, sign) ==
  LET longer == Append(closed, sign)
  IN IF Len(longer) > LOSSES THEN Tail(longer) ELSE longer

-----------------------------------------------------------------------------
Init ==
  /\ at = "down"
  /\ peak = None /\ day0 = None /\ newDay = TRUE /\ cooling = Off
  /\ verdict = "ok"
  /\ tail = << >> /\ positions = << >> /\ issued = 0
  /\ hit = {} /\ tp1Hit = {} /\ todo = {} /\ taking = None
  /\ trouble = FALSE
  /\ saved = NoFile
  /\ takes = [t \in Tickets |-> 0]
  /\ pauseLeft = 0 /\ forgot = FALSE

\* main() up to the loop.  Without --resume, or with no checkpoint, the state is
\* fresh; a torn newest file makes load() raise, and main() with it.
Start(resume) ==
  /\ at = "down"
  /\ IF resume /\ saved.kind = "state"
     THEN /\ peak' = saved.peak /\ day0' = saved.day0
          /\ newDay' = saved.newDay /\ cooling' = saved.cooling
     ELSE (~resume \/ saved = NoFile) /\ UNCHANGED state
  /\ forgot' = (forgot \/ (~resume /\ pauseLeft > 0))
  /\ at' = "gate"
  /\ UNCHANGED <<verdict, broker, management, trouble, saved, pauseLeft>>

\* Mutant: every pass that finds the pause running starts it afresh.
GateClosedExtends ==
  /\ at = "gate"
  /\ cooling > 0
  /\ at' = "sleep"
  /\ cooling' = COOLING /\ pauseLeft' = COOLING
  /\ verdict' = "cooling_off"
  /\ UNCHANGED <<peak, day0, newDay, broker, management, trouble, saved, forgot>>

\* The gate while the pause runs: sleep and continue, skipping all the rest.
GateClosed ==
  /\ at = "gate"
  /\ cooling > 0
  /\ at' = "sleep"
  /\ verdict' = "cooling_off"
  /\ UNCHANGED <<state, broker, management, trouble, saved, history>>

\* The gate with no pause, or one that is over and is reset.
GateOpen ==
  /\ at = "gate"
  /\ cooling <= 0
  /\ at' = "account"
  /\ cooling' = Off
  /\ UNCHANGED <<peak, day0, newDay, verdict, broker, management, trouble, saved, history>>

\* Mutant: a halted pass skips the positions as well as the orders.
JudgedSkips(v) ==
  /\ verdict' = v
  /\ at' = IF v = "ok" THEN "orders" ELSE "sleep"
  /\ IF v = "consecutive_losses" /\ cooling = Off
     THEN cooling' = COOLING /\ pauseLeft' = COOLING /\ forgot' = FALSE
     ELSE UNCHANGED <<cooling, history>>

\* The pass goes on to the orders or, halted, to the management of positions; a
\* streak of losses starts the pause.
Judged(v) ==
  /\ verdict' = v
  /\ at' = IF v = "ok" THEN "orders" ELSE "tick"
  /\ IF v = "consecutive_losses" /\ cooling = Off
     THEN cooling' = COOLING /\ pauseLeft' = COOLING /\ forgot' = FALSE
     ELSE UNCHANGED <<cooling, history>>

\* get_account failed: no bookkeeping, no breaker, and trading goes on.
AccountStale ==
  /\ at = "account"
  /\ Judged("ok")
  /\ trouble' = TRUE
  /\ UNCHANGED <<peak, day0, newDay, broker, management, saved>>

\* Fresh account data: peak, start of day, breakers.
AccountFresh(equity) ==
  /\ at = "account"
  /\ peak' = IF peak = None \/ equity > peak THEN equity ELSE peak
  /\ day0' = IF day0 = None \/ newDay THEN equity ELSE day0
  /\ newDay' = FALSE
  /\ Judged(CheckCircuitBreakers(equity, peak', day0', tail))
  /\ UNCHANGED <<trouble, broker, management, saved>>

\* The signal asks for an order and the broker fills it, possibly at a price
\* already beyond the target.
PlaceOrder(beyond) ==
  LET t == issued + 1 IN
  /\ at = "orders"
  /\ issued < Orders
  /\ B!Open(t, Volume)
  /\ issued' = t
  /\ hit' = IF beyond THEN hit \cup {t} ELSE hit
  /\ at' = "tick"
  /\ UNCHANGED <<state, verdict, tail, tp1Hit, todo, taking, takes, trouble, saved, history>>

\* No signal, or anything of the pipeline raised: on to the next part.
NoOrder ==
  /\ at = "orders"
  /\ at' = "tick"
  /\ UNCHANGED <<state, verdict, broker, management, trouble, saved, history>>

\* bridge.get_tick for the management: the positions at their target that were
\* not taken yet, or nothing when it raises.
GetTick ==
  /\ at = "tick"
  /\ at' = "manage"
  /\ \/ /\ todo' = {t \in hit \cap DOMAIN positions : t \notin tp1Hit}
        /\ UNCHANGED trouble
     \/ todo' = {} /\ trouble' = TRUE
  /\ UNCHANGED <<state, verdict, broker, hit, tp1Hit, taking, takes, saved, history>>

HalfOf(v) == IF v = 1 THEN {1} ELSE {v \div 2, (v + 1) \div 2}

\* om.partial_close(ticket, 0.5): the position shrinks and a trade is recorded,
\* at a loss when the fill was beyond the target.
PartialClose(t, sign) ==
  /\ at = "manage" /\ taking = None
  /\ t \in todo
  /\ \E cv \in HalfOf(positions[t].volume) : B!Reduce(t, cv)
  /\ tail' = Recorded(tail, sign)
  /\ takes' = [takes EXCEPT ![t] = @ + 1]
  /\ todo' = todo \ {t}
  /\ taking' = t
  /\ UNCHANGED <<at, state, verdict, issued, hit, tp1Hit, trouble, saved, history>>

\* om.partial_close raised StaleTickError: nothing happened to the position.
PartialCloseStale(t) ==
  /\ at = "manage" /\ taking = None
  /\ t \in todo
  /\ todo' = todo \ {t}
  /\ trouble' = TRUE
  /\ UNCHANGED <<at, state, verdict, broker, hit, tp1Hit, taking, takes, saved, history>>

\* Mutant: the ticket is marked as taken but the stop is left where it was.
SetBreakevenForgotten ==
  /\ at = "manage" /\ taking # None
  /\ tp1Hit' = tp1Hit \cup {taking}
  /\ taking' = None
  /\ UNCHANGED <<at, state, verdict, broker, hit, todo, takes, trouble, saved, history>>

\* Mutant: the ticket is not remembered as taken.
SetBreakevenUnmarked ==
  /\ at = "manage" /\ taking # None
  /\ B!MoveStop(taking)
  /\ taking' = None
  /\ UNCHANGED <<at, state, verdict, tail, issued, hit, tp1Hit, todo, takes, trouble, saved, history>>

\* om.set_breakeven, and the ticket is remembered as taken.
SetBreakeven ==
  /\ at = "manage" /\ taking # None
  /\ B!MoveStop(taking)
  /\ tp1Hit' = tp1Hit \cup {taking}
  /\ taking' = None
  /\ UNCHANGED <<at, state, verdict, tail, issued, hit, todo, takes, trouble, saved, history>>

\* The partial close was done but its journal append raised, or the save of
\* set_breakeven did: the ticket is not remembered, so the next pass retries.
ManagementError ==
  /\ at = "manage" /\ taking # None
  /\ positions' \in {positions, B!StopMoved(positions, taking)}
  /\ takes' = [takes EXCEPT ![taking] = @ - 1]
  /\ taking' = None
  /\ trouble' = TRUE
  /\ UNCHANGED <<at, state, verdict, tail, issued, hit, tp1Hit, todo, saved, history>>

\* Nothing is left to manage: the pass is over, and the loop sleeps.
EndOfPass ==
  /\ at = "manage" /\ taking = None /\ todo = {}
  /\ at' = "sleep"
  /\ UNCHANGED <<state, verdict, broker, management, trouble, saved, history>>

-----------------------------------------------------------------------------
\* What the process held in memory is gone; the broker keeps its positions.
EndProcess ==
  /\ at' = "down"
  /\ peak' = None /\ day0' = None /\ newDay' = TRUE /\ cooling' = Off
  /\ verdict' = "ok" /\ tail' = << >> /\ trouble' = FALSE
  /\ tp1Hit' = {} /\ todo' = {} /\ taking' = None
  /\ takes' = [t \in Tickets |-> 0]
  /\ UNCHANGED <<positions, issued, hit, pauseLeft>>

\* The loop is left at its top or, unless it is the gate's, before the sleep.
MayStop == at = "gate" \/ (at = "sleep" /\ verdict # "cooling_off")

\* checkpoints.save: the file is the newest one.  When it raises, main() says so and
\* goes on: no file was made, or the newest one is a torn pickle.
Saves(c) ==
  \/ saved' = Checkpoint(peak, day0, newDay, c) /\ UNCHANGED forgot
  \/ saved' \in {saved, Torn} /\ forgot' = (forgot \/ pauseLeft > 0)

\* Mutant: the pause is not part of what is saved.
StopWithoutPause == MayStop /\ EndProcess /\ Saves(Off)

\* SIGTERM or --max-seconds: the finally block saves the state.
Stop == MayStop /\ EndProcess /\ Saves(cooling)

\* The process is killed anywhere; if that is during the final save, the newest
\* checkpoint is a torn pickle.
Crash ==
  /\ at # "down"
  /\ EndProcess
  /\ saved' \in {saved} \cup (IF MayStop THEN {Torn} ELSE {})
  /\ forgot' = (forgot \/ pauseLeft > 0)

\* A second passes, asleep or down: pauses run on, and the market moves to the
\* targets of some positions (those already taken make no difference).
Tick ==
  /\ at \in {"sleep", "down"}
  /\ cooling' = IF at = "sleep" THEN TimePassed(cooling) ELSE cooling
  /\ saved' = IF saved.kind = "state"
              THEN [saved EXCEPT !.cooling = TimePassed(@)] ELSE saved
  /\ pauseLeft' = TimePassed(pauseLeft)
  /\ hit' \in SUBSET (DOMAIN positions \ tp1Hit)
  /\ at' = IF at = "sleep" THEN "gate" ELSE at
  /\ verdict' = IF verdict = "cooling_off" THEN verdict ELSE "ok"
  /\ trouble' = FALSE
  /\ UNCHANGED <<peak, day0, newDay, broker, tp1Hit, todo, taking, takes, forgot>>

\* Midnight UTC.
Midnight ==
  /\ at \in {"sleep", "down"}
  /\ newDay' = TRUE
  /\ saved' = IF saved.kind = "state" THEN [saved EXCEPT !.newDay = TRUE] ELSE saved
  /\ UNCHANGED <<at, peak, day0, cooling, verdict, broker, management, trouble, history>>

Pass ==
  \/ GateClosed \/ GateOpen
  \/ AccountStale \/ \E e \in Equities : AccountFresh(e)
  \/ NoOrder \/ \E beyond \in BOOLEAN : PlaceOrder(beyond)
  \/ GetTick
  \/ \E t \in todo : PartialCloseStale(t) \/ \E sign \in {"win", "loss"} : PartialClose(t, sign)
  \/ SetBreakeven \/ ManagementError
  \/ EndOfPass
  \/ Tick

Next ==
  \/ Pass
  \/ \E resume \in BOOLEAN : Start(resume)
  \/ Stop \/ Crash \/ Midnight

Spec == Init /\ [][Next]_vars

\* The thread of the loop is scheduled and its calls return: every bridge call
\* has a timeout.  Nothing is assumed of restarts, of signals or of the market.
FairSpec == Spec /\ WF_vars(at # "down" /\ Pass)

-----------------------------------------------------------------------------
Verdicts ==
  {"ok", "trailing_dd_halt", "consecutive_losses", "daily_loss_limit", "cooling_off"}

Pauses == {Off} \cup 0 .. COOLING

\* Types of all variables; _closed is kept to the part the breaker reads.
TypeOK ==
  /\ at \in {"down", "gate", "account", "orders", "tick", "manage", "sleep"}
  /\ peak \in Nat /\ day0 \in Nat /\ newDay \in BOOLEAN
  /\ cooling \in Pauses
  /\ verdict \in Verdicts
  /\ tail \in Seq({"win", "loss"}) /\ Len(tail) <= LOSSES
  /\ DOMAIN positions \subseteq Tickets
  /\ \A t \in DOMAIN positions : positions[t] \in [volume: 0 .. Volume, sl: {"initial", "breakeven"}]
  /\ issued \in 0 .. Orders
  /\ hit \subseteq Tickets /\ tp1Hit \subseteq Tickets /\ todo \subseteq Tickets
  /\ taking \in Tickets \cup {None}
  /\ trouble \in BOOLEAN
  /\ \/ saved \in {NoFile, Torn}
     \/ /\ saved = Checkpoint(saved.peak, saved.day0, saved.newDay, saved.cooling)
        /\ saved.peak \in Nat /\ saved.day0 \in Nat
        /\ saved.newDay \in BOOLEAN /\ saved.cooling \in Pauses
  /\ takes \in [Tickets -> Nat]
  /\ pauseLeft \in 0 .. COOLING /\ forgot \in BOOLEAN

\* "pause trading N hours after consecutive-loss halt" (config.yaml:21): no order
\* is placed before the pause is over, over any number of stops and resumes,
\* unless the process was killed during it, could not save its state or came up
\* without --resume.
PauseHonoured == [][issued' > issued => pauseLeft = 0 \/ forgot]_vars

\* Within a process a position is halved at its target once, not counting the
\* times when a call after the partial close raised (_tp1_hit_tickets).
TargetTakenOnce == \A t \in Tickets : takes[t] <= 1

\* A position remembered as taken has its stop at break-even: partial close and
\* set_breakeven may fail halfway, but then the ticket is not remembered.
TakenIsProtected == \A t \in tp1Hit \cap DOMAIN positions : positions[t].sl = "breakeven"

\* A pass without a failed call that is not cut short by the cooling-off gate
\* leaves no position at its target unmanaged, halted or not (main.py:324-325).
TargetsManaged ==
  at = "sleep" /\ ~trouble /\ verdict # "cooling_off" => hit \cap DOMAIN positions \subseteq tp1Hit

\* The pause ends: a loop that stays up comes through the gate.
PauseEnds == at = "gate" /\ cooling > 0 ~> at \in {"account", "down"}

=============================================================================
