------------------------- MODULE ProcessSupervisor --------------------------
(***************************************************************************)
(* The unattended supervisor of the bot's process (scripts/supervisor.py): *)
(* it waits for the market, spawns main.py, waits for it to exit, backs off*)
(* and begins again, until it is asked to stop or has restarted too often. *)
(*                                                                         *)
(* Time is counted where the code measures it: a back-off counts down in   *)
(* units of BACKOFF_BASE_S, an uptime is beyond UPTIME_RESET_S or not, the *)
(* clock goes round the hours of the week.                                 *)
(*                                                                         *)
(* A definition carries the supervisor's name where BotLoop has one like   *)
(* it, so that BotLoopProofs can extend both.                              *)
(***************************************************************************)
EXTENDS Integers

CONSTANTS
  MAX_RESTARTS,  \* max_restarts; 0 is unlimited
  MULT,          \* BACKOFF_MULT
  CAP            \* BACKOFF_CAP_S, in units of BACKOFF_BASE_S

ASSUME SupervisorConstants ==
  /\ MAX_RESTARTS \in Nat
  /\ {MULT, CAP} \subseteq Nat \ {0}

VARIABLES
  pc,       \* run(): "gate", "spawn", "watch", "judge", "backoff", "shutdown", "kill", "ended"
  stop,     \* _stop_event
  child,    \* the process: "none", "alive", "deaf" (it ignores SIGTERM), "exited"
  held,     \* _child is not None
  restarts, \* restart_count
  failed,   \* the spawn raised: the count comes after the back-off
  delay,    \* what is left of the back-off
  clock     \* hours since Monday 00:00 UTC

supervisorVars == <<pc, stop, child, held, restarts, failed, delay, clock>>

Running == child \in {"alive", "deaf"}

-----------------------------------------------------------------------------
Week == 7 * 24

\* is_market_open: by weekday, Monday is 0, and hour.
IsMarketOpen(t) ==
  LET weekday == t \div 24
      hour == t % 24
  IN \/ weekday \in 0..3
     \/ weekday = 4 /\ hour < 21
     \/ weekday = 6 /\ hour >= 22

\* compute_backoff
ComputeBackoff(n) ==
  LET power[k \in 0..n] == IF k = 0 THEN 1 ELSE MULT * power[k - 1]
  IN IF power[n] < CAP THEN power[n] ELSE CAP

\* Mutant: one restart too many.
TooManyLate(n) == MAX_RESTARTS # 0 /\ n > MAX_RESTARTS

\* The loop's exit on too many restarts.
TooMany(n) == MAX_RESTARTS # 0 /\ n >= MAX_RESTARTS

SupervisorInit ==
  /\ pc = "gate" /\ stop = FALSE
  /\ child = "none" /\ held = FALSE
  /\ restarts = 0 /\ failed = FALSE /\ delay = 0
  /\ clock = 0

\* The top of the loop and _wait_for_market_open, which polls the clock and the
\* stop event.
WaitForMarketOpen ==
  /\ pc = "gate"
  /\ \/ stop /\ pc' = "ended"
     \/ IsMarketOpen(clock) /\ ~stop /\ pc' = "spawn"
  /\ UNCHANGED <<stop, child, held, restarts, failed, delay, clock>>

\* spawn_fn; the stop event may have been set since it was looked at.
Spawn ==
  /\ pc = "spawn"
  /\ \/ /\ child' \in {"alive", "deaf"} /\ held' = TRUE
        /\ pc' = "watch"
        /\ UNCHANGED <<failed, delay>>
     \/ /\ held' = FALSE /\ failed' = TRUE
        /\ delay' = ComputeBackoff(restarts)
        /\ pc' = "backoff"
        /\ UNCHANGED child
  /\ UNCHANGED <<stop, restarts, clock>>

\* Mutant: the child is waited for without looking at the stop event.
WatchDeaf ==
  /\ pc = "watch"
  /\ child = "exited"
  /\ pc' = IF stop THEN "shutdown" ELSE "judge"
  /\ UNCHANGED <<stop, child, held, restarts, failed, delay, clock>>

\* The polling loop ends when the child has exited or the event is set; when both
\* have happened the event is what counts.
Watch ==
  /\ pc = "watch"
  /\ \/ stop /\ pc' = "shutdown"
     \/ ~stop /\ child = "exited" /\ pc' = "judge"
  /\ UNCHANGED <<stop, child, held, restarts, failed, delay, clock>>

\* A long run clears the count, a short one adds to it; then the back-off, unless
\* the event was set since or that was the last restart.
Judge ==
  /\ pc = "judge"
  /\ IF stop
     THEN pc' = "shutdown" /\ UNCHANGED <<held, restarts, delay>>
     ELSE /\ restarts' \in {0, restarts + 1}
          /\ held' = FALSE
          /\ IF TooMany(restarts')
             THEN pc' = "ended" /\ UNCHANGED delay
             ELSE pc' = "backoff" /\ delay' = ComputeBackoff(restarts')
  /\ UNCHANGED <<stop, child, failed, clock>>

\* Mutant: a spawn that failed is not counted.
BackoffUncounted ==
  /\ pc = "backoff"
  /\ IF delay > 0 /\ ~stop
     THEN delay' = delay - 1 /\ UNCHANGED <<pc, failed>>
     ELSE delay' = 0 /\ failed' = FALSE /\ pc' = "gate"
  /\ UNCHANGED <<stop, child, held, restarts, clock>>

\* _sleep_with_backoff, which the stop event ends; a spawn that failed is counted
\* after it.
Backoff ==
  /\ pc = "backoff"
  /\ IF delay > 0 /\ ~stop
     THEN delay' = delay - 1 /\ UNCHANGED <<pc, restarts, failed>>
     ELSE /\ delay' = 0 /\ failed' = FALSE
          /\ restarts' = IF failed THEN restarts + 1 ELSE restarts
          /\ pc' = IF failed /\ TooMany(restarts') THEN "ended" ELSE "gate"
  /\ UNCHANGED <<stop, child, held, clock>>

\* Mutant: a child that outlives the grace time is left to itself.
ShutdownChildGently ==
  /\ pc = "shutdown"
  /\ child' = IF child = "alive" THEN "exited" ELSE child
  /\ pc' = "ended"
  /\ UNCHANGED <<stop, held, restarts, failed, delay, clock>>

\* _shutdown_child: SIGTERM, and SIGKILL when the grace time is over.
ShutdownChild ==
  /\ pc = "shutdown"
  /\ IF held /\ child = "deaf"
     THEN pc' = "kill" /\ UNCHANGED child
     ELSE pc' = "ended" /\ child' = IF child = "alive" THEN "exited" ELSE child
  /\ UNCHANGED <<stop, held, restarts, failed, delay, clock>>

KillChild ==
  /\ pc = "kill"
  /\ child' = "exited"
  /\ pc' = "ended"
  /\ UNCHANGED <<stop, held, restarts, failed, delay, clock>>

-----------------------------------------------------------------------------
\* SIGTERM, SIGINT
RequestStop ==
  /\ ~stop
  /\ stop' = TRUE
  /\ UNCHANGED <<pc, child, held, restarts, failed, delay, clock>>

\* The bot exits by itself, or stops listening to signals.
ChildExits ==
  /\ Running
  /\ child' \in {"exited", "deaf"} \ {child}
  /\ UNCHANGED <<pc, stop, held, restarts, failed, delay, clock>>

HourPasses ==
  /\ clock' = (clock + 1) % Week
  /\ UNCHANGED <<pc, stop, child, held, restarts, failed, delay>>

Run ==
  \/ WaitForMarketOpen \/ Spawn \/ Watch \/ Judge \/ Backoff
  \/ ShutdownChild \/ KillChild

SupervisorNext == Run \/ RequestStop \/ ChildExits \/ HourPasses

SupervisorSpec == SupervisorInit /\ [][SupervisorNext]_supervisorVars

\* The main thread runs on and time goes by.  The clock is asked every minute and the
\* market is open for days, so it is found open; nothing is assumed of the child.
FairSupervisorSpec ==
  /\ SupervisorSpec
  /\ WF_supervisorVars(Run)
  /\ WF_supervisorVars(HourPasses)
  /\ SF_supervisorVars(WaitForMarketOpen)

-----------------------------------------------------------------------------
SupervisorTypeOK ==
  /\ pc \in {"gate", "spawn", "watch", "judge", "backoff", "shutdown", "kill", "ended"}
  /\ {stop, held, failed} \subseteq BOOLEAN
  /\ clock \in 0..Week - 1
  /\ child \in {"none", "alive", "deaf", "exited"}
  /\ delay \in 0..CAP
  /\ restarts \in Nat /\ (MAX_RESTARTS # 0 => restarts <= MAX_RESTARTS)

\* There is never a second bot, nor one that run() has left behind: a child runs only
\* while run() watches it or shuts it down, whenever the stop request comes and though
\* the child may ignore SIGTERM (_shutdown_child).  Of a supervisor that is itself
\* killed nothing is said.
ChildIsOwned == Running => pc \in {"watch", "judge", "shutdown", "kill"} /\ held

\* A stop request ends the supervisor, whatever it was doing: waiting for the
\* market, backing off or about to spawn.
StopEnds == stop ~> pc = "ended"

\* After the child has exited the bot runs again, unless a stop is requested or
\* the restarts are used up (a spawn that raises uses them up too): the weekend ends
\* and so does every back-off.
ComesBack == (pc = "judge") ~> (Running \/ stop \/ pc = "ended")
=============================================================================
