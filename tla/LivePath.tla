----------------------------- MODULE LivePath ------------------------------
(***************************************************************************)
(* The way of an order in live mode, and of its result back:               *)
(*   bot (core/bridge/http_client.py, _post with tenacity's retry)         *)
(*   -> bridge (core/bridge/http_server.py, _command_queue, _result_log)   *)
(*   -> EA (mql5/PythonBridgeHTTP.mq5, PollCommand and ExecuteTrade)       *)
(*   -> bridge -> the two threads that call get_results: the trading loop  *)
(*      (om.get_closed in main.py) and the PositionMonitor.                *)
(*                                                                         *)
(* A request is on the wire from the attempt that sends it until the bridge*)
(* handles it, which may be after the client has given that attempt up.    *)
(* The bridge keeps everything in memory: a restart loses it.              *)
(***************************************************************************)
EXTENDS Naturals, Sequences, FiniteSets

CONSTANTS
  Trades,        \* the BUY, SELL calls of LiveBroker.place_order, one value per call
  Fetches,       \* the FETCH_HISTORY calls of HistoricalDataClient.fetch
  NoCommand,     \* no call, no command
  MAX_ATTEMPTS,  \* stop_after_attempt
  QUEUE_MAX      \* maxlen of _command_queue

ASSUME PathConstants ==
  /\ Trades \cap Fetches = {}
  /\ NoCommand \notin Trades \cup Fetches
  /\ MAX_ATTEMPTS \in Nat \ {0}
  /\ QUEUE_MAX \in Nat \ {0}

Readers == {"loop", "monitor"}

VARIABLES
  calling,    \* the trade whose send_order is under way, or NoCommand
  attempts,   \* trade -> attempts made by its call
  outcome,    \* trade -> "none", "pending", "accepted" or "raised"
  calls,      \* trades in the order they were called
  wire,       \* requests sent and not yet handled: <<trade, attempt>>
  fetched,    \* fetches already requested
  queue,      \* _command_queue, oldest first
  ea,         \* the command the EA has been handed, or NoCommand
  executions, \* the commands the EA acted on, in order: every OrderSend, filled or not
  results,    \* _result_log: indexes into executions
  read,       \* reader -> results that reached it
  arrivals,   \* history: trade -> times it was put in the queue
  lost        \* history: trade -> copies evicted, lost on the way or by a restart

client == <<calling, attempts, outcome, calls>>
bridge == <<queue, results>>
vars == <<client, wire, fetched, bridge, ea, executions, read, arrivals, lost>>

-----------------------------------------------------------------------------
Elements(s) == {s[i] : i \in DOMAIN s}
Copies(c, s) == Cardinality({i \in DOMAIN s : s[i] = c})

\* The trades of s, counted into the copies lost.
LostWith(s) == [c \in Trades |-> lost[c] + Copies(c, s)]

Init ==
  /\ calling = NoCommand
  /\ attempts = [c \in Trades |-> 0]
  /\ outcome = [c \in Trades |-> "none"]
  /\ calls = << >>
  /\ wire = {} /\ fetched = {}
  /\ queue = << >> /\ results = << >>
  /\ ea = NoCommand /\ executions = << >>
  /\ read = [r \in Readers |-> {}]
  /\ arrivals = [c \in Trades |-> 0] /\ lost = [c \in Trades |-> 0]

\* Attempt n of trade c is sent.
Attempt(c, n) ==
  /\ attempts' = [attempts EXCEPT ![c] = n]
  /\ wire' = wire \cup {<<c, n>>}

\* LiveBroker.place_order: send_order, and _post with it, is entered.
SendOrder(c) ==
  /\ calling = NoCommand
  /\ outcome[c] = "none"
  /\ calling' = c
  /\ calls' = Append(calls, c)
  /\ outcome' = [outcome EXCEPT ![c] = "pending"]
  /\ Attempt(c, 1)
  /\ UNCHANGED <<fetched, bridge, ea, executions, read, arrivals, lost>>

\* The attempt raised something _RETRYABLE: a ConnectError, when the request was
\* not sent, or a timeout, when the bridge may have it or get it yet.  Then there
\* is another attempt or, after the last, the exception (reraise=True).
AttemptFails(unsent) ==
  LET c == calling
      kept == IF unsent THEN wire \ {<<c, attempts[c]>>} ELSE wire
  IN
  /\ c # NoCommand
  /\ unsent => <<c, attempts[c]>> \in wire
  /\ IF attempts[c] < MAX_ATTEMPTS
     THEN /\ attempts' = [attempts EXCEPT ![c] = @ + 1]
          /\ wire' = kept \cup {<<c, attempts[c] + 1>>}
          /\ UNCHANGED <<calling, outcome>>
     ELSE /\ outcome' = [outcome EXCEPT ![c] = "raised"]
          /\ calling' = NoCommand
          /\ wire' = kept
          /\ UNCHANGED attempts
  /\ UNCHANGED <<calls, fetched, bridge, ea, executions, read, arrivals, lost>>

\* Mutant: the new command takes the place of the newest one.
EnqueueOverNewest(c) ==
  IF Len(queue) < QUEUE_MAX
  THEN queue' = Append(queue, c) /\ UNCHANGED lost
  ELSE queue' = [queue EXCEPT ![Len(queue)] = c] /\ UNCHANGED lost

\* deque(maxlen).append: a full deque drops its oldest command in silence.
Enqueue(c) ==
  IF Len(queue) < QUEUE_MAX
  THEN queue' = Append(queue, c) /\ UNCHANGED lost
  ELSE queue' = Append(Tail(queue), c) /\ lost' = LostWith(<<Head(queue)>>)

\* POST /order is handled.  The answer ends the call if that attempt is still
\* waited for and the answer reaches it.
BridgeSendOrder(c, n, answered) ==
  /\ <<c, n>> \in wire
  /\ answered => calling = c /\ attempts[c] = n
  /\ wire' = wire \ {<<c, n>>}
  /\ Enqueue(c)
  /\ arrivals' = [arrivals EXCEPT ![c] = @ + 1]
  /\ IF answered
     THEN calling' = NoCommand /\ outcome' = [outcome EXCEPT ![c] = "accepted"]
     ELSE UNCHANGED <<calling, outcome>>
  /\ UNCHANGED <<attempts, calls, fetched, results, ea, executions, read>>

\* request_fetch_history of HistoricalDataClient._ensure_bars: the same queue.
BridgeSendFetch(f) ==
  /\ f \notin fetched
  /\ fetched' = fetched \cup {f}
  /\ Enqueue(f)
  /\ UNCHANGED <<client, wire, results, ea, executions, read, arrivals>>

\* Mutant: the newest command is handed out first (pop for popleft).
GetCommandNewest ==
  /\ ea = NoCommand
  /\ queue # << >>
  /\ ea' = queue[Len(queue)]
  /\ queue' = SubSeq(queue, 1, Len(queue) - 1)
  /\ UNCHANGED <<client, wire, fetched, results, executions, read, arrivals, lost>>

\* Mutant: a single waiting command is not handed out.
GetCommandLeavesLast ==
  /\ ea = NoCommand
  /\ Len(queue) > 1
  /\ ea' = Head(queue)
  /\ queue' = Tail(queue)
  /\ UNCHANGED <<client, wire, fetched, results, executions, read, arrivals, lost>>

\* GET /command: popleft, and the EA has the command.
GetCommand ==
  /\ ea = NoCommand
  /\ queue # << >>
  /\ ea' = Head(queue)
  /\ queue' = Tail(queue)
  /\ UNCHANGED <<client, wire, fetched, results, executions, read, arrivals, lost>>

\* The same, and the answer is lost: the command is in the queue no more.
GetCommandLost ==
  /\ ea = NoCommand
  /\ queue # << >>
  /\ queue' = Tail(queue)
  /\ lost' = LostWith(<<Head(queue)>>)
  /\ UNCHANGED <<client, wire, fetched, results, ea, executions, read, arrivals>>

\* The EA acts on its command and posts the result, good or bad, once: a lost
\* post is not repeated.
ActAndReport(posted) ==
  /\ executions' = Append(executions, ea)
  /\ results' = IF posted THEN Append(results, Len(executions) + 1) ELSE results
  /\ ea' = NoCommand
  /\ UNCHANGED <<client, wire, fetched, queue, read, arrivals, lost>>

\* ExecuteTrade: one OrderSend.
ExecuteTrade(posted) == ea \in Trades /\ ActAndReport(posted)

\* FetchHistory: the bars go to the bridge by another way.
FetchHistory(posted) == ea \in Fetches /\ ActAndReport(posted)

\* The EA is removed or its terminal closed before it acts on the command.
EaRestart ==
  /\ ea # NoCommand
  /\ lost' = LostWith(<<ea>>)
  /\ ea' = NoCommand
  /\ UNCHANGED <<client, wire, fetched, bridge, executions, read, arrivals>>

\* The bridge process restarts, with an empty queue and an empty log.
BridgeRestart ==
  /\ queue # << >> \/ results # << >>
  /\ lost' = LostWith(queue)
  /\ queue' = << >> /\ results' = << >>
  /\ UNCHANGED <<client, wire, fetched, ea, executions, read, arrivals>>

\* GET /results of one reader: the log is copied and cleared, and the answer, the
\* only copy left, arrives or is lost; get_results then asks again.
GetResults(r, arrives) ==
  /\ results # << >>
  /\ read' = IF arrives THEN [read EXCEPT ![r] = @ \cup Elements(results)] ELSE read
  /\ results' = << >>
  /\ UNCHANGED <<client, wire, fetched, queue, ea, executions, arrivals, lost>>

EaStep ==
  \/ GetCommand
  \/ \E posted \in BOOLEAN : ExecuteTrade(posted) \/ FetchHistory(posted)

Next ==
  \/ \E c \in Trades :
       \/ SendOrder(c)
       \/ \E n \in 1 .. MAX_ATTEMPTS, answered \in BOOLEAN : BridgeSendOrder(c, n, answered)
  \/ \E unsent \in BOOLEAN : AttemptFails(unsent)
  \/ \E f \in Fetches : BridgeSendFetch(f)
  \/ EaStep
  \/ GetCommandLost
  \/ EaRestart
  \/ BridgeRestart
  \/ \E r \in Readers, arrives \in BOOLEAN : GetResults(r, arrives)

Spec == Init /\ [][Next]_vars

\* The EA's timer fires (OnTimer polls every CMD_POLL_MS) and an attempt does not
\* outlast the client's timeout.  Nothing is assumed of the network.
FairSpec ==
  /\ Spec
  /\ WF_vars(EaStep)
  /\ WF_vars(\E unsent \in BOOLEAN : AttemptFails(unsent))

-----------------------------------------------------------------------------
\* Each copy of an order the bridge took is in the queue, with the EA, executed or
\* lost, exactly once, and an order is executed at most as often as it was
\* attempted: what a retry duplicates (http_client.py:78-90) is never multiplied.
\* And a result is in the log or with one of its two readers, never with both.
Conserved ==
  /\ \A c \in Trades :
       /\ Copies(c, queue) + (IF ea = c THEN 1 ELSE 0) + Copies(c, executions) + lost[c]
            = arrivals[c]
       /\ arrivals[c] + Cardinality({w \in wire : w[1] = c}) <= attempts[c]
  /\ \A i \in DOMAIN executions :
       Copies(i, results) + Cardinality({r \in Readers : i \in read[r]}) <= 1

CalledBefore(a, b) == \E i, j \in DOMAIN calls : i < j /\ calls[i] = a /\ calls[j] = b

\* An order accepted before another was called is executed first, unless a copy
\* of it was lost: late duplicates come after, they never overtake.
AcceptedInOrder ==
  \A a, b \in Trades :
    /\ CalledBefore(a, b) /\ outcome[a] = "accepted" /\ lost[a] = 0
    /\ b \in Elements(executions)
    => \E i \in DOMAIN executions :
         executions[i] = a /\ \A j \in 1 .. i : executions[j] # b

\* An accepted order is executed, or a copy of it is lost on the way.
AcceptedIsHandled ==
  \A c \in Trades : outcome[c] = "accepted" ~> c \in Elements(executions) \/ lost[c] > 0

=============================================================================
