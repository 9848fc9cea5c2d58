------------------------------- MODULE Book --------------------------------
(***************************************************************************)
(* What a broker promises the trading loop about open positions, whatever  *)
(* prices, crashes and restarts do: a position appears once, shrinks, has  *)
(* its stop moved, and leaves by being closed.  The one exception is Lose: *)
(* a broker that finds its state file unreadable starts with none.         *)
(* PaperBroker implements this; BotLoop is written against it.             *)
(***************************************************************************)
EXTENDS Naturals

VARIABLE book   \* ticket -> [volume, sl], the positions a restart would keep

EmptyBook == << >>

Opened(b, t, v) ==
  [s \in DOMAIN b \cup {t} |-> IF s = t THEN [volume |-> v, sl |-> "initial"] ELSE b[s]]

Reduced(b, t, cv) == [b EXCEPT ![t].volume = @ - cv]

StopMoved(b, t) == [b EXCEPT ![t].sl = "breakeven"]

Open(t, v) == t \notin DOMAIN book /\ book' = Opened(book, t, v)

Reduce(t, cv) ==
  /\ t \in DOMAIN book
  /\ cv <= book[t].volume
  /\ book' = Reduced(book, t, cv)

MoveStop(t) == t \in DOMAIN book /\ book' = StopMoved(book, t)

Close(t) ==
  /\ t \in DOMAIN book
  /\ book' = [s \in DOMAIN book \ {t} |-> book[s]]

Lose == book' = EmptyBook

BookInit == book = EmptyBook
=============================================================================
