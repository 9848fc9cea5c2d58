------------------------------ MODULE BarStore ------------------------------
(***************************************************************************)
(* The bars of one symbol and timeframe: the bridge's buffer               *)
(* (core/bridge/http_server.py) and the one parquet file that four writers *)
(* share without a lock between them:                                      *)
(*   worker    the bridge's flush thread, every 30 s, when the pair is dirty*)
(*   batch     the bridge's POST /history-batch handler                    *)
(*   backfill  scripts/backfill_history.py, another process                *)
(*   fetcher   HistoryFetcher of the bot or of a backtest, another process *)
(*                                                                         *)
(* A bar is the number of its period and whether it is made up; prices are *)
(* left out.  A file is the rows it holds, or Torn while it is being       *)
(* written and after a writer died over it.                                *)
(*                                                                         *)
(* A definition carries the store's name where Backtest has one like it,   *)
(* so that HistoryProofs can extend both.                                  *)
(***************************************************************************)
EXTENDS Integers, FiniteSets, Sequences

CONSTANTS
  MAX_BARS,    \* _TF_MAX_BARS of the timeframe
  WANTED,      \* bars the fetcher, the backfill and request_fetch_history ask for
  CHUNK,       \* bars per POST of the EA's FetchHistory
  LAST_PERIOD, \* bound: the clock stops here
  MAX_CALLS,   \* bound: fetches, backfills and requests for history, together
  MAX_CRASHES, \* bound: deaths of the bridge or of a script
  None, Torn   \* no bar or file; a file that read_parquet rejects

ASSUME StoreConstants ==
  /\ MAX_BARS \in Nat \ {0, 1}
  /\ {WANTED, CHUNK, LAST_PERIOD} \subseteq Nat \ {0}
  /\ {MAX_CALLS, MAX_CRASHES} \subseteq Nat

Flushers == {"worker", "batch"}
Writers == Flushers \cup {"backfill", "fetcher"}

VARIABLES
  now,      \* the period of the present moment
  up,       \* the bridge process runs
  bars,     \* _tf_bars[symbol][tf]
  open,     \* _tf_open_bar[symbol][tf]
  dirty,    \* the pair is in _dirty
  chunks,   \* what FetchHistory still has to post: sequences of bars
  seen,     \* history: periods the buffer was given since the bridge started
  file,     \* the parquet file
  tmp,      \* the .parquet.tmp next to it, one name for three writers
  pc,       \* writer -> where it is
  rows,     \* writer -> rows it is about to write
  target,   \* writer -> the name its open file has now: "tmp", "file" or "gone"
  calls, crashes

bridge == <<up, bars, open, dirty, seen>>
disk == <<file, tmp>>
writers == <<pc, rows, target>>
storeVars == <<now, bridge, chunks, disk, writers, calls, crashes>>

-----------------------------------------------------------------------------
Real(t) == [t |-> t, made_up |-> FALSE]
Bars == [t : Int, made_up : BOOLEAN]
Times(s) == {s[i].t : i \in DOMAIN s}
Latest(s, n) == SubSeq(s, Len(s) - (IF n < Len(s) THEN n ELSE Len(s)) + 1, Len(s))

\* The rows of s that kept has the indexes of, by time, equals in the order they had.
InOrder(s, kept) ==
  LET upTo(i) == {j \in kept : s[j].t < s[i].t \/ (s[j].t = s[i].t /\ j <= i)}
  IN [k \in 1..Cardinality(kept) |-> s[CHOOSE i \in kept : Cardinality(upTo(i)) = k]]

\* coerce_schema: sorted by time; of two rows of one time the first stays.
CoerceSchema(s) == InOrder(s, {i \in DOMAIN s : \A j \in 1..(i - 1) : s[j].t # s[i].t})

\* push_history_batch's dict by time: of two rows of one time the last stays, so an
\* incoming bar wins over one of the buffer.
Merged(kept, incoming) ==
  LET s == kept \o incoming
  IN InOrder(s, {i \in DOMAIN s : \A j \in (i + 1)..Len(s) : s[j].t # s[i].t})

\* A read of the file comes back with rows.
Readable == file \notin {None, Torn}

ReadExisting == IF file = None THEN << >> ELSE CoerceSchema(file)

\* Cached rows come first, so they win.
MergePreferExisting(cached, fetched) == CoerceSchema(cached \o fetched)

\* n made-up bars, the last one of the present period.
SyntheticBars(n) == [i \in 1..n |-> [t |-> now - n + i, made_up |-> TRUE]]

Available == IF open = None THEN bars ELSE Append(bars, open)

\* GET /history without offset or from_time: when the buffer is too short the
\* front is padded with made-up bars that end now.
GetHistory(n) ==
  IF Len(Available) >= n THEN Latest(Available, n)
  ELSE SyntheticBars(n - Len(Available)) \o Available

\* HistoricalDataClient.fetch.  The padded answer is never short, so no second
\* page is ever asked for.
ClientFetch == CoerceSchema(GetHistory(WANTED))

\* HistoryFetcher.fetch_with_source, of an answer that is not all made up: sorted,
\* duplicates and padding kept (in which order duplicates come makes no difference here).
FetchWithSource == InOrder(GetHistory(WANTED), DOMAIN GetHistory(WANTED))

\* FetchHistory of the EA: CopyRates takes the latest bars, the period under way
\* included, and posts them CHUNK at a time, oldest first.
HistoryChunks ==
  LET left(k) == WANTED - (k - 1) * CHUNK
  IN [k \in 1..((WANTED + CHUNK - 1) \div CHUNK) |->
        [i \in 1..(IF left(k) < CHUNK THEN left(k) ELSE CHUNK) |-> Real(now - left(k) + i)]]

\* Mutant: the buffer is a list, not a deque with a maxlen.
AppendedUnbounded(b) == Append(bars, b)

\* deque(maxlen).append
Appended(b) == Latest(Append(bars, b), MAX_BARS)

\* Another writer has the same file open.
Shared(w) == \E v \in Writers \ {w} : pc[v] = "writing" /\ target[v] = target[w]

Goto(w, where) == pc' = [pc EXCEPT ![w] = where]

Called == calls < MAX_CALLS /\ calls' = calls + 1

\* The writer is done, or gave up: what it holds no longer matters.
Leave(w) ==
  /\ Goto(w, "idle")
  /\ rows' = [rows EXCEPT ![w] = << >>]
  /\ target' = [target EXCEPT ![w] = "gone"]

StoreInit ==
  /\ now = 1
  /\ up = FALSE /\ bars = << >> /\ open = None /\ dirty = FALSE /\ seen = {}
  /\ chunks = << >>
  /\ file = None /\ tmp = None
  /\ pc = [w \in Writers |-> "idle"]
  /\ rows = [w \in Writers |-> << >>]
  /\ target = [w \in Writers |-> "gone"]
  /\ calls = 0 /\ crashes = 0

Clock ==
  /\ now < LAST_PERIOD
  /\ now' = now + 1
  /\ UNCHANGED <<bridge, chunks, disk, writers, calls, crashes>>

-----------------------------------------------------------------------------
(* The bridge's memory.                                                    *)

\* _lifespan: the buffer is what the file's last rows were; a file that cannot
\* be read is passed over.
StartBridge ==
  /\ ~up
  /\ up' = TRUE
  /\ bars' = IF Readable THEN Latest(file, MAX_BARS) ELSE << >>
  /\ seen' = Times(bars')
  /\ UNCHANGED <<now, open, dirty, chunks, disk, writers, calls, crashes>>

\* _accumulate_bar, on the first tick of a period: the bar before is sealed, at
\* the end of the buffer whatever the buffer holds by then.  A later tick of the
\* same period changes prices only.
Tick ==
  /\ up
  /\ open # Real(now)
  /\ IF open = None THEN UNCHANGED <<bars, dirty, seen>>
     ELSE bars' = Appended(open) /\ dirty' = TRUE /\ seen' = seen \cup {open.t}
  /\ open' = Real(now)
  /\ UNCHANGED <<now, up, chunks, disk, writers, calls, crashes>>

\* _ensure_bars: the bridge has fewer bars than wanted, so the EA is asked for them.
EnsureBars ==
  /\ up
  /\ chunks = << >> /\ Called
  /\ Len(Available) < WANTED
  /\ chunks' = HistoryChunks
  /\ UNCHANGED <<now, bridge, disk, writers, crashes>>

\* Mutant: the oldest bars are kept.
PushHistoryBatchOldest ==
  /\ up
  /\ chunks # << >>
  /\ pc["batch"] = "idle"
  /\ chunks' = Tail(chunks)
  /\ LET merged == Merged(bars, Head(chunks))
     IN bars' = SubSeq(merged, 1, IF Len(merged) < MAX_BARS THEN Len(merged) ELSE MAX_BARS)
  /\ seen' = seen \cup Times(Head(chunks))
  /\ Goto("batch", "snapshot")
  /\ UNCHANGED <<now, up, open, dirty, disk, rows, target, calls, crashes>>

\* push_history_batch: merged into the buffer under the lock; the flush follows
\* in the same handler after the lock is released.
PushHistoryBatch ==
  /\ up
  /\ chunks # << >>
  /\ pc["batch"] = "idle"
  /\ chunks' = Tail(chunks)
  /\ bars' = Latest(Merged(bars, Head(chunks)), MAX_BARS)
  /\ seen' = seen \cup Times(Head(chunks))
  /\ Goto("batch", "snapshot")
  /\ UNCHANGED <<now, up, open, dirty, disk, rows, target, calls, crashes>>

\* A POST that fails: HttpPost returns "" and the EA goes on with the next chunk.
PostFails ==
  /\ chunks # << >>
  /\ chunks' = Tail(chunks)
  /\ UNCHANGED <<now, bridge, disk, writers, calls, crashes>>

-----------------------------------------------------------------------------
(* _flush_tf_bars, by the flush worker and by the batch handler.           *)

\* _flush_worker: the dirty pairs are taken and forgotten, then flushed.
WorkerWakes ==
  /\ up /\ dirty
  /\ pc["worker"] = "idle"
  /\ dirty' = FALSE
  /\ Goto("worker", "snapshot")
  /\ UNCHANGED <<now, up, bars, open, chunks, seen, disk, rows, target, calls, crashes>>

\* The rows are copied under the lock; without rows there is nothing to write.
Snapshot(w) ==
  /\ w \in Flushers
  /\ pc[w] = "snapshot"
  /\ IF bars = << >> THEN Leave(w)
     ELSE rows' = [rows EXCEPT ![w] = bars] /\ Goto(w, "guard") /\ UNCHANGED target
  /\ UNCHANGED <<now, bridge, chunks, disk, calls, crashes>>

\* A file with more rows is left alone.  One that is absent or cannot be read is
\* written afresh.
Guard(w) ==
  /\ w \in Flushers
  /\ pc[w] = "guard"
  /\ IF Readable /\ Len(rows[w]) < Len(file) THEN Leave(w)
     ELSE /\ Goto(w, "create")
          /\ rows' = [rows EXCEPT ![w] = CoerceSchema(@)]
          /\ UNCHANGED target
  /\ UNCHANGED <<now, bridge, chunks, disk, calls, crashes>>

\* to_parquet opens the file it writes, and empties it: the temporary one, or for
\* save_cache the file itself.
Create(w) ==
  /\ pc[w] = "create"
  /\ IF w = "fetcher"
     THEN file' = Torn /\ target' = [target EXCEPT ![w] = "file"] /\ UNCHANGED tmp
     ELSE tmp' = Torn /\ target' = [target EXCEPT ![w] = "tmp"] /\ UNCHANGED file
  /\ Goto(w, "writing")
  /\ UNCHANGED <<now, bridge, chunks, rows, calls, crashes>>

\* The rows are written, under whatever name the open file has by now.  Two who
\* write the same file leave the rows of the one who ends last or rubbish.
Written(w) ==
  /\ pc[w] = "writing"
  /\ \E content \in {rows[w]} \cup (IF Shared(w) THEN {Torn} ELSE {}) :
       /\ tmp' = IF target[w] = "tmp" THEN content ELSE tmp
       /\ file' = IF target[w] = "file" THEN content ELSE file
  /\ IF w = "fetcher" THEN Leave(w)
     ELSE Goto(w, "replace") /\ UNCHANGED <<rows, target>>
  /\ UNCHANGED <<now, bridge, chunks, calls, crashes>>

\* Mutant: the pair leaves _dirty when its flush is done.
ReplaceClearsDirty(w) ==
  /\ pc[w] = "replace"
  /\ pc' = [pc EXCEPT ![w] = "idle"]
  /\ rows' = [rows EXCEPT ![w] = << >>]
  /\ IF tmp = None
     THEN target' = [target EXCEPT ![w] = "gone"] /\ UNCHANGED disk
     ELSE file' = tmp /\ tmp' = None /\ target' = [target EXCEPT ![w] = "gone"]
  /\ dirty' = FALSE
  /\ UNCHANGED <<now, up, bars, open, seen, chunks, calls, crashes>>

\* os.replace(tmp, path): the temporary file, whoever wrote it, becomes the file,
\* under the feet of a writer that still has it open.  When another writer has
\* already moved it away this raises, and the flush or the backfill has failed.
Replace(w) ==
  /\ pc[w] = "replace"
  /\ pc' = [pc EXCEPT ![w] = "idle"]
  /\ rows' = [rows EXCEPT ![w] = << >>]
  /\ IF tmp = None
     THEN target' = [target EXCEPT ![w] = "gone"] /\ UNCHANGED disk
     ELSE /\ file' = tmp
          /\ tmp' = None
          /\ target' = [v \in Writers |->
               IF v = w \/ target[v] = "file" THEN "gone"
               ELSE IF target[v] = "tmp" THEN "file" ELSE target[v]]
  /\ UNCHANGED <<now, bridge, chunks, calls, crashes>>

-----------------------------------------------------------------------------
(* The two readers of GET /history that write what they get.               *)

\* What the bridge does not call synthetic goes to save_cache.
Fetch ==
  /\ up
  /\ pc["fetcher"] = "idle" /\ Called
  /\ Available # << >>
  /\ rows' = [rows EXCEPT !["fetcher"] = FetchWithSource]
  /\ Goto("fetcher", "create")
  /\ UNCHANGED <<now, bridge, chunks, disk, target, crashes>>

\* backfill_one: the file is read.  A long enough one is left alone, and one that
\* read_parquet rejects ends the backfill of this symbol.
BackfillReads ==
  /\ pc["backfill"] = "idle" /\ Called
  /\ file # Torn /\ Len(ReadExisting) < WANTED
  /\ rows' = [rows EXCEPT !["backfill"] = ReadExisting]
  /\ Goto("backfill", "fetch")
  /\ UNCHANGED <<now, bridge, chunks, disk, target, crashes>>

\* backfill_one, the rest: without the bridge the symbol has failed.
BackfillMerges ==
  /\ pc["backfill"] = "fetch"
  /\ IF up
     THEN /\ rows' = [rows EXCEPT !["backfill"] = MergePreferExisting(@, ClientFetch)]
          /\ Goto("backfill", "create")
          /\ UNCHANGED target
     ELSE Leave("backfill")
  /\ UNCHANGED <<now, bridge, chunks, disk, calls, crashes>>

-----------------------------------------------------------------------------
\* The bridge dies: its memory goes, and its threads wherever they were.
CrashBridge ==
  /\ up /\ crashes < MAX_CRASHES
  /\ crashes' = crashes + 1
  /\ up' = FALSE /\ bars' = << >> /\ open' = None /\ dirty' = FALSE /\ seen' = {}
  /\ pc' = [w \in Writers |-> IF w \in Flushers THEN "idle" ELSE pc[w]]
  /\ rows' = [w \in Writers |-> IF w \in Flushers THEN << >> ELSE rows[w]]
  /\ target' = [w \in Writers |-> IF w \in Flushers THEN "gone" ELSE target[w]]
  /\ UNCHANGED <<now, chunks, disk, calls>>

\* A script dies; what it was writing stays as it is.
CrashScript(w) ==
  /\ w \in Writers \ Flushers
  /\ pc[w] # "idle" /\ crashes < MAX_CRASHES
  /\ crashes' = crashes + 1
  /\ Leave(w)
  /\ UNCHANGED <<now, bridge, chunks, disk, calls>>

FlushStep(w) == Snapshot(w) \/ Guard(w) \/ Create(w) \/ Written(w) \/ Replace(w)

StoreNext ==
  \/ Clock \/ StartBridge \/ Tick
  \/ EnsureBars \/ PushHistoryBatch \/ PostFails
  \/ WorkerWakes
  \/ \E w \in Writers : FlushStep(w) \/ CrashScript(w)
  \/ Fetch \/ BackfillReads \/ BackfillMerges
  \/ CrashBridge

StoreSpec == StoreInit /\ [][StoreNext]_storeVars

\* The flush thread and a handler once entered go on while the process lives.
FairStoreSpec ==
  /\ StoreSpec
  /\ WF_storeVars(WorkerWakes)
  /\ \A w \in Flushers : WF_storeVars(FlushStep(w))

-----------------------------------------------------------------------------
TypeOK ==
  /\ now \in 1..LAST_PERIOD
  /\ up \in BOOLEAN /\ dirty \in BOOLEAN
  /\ bars \in Seq(Bars) /\ Len(bars) <= MAX_BARS
  /\ open \in Bars \cup {None}
  /\ file \in Seq(Bars) \cup {None, Torn} /\ tmp \in Seq(Bars) \cup {None, Torn}
  /\ pc \in [Writers -> {"idle", "snapshot", "guard", "fetch", "create", "writing", "replace"}]
  /\ rows \in [Writers -> Seq(Bars)]
  /\ target \in [Writers -> {"tmp", "file", "gone"}]

\* The newest period the buffer was given since the bridge started is in it,
\* whatever order ticks and batches came in and whatever the deque dropped: the
\* signal of the last closed bar is never computed from an older one
\* (_accumulate_bar appends late bars at the end, push_history_batch sorts).
NewestKept == \A t \in seen : \E b \in Times(bars) : b >= t

\* A sealed bar reaches the file when the flush thread runs, though bars are
\* sealed while it is at work: the pair leaves _dirty before the rows are copied.
\* Not promised: while another writer is at work, or when the file has more rows.
Alone == \A w \in Writers \ {"worker"} : pc[w] = "idle"

SealedReachesDisk ==
  \A t \in 1..LAST_PERIOD :
    (up /\ dirty /\ Alone /\ t \in Times(bars))
      ~> \/ ~up \/ ~Alone \/ t \notin Times(bars)
         \/ Readable /\ (t \in Times(file) \/ Len(file) > Len(bars))

\* No made-up bar gets into the file (history.py: "never persist synthetic
\* fallback noise to the parquet store").  The code does not keep this.
NeverMadeUp == Readable => \A i \in DOMAIN file : ~file[i].made_up

=============================================================================
