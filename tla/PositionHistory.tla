--------------------------- MODULE PositionHistory --------------------------
(***************************************************************************)
(* The write buffer in front of nr_train_position_history                  *)
(* (services/nr-ingest/src/store.ts) and the shutdown that drains it       *)
(* (index.ts).  A report's handler queues one row; a full buffer or a      *)
(* timer flushes what is buffered in one INSERT, which may fail; a signal  *)
(* stops the feeds, flushes once more and exits.                           *)
(***************************************************************************)
EXTENDS Naturals, FiniteSets

CONSTANTS
    Rows,      \* the history rows, one per report
    BatchMax   \* HISTORY_BATCH_MAX

ASSUME BatchAssumption == BatchMax \in Nat \ {0}

VARIABLES
    report,    \* where the report of each row is
    buffer,    \* historyBuffer
    timerSet,  \* historyTimer is not null
    callback,  \* a timer callback is scheduled
    inflight,  \* the batches whose INSERT has been sent and not answered
    table,     \* the rows in nr_train_position_history
    dropped,   \* the rows of INSERTs that failed, which are logged and lost
    process,   \* the stage of the process's shutdown
    lastBatch  \* the rows that the shutdown's own flush took

historyVars == <<report, buffer, timerSet, callback, inflight, table, dropped, process, lastBatch>>

HistoryTypeOK ==
    /\ report \in [Rows -> {"new", "handling", "queued"}]
    /\ buffer \subseteq Rows
    /\ timerSet \in BOOLEAN /\ callback \in BOOLEAN
    /\ inflight \subseteq SUBSET Rows
    /\ table \subseteq Rows
    /\ dropped \subseteq Rows
    /\ process \in {"up", "stopping", "flushing", "exited"}
    /\ lastBatch \subseteq Rows

HistoryInit ==
    /\ report = [x \in Rows |-> "new"]
    /\ buffer = {}
    /\ timerSet = FALSE /\ callback = FALSE
    /\ inflight = {}
    /\ table = {}
    /\ dropped = {}
    /\ process = "up"
    /\ lastBatch = {}

Alive == process # "exited"

-----------------------------------------------------------------------------

(* Mutant: the buffer is still the same array after the INSERT is sent.    *)
FlushKeepingBuffer(rows) ==
    /\ timerSet' = FALSE
    /\ callback' = FALSE
    /\ inflight' = IF rows = {} THEN inflight ELSE inflight \cup {rows}
    /\ buffer' = rows

(* Mutant: historyTimer is not set back to null.                           *)
FlushKeepingTimer(rows) ==
    /\ timerSet' = timerSet
    /\ callback' = FALSE
    /\ inflight' = IF rows = {} THEN inflight ELSE inflight \cup {rows}
    /\ buffer' = {}

(* The synchronous part of flushHistory, with rows in the buffer: the      *)
(* timer is cleared and, unless there is nothing to write, the rows are    *)
(* taken out of the buffer and sent.                                       *)
Flush(rows) ==
    /\ timerSet' = FALSE
    /\ callback' = FALSE
    /\ inflight' = IF rows = {} THEN inflight ELSE inflight \cup {rows}
    /\ buffer' = {}

(* A report is taken from a feed, and its handler awaits its queries.  A   *)
(* feed may still be delivering while the process stops.                   *)
TakeReport(x) ==
    /\ Alive
    /\ report[x] = "new"
    /\ report' = [report EXCEPT ![x] = "handling"]
    /\ UNCHANGED <<buffer, timerSet, callback, inflight, table, dropped, process, lastBatch>>

(* Mutant: the buffer is flushed one row too late.                         *)
OverFull(rows) == Cardinality(rows) > BatchMax

IsFull(rows) == Cardinality(rows) >= BatchMax

(* queueHistory: the row is pushed; a full buffer is flushed, any other    *)
(* waits for the timer, which is started unless one is already set.        *)
QueueHistory(x) ==
    /\ Alive
    /\ report[x] = "handling"
    /\ report' = [report EXCEPT ![x] = "queued"]
    /\ LET rows == buffer \cup {x}
       IN  IF IsFull(rows)
           THEN Flush(rows)
           ELSE /\ buffer' = rows
                /\ timerSet' = TRUE
                /\ callback' = (callback \/ ~timerSet)
                /\ inflight' = inflight
    /\ UNCHANGED <<table, dropped, process, lastBatch>>

(* The timer's callback: void flushHistory().                              *)
TimerFires ==
    /\ Alive
    /\ callback
    /\ Flush(buffer)
    /\ UNCHANGED <<report, table, dropped, process, lastBatch>>

InsertSucceeds(b) ==
    /\ Alive
    /\ inflight' = inflight \ {b}
    /\ table' = table \cup b
    /\ UNCHANGED <<report, buffer, timerSet, callback, dropped, process, lastBatch>>

InsertFails(b) ==
    /\ Alive
    /\ inflight' = inflight \ {b}
    /\ dropped' = dropped \cup b
    /\ UNCHANGED <<report, buffer, timerSet, callback, table, process, lastBatch>>

(* The first SIGINT or SIGTERM: the STOMP client is disconnected, and the  *)
(* Kafka consumer's disconnection awaited.  A second signal is ignored.    *)
Signal ==
    /\ process = "up"
    /\ process' = "stopping"
    /\ UNCHANGED <<report, buffer, timerSet, callback, inflight, table, dropped, lastBatch>>

(* await flushHistory() of the shutdown.  With nothing buffered it returns *)
(* at once and the process exits.                                          *)
FlushAtShutdown ==
    /\ process = "stopping"
    /\ Flush(buffer)
    /\ lastBatch' = buffer
    /\ process' = IF buffer = {} THEN "exited" ELSE "flushing"
    /\ UNCHANGED <<report, table, dropped>>

(* Mutant: the shutdown does not await its flush.                          *)
ExitAtOnce ==
    /\ process = "flushing"
    /\ process' = "exited"
    /\ UNCHANGED <<report, buffer, timerSet, callback, inflight, table, dropped, lastBatch>>

(* The shutdown's own INSERT is answered; process.exit(0).                 *)
Exit ==
    /\ process = "flushing"
    /\ lastBatch \notin inflight
    /\ process' = "exited"
    /\ UNCHANGED <<report, buffer, timerSet, callback, inflight, table, dropped, lastBatch>>

(* process.exit(1): the describer's consumer has crashed, or the first     *)
(* connection to the broker was refused.  Nothing is flushed.              *)
Crash ==
    /\ process \in {"up", "stopping"}
    /\ process' = "exited"
    /\ UNCHANGED <<report, buffer, timerSet, callback, inflight, table, dropped, lastBatch>>

AnswerInsert == \E b \in inflight : InsertSucceeds(b) \/ InsertFails(b)

HistoryNext ==
    \/ \E x \in Rows : TakeReport(x) \/ QueueHistory(x)
    \/ TimerFires
    \/ AnswerInsert
    \/ Signal \/ FlushAtShutdown \/ Exit \/ Crash

HistorySpec == HistoryInit /\ [][HistoryNext]_historyVars

(* A set timer fires, and the database answers or refuses every statement. *)
FairSpec == HistorySpec /\ WF_historyVars(TimerFires) /\ WF_historyVars(AnswerInsert)

-----------------------------------------------------------------------------

Queued == {x \in Rows : report[x] = "queued"}

(* Every queued row is in exactly one place, so none is written twice: the *)
(* rows of a flush are never those of another, however flushes overlap.    *)
EachRowOnce ==
    /\ Queued = UNION (inflight \cup {buffer, table, dropped})
    /\ table \cap dropped = {}
    /\ buffer \cap (table \cup dropped) = {}
    /\ \A b \in inflight : b \cap (buffer \cup table \cup dropped) = {}
    /\ \A b, c \in inflight : b = c \/ b \cap c = {}

(* The buffer never reaches the size at which it is flushed.               *)
BufferBounded == Cardinality(buffer) < BatchMax

(* A buffered row is flushed without waiting for another report, and its   *)
(* INSERT is answered, unless the process exits first.                     *)
EveryRowIsFlushed ==
    \A x \in Rows : (x \in buffer) ~> (x \in table \cup dropped \/ ~Alive)

(* What is in the buffer when the shutdown flushes it is written, or       *)
(* refused by the database, before the process exits.                      *)
ShutdownFlushCompletes == ~Alive => lastBatch \subseteq table \cup dropped

(* The comment of the shutdown: anything still queued is written before    *)
(* exiting.  A batch already in flight, and a row queued during the final  *)
(* flush by a handler that was still running, are not.                     *)
NothingQueuedIsLost == ~Alive => Queued \subseteq table \cup dropped

=============================================================================
