---------------------------- MODULE DarwinTrain -----------------------------
(***************************************************************************)
(* One train run (one rid) as services/darwin-ingest keeps it: its row in  *)
(* darwin_train and its calling points in darwin_stop_forecast, written by *)
(* the Kafka consumer (store.ts), one message at a time, and deleted by    *)
(* the nightly prune (maintenance.ts), which runs between its awaits.      *)
(* Messages may come in any order and any number of times; a query that    *)
(* fails, or a restart, ends the handling of a message where it is.        *)
(*                                                                         *)
(* Stops are numbered in the order in which the train calls at them.  The  *)
(* handlers do not know that order: a schedule gives it, and a status      *)
(* message has the booked times, which are of the clock, so that a run     *)
(* over midnight has a later stop with an earlier time.                    *)
(***************************************************************************)
EXTENDS Integers, FiniteSets

CONSTANTS
    Stops,        \* the tiplocs of the run, in the order in which it calls
    Timed,        \* those with a booked arrival or departure (wta or wtd)
    MsgTimes,     \* the times stamped on status messages; positive, and 0
                  \* stands for a message without one
    Timetables,   \* the booked times there can be: for each timed stop the
                  \* HH:MM the messages give it, as minutes of the day
    NoRow,        \* no row in the table
    Chunk,        \* CHUNK: the rows removed per statement
    MaxChunks,    \* MAX_CHUNKS_PER_TABLE
    MaxNights     \* bound: runs of the nightly prune

ASSUME DarwinAssumption ==
    /\ Stops \subseteq Nat /\ IsFiniteSet(Stops)
    /\ Timed \subseteq Stops
    /\ MsgTimes \subseteq Nat \ {0}
    /\ Timetables \subseteq [Timed -> Nat]
    /\ Chunk \in Nat \ {0} /\ MaxChunks \in Nat \ {0} /\ MaxNights \in Nat
    /\ NoRow \notin [seq : Int, at : Nat]
    /\ NoRow \notin [deactivated : BOOLEAN]

(* A row of darwin_stop_forecast: its place in the pattern, and the        *)
(* lastMsgTs of its live fields, 0 for null.                               *)
Forecast == [seq : Int, at : Nat]

VARIABLES
    booked,     \* the booked arrival, or departure, of each timed stop
    train,      \* the row of darwin_train
    forecast,   \* the rows of darwin_stop_forecast, by tiploc
    step,       \* the await the consumer is at
    msg,        \* the status message it handles: its stops and its time
    known,      \* existingRows: the rows the handler has read
    expired,    \* ssd < current_date - 1
    prune,      \* the table the nightly prune is at
    chunks,     \* the statements it has run on that table
    nights,     \* the prunes started so far
    newest,     \* the newest time applied to a stop since a message
                \* without one, which nothing is compared with (history)
    scheduled   \* the pattern was seeded by a schedule, and no row of it
                \* has been pruned (history variable)

vars == <<booked, train, forecast, step, msg, known, expired, prune, chunks, nights, newest, scheduled>>

NoMsg == [stops |-> {}, at |-> 0]

TypeOK ==
    /\ booked \in [Timed -> Nat]
    /\ train \in [deactivated : BOOLEAN] \cup {NoRow}
    /\ forecast \in [Stops -> Forecast \cup {NoRow}]
    /\ step \in {"idle", "ts", "ts read", "ts write", "sc", "sc write"}
    /\ msg \in [stops : SUBSET Stops, at : MsgTimes \cup {0}]
    /\ known \in [Stops -> Forecast \cup {NoRow}]
    /\ expired \in BOOLEAN
    /\ prune \in {"idle", "stops", "trains"}
    /\ chunks \in 0..(MaxChunks - 1) /\ nights \in 0..MaxNights
    /\ newest \in [Stops -> Nat]
    /\ scheduled \in BOOLEAN

Nothing == [s \in Stops |-> NoRow]

Init ==
    /\ booked \in Timetables
    /\ train = NoRow
    /\ forecast = Nothing
    /\ step = "idle" /\ msg = NoMsg /\ known = Nothing
    /\ expired = FALSE
    /\ prune = "idle" /\ chunks = 0 /\ nights = 0
    /\ newest = [s \in Stops |-> 0]
    /\ scheduled = FALSE

Present(rows) == {s \in Stops : rows[s] # NoRow}

-----------------------------------------------------------------------------
(* The place of a stop that has no row yet.                                *)

Largest(S)  == CHOOSE x \in S : \A y \in S : y <= x
Smallest(S) == CHOOSE x \in S : \A y \in S : x <= y

Seqs(S) == {known[s].seq : s \in S}

(* knownStops: the rows read that have a booked arrival or departure.      *)
KnownStops == Present(known) \cap Timed

NewStops == msg.stops \ Present(known)

(* nextSeq when it is s's turn: each new stop before it in the message has *)
(* taken one, for this is used only where each of them does.               *)
NextSeq(s) ==
    Largest({-1} \cup Seqs(Present(known))) + 1 + Cardinality({q \in NewStops : q < s})

(* Mutant: a stop goes after every known stop, in order of arrival.        *)
AppendedSeq(t, s) == NextSeq(s)

(* seqForTime, for the booked time of t, called when s is to be placed:    *)
(* the place of the last known stop booked no later, by the clock alone,   *)
(* else one before the first.                                              *)
SeqForTime(t, s) ==
    LET before == {k \in KnownStops : booked[k] <= booked[t]}
    IN  CASE KnownStops = {} -> NextSeq(s)
          [] before # {}     -> Largest(Seqs(before))
          [] OTHER           -> Smallest(Seqs(KnownStops)) - 1

(* seqForUntimedAt: with the nearest timed stop before it in the message,  *)
(* or just ahead of the nearest one after it, but never below 0.           *)
SeqForUntimed(s) ==
    LET earlier == {t \in msg.stops \cap Timed : t < s}
        later   == {t \in msg.stops \cap Timed : t > s}
    IN  CASE earlier # {} -> SeqForTime(Largest(earlier), s)
          [] earlier = {} /\ later # {} ->
                 Largest({0, SeqForTime(Smallest(later), s) - 1})
          [] OTHER -> NextSeq(s)

SeqOf(s) == CASE s \notin NewStops -> known[s].seq
              [] s \in NewStops /\ s \in Timed -> SeqForTime(s, s)
              [] OTHER -> SeqForUntimed(s)

-----------------------------------------------------------------------------
(* Status messages (applyTS).                                              *)

(* The handler returns or throws: its locals are gone.                     *)
Return == step' = "idle" /\ msg' = NoMsg /\ known' = Nothing

ReceiveTS ==
    /\ step = "idle"
    /\ \E S \in SUBSET Stops, t \in MsgTimes \cup {0} : msg' = [stops |-> S, at |-> t]
    /\ step' = "ts"
    /\ UNCHANGED <<booked, train, forecast, known, expired, prune, chunks, nights, newest, scheduled>>

(* The insert of the train does nothing to deactivated when the row exists.*)
UpsertTrain ==
    train' = IF train = NoRow THEN [deactivated |-> FALSE] ELSE train

TSTrain ==
    /\ step = "ts"
    /\ UpsertTrain
    /\ step' = "ts read"
    /\ UNCHANGED <<booked, forecast, msg, known, expired, prune, chunks, nights, newest, scheduled>>

(* The existing rows are read; a message without stops is done.            *)
TSRead ==
    /\ step = "ts read"
    /\ IF msg.stops = {} THEN Return
                         ELSE step' = "ts write" /\ known' = forecast /\ msg' = msg
    /\ UNCHANGED <<booked, train, forecast, expired, prune, chunks, nights, newest, scheduled>>

(* Mutant: no where clause guards the live fields.                         *)
AlwaysFresh(s) == TRUE

(* The where clause of the upsert.                                         *)
IsFresh(s) == msg.at = 0 \/ forecast[s].at = 0 \/ msg.at >= forecast[s].at

(* Mutant: the upsert also writes the place it computed for the stop.      *)
Reshuffled(s) == [seq |-> SeqForUntimed(s), at |-> msg.at]

(* What the upsert sets on a row that exists: seq is not overwritten.      *)
Patched(s) == [seq |-> forecast[s].seq, at |-> msg.at]

TSWrite ==
    /\ step = "ts write"
    /\ forecast' = [s \in Stops |->
           CASE s \notin msg.stops    -> forecast[s]
             [] s \in msg.stops /\ forecast[s] = NoRow -> [seq |-> SeqOf(s), at |-> msg.at]
             [] OTHER -> IF IsFresh(s) THEN Patched(s) ELSE forecast[s]]
    /\ newest' = [s \in Stops |->
           IF s \in msg.stops /\ (msg.at = 0 \/ msg.at > newest[s])
           THEN msg.at ELSE newest[s]]
    /\ Return
    /\ UNCHANGED <<booked, train, expired, prune, chunks, nights, scheduled>>

-----------------------------------------------------------------------------
(* Schedules (applySchedule) list the whole pattern.                       *)

ReceiveSC ==
    /\ step = "idle"
    /\ step' = "sc"
    /\ UNCHANGED <<booked, train, forecast, msg, known, expired, prune, chunks, nights, newest, scheduled>>

SCTrain ==
    /\ step = "sc"
    /\ UpsertTrain
    /\ step' = "sc write"
    /\ UNCHANGED <<booked, forecast, msg, known, expired, prune, chunks, nights, newest, scheduled>>

SCWrite ==
    /\ step = "sc write"
    /\ forecast' = [s \in Stops |->
           [seq |-> Cardinality({q \in Stops : q < s}),
            at  |-> IF forecast[s] = NoRow THEN 0 ELSE forecast[s].at]]
    /\ scheduled' = TRUE
    /\ Return
    /\ UNCHANGED <<booked, train, expired, prune, chunks, nights, newest>>

(* applyDeactivation updates the row, if there is one.                     *)
Deactivate ==
    /\ step = "idle"
    /\ train # NoRow
    /\ train' = [deactivated |-> TRUE]
    /\ UNCHANGED <<booked, forecast, step, msg, known, expired, prune, chunks, nights, newest, scheduled>>

(* A query fails, or the process restarts: the rest of the handler is not  *)
(* run.  After a restart the message is delivered again.                   *)
Abandon ==
    /\ step # "idle"
    /\ Return
    /\ UNCHANGED <<booked, train, forecast, expired, prune, chunks, nights, newest, scheduled>>

-----------------------------------------------------------------------------
(* The nightly prune (pruneExpiredData): stops before trains, in chunks.   *)

Expire ==
    /\ ~expired
    /\ expired' = TRUE
    /\ UNCHANGED <<booked, train, forecast, step, msg, known, prune, chunks, nights, newest, scheduled>>

StartPrune ==
    /\ prune = "idle"
    /\ nights < MaxNights /\ nights' = nights + 1
    /\ prune' = "stops" /\ chunks' = 0
    /\ UNCHANGED <<booked, train, forecast, step, msg, known, expired, newest, scheduled>>

(* One statement: at most Chunk rows, of this run and of others, that have *)
(* a train that is past.  A short chunk has removed all there are, and     *)
(* ends the table; a full one does so at the ceiling.                      *)
PruneStops ==
    LET matching == IF expired /\ train # NoRow THEN Present(forecast) ELSE {}
    IN  /\ prune = "stops"
        /\ \E D \in SUBSET matching :
            /\ Cardinality(D) <= Chunk
            /\ forecast' = [s \in Stops |-> IF s \in D THEN NoRow ELSE forecast[s]]
            /\ newest' = [s \in Stops |-> IF s \in D THEN 0 ELSE newest[s]]
            /\ scheduled' = (scheduled /\ D = {})
            /\ \/ /\ chunks + 1 # MaxChunks
                  /\ prune' = "stops" /\ chunks' = chunks + 1
               \/ /\ chunks + 1 = MaxChunks \/ (D = matching /\ Cardinality(D) < Chunk)
                  /\ prune' = "trains" /\ chunks' = 0
        /\ UNCHANGED <<booked, train, step, msg, known, expired, nights>>

PruneTrains ==
    /\ prune = "trains"
    /\ train' = IF expired THEN NoRow ELSE train
    /\ prune' = "idle"
    /\ UNCHANGED <<booked, forecast, step, msg, known, expired, chunks, nights, newest, scheduled>>

Next ==
    \/ ReceiveTS \/ TSTrain \/ TSRead \/ TSWrite
    \/ ReceiveSC \/ SCTrain \/ SCWrite
    \/ Deactivate \/ Abandon
    \/ Expire \/ StartPrune \/ PruneStops \/ PruneTrains

Spec == Init /\ [][Next]_vars

-----------------------------------------------------------------------------

(* Whatever the order in which status messages come, are replayed or fail, *)
(* a stop's live fields are those of the newest message applied to it, at  *)
(* least since one without a time: a replay after an outage does not undo  *)
(* a fresher forecast.                                                     *)
EstimateIsNewest ==
    \A s \in Present(forecast) : forecast[s].at = newest[s]

(* A run over midnight: a later stop has an earlier time of the clock.     *)
Overnight == \E s, t \in Timed : s < t /\ booked[t] < booked[s]

(* Timed stops of a run that stays within one day stand in the order of    *)
(* their booked times though the messages that first mention them come in  *)
(* any order, with or without a schedule: sorted by seq, then by booked    *)
(* time, as their readers do, they are sorted by booked time.              *)
TimedStopsInOrder ==
    ~Overnight => \A s, t \in Present(forecast) \cap Timed :
                      booked[s] < booked[t] => forecast[s].seq <= forecast[t].seq

(* What seqForTime is for: timed stops stand in travel order on every run. *)
(* Checked by no standing run, as it is false of a run over midnight       *)
(* without a schedule: a stop booked at 00:10 and mentioned after one of   *)
(* 23:50 is placed before it.                                              *)
StopsInTravelOrder ==
    \A s, t \in Present(forecast) \cap Timed :
        s < t => forecast[s].seq <= forecast[t].seq

(* Once a schedule has seeded the pattern, every stop keeps its place,     *)
(* untimed ones too and over midnight too, through the status messages     *)
(* that follow.                                                            *)
ScheduleOrderStands ==
    scheduled => \A s, t \in Stops :
                     /\ forecast[s] # NoRow
                     /\ s < t => forecast[s].seq < forecast[t].seq

(* The comment of pruneExpiredData: rows keyed by rid go before the train, *)
(* so none is left that no prune can find again.                           *)
NoOrphanStops == Present(forecast) # {} => train # NoRow

=============================================================================
