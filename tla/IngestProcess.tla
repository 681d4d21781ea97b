---------------------------- MODULE IngestProcess ----------------------------
(***************************************************************************)
(* The process around the history's buffer (services/nr-ingest/src/        *)
(* index.ts): its connection to Network Rail's broker, which is retired    *)
(* and replaced when it fails, and the train describer's Kafka consumer,   *)
(* whose crash ends the process.  Reports come while one of them delivers. *)
(*                                                                         *)
(* A connection on which an error was reported may still be delivering,    *)
(* and one that was closed may still report errors (the comments of        *)
(* scheduleReconnect and runIngest).                                       *)
(***************************************************************************)
EXTENDS PositionHistory

CONSTANTS
    MaxClients,  \* bound: the connections the process makes
    None,        \* null
    MaxErrors,   \* bound: errors of connections, the late ones included
    MaxRefusals  \* bound: connection attempts that fail

Clients == 1..MaxClients   \* in the order they were made

ASSUME ClientsAssumption ==
    /\ MaxClients \in Nat /\ MaxErrors \in Nat /\ MaxRefusals \in Nat
    /\ None \notin Nat

VARIABLES
    conn,          \* of a connection: "none", "subscribed", or "closed" by us
    stamp,         \* the generation it belongs to
    generation,    \* clientGeneration
    activeClient,
    reconnecting,
    attempts,      \* calls of runIngest that await connect()
    waiting,       \* timers set by scheduleReconnect
    retries,       \* timers set after a failed reconnect
    kafka,         \* tdKafkaConfigured()
    started,       \* the first connection was made (tdKafkaStarted, and the
                   \* top-level await of runIngest is over)
    broken,        \* history: connections that have reported an error
    errors, refusals

stream == <<conn, stamp, generation, activeClient, reconnecting, attempts, waiting,
            retries, started, broken>>
all == <<historyVars, stream, kafka, errors, refusals>>

ProcessInit ==
    /\ HistoryInit
    /\ conn = [c \in Clients |-> "none"] /\ stamp = [c \in Clients |-> 0]
    /\ generation = 0 /\ activeClient = None /\ reconnecting = FALSE
    /\ attempts = 1 /\ waiting = 0 /\ retries = 0
    /\ kafka \in BOOLEAN /\ started = FALSE
    /\ broken = {} /\ errors = 0 /\ refusals = 0

Subscribed == {c \in Clients : conn[c] = "subscribed"}

(* A frame is handled while a connection, or the consumer, delivers.       *)
Delivering == Subscribed # {} \/ (kafka /\ started /\ process \in {"up", "stopping"})

-----------------------------------------------------------------------------
(* activeClient?.disconnect()                                              *)
Disconnected == [c \in Clients |-> IF c = activeClient THEN "closed" ELSE conn[c]]

(* Mutant: the connection that failed is left as it is.                     *)
ReconnectBeside ==
    IF reconnecting
    THEN UNCHANGED <<conn, generation, activeClient, reconnecting, waiting>>
    ELSE /\ reconnecting' = TRUE
         /\ generation' = generation + 1
         /\ conn' = conn
         /\ activeClient' = None
         /\ waiting' = waiting + 1

ScheduleReconnect ==
    IF reconnecting
    THEN UNCHANGED <<conn, generation, activeClient, reconnecting, waiting>>
    ELSE /\ reconnecting' = TRUE
         /\ generation' = generation + 1
         /\ conn' = Disconnected
         /\ activeClient' = None
         /\ waiting' = waiting + 1

(* runIngest, once connect() has resolved.  The generation the client is   *)
(* stamped with is read after the await, so the check at the end, that it  *)
(* is still the current one, always succeeds.                              *)
Connected(c) ==
    /\ Alive /\ attempts > 0
    /\ conn[c] = "none" /\ \A d \in 1..c - 1 : conn[d] # "none"
    /\ attempts' = attempts - 1
    /\ conn' = [conn EXCEPT ![c] = "subscribed"]
    /\ stamp' = [stamp EXCEPT ![c] = generation]
    /\ activeClient' = c
    /\ started' = TRUE
    /\ UNCHANGED <<historyVars, generation, reconnecting, waiting, retries, kafka, broken, errors, refusals>>

(* connect() rejects: the first time that is the end of the process (the   *)
(* rejection of a top-level await), later a timer is set.                  *)
Refused ==
    /\ Alive /\ attempts > 0 /\ refusals < MaxRefusals
    /\ refusals' = refusals + 1
    /\ attempts' = attempts - 1
    /\ IF started THEN retries' = retries + 1 /\ UNCHANGED historyVars
                  ELSE retries' = retries /\ Crash
    /\ UNCHANGED <<conn, stamp, generation, activeClient, reconnecting, waiting, kafka, started,
                   broken, errors>>

(* Mutant: an error is acted on whichever connection reports it.           *)
OfAnyGeneration(c) == TRUE

OfThisGeneration(c) == stamp[c] = generation

(* client.on("error")                                                      *)
ClientError(c) ==
    /\ Alive /\ conn[c] # "none" /\ errors < MaxErrors
    /\ errors' = errors + 1
    /\ broken' = broken \cup {c}
    /\ IF OfThisGeneration(c)
       THEN ScheduleReconnect
       ELSE UNCHANGED <<conn, generation, activeClient, reconnecting, waiting>>
    /\ UNCHANGED <<historyVars, stamp, attempts, retries, kafka, started, refusals>>

(* The timer of scheduleReconnect.                                         *)
ReconnectFires ==
    /\ Alive /\ waiting > 0
    /\ waiting' = waiting - 1
    /\ reconnecting' = FALSE
    /\ attempts' = attempts + 1
    /\ UNCHANGED <<historyVars, conn, stamp, generation, activeClient, retries, kafka, started, broken,
                   errors, refusals>>

RetryFires ==
    /\ Alive /\ retries > 0
    /\ retries' = retries - 1
    /\ ScheduleReconnect
    /\ UNCHANGED <<historyVars, stamp, attempts, kafka, started, broken, errors, refusals>>

(* The describer's consumer has crashed.                                   *)
ConsumerCrashes == kafka /\ started /\ Crash /\ UNCHANGED <<stream, kafka, errors, refusals>>

(* A signal closes the connection, if there is one; it stays in its        *)
(* variable, and an error it reports later still makes the process         *)
(* reconnect.                                                              *)
Stop ==
    /\ Signal
    /\ conn' = Disconnected
    /\ UNCHANGED <<stamp, generation, activeClient, reconnecting, attempts, waiting, retries, kafka,
                   started, broken, errors, refusals>>

HandlerStep ==
    \/ \E x \in Rows : (Delivering /\ TakeReport(x)) \/ QueueHistory(x)
    \/ TimerFires \/ AnswerInsert
    \/ FlushAtShutdown \/ Exit

ProcessNext ==
    \/ \E c \in Clients : Connected(c) \/ ClientError(c)
    \/ Refused \/ ReconnectFires \/ RetryFires
    \/ ConsumerCrashes \/ Stop
    \/ HandlerStep /\ UNCHANGED <<stream, kafka, errors, refusals>>

ProcessSpec == ProcessInit /\ [][ProcessNext]_all

FairProcess == ProcessSpec /\ WF_historyVars(TimerFires) /\ WF_historyVars(AnswerInsert)

-----------------------------------------------------------------------------
(* Reconnects are neither lost nor made twice: while the process is up it  *)
(* has one connection, on which no error was reported, or else one         *)
(* reconnect is on its way, and never both.  Two connections would apply   *)
(* every report twice; none and nothing on its way would leave the map     *)
(* standing still until a restart.                                         *)
OneStream ==
    process = "up" =>
        /\ \A c, d \in Subscribed : c = d
        /\ Subscribed \cap broken = {}
        /\ attempts + waiting + retries = IF Subscribed = {} THEN 1 ELSE 0
=============================================================================
