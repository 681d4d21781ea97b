----------------------------- MODULE LiveClient -----------------------------
(***************************************************************************)
(* The other end of the live streams: the pages that show one.  The map,   *)
(* the signalling diagram, the alert feed and the service page of apps/web *)
(* and the map of apps/ios each hold a stream, reconnect it when it drops, *)
(* and fetch over plain HTTP while it is not there.                        *)
(*                                                                         *)
(* One page, of the kind chosen initially, visited several times.  What it *)
(* shows is the version of the world it was last given: frames of a stream *)
(* arrive in order and are sent when something changed, so a stream is     *)
(* known by the last version it delivered.                                 *)
(***************************************************************************)
EXTENDS Naturals, FiniteSets

CONSTANTS
  Kinds,     \* of {"map", "diagram", "alerts", "service", "ios"}
  None,      \* nothing shown, nothing read
  Streams,   \* connections open at once; a visit may leave one behind
  Fetches,   \* bound: fetches under way at once
  MaxMoves,  \* bound: changes of the world
  MaxFaults  \* bound: dropped connections and failed fetches

Versions == 0..MaxMoves

ASSUME LiveClientAssumption ==
  /\ Kinds \subseteq {"map", "diagram", "alerts", "service", "ios"}
  /\ IsFiniteSet(Streams)
  /\ MaxMoves \in Nat /\ MaxFaults \in Nat
  /\ None \notin Nat

VARIABLES
  kind,
  redis,     \* the server has Redis, or else answers every stream `unavailable'
  buffered,  \* a proxy between them holds a stream's frames back for good
  world,     \* the version a computation would see now
  visits,    \* how often the page was opened
  mounted,   \* it is open; FALSE is the closure's `stopped'
  intervals, \* how many intervals are set
  reconnect, \* the reconnect timer is set
  streaming, \* service: useServicePosition's answer
  phase,     \* of a stream: "none", "opening", "connected", "ready"
  mine,      \* it belongs to the present visit
  got,       \* the last version it delivered; None before the first
  for,       \* of a fetch under way: the visit it was sent from, else 0
  read,      \* what the server has read for it, None before that
  shown,     \* what the page holds
  streamed,  \* service: what came over the stream, shown before anything else
  behind,    \* history: an answer older than what the page had has landed, or
             \* the alert feed missed one: it subscribed too late, or the
             \* fetch that a frame called for has failed
  faults

config == <<kind, redis, buffered>>
timers == <<intervals, reconnect, streaming>>
streams == <<phase, mine, got>>
fetches == <<read, for>>
page == <<shown, streamed, behind>>
vars == <<config, world, visits, mounted, timers, streams, fetches, page, faults>>

Init ==
  /\ kind \in Kinds /\ redis \in BOOLEAN /\ buffered \in BOOLEAN
  /\ world = 0 /\ visits = 0 /\ mounted = FALSE
  /\ intervals = 0 /\ reconnect = FALSE /\ streaming = FALSE
  /\ phase = [s \in Streams |-> "none"] /\ mine = [s \in Streams |-> FALSE]
  /\ got = [s \in Streams |-> None]
  /\ read = [f \in Fetches |-> None] /\ for = [f \in Fetches |-> 0]
  /\ shown = None /\ streamed = None /\ behind = FALSE
  /\ faults = 0

PollsAtOpen == kind \in {"map", "diagram"}
KeepsItsStream == kind \in {"map", "diagram"}
SendsChangesOnly == kind \in {"map", "ios"}
Newer(a, b) == IF b = None THEN a # None ELSE a # None /\ a > b

-----------------------------------------------------------------------------
(* Fetching and opening.                                                   *)

FetchFor(visit) == \E f \in Fetches :
  /\ for[f] = 0
  /\ for' = [for EXCEPT ![f] = visit] /\ UNCHANGED read
Fetch == FetchFor(visits)

NoFetch == UNCHANGED fetches

\* startPolling (and a mutant without its guard).
startPollingAgain ==
  IF ~mounted THEN UNCHANGED intervals /\ NoFetch
  ELSE /\ intervals' = intervals + 1
       /\ IF PollsAtOpen THEN Fetch ELSE NoFetch
startPolling ==
  IF ~mounted \/ intervals > 0 THEN UNCHANGED intervals /\ NoFetch
  ELSE /\ intervals' = intervals + 1
       /\ IF PollsAtOpen THEN Fetch ELSE NoFetch

\* stopPolling clears the interval whose handle is kept.
stopPolling(s) == intervals' = IF mine[s] /\ intervals > 0 THEN intervals - 1 ELSE intervals

NewStream == \E s \in Streams :
  /\ phase[s] = "none"
  /\ phase' = [phase EXCEPT ![s] = "opening"]
  /\ mine' = [mine EXCEPT ![s] = TRUE] /\ got' = [got EXCEPT ![s] = None]

Closed(ss) ==
  /\ phase' = [s \in Streams |-> IF s \in ss THEN "none" ELSE phase[s]]
  /\ got' = [s \in Streams |-> IF s \in ss THEN None ELSE got[s]]
  /\ mine' = [s \in Streams |-> mine[s] /\ s \notin ss]

(* The page opens.  The alert feed starts from what the server rendered;   *)
(* the service page polls until its stream is said to work.                *)
Mount ==
  /\ ~mounted /\ visits < Cardinality(Streams)
  /\ mounted' = TRUE /\ visits' = visits + 1
  /\ NewStream
  /\ CASE PollsAtOpen \/ kind = "service" -> intervals' = intervals + 1 /\ FetchFor(visits + 1)
       [] kind = "alerts" -> UNCHANGED intervals /\ NoFetch
       [] kind = "ios" -> UNCHANGED intervals /\ (FetchFor(visits + 1) \/ (visits > 0 /\ NoFetch))
  /\ shown' = IF kind = "alerts" THEN world ELSE shown
  /\ UNCHANGED <<config, world, reconnect, streaming, streamed, behind, faults>>

(* It is left.  The app keeps what it has; a web page does not, but the    *)
(* map and the diagram forget to close their stream.                       *)
Unmount ==
  /\ mounted /\ mounted' = FALSE
  /\ intervals' = IF intervals > 0 THEN intervals - 1 ELSE 0
  /\ reconnect' = FALSE /\ streaming' = FALSE
  /\ IF KeepsItsStream THEN mine' = [s \in Streams |-> FALSE] /\ UNCHANGED <<phase, got>>
     ELSE Closed({s \in Streams : mine[s]})
  /\ IF kind = "ios" THEN UNCHANGED page
     ELSE shown' = None /\ streamed' = None /\ behind' = FALSE
  /\ UNCHANGED <<config, world, visits, fetches, faults>>

\* open(), from the reconnect timer.
ReconnectFires ==
  /\ reconnect /\ reconnect' = FALSE
  /\ NewStream
  /\ IF PollsAtOpen THEN startPolling ELSE UNCHANGED intervals /\ NoFetch
  /\ UNCHANGED <<config, world, visits, mounted, streaming, page, faults>>

-----------------------------------------------------------------------------
(* The stream's events.                                                    *)

(* The server accepts the stream and sends `ready'.  Only the alert feed's *)
(* frames depend on when the subscription behind it takes effect.          *)
Connect(s) ==
  /\ phase[s] = "opening" /\ redis
  /\ phase' = [phase EXCEPT ![s] = "connected"]
  /\ UNCHANGED <<config, world, visits, mounted, timers, mine, got, fetches, page, faults>>

Subscribed(s) ==
  /\ kind = "alerts" /\ phase[s] \in {"connected", "ready"} /\ got[s] = None
  /\ got' = [got EXCEPT ![s] = world]
  /\ behind' = (behind \/ phase[s] = "ready")
  /\ UNCHANGED <<config, world, visits, mounted, timers, phase, mine, fetches, shown,
                 streamed, faults>>

Ready(s) ==
  /\ phase[s] = "connected" /\ ~buffered
  /\ phase' = [phase EXCEPT ![s] = "ready"]
  /\ IF kind \in {"map", "diagram", "alerts"} THEN stopPolling(s) ELSE UNCHANGED intervals
  /\ IF kind = "alerts" THEN Fetch ELSE NoFetch
  /\ UNCHANGED <<config, world, visits, mounted, reconnect, streaming, mine, got, page, faults>>

(* No Redis: the stream is closed for good, and polling takes over.  The   *)
(* app's channel only stops.                                               *)
Unavailable(s) ==
  /\ phase[s] = "opening" /\ ~redis
  /\ Closed({s})
  /\ IF mine[s] /\ kind \in {"map", "diagram", "alerts"} THEN startPolling
     ELSE UNCHANGED intervals /\ NoFetch
  /\ UNCHANGED <<config, world, visits, mounted, reconnect, streaming, page, faults>>

\* A frame with the version v.  What it says is shown at once, but an alert is
\* only a reason to fetch the list.
Shows(s, v) ==
  CASE kind = "alerts" -> Fetch /\ UNCHANGED <<intervals, streaming, page>>
    [] kind = "service" -> /\ streamed' = v
                           /\ streaming' = TRUE
                           /\ intervals' = 0
                           /\ NoFetch /\ UNCHANGED <<shown, behind>>
    [] OTHER -> /\ shown' = v
                /\ behind' = (behind /\ SendsChangesOnly /\ got[s] # None)
                /\ IF kind = "ios" THEN UNCHANGED intervals ELSE stopPolling(s)
                /\ NoFetch /\ UNCHANGED <<streamed, streaming>>

Frame(s) ==
  /\ phase[s] = "ready"
  /\ kind = "alerts" => got[s] # None
  /\ \E v \in Versions :
       /\ v <= world /\ Newer(v, got[s])
       /\ got' = [got EXCEPT ![s] = v]
       /\ IF mine[s] THEN Shows(s, v) ELSE UNCHANGED <<intervals, streaming, fetches, page>>
  /\ UNCHANGED <<config, world, visits, mounted, reconnect, phase, mine, faults>>

\* onerror: closed, and unless the page was left, polled and tried again (and
\* mutants that forget that it was left, or to try again).
RetryAlways(s) == reconnect' = TRUE
RetryNever(s) == UNCHANGED reconnect
Retry(s) == reconnect' = (reconnect \/ mine[s])

Drop(s) ==
  /\ phase[s] # "none" /\ faults < MaxFaults /\ faults' = faults + 1
  /\ Closed({s})
  /\ Retry(s)
  /\ IF mine[s] /\ kind \in {"map", "diagram", "alerts"} THEN startPolling
     ELSE UNCHANGED intervals /\ NoFetch
  /\ UNCHANGED <<config, world, visits, mounted, streaming, page>>

-----------------------------------------------------------------------------
(* Polling.                                                                *)

PollFires ==
  /\ intervals > 0
  /\ Fetch
  /\ UNCHANGED <<config, world, visits, mounted, timers, streams, page, faults>>

\* service: once a second the shared connection is asked whether it works, and
\* the interval of the page follows.
isStreaming == \E s \in Streams : mine[s] /\ phase[s] = "ready"
Check ==
  /\ kind = "service" /\ mounted /\ streaming # isStreaming
  /\ streaming' = isStreaming
  /\ intervals' = IF isStreaming THEN 0 ELSE 1
  /\ UNCHANGED <<config, world, visits, mounted, reconnect, streams, fetches, page, faults>>

Serve(f) ==
  /\ for[f] # 0 /\ read[f] = None
  /\ read' = [read EXCEPT ![f] = world]
  /\ UNCHANGED <<config, world, visits, mounted, timers, streams, for, page, faults>>

Lands(f) == kind = "ios" \/ (mounted /\ for[f] = visits)

(* The answer replaces what the page holds, whatever came in between.      *)
Answer(f) ==
  /\ read[f] \in Versions
  /\ read' = [read EXCEPT ![f] = None] /\ for' = [for EXCEPT ![f] = 0]
  /\ IF Lands(f)
     THEN /\ shown' = read[f]
          /\ behind' = (Newer(shown, read[f])
                         \/ (behind /\ \E s \in Streams : mine[s] /\ Newer(got[s], read[f])))
     ELSE UNCHANGED <<shown, behind>>
  /\ UNCHANGED <<config, world, visits, mounted, timers, streams, streamed, faults>>

FetchFails(f) ==
  /\ for[f] # 0 /\ faults < MaxFaults /\ faults' = faults + 1
  /\ read' = [read EXCEPT ![f] = None] /\ for' = [for EXCEPT ![f] = 0]
  /\ behind' = (behind \/ (kind = "alerts" /\ Lands(f)))
  /\ UNCHANGED <<config, world, visits, mounted, timers, streams, shown, streamed>>

Move ==
  /\ world < MaxMoves /\ world' = world + 1
  /\ UNCHANGED <<config, visits, mounted, timers, streams, fetches, page, faults>>

Next ==
  \/ Mount \/ Unmount \/ Move
  \/ ReconnectFires \/ PollFires \/ Check
  \/ \E s \in Streams : Connect(s) \/ Subscribed(s) \/ Ready(s) \/ Unavailable(s)
                        \/ Frame(s) \/ Drop(s)
  \/ \E f \in Fetches : Serve(f) \/ Answer(f) \/ FetchFails(f)

\* Timers fire, connections are answered and frames arrive, unless held back.
Spec ==
  /\ Init /\ [][Next]_vars
  /\ WF_vars(ReconnectFires) /\ SF_vars(PollFires) /\ WF_vars(Check)
  /\ \A s \in Streams : WF_vars(Connect(s)) /\ WF_vars(Subscribed(s)) /\ WF_vars(Unavailable(s))
                        /\ SF_vars(Ready(s)) /\ SF_vars(Frame(s))
  /\ \A f \in Fetches : WF_vars(Serve(f)) /\ WF_vars(Answer(f))

-----------------------------------------------------------------------------
TypeOK ==
  /\ kind \in Kinds /\ redis \in BOOLEAN /\ buffered \in BOOLEAN
  /\ world \in Versions /\ visits \in 0..Cardinality(Streams)
  /\ mounted \in BOOLEAN /\ reconnect \in BOOLEAN /\ streaming \in BOOLEAN
  /\ intervals \in Nat
  /\ phase \in [Streams -> {"none", "opening", "connected", "ready"}]
  /\ mine \in [Streams -> BOOLEAN] /\ got \in [Streams -> Versions \union {None}]
  /\ read \in [Fetches -> Versions \union {None}]
  /\ for \in [Fetches -> 0..Cardinality(Streams)]
  /\ shown \in Versions \union {None} /\ streamed \in Versions \union {None}
  /\ behind \in BOOLEAN /\ faults \in 0..MaxFaults

Displayed == IF streamed # None THEN streamed ELSE shown

(* The guard in startPolling "is what stops a tab running both at once":   *)
(* one interval at most is ever set and one stream open for a visit, and a *)
(* stream that is flowing has stood the poll down.                         *)
OneFeed ==
  /\ intervals <= 1
  /\ Cardinality({s \in Streams : mine[s]}) + (IF reconnect THEN 1 ELSE 0) <= 1
  /\ kind # "service" /\ intervals > 0 => \A s \in Streams : mine[s] => phase[s] # "ready"

(* A page that was left runs no timer, and opens no stream again; the map  *)
(* and the diagram leave at most the stream they had.                      *)
LeavesQuietly ==
  ~mounted => /\ intervals = 0 /\ ~reconnect
              /\ \A s \in Streams : phase[s] = "none" \/ (KeepsItsStream /\ ~mine[s])

(* What the page lives on when its stream never says anything.             *)
HasAFeed == CASE kind = "ios" -> redis /\ ~buffered
              [] kind = "alerts" -> ~redis \/ ~buffered
              [] OTHER -> TRUE

(* A page that stays open comes to show the world as it is, whatever       *)
(* dropped and failed before, also behind a proxy that buffers the stream  *)
(* or without Redis: the stream is reopened and polling covers the gap.    *)
PageCatchesUp == \A w \in Versions :
  (mounted /\ world = w /\ HasAFeed)
    ~> (~mounted \/ world # w \/ Displayed = w \/ behind)

(* Stronger claims that do not hold of the code.  An answer that was read  *)
(* before the stream's last frame and lands after it stays on the page     *)
(* while nothing else changes, a page that left keeps a stream, and the    *)
(* service page shows nothing of what it polls once a stream has spoken.   *)
NothingOlder == [][mounted /\ mounted' /\ shown # None => ~Newer(shown, shown')]_vars
NothingIsLeft == ~mounted => \A s \in Streams : phase[s] = "none"
PollsAreShown == kind = "service" /\ ~streaming => ~Newer(shown, streamed) \/ streamed = None
=============================================================================
