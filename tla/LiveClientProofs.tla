--------------------------- MODULE LiveClientProofs ---------------------------
(***************************************************************************)
(* Proofs about LiveClient, for any number of visits, connections, fetches *)
(* and faults and any kinds of pages: a page lives on one feed at a time,  *)
(* and leaves nothing running behind it.                                   *)
(***************************************************************************)
EXTENDS LiveClient, FiniteSetTheorems, TLAPS

(* The page has one stream at most, which is there or waits for its timer, *)
(* and one interval at most, none of them beside a stream that flows.      *)
FeedInv ==
  /\ intervals \in {0, 1}
  /\ \A s, t \in Streams : mine[s] /\ mine[t] => s = t
  /\ \A s \in Streams : mine[s] => phase[s] # "none" /\ mounted /\ ~reconnect
  /\ kind = "ios" => intervals = 0
  /\ kind # "service" /\ intervals = 1 => \A s \in Streams : mine[s] => phase[s] # "ready"

(* Only the map and the diagram have a stream that is not their page's.    *)
QuietInv ==
  /\ ~mounted => intervals = 0 /\ ~reconnect
  /\ ~KeepsItsStream => \A s \in Streams : phase[s] # "none" => mine[s]

IInv == TypeOK /\ FeedInv /\ QuietInv

StreamsOK ==
  /\ phase \in [Streams -> {"none", "opening", "connected", "ready"}]
  /\ mine \in [Streams -> BOOLEAN] /\ got \in [Streams -> Versions \union {None}]
FetchesOK ==
  /\ read \in [Fetches -> Versions \union {None}]
  /\ for \in [Fetches -> 0..Cardinality(Streams)]
PageOK ==
  /\ shown \in Versions \union {None} /\ streamed \in Versions \union {None}
  /\ behind \in BOOLEAN

-----------------------------------------------------------------------------
(* What the parts of an action do.                                         *)

LEMMA VisitsAreFinite == Cardinality(Streams) \in Nat
BY LiveClientAssumption, FS_CardinalityType

LEMMA FetchTypes ==
    ASSUME TypeOK, NEW v \in 0..Cardinality(Streams), FetchFor(v) \/ NoFetch
    PROVE  FetchesOK'
BY DEF FetchFor, NoFetch, fetches, TypeOK, FetchesOK

LEMMA OwnFetchTypes == ASSUME TypeOK, Fetch \/ NoFetch PROVE FetchesOK'
BY FetchTypes DEF Fetch, TypeOK

(* Polling starts only on a page that is open, and once.                   *)
LEMMA StartPollingStarts ==
    ASSUME TypeOK, FeedInv, startPolling
    PROVE  /\ intervals' \in {0, 1} /\ FetchesOK'
           /\ ~mounted => intervals' = intervals
<1>1. CASE ~mounted \/ intervals > 0
  <2>1. intervals' = intervals /\ NoFetch
    BY <1>1 DEF startPolling
  <2>2. QED
    BY <2>1, OwnFetchTypes DEF FeedInv
<1>2. CASE mounted /\ ~(intervals > 0)
  <2>1. intervals' = intervals + 1 /\ (Fetch \/ NoFetch)
    BY <1>2 DEF startPolling
  <2>2. intervals = 0
    BY <1>2 DEF FeedInv
  <2>3. QED
    BY <1>2, <2>1, <2>2, OwnFetchTypes
<1>3. QED
  BY <1>1, <1>2

LEMMA StopPollingStops ==
    ASSUME FeedInv, NEW s \in Streams, stopPolling(s)
    PROVE  /\ intervals' \in {0, 1} /\ intervals' <= intervals
           /\ mine[s] => intervals' = 0
BY DEF FeedInv, stopPolling

LEMMA NewStreamOpens ==
    ASSUME TypeOK, NewStream
    PROVE  /\ StreamsOK'
           /\ \E s \in Streams :
                /\ phase'[s] = "opening" /\ mine'[s]
                /\ \A t \in Streams \ {s} : phase'[t] = phase[t] /\ mine'[t] = mine[t]
<1>1. PICK s \in Streams : /\ phase' = [phase EXCEPT ![s] = "opening"]
                           /\ mine' = [mine EXCEPT ![s] = TRUE]
                           /\ got' = [got EXCEPT ![s] = None]
  BY DEF NewStream
<1>2. StreamsOK'
  BY <1>1 DEF TypeOK, StreamsOK
<1>3. phase'[s] = "opening" /\ mine'[s]
  BY <1>1 DEF TypeOK
<1>4. \A t \in Streams \ {s} : phase'[t] = phase[t] /\ mine'[t] = mine[t]
  BY <1>1 DEF TypeOK
<1>5. QED
  BY <1>2, <1>3, <1>4

LEMMA ClosedCloses ==
    ASSUME TypeOK, NEW ss \in SUBSET Streams, Closed(ss)
    PROVE  /\ StreamsOK'
           /\ \A s \in ss : phase'[s] = "none" /\ ~mine'[s]
           /\ \A s \in Streams \ ss : phase'[s] = phase[s] /\ mine'[s] = mine[s]
<1>1. StreamsOK'
  BY DEF Closed, TypeOK, StreamsOK
<1>2. QED
  BY <1>1 DEF Closed, TypeOK

-----------------------------------------------------------------------------
(* The actions.                                                            *)

LEMMA InitIInv == Init => IInv
<1> SUFFICES ASSUME Init PROVE IInv
  OBVIOUS
<1>1. TypeOK
  <2>1. 0 \in Versions /\ 0 \in 0..MaxFaults /\ 0 \in 0..Cardinality(Streams)
    BY VisitsAreFinite, LiveClientAssumption DEF Versions
  <2>2. QED
    BY <2>1 DEF Init, TypeOK
<1>2. FeedInv /\ QuietInv
  BY DEF Init, FeedInv, QuietInv
<1>3. QED
  BY <1>1, <1>2 DEF IInv

(* A step that touches neither timers nor streams.                         *)
LEMMA SameFeed ==
    ASSUME IInv, UNCHANGED <<kind, mounted, intervals, reconnect, phase, mine>>
    PROVE  FeedInv' /\ QuietInv'
BY DEF IInv, FeedInv, QuietInv, KeepsItsStream

LEMMA MountIInv == ASSUME IInv, Mount PROVE IInv'
<1> USE DEF IInv, config
<1>1. \A s \in Streams : ~mine[s]
  BY DEF Mount, FeedInv
<1>2. intervals = 0 /\ ~reconnect
  BY DEF Mount, QuietInv
<1>3. visits + 1 \in 0..Cardinality(Streams)
  BY VisitsAreFinite DEF Mount, TypeOK
<1>4. NewStream /\ kind' = kind /\ mounted' = TRUE /\ reconnect' = reconnect
  BY DEF Mount
<1>5. /\ intervals' \in {0, 1}
      /\ kind = "ios" => intervals' = 0
      /\ FetchesOK'
  <2>1. CASE PollsAtOpen \/ kind = "service"
    <3>1. intervals' = intervals + 1 /\ FetchFor(visits + 1)
      BY <2>1 DEF Mount, PollsAtOpen
    <3>2. QED
      BY <1>2, <1>3, <2>1, <3>1, FetchTypes DEF PollsAtOpen
  <2>2. CASE kind = "alerts"
    <3>1. intervals' = intervals /\ NoFetch
      BY <2>2 DEF Mount, PollsAtOpen
    <3>2. QED
      BY <1>2, <1>3, <2>2, <3>1, FetchTypes
  <2>3. CASE kind = "ios"
    <3>1. intervals' = intervals /\ (FetchFor(visits + 1) \/ NoFetch)
      BY <2>3 DEF Mount, PollsAtOpen
    <3>2. QED
      BY <1>2, <1>3, <2>3, <3>1, FetchTypes
  <2>4. QED
    BY <2>1, <2>2, <2>3, LiveClientAssumption DEF TypeOK, PollsAtOpen
<1>6. PICK s \in Streams :
        /\ phase'[s] = "opening" /\ mine'[s]
        /\ \A t \in Streams \ {s} : phase'[t] = phase[t] /\ mine'[t] = mine[t]
  BY <1>4, NewStreamOpens
<1>7. StreamsOK'
  BY <1>4, NewStreamOpens
<1>8. PageOK'
  BY DEF Mount, TypeOK, PageOK
<1>9. TypeOK'
  <2>1. intervals' \in Nat
    BY <1>5
  <2>2. QED
    BY <1>3, <1>5, <1>7, <1>8, <2>1 DEF Mount, TypeOK, StreamsOK, FetchesOK, PageOK
<1>10. FeedInv'
  BY <1>1, <1>2, <1>4, <1>5, <1>6 DEF FeedInv
<1>11. QuietInv'
  BY <1>4, <1>6 DEF QuietInv, KeepsItsStream
<1>12. QED
  BY <1>9, <1>10, <1>11

LEMMA UnmountIInv == ASSUME IInv, Unmount PROVE IInv'
<1> USE DEF IInv, config, fetches, page
<1>1. intervals' = 0
  BY DEF Unmount, FeedInv
<1>2. /\ StreamsOK' /\ \A s \in Streams : ~mine'[s]
      /\ ~KeepsItsStream => \A s \in Streams : phase'[s] = "none"
  <2>1. CASE KeepsItsStream
    BY <2>1 DEF Unmount, TypeOK, StreamsOK
  <2>2. CASE ~KeepsItsStream
    <3>1. Closed({s \in Streams : mine[s]})
      BY <2>2 DEF Unmount
    <3>2. QED
      BY <2>2, <3>1, ClosedCloses DEF QuietInv, TypeOK
  <2>3. QED
    BY <2>1, <2>2
<1>3. PageOK'
  BY DEF Unmount, TypeOK, PageOK
<1>4. TypeOK'
  <2>1. FetchesOK'
    BY DEF Unmount, TypeOK, FetchesOK
  <2>2. /\ UNCHANGED <<kind, redis, buffered, world, visits, faults>>
        /\ mounted' = FALSE /\ reconnect' = FALSE /\ streaming' = FALSE
    BY DEF Unmount
  <2>3. StreamsOK' /\ PageOK' /\ intervals' \in Nat
    BY <1>1, <1>2, <1>3
  <2>4. QED
    BY <2>1, <2>2, <2>3 DEF TypeOK, StreamsOK, FetchesOK, PageOK
<1>5. FeedInv' /\ QuietInv'
  BY <1>1, <1>2 DEF Unmount, FeedInv, QuietInv, KeepsItsStream
<1>6. QED
  BY <1>4, <1>5

LEMMA ReconnectIInv == ASSUME IInv, ReconnectFires PROVE IInv'
<1> USE DEF IInv, config
<1>1. (\A s \in Streams : ~mine[s]) /\ mounted
  BY DEF ReconnectFires, FeedInv, QuietInv, TypeOK
<1>2. NewStream /\ kind' = kind /\ mounted' = mounted /\ ~reconnect'
  BY DEF ReconnectFires
<1>3. intervals' \in {0, 1} /\ FetchesOK' /\ (kind = "ios" => intervals' = 0)
  <2>1. CASE PollsAtOpen
    BY <2>1, StartPollingStarts DEF ReconnectFires, PollsAtOpen
  <2>2. CASE ~PollsAtOpen
    BY <2>2, OwnFetchTypes DEF ReconnectFires, FeedInv
  <2>3. QED
    BY <2>1, <2>2
<1>4. PICK s \in Streams :
        /\ phase'[s] = "opening" /\ mine'[s]
        /\ \A t \in Streams \ {s} : phase'[t] = phase[t] /\ mine'[t] = mine[t]
  BY <1>2, NewStreamOpens
<1>5. TypeOK'
  <2>1. PageOK' /\ intervals' \in Nat
    BY <1>3 DEF ReconnectFires, page, TypeOK, PageOK
  <2>2. StreamsOK'
    BY <1>2, NewStreamOpens
  <2>3. QED
    BY <1>3, <2>1, <2>2 DEF ReconnectFires, TypeOK, StreamsOK, FetchesOK, PageOK
<1>6. FeedInv'
  BY <1>1, <1>2, <1>3, <1>4 DEF FeedInv
<1>7. QuietInv'
  BY <1>1, <1>2, <1>4 DEF QuietInv, KeepsItsStream
<1>8. QED
  BY <1>5, <1>6, <1>7

(* Any end of a stream: the page waits to reconnect, or has given up on    *)
(* streams, and may poll.                                                  *)
LEMMA ClosingIInv ==
    ASSUME IInv, NEW s \in Streams, phase[s] # "none", Closed({s}),
           kind' = kind, mounted' = mounted, reconnect' \in BOOLEAN,
           reconnect' => reconnect \/ mine[s],
           IF mine[s] /\ kind \in {"map", "diagram", "alerts"} THEN startPolling
           ELSE UNCHANGED intervals /\ NoFetch
    PROVE  StreamsOK' /\ FetchesOK' /\ intervals' \in Nat /\ FeedInv' /\ QuietInv'
<1> USE DEF IInv
<1>1. /\ StreamsOK' /\ phase'[s] = "none" /\ ~mine'[s]
      /\ \A t \in Streams : t # s => phase'[t] = phase[t] /\ mine'[t] = mine[t]
  BY ClosedCloses
<1>2. /\ intervals' \in {0, 1} /\ FetchesOK'
      /\ intervals' = intervals \/ (mine[s] /\ mounted /\ kind # "ios")
  BY StartPollingStarts, OwnFetchTypes DEF FeedInv
<1>3. FeedInv'
  <2>1. \A t, u \in Streams : mine'[t] /\ mine'[u] => t = u
    BY <1>1 DEF FeedInv
  <2>2. \A t \in Streams : mine'[t] => phase'[t] # "none" /\ mounted' /\ ~reconnect'
    BY <1>1 DEF FeedInv
  <2>3. kind' = "ios" => intervals' = 0
    BY <1>2 DEF FeedInv
  <2>4. kind # "service" /\ intervals' = 1 => \A t \in Streams : mine'[t] => phase'[t] # "ready"
    BY <1>1, <1>2 DEF FeedInv
  <2>5. QED
    BY <1>2, <2>1, <2>2, <2>3, <2>4 DEF FeedInv
<1>4. QuietInv'
  <2>1. ~mounted => ~mine[s]
    BY DEF FeedInv
  <2>2. ~mounted' => intervals' = 0 /\ ~reconnect'
    BY <1>2, <2>1 DEF QuietInv
  <2>3. QED
    BY <1>1, <2>2 DEF QuietInv, KeepsItsStream
<1>5. QED
  BY <1>1, <1>2, <1>3, <1>4

LEMMA DropIInv ==
    ASSUME IInv, NEW s \in Streams, Drop(s) \/ Unavailable(s) PROVE IInv'
<1> USE DEF IInv
<1>1. /\ phase[s] # "none" /\ Closed({s}) /\ kind' = kind /\ mounted' = mounted
      /\ IF mine[s] /\ kind \in {"map", "diagram", "alerts"} THEN startPolling
         ELSE UNCHANGED intervals /\ NoFetch
  BY DEF Drop, Unavailable, config
<1>2. reconnect' \in BOOLEAN /\ (reconnect' => reconnect \/ mine[s])
  BY DEF Drop, Unavailable, Retry, TypeOK
<1>3. StreamsOK' /\ FetchesOK' /\ intervals' \in Nat /\ FeedInv' /\ QuietInv'
  BY <1>1, <1>2, ClosingIInv
<1>4. TypeOK'
  <2>1. /\ UNCHANGED <<kind, redis, buffered, world, visits, mounted, streaming>>
        /\ UNCHANGED page
    BY DEF Drop, Unavailable, config
  <2>2. faults' \in 0..MaxFaults
    BY LiveClientAssumption DEF Drop, Unavailable, TypeOK
  <2>3. QED
    BY <1>2, <1>3, <2>1, <2>2 DEF page, TypeOK, StreamsOK, FetchesOK
<1>5. QED
  BY <1>3, <1>4

LEMMA ConnectIInv == ASSUME IInv, NEW s \in Streams, Connect(s) PROVE IInv'
<1> USE DEF IInv, Connect, config, timers, fetches, page
<1>1. TypeOK'
  BY DEF TypeOK
<1>2. FeedInv'
  BY DEF TypeOK, FeedInv
<1>3. QuietInv'
  BY DEF TypeOK, QuietInv, KeepsItsStream
<1>4. QED
  BY <1>1, <1>2, <1>3

LEMMA ReadyIInv == ASSUME IInv, NEW s \in Streams, Ready(s) PROVE IInv'
<1> USE DEF IInv, config, page
<1>1. /\ phase[s] = "connected" /\ phase' = [phase EXCEPT ![s] = "ready"]
      /\ UNCHANGED <<kind, redis, buffered, world, visits, mounted, reconnect, streaming, mine,
                     got, faults>>
      /\ UNCHANGED page
  BY DEF Ready
<1>2. FetchesOK'
  BY OwnFetchTypes DEF Ready
<1>3. /\ intervals' \in {0, 1} /\ intervals' <= intervals
      /\ mine[s] /\ kind \in {"map", "diagram", "alerts"} => intervals' = 0
  <2>1. CASE kind \in {"map", "diagram", "alerts"}
    BY <2>1, StopPollingStops DEF Ready
  <2>2. CASE kind \notin {"map", "diagram", "alerts"}
    BY <2>2 DEF Ready, FeedInv
  <2>3. QED
    BY <2>1, <2>2
<1>4. TypeOK'
  <2>1. intervals' \in Nat
    BY <1>3
  <2>2. phase' \in [Streams -> {"none", "opening", "connected", "ready"}]
    BY <1>1 DEF TypeOK
  <2>3. QED
    BY <1>1, <1>2, <2>1, <2>2 DEF TypeOK, FetchesOK
<1>5. FeedInv'
  <2>1. kind = "ios" => intervals' = 0
    BY <1>3 DEF FeedInv
  <2>2. kind \in {"map", "diagram", "alerts", "service", "ios"}
    BY LiveClientAssumption DEF TypeOK
  <2>3. mine[s] /\ kind # "service" => intervals' = 0
    BY <1>3, <2>1, <2>2
  <2>4. kind # "service" /\ intervals' = 1 => \A t \in Streams : mine[t] => phase'[t] # "ready"
    BY <1>1, <1>3, <2>3 DEF FeedInv, TypeOK
  <2>5. QED
    BY <1>1, <1>3, <2>1, <2>4 DEF FeedInv, TypeOK
<1>6. QuietInv'
  BY <1>1, <1>3 DEF QuietInv, TypeOK, KeepsItsStream
<1>7. QED
  BY <1>4, <1>5, <1>6

LEMMA FrameIInv == ASSUME IInv, NEW s \in Streams, Frame(s) PROVE IInv'
<1> USE DEF IInv
<1>1. UNCHANGED <<kind, redis, buffered, world, visits, mounted, reconnect, phase, mine, faults>>
  BY DEF Frame, config
<1>2. PICK v \in Versions :
        /\ got' = [got EXCEPT ![s] = v]
        /\ IF mine[s] THEN Shows(s, v) ELSE UNCHANGED <<intervals, streaming, fetches, page>>
  BY DEF Frame
<1>3. /\ intervals' \in {0, 1} /\ intervals' <= intervals /\ streaming' \in BOOLEAN
      /\ FetchesOK' /\ PageOK'
  <2>1. CASE ~mine[s]
    BY <1>2, <2>1 DEF FeedInv, TypeOK, FetchesOK, PageOK, fetches, page
  <2>2. CASE mine[s] /\ kind = "alerts"
    <3>1. Fetch /\ UNCHANGED <<intervals, streaming, page>>
      BY <1>2, <2>2 DEF Shows
    <3>2. QED
      BY <3>1, OwnFetchTypes DEF FeedInv, TypeOK, PageOK, page
  <2>3. CASE mine[s] /\ kind = "service"
    <3>1. /\ streamed' = v /\ streaming' = TRUE /\ intervals' = 0
          /\ NoFetch /\ UNCHANGED <<shown, behind>>
      BY <1>2, <2>3 DEF Shows
    <3>2. QED
      BY <3>1, OwnFetchTypes DEF FeedInv, TypeOK, PageOK
  <2>4. CASE mine[s] /\ kind \notin {"alerts", "service"}
    <3>1. /\ shown' = v
          /\ behind' = (behind /\ SendsChangesOnly /\ got[s] # None)
          /\ IF kind = "ios" THEN UNCHANGED intervals ELSE stopPolling(s)
          /\ NoFetch /\ UNCHANGED <<streamed, streaming>>
      BY <1>2, <2>4 DEF Shows
    <3>2. PageOK' /\ FetchesOK' /\ streaming' \in BOOLEAN
      BY <3>1, OwnFetchTypes DEF TypeOK, PageOK, SendsChangesOnly
    <3>3. intervals' \in {0, 1} /\ intervals' <= intervals
      BY <3>1, StopPollingStops DEF FeedInv
    <3>4. QED
      BY <3>2, <3>3
  <2>5. QED
    BY <2>1, <2>2, <2>3, <2>4
<1>4. TypeOK'
  <2>1. intervals' \in Nat
    BY <1>3
  <2>2. got' \in [Streams -> Versions \union {None}]
    BY <1>2 DEF TypeOK
  <2>3. QED
    BY <1>1, <1>3, <2>1, <2>2 DEF TypeOK, FetchesOK, PageOK
<1>5. FeedInv' /\ QuietInv'
  BY <1>1, <1>3 DEF FeedInv, QuietInv, KeepsItsStream
<1>6. QED
  BY <1>4, <1>5

LEMMA CheckIInv == ASSUME IInv, Check PROVE IInv'
<1> USE DEF IInv, Check, config, streams, fetches, page
<1>1. TypeOK'
  BY DEF TypeOK, isStreaming
<1>2. FeedInv' /\ QuietInv'
  BY DEF FeedInv, QuietInv, KeepsItsStream
<1>3. QED
  BY <1>1, <1>2

(* The steps that only fetch, serve, deliver or fail.                      *)
LEMMA OtherIInv ==
    ASSUME IInv,
           PollFires \/ Move \/ (\E s \in Streams : Subscribed(s))
             \/ (\E f \in Fetches : Serve(f) \/ Answer(f) \/ FetchFails(f)) \/ UNCHANGED vars
    PROVE  IInv'
<1> USE DEF IInv, config, timers, streams, fetches, page
<1>1. UNCHANGED <<kind, mounted, intervals, reconnect, phase, mine>>
  BY DEF PollFires, Move, Subscribed, Serve, Answer, FetchFails, vars
<1>2. TypeOK'
  <2>1. CASE PollFires
    BY <2>1, OwnFetchTypes DEF PollFires, TypeOK, FetchesOK
  <2>2. CASE Move
    BY <2>2, LiveClientAssumption DEF Move, TypeOK, Versions
  <2>3. ASSUME NEW s \in Streams, Subscribed(s) PROVE TypeOK'
    BY <2>3 DEF Subscribed, TypeOK
  <2>4. ASSUME NEW f \in Fetches, Serve(f) PROVE TypeOK'
    BY <2>4 DEF Serve, TypeOK
  <2>5. ASSUME NEW f \in Fetches, Answer(f) PROVE TypeOK'
    <3>1. FetchesOK'
      BY <2>5, VisitsAreFinite DEF Answer, TypeOK, FetchesOK
    <3>2. PageOK'
      BY <2>5 DEF Answer, TypeOK, PageOK, Newer
    <3>3. QED
      BY <2>5, <3>1, <3>2 DEF Answer, TypeOK, FetchesOK, PageOK
  <2>6. ASSUME NEW f \in Fetches, FetchFails(f) PROVE TypeOK'
    <3>1. FetchesOK'
      BY <2>6, VisitsAreFinite DEF FetchFails, TypeOK, FetchesOK
    <3>2. behind' \in BOOLEAN /\ faults' \in 0..MaxFaults
      BY <2>6, LiveClientAssumption DEF FetchFails, TypeOK, Lands
    <3>3. QED
      BY <2>6, <3>1, <3>2 DEF FetchFails, TypeOK, FetchesOK
  <2>7. CASE UNCHANGED vars
    BY <2>7 DEF vars, TypeOK
  <2>8. QED
    BY <2>1, <2>2, <2>3, <2>4, <2>5, <2>6, <2>7
<1>3. QED
  BY <1>1, <1>2, SameFeed

-----------------------------------------------------------------------------
(* The theorems.                                                           *)

(* The inductive invariant of a page's timers and streams.                 *)
THEOREM PageIsConsistent == Spec => []IInv
<1>1. IInv /\ [Next]_vars => IInv'
  BY MountIInv, UnmountIInv, ReconnectIInv, DropIInv, ConnectIInv, ReadyIInv, FrameIInv, CheckIInv,
     OtherIInv DEF Next
<1>2. QED
  BY <1>1, InitIInv, PTL DEF Spec

(* Type correctness of the page.                                           *)
THEOREM TypeCorrect == Spec => []TypeOK
<1>1. IInv => TypeOK
  BY DEF IInv
<1>2. QED
  BY <1>1, PageIsConsistent, PTL

(* A page never polls twice, never has two streams, or one and a timer for *)
(* another, and does not poll beside a stream that flows.                  *)
THEOREM PageHasOneFeed == Spec => []OneFeed
<1>1. IInv => OneFeed
  <2> SUFFICES ASSUME IInv PROVE OneFeed
    OBVIOUS
  <2> DEFINE own == {s \in Streams : mine[s]}
  <2>1. Cardinality(own) + (IF reconnect THEN 1 ELSE 0) <= 1
    <3>1. CASE own = {}
      BY <3>1, FS_EmptySet
    <3>2. CASE own # {}
      <4>1. PICK s \in own : own = {s}
        BY <3>2 DEF IInv, FeedInv
      <4>2. Cardinality(own) = 1 /\ ~reconnect
        BY <4>1, FS_Singleton DEF IInv, FeedInv
      <4>3. QED
        BY <4>2
    <3>3. QED
      BY <3>1, <3>2
  <2>2. intervals <= 1
    BY DEF IInv, FeedInv
  <2>3. kind # "service" /\ intervals > 0 => \A s \in Streams : mine[s] => phase[s] # "ready"
    BY DEF IInv, FeedInv
  <2>4. QED
    BY <2>1, <2>2, <2>3 DEF OneFeed
<1>2. QED
  BY <1>1, PageIsConsistent, PTL

(* A page that was left has no timer and opens no stream; only the map and *)
(* the diagram leave the one they had open.                                *)
THEOREM PageLeavesQuietly == Spec => []LeavesQuietly
<1>1. IInv => LeavesQuietly
  BY DEF IInv, TypeOK, FeedInv, QuietInv, LeavesQuietly
<1>2. QED
  BY <1>1, PageIsConsistent, PTL
=============================================================================
