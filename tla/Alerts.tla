------------------------------- MODULE Alerts -------------------------------
(***************************************************************************)
(* Commute alerts of services/darwin-ingest (alerts.ts, push.ts): the      *)
(* Kafka consumer looks up which of a user's commutes a delayed or         *)
(* cancelled train serves, inserts one deduplicated alert for each,        *)
(* publishes it and pushes it.  Between its awaits run the corridor        *)
(* precompute (precompute.ts), which adds rows and then invalidates the    *)
(* cached set of trains, and the user, on the web.                         *)
(*                                                                         *)
(* One user and one service date; events may come again in any order.      *)
(***************************************************************************)
EXTENDS Integers, FiniteSets

CONSTANTS
    Rows,      \* the rows the precompute may add: [commute, train, dir]
    Kinds,     \* the kinds of event
    Subs,      \* the push subscriptions a browser may register
    None,      \* no subscription, or no match being handled
    MaxFaults, \* bound: failed statements and restarts
    MaxEdits   \* bound: changes the user makes, and precomputes

Trains == {r.train : r \in Rows}
Keys == {[commute |-> r.commute, train |-> r.train, kind |-> k] : r \in Rows, k \in Kinds}
Events == [train : Trains, kind : Kinds]

ASSUME AlertsAssumption ==
    /\ None \notin Rows /\ None \notin Subs /\ None \notin Events
    /\ MaxFaults \in Nat /\ MaxEdits \in Nat
    /\ IsFiniteSet(Rows) /\ IsFiniteSet(Kinds)

VARIABLES
    corridor,     \* the table commute_corridor
    alerts,       \* the keys of the table alert
    subscription, \* user.pushSubscription
    optedIn,      \* user.pushCommuteDisruptions
    onHoliday,    \* the date is in one of the user's holidays
    gone,         \* subscriptions that the push service answers with 404 or 410
    tracked,      \* trackedUids
    loaded,       \* trackedLoadedAt is within TRACKED_TTL_MS
    pc,           \* the await the consumer is at
    event,        \* the event it handles
    answer,       \* the trains a refresh has read
    user,         \* what the matches say of the user
    todo,         \* the matches not handled yet
    match,        \* the match being handled
    precompute,   \* a precompute is running
    published,    \* how often each alert was published (history variable)
    pushed,       \* how often each alert was pushed (history variable)
    matched,      \* the matches of this event (history variable)
    skipped,      \* those skipped for a holiday (history variable)
    due,          \* the trains stored before the last invalidation (history)
    faults, edits

tables == <<corridor, alerts, subscription, optedIn, onHoliday, gone>>
cache == <<tracked, loaded>>
locals == <<pc, event, answer, user, todo, match>>
counts == <<published, pushed, matched, skipped, due>>
alertVars == <<tables, cache, locals, precompute, counts, faults, edits>>

NoUser == [sub |-> None, optedIn |-> FALSE]

AlertTypeOK ==
    /\ corridor \subseteq Rows /\ alerts \subseteq Keys
    /\ subscription \in Subs \cup {None}
    /\ optedIn \in BOOLEAN /\ onHoliday \in BOOLEAN
    /\ gone \subseteq Subs
    /\ tracked \subseteq Trains /\ loaded \in BOOLEAN
    /\ pc \in {"idle", "refresh", "read", "match", "holiday", "insert",
                 "publish", "push", "clear"}
    /\ event \in Events \cup {None}
    /\ answer \subseteq Trains
    /\ user \in [sub : Subs \cup {None}, optedIn : BOOLEAN]
    /\ todo \subseteq Rows /\ match \in Rows \cup {None}
    /\ precompute \in BOOLEAN
    /\ published \in [Keys -> Nat] /\ pushed \in [Keys -> Nat]
    /\ matched \subseteq Rows /\ skipped \subseteq Rows
    /\ due \subseteq Trains
    /\ faults \in 0..MaxFaults /\ edits \in 0..MaxEdits

AlertInit ==
    /\ corridor \in SUBSET Rows /\ alerts = {}
    /\ subscription \in Subs \cup {None}
    /\ optedIn \in BOOLEAN /\ onHoliday = FALSE
    /\ gone = {}
    /\ tracked = {} /\ loaded = FALSE
    /\ pc = "idle" /\ event = None /\ answer = {}
    /\ user = NoUser /\ todo = {} /\ match = None
    /\ precompute = FALSE
    /\ published = [k \in Keys |-> 0] /\ pushed = [k \in Keys |-> 0]
    /\ matched = {} /\ skipped = {}
    /\ due = {}
    /\ faults = 0 /\ edits = 0

KeyOf(r) == [commute |-> r.commute, train |-> r.train, kind |-> event.kind]

-----------------------------------------------------------------------------
(* The consumer (matchDelay, matchCancellation).                           *)

ReturnToIdle ==
    /\ pc' = "idle" /\ event' = None /\ answer' = {}
    /\ user' = NoUser /\ todo' = {} /\ match' = None
    /\ matched' = {} /\ skipped' = {}

(* With the set of tracked trains at hand: most events end here.           *)
Filter(set, e) ==
    IF e.train \in set
    THEN /\ pc' = "match" /\ event' = e /\ answer' = {}
         /\ UNCHANGED <<user, todo, match, matched, skipped>>
    ELSE ReturnToIdle

(* A cancellation, or a delay above the threshold.  An empty or aged set   *)
(* of trains is read again.                                                *)
Receive(e) ==
    /\ pc = "idle"
    /\ IF tracked # {} /\ loaded
       THEN Filter(tracked, e)
       ELSE /\ pc' = "refresh" /\ event' = e
            /\ UNCHANGED <<answer, user, todo, match, matched, skipped>>
    /\ UNCHANGED <<tables, cache, precompute, published, pushed, due, faults, edits>>

(* The query of ensureTrackedUids reads the corridors ...                  *)
RefreshReads ==
    /\ pc = "refresh"
    /\ pc' = "read"
    /\ answer' = {r.train : r \in corridor}
    /\ UNCHANGED <<tables, cache, event, user, todo, match, precompute, counts, faults, edits>>

(* ... and its answer becomes the set, as fresh as the clock.              *)
RefreshReturns ==
    /\ pc = "read"
    /\ tracked' = answer /\ loaded' = TRUE
    /\ Filter(answer, event)
    /\ UNCHANGED <<tables, precompute, published, pushed, due, faults, edits>>

(* After a match, the next one, or the end of the event.                   *)
Advance(rest) ==
    IF rest = {}
    THEN ReturnToIdle
    ELSE /\ pc' = "holiday"
         /\ \E r \in rest : match' = r /\ todo' = rest \ {r}
         /\ UNCHANGED <<event, answer, user, matched, skipped>>

(* matchingCommutes: rows of the train, joined with the user's columns.    *)
Match ==
    LET rows == {r \in corridor : r.train = event.train}
    IN  /\ pc = "match"
        /\ IF rows = {}
           THEN ReturnToIdle
           ELSE /\ user' = [sub |-> subscription, optedIn |-> optedIn]
                /\ matched' = rows
                /\ pc' = "holiday"
                /\ \E r \in rows : match' = r /\ todo' = rows \ {r}
                /\ UNCHANGED <<event, answer, skipped>>
        /\ UNCHANGED <<tables, cache, precompute, published, pushed, due, faults, edits>>

Skip ==
    /\ pc = "holiday" /\ onHoliday
    /\ IF todo = {}
       THEN ReturnToIdle
       ELSE /\ pc' = "holiday"
            /\ \E r \in todo : match' = r /\ todo' = todo \ {r}
            /\ skipped' = skipped \cup {match}
            /\ UNCHANGED <<event, answer, user, matched>>
    /\ UNCHANGED <<tables, cache, precompute, published, pushed, due, faults, edits>>

NotOnHoliday ==
    /\ pc = "holiday" /\ ~onHoliday
    /\ pc' = "insert"
    /\ UNCHANGED <<tables, cache, event, answer, user, todo, match, precompute, counts,
                   faults, edits>>

(* Mutant: the dedupe hit ends the event, not the match.                   *)
DropsTheRest(k) ==
    IF k \in alerts
    THEN ReturnToIdle /\ alerts' = alerts
    ELSE /\ pc' = "publish" /\ alerts' = alerts \cup {k}
         /\ UNCHANGED <<event, answer, user, todo, match, matched, skipped>>

(* Mutant: the insert overwrites on conflict, and returns the row.         *)
Upserts(k) ==
    /\ pc' = "publish" /\ alerts' = alerts \cup {k}
    /\ UNCHANGED <<event, answer, user, todo, match, matched, skipped>>

(* Insert ... on conflict do nothing returning id: no row is returned when *)
(* the key is there.                                                       *)
InsertAlert(k) ==
    IF k \in alerts
    THEN Advance(todo) /\ alerts' = alerts
    ELSE /\ pc' = "publish" /\ alerts' = alerts \cup {k}
         /\ UNCHANGED <<event, answer, user, todo, match, matched, skipped>>

Insert ==
    /\ pc = "insert"
    /\ InsertAlert(KeyOf(match))
    /\ UNCHANGED <<corridor, subscription, optedIn, onHoliday, gone, cache, precompute,
                   published, pushed, due, faults, edits>>

(* Mutant: the preference for pushes gates the publication, too.           *)
AnnouncedIfOptedIn(k) ==
    IF user.optedIn THEN [published EXCEPT ![k] = @ + 1] ELSE published

(* redis.publish on the user's channel.                                    *)
Announced(k) == [published EXCEPT ![k] = @ + 1]

(* Once published, an alert is pushed if the columns read with the match   *)
(* say so.                                                                 *)
Publish ==
    /\ pc = "publish"
    /\ published' = Announced(KeyOf(match))
    /\ IF user.optedIn /\ user.sub # None
       THEN pc' = "push" /\ UNCHANGED <<event, answer, user, todo, match, matched, skipped>>
       ELSE Advance(todo)
    /\ UNCHANGED <<tables, cache, precompute, pushed, due, faults, edits>>

(* sendPush never rejects: another failure than 404 or 410 is logged.      *)
Push ==
    /\ pc = "push"
    /\ IF user.sub \in gone
       THEN /\ pc' = "clear" /\ pushed' = pushed
            /\ UNCHANGED <<event, answer, user, todo, match, matched, skipped>>
       ELSE /\ pushed' \in {pushed, [pushed EXCEPT ![KeyOf(match)] = @ + 1]}
            /\ Advance(todo)
    /\ UNCHANGED <<tables, cache, precompute, published, due, faults, edits>>

(* The user's subscription is cleared, whichever it is by now.             *)
Clear ==
    /\ pc = "clear"
    /\ subscription' = None
    /\ Advance(todo)
    /\ UNCHANGED <<corridor, alerts, optedIn, onHoliday, gone, cache, precompute,
                   published, pushed, due, faults, edits>>

(* A statement rejects: handle() catches it, and the other matches are not *)
(* looked at.                                                              *)
Fail ==
    /\ pc \in {"refresh", "match", "holiday", "insert", "publish", "clear"}
    /\ ReturnToIdle
    /\ faults < MaxFaults /\ faults' = faults + 1
    /\ UNCHANGED <<tables, cache, precompute, published, pushed, due, edits>>

(* A restart: the event comes again, for its offset was not committed.     *)
Restart ==
    /\ ReturnToIdle
    /\ tracked' = {} /\ loaded' = FALSE
    /\ precompute' = FALSE
    /\ faults < MaxFaults /\ faults' = faults + 1
    /\ UNCHANGED <<tables, published, pushed, due, edits>>

-----------------------------------------------------------------------------
(* The other actors.                                                       *)

Edit == edits < MaxEdits /\ edits' = edits + 1

StartPrecompute ==
    /\ ~precompute
    /\ precompute' = TRUE
    /\ Edit
    /\ UNCHANGED <<tables, cache, locals, counts, faults>>

(* One leg and direction of the precompute is upserted.                    *)
AddRow ==
    /\ precompute
    /\ \E r \in Rows \ corridor : corridor' = corridor \cup {r}
    /\ UNCHANGED <<alerts, subscription, optedIn, onHoliday, gone, cache, locals,
                   precompute, counts, faults, edits>>

(* precomputeAllCorridors().then(invalidateTrackedUids).                   *)
Invalidate ==
    /\ precompute
    /\ precompute' = FALSE
    /\ loaded' = FALSE
    /\ due' = {r.train : r \in corridor}
    /\ UNCHANGED <<tables, tracked, locals, published, pushed, matched, skipped, faults, edits>>

(* TRACKED_TTL_MS has passed.                                              *)
Age ==
    /\ loaded
    /\ loaded' = FALSE
    /\ UNCHANGED <<tables, tracked, locals, precompute, counts, faults, edits>>

Subscribe ==
    /\ \E s \in (Subs \ gone) \cup {None} : subscription' = s
    /\ Edit
    /\ UNCHANGED <<corridor, alerts, optedIn, onHoliday, gone, cache, locals, precompute,
                   counts, faults>>

SetPreferences ==
    /\ optedIn' \in BOOLEAN /\ onHoliday' \in BOOLEAN
    /\ Edit
    /\ UNCHANGED <<corridor, alerts, subscription, gone, cache, locals, precompute,
                   counts, faults>>

ExpireSubscription ==
    /\ \E s \in Subs \ gone : gone' = gone \cup {s}
    /\ UNCHANGED <<corridor, alerts, subscription, optedIn, onHoliday, cache, locals,
                   precompute, counts, faults, edits>>

AlertNext ==
    \/ \E e \in Events : Receive(e)
    \/ RefreshReads \/ RefreshReturns \/ Match \/ Skip \/ NotOnHoliday
    \/ Insert \/ Publish \/ Push \/ Clear
    \/ Fail \/ Restart
    \/ StartPrecompute \/ AddRow \/ Invalidate \/ Age
    \/ Subscribe \/ SetPreferences \/ ExpireSubscription

AlertSpec == AlertInit /\ [][AlertNext]_alertVars

-----------------------------------------------------------------------------

(* However often an event is delivered, and though a train may serve one   *)
(* commute in both directions, an alert is published and pushed once.      *)
AlertedOnce == \A k \in Keys : published[k] <= 1 /\ pushed[k] <= published[k]

(* The loop over the matches passes none over: when an event has been      *)
(* handled without a fault, each of its matches has an alert, from this    *)
(* event or an earlier one, unless the user was found to be on holiday.    *)
NoMatchPassedOver ==
    [][(pc' = "idle" /\ faults' = faults) =>
            \A r \in matched : \/ KeyOf(r) \in alerts'
                               \/ r \in skipped
                               \/ r = match /\ pc = "holiday"]_alertVars

(* An alert that was never published is being raised, or a fault came      *)
(* between its insert and its publication: each fault silences one alert   *)
(* at most.                                                                *)
Unpublished == {k \in alerts : published[k] = 0}
SilentAlertsAreFaults ==
    Cardinality(Unpublished) <= faults + (IF pc = "publish" THEN 1 ELSE 0)

(* The comment of invalidateTrackedUids: a refresh is forced right after a *)
(* precompute, so a set in use holds every train the precompute stored.    *)
InvalidationForcesRefresh == loaded => due \subseteq tracked

(* The comment of the 404 branch: the subscription is gone, clear it.      *)
OnlyExpiredIsCleared == [][Clear => subscription \in gone \cup {None}]_alertVars

=============================================================================
