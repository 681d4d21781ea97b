----------------------------- MODULE NrPosition -----------------------------
(***************************************************************************)
(* The live position of every train, as services/nr-ingest/src/store.ts    *)
(* keeps it: the nr_train_position snapshot, the strikes against a link    *)
(* that looks wrong, and the history row queued for each report.  Frames   *)
(* are handled concurrently (index.ts does not await one before the next); *)
(* a handler is split at its awaits, and handlers of one train run under   *)
(* the lock of FifoLock, which KeyLock shows withKeyLock to implement.     *)
(*                                                                         *)
(* What a query answers is nondeterministic where it depends on Darwin's   *)
(* tables: the plausibility of a link and the rid found for a headcode.    *)
(* The cache in front of that search only narrows these answers.           *)
(***************************************************************************)
EXTENDS FifoLock, FiniteSets

CONSTANTS
    TdKeys,                  \* the keys "TD:" and a headcode; the rest are TRUST ids
    CodedKeys,               \* the TRUST ids that embed a headcode
    Rids,                    \* the Darwin services a train may be linked to
    NoRid,                   \* no link (null)
    NoRow,                   \* no position row for the key
    Unread,                  \* a handler that has not read the row
    Times,                   \* the report times, positive
    RidStrikesBeforeUnlink,  \* consecutive failed checks that drop a link
    RidStrikesMaxEntries,    \* the size at which the strike map is cleared
    MaxFaults                \* bound: failed queries and restarts

Links == Rids \cup {NoRid}

(* A snapshot row; at = 0 stands for a null lastReportedAt, and by is the  *)
(* ticket of the report that wrote the row (a history variable).           *)
Row == [rid : Links, at : Nat, by : Nat]

ASSUME NrAssumption ==
    /\ TdKeys \subseteq Keys /\ CodedKeys \subseteq Keys \ TdKeys
    /\ NoRid \notin Rids /\ Unread \notin Links /\ NoRow \notin Row
    /\ Times \subseteq Nat \ {0}
    /\ RidStrikesBeforeUnlink \in Nat \ {0}
    /\ MaxFaults \in Nat

Reports == Callers

(* A report: `usable` is whether a movement's STANOX maps to a place, a    *)
(* berth step to a station event, and an activation carries a train uid.   *)
Report == [kind : {"movement", "berth"}, at : Times, usable : BOOLEAN]
     \cup [kind : {"activation"}, at : {0}, usable : BOOLEAN]

Steps == {"off", "ref", "return", "read", "check", "find", "write", "record",
          "link", "seed"}

VARIABLES
    msg,       \* the content of each report
    row,       \* the table nr_train_position, by key
    strikes,   \* ridStrikes: failed checks counted against the key's link
    step,      \* the await a report's handler is at
    seen,      \* the rid the handler read from the row
    rid,       \* the handler's local variable rid
    fresh,     \* whether rid is the answer of a search (history variable)
    history,   \* the rows given to queueHistory
    failed,    \* failed checks of the link the row holds (history variable)
    faults     \* failed queries and restarts so far

handler == <<step, seen, rid, fresh>>
vars == <<lockVars, msg, row, strikes, handler, history, failed, faults>>

TypeOK ==
    /\ LockTypeOK
    /\ msg \in [Reports -> Report]
    /\ row \in [Keys -> Row \cup {NoRow}]
    /\ strikes \in [Keys -> 0..(RidStrikesBeforeUnlink - 1)]
    /\ step \in [Reports -> Steps]
    /\ seen \in [Reports -> Links \cup {Unread}]
    /\ rid \in [Reports -> Links]
    /\ fresh \in [Reports -> BOOLEAN]
    /\ history \subseteq [key : Keys, rid : Links, at : Times, by : Nat]
    /\ failed \in [Keys -> Nat]
    /\ faults \in 0..MaxFaults

Init ==
    /\ LockInit
    /\ msg \in [Reports -> Report]
    /\ \A r \in Reports : (msg[r].kind = "berth") <=> (key[r] \in TdKeys)
    /\ row = [k \in Keys |-> NoRow]
    /\ strikes = [k \in Keys |-> 0]
    /\ step = [r \in Reports |-> "off"]
    /\ seen = [r \in Reports |-> Unread]
    /\ rid = [r \in Reports |-> NoRid]
    /\ fresh = [r \in Reports |-> FALSE]
    /\ history = {}
    /\ failed = [k \in Keys |-> 0]
    /\ faults = 0

-----------------------------------------------------------------------------
(* The snapshot table.                                                     *)

LinkOf(k) == IF row[k] = NoRow THEN NoRid ELSE row[k].rid
ReportedAt(k) == IF row[k] = NoRow THEN 0 ELSE row[k].at

(* Mutant: equal times no longer let the later arrival win.                *)
StrictlyNewer(r) == ReportedAt(key[r]) = 0 \/ msg[r].at > ReportedAt(key[r])

(* The where clause of the movement and berth upserts.                     *)
IsAsNew(r) == ReportedAt(key[r]) = 0 \/ msg[r].at >= ReportedAt(key[r])

(* Mutant: an activation writes over a row that a report has spoken for.   *)
AlwaysSeeds(r) == TRUE

(* The where clause of the activation upsert.                              *)
MaySeed(r) == ReportedAt(key[r]) = 0

WriteRow(r) ==
    LET k == key[r]
    IN  /\ row' = [row EXCEPT ![k] = [rid |-> rid[r], at |-> msg[r].at, by |-> ticket[r]]]
        /\ failed' = IF rid[r] = LinkOf(k) THEN failed ELSE [failed EXCEPT ![k] = 0]

Upsert(r) == IF IsAsNew(r) THEN WriteRow(r) ELSE UNCHANGED <<row, failed>>
Seed(r)   == IF MaySeed(r) THEN WriteRow(r) ELSE UNCHANGED <<row, failed>>

-----------------------------------------------------------------------------
(* The handlers.  Goto moves a handler to its next await.                  *)

At(r, s) == phase[r] = "running" /\ step[r] = s
Goto(r, s) == step' = [step EXCEPT ![r] = s]

(* The handler returns or throws: its locals are gone and its lock is      *)
(* released.                                                               *)
Leave(r) ==
    /\ Finish(r)
    /\ Goto(r, "off")
    /\ seen' = [seen EXCEPT ![r] = Unread]
    /\ rid' = [rid EXCEPT ![r] = NoRid]
    /\ fresh' = [fresh EXCEPT ![r] = FALSE]

(* A frame arrives and applyMovement, applyActivation or applyBerthStep is *)
(* called.                                                                 *)
Receive(r) ==
    /\ Call(r)
    /\ UNCHANGED <<msg, row, strikes, handler, history, failed, faults>>

(* The handler's first statements: an activation without a uid returns at  *)
(* once.                                                                   *)
Entered(r) ==
    /\ Goto(r, IF msg[r].kind = "activation" /\ ~msg[r].usable THEN "return" ELSE "ref")
    /\ UNCHANGED <<msg, row, strikes, seen, rid, fresh, history, failed, faults>>

(* The lock is ours.                                                       *)
Begin(r) == Start(r) /\ Entered(r)

(* await ensureRef().  A berth step that is no station event returns.      *)
EnsureRef(r) ==
    /\ At(r, "ref")
    /\ Goto(r, CASE msg[r].kind = "movement"   -> "read"
                 [] msg[r].kind = "activation" -> "link"
                 [] msg[r].kind = "berth"      -> IF msg[r].usable THEN "find" ELSE "return")
    /\ UNCHANGED <<lockVars, msg, row, strikes, seen, rid, fresh, history, failed, faults>>

EarlyReturn(r) ==
    /\ At(r, "return")
    /\ Leave(r)
    /\ UNCHANGED <<msg, row, strikes, history, failed, faults>>

(* The existing row is read, for the rid to carry forward.                 *)
ReadRow(r) ==
    /\ At(r, "read")
    /\ seen' = [seen EXCEPT ![r] = LinkOf(key[r])]
    /\ Goto(r, "check")
    /\ UNCHANGED <<lockVars, msg, row, strikes, rid, fresh, history, failed, faults>>

(* After revalidateRid, with l its answer: a movement left without a link  *)
(* searches by the headcode in its train id; a berth step has searched.    *)
Revalidated(r, l) ==
    /\ rid' = [rid EXCEPT ![r] = l]
    /\ Goto(r, IF l = NoRid /\ msg[r].kind = "movement" /\ key[r] \in CodedKeys
               THEN "find" ELSE "write")
    /\ UNCHANGED <<lockVars, msg, row, seen, fresh, history, faults>>

CanCheck(r) == seen[r] # NoRid /\ msg[r].usable

(* revalidateRid with no link or no place to check it against.             *)
KeepUnchecked(r) ==
    /\ At(r, "check")
    /\ ~CanCheck(r)
    /\ Revalidated(r, seen[r])
    /\ UNCHANGED <<strikes, failed>>

(* The link explains the report, or the query to tell failed (fail open).  *)
CheckPasses(r) ==
    /\ At(r, "check")
    /\ CanCheck(r)
    /\ strikes' = [strikes EXCEPT ![key[r]] = 0]
    /\ failed' = [failed EXCEPT ![key[r]] = 0]
    /\ Revalidated(r, seen[r])

(* Mutant: the first failure already drops the link.                       *)
NoStrikeLeft(k) == FALSE

MayStrike(k) == strikes[k] + 1 < RidStrikesBeforeUnlink

(* The strike map after a strike that keeps the link.                      *)
Struck(k) ==
    LET full == Cardinality({j \in Keys : strikes[j] > 0}) >= RidStrikesMaxEntries
        kept == IF full THEN [j \in Keys |-> 0] ELSE strikes
    IN  [kept EXCEPT ![k] = strikes[k] + 1]

CheckFails(r) ==
    /\ At(r, "check")
    /\ CanCheck(r)
    /\ IF MayStrike(key[r])
       THEN /\ strikes' = Struck(key[r])
            /\ failed' = [failed EXCEPT ![key[r]] = @ + 1]
            /\ Revalidated(r, seen[r])
       ELSE /\ strikes' = [strikes EXCEPT ![key[r]] = 0]
            /\ failed' = [failed EXCEPT ![key[r]] = 0]
            /\ Revalidated(r, NoRid)

(* findRidForHeadcode: a rid, or null for no or no decisive candidate and  *)
(* for a failed query.  A berth step that finds none reads its row.        *)
FindRid(r) ==
    /\ At(r, "find")
    /\ \E l \in Links :
        /\ rid' = [rid EXCEPT ![r] = l]
        /\ fresh' = [fresh EXCEPT ![r] = (l # NoRid)]
        /\ Goto(r, IF l = NoRid /\ msg[r].kind = "berth" THEN "read" ELSE "write")
    /\ UNCHANGED <<lockVars, msg, row, strikes, seen, history, failed, faults>>

(* The guarded upsert of a movement or berth report.                       *)
WriteReport(r) ==
    /\ At(r, "write")
    /\ Upsert(r)
    /\ Goto(r, "record")
    /\ UNCHANGED <<lockVars, msg, strikes, seen, rid, fresh, history, faults>>

(* queueHistory, publishPosition, return: one synchronous stretch.         *)
Record(r) ==
    /\ At(r, "record")
    /\ history' = history \cup {[key |-> key[r], rid |-> rid[r],
                                 at |-> msg[r].at, by |-> ticket[r]]}
    /\ Leave(r)
    /\ UNCHANGED <<msg, row, strikes, failed, faults>>

(* An activation's search: an exact or unique candidate, or null.          *)
LinkActivation(r) ==
    /\ At(r, "link")
    /\ \E l \in Links : rid' = [rid EXCEPT ![r] = l]
    /\ Goto(r, "seed")
    /\ UNCHANGED <<lockVars, msg, row, strikes, seen, fresh, history, failed, faults>>

SeedRow(r) ==
    /\ At(r, "seed")
    /\ Seed(r)
    /\ Leave(r)
    /\ UNCHANGED <<msg, strikes, history, faults>>

-----------------------------------------------------------------------------
(* Faults.                                                                 *)

Fault == faults < MaxFaults /\ faults' = faults + 1

(* A query that no catch covers rejects: the handler throws and the frame  *)
(* is acknowledged all the same.                                           *)
QueryFails(r) ==
    /\ \E s \in {"ref", "read", "write", "link", "seed"} : At(r, s)
    /\ Leave(r)
    /\ Fault
    /\ UNCHANGED <<msg, row, strikes, history, failed>>

(* The upsert is committed but its answer is lost: no history is queued.   *)
AnswerLost(r) ==
    /\ \/ At(r, "write") /\ Upsert(r)
       \/ At(r, "seed") /\ Seed(r)
    /\ Leave(r)
    /\ Fault
    /\ UNCHANGED <<msg, strikes, history>>

(* The process restarts: the lock chains and the strikes are gone, and the *)
(* frames it had not acknowledged are delivered again.                     *)
Restart ==
    /\ Fault
    /\ phase' = [r \in Reports |-> IF phase[r] = "done" THEN "done" ELSE "idle"]
    /\ step' = [r \in Reports |-> "off"]
    /\ seen' = [r \in Reports |-> Unread]
    /\ rid' = [r \in Reports |-> NoRid]
    /\ fresh' = [r \in Reports |-> FALSE]
    /\ strikes' = [k \in Keys |-> 0]
    /\ UNCHANGED <<key, ticket, clock, msg, row, history, failed>>

(* The steps between two awaits, and those that end the handler.           *)
Proceed(r) ==
    \/ EnsureRef(r) \/ ReadRow(r)
    \/ KeepUnchecked(r) \/ CheckPasses(r) \/ CheckFails(r)
    \/ FindRid(r) \/ WriteReport(r) \/ LinkActivation(r)
End(r) == EarlyReturn(r) \/ Record(r) \/ SeedRow(r) \/ QueryFails(r) \/ AnswerLost(r)

Handle(r) == Begin(r) \/ Proceed(r) \/ End(r)

Next == (\E r \in Reports : Receive(r) \/ Handle(r)) \/ Restart

Spec == Init /\ [][Next]_vars

-----------------------------------------------------------------------------

(* The rid a handler carries forward is still the one in the row when it   *)
(* is checked and written: nothing writes the row between a handler's read *)
(* and its write, although other frames are handled at each of its awaits. *)
ReadIsCurrent ==
    \A r \in Reports :
        (phase[r] = "running" /\ step[r] \in {"check", "find", "write"} /\ seen[r] # Unread)
            => seen[r] = LinkOf(key[r])

(* The snapshot never lags behind the history: it holds the rid of the     *)
(* newest report recorded for its key, the last to arrive among equals.    *)
(* This is the divergence reported in the comment of withKeyLock.          *)
SnapshotIsNewest ==
    \A h \in history :
        LET s == row[h.key]
        IN  /\ s # NoRow
            /\ \/ h.at < s.at
               \/ h.at = s.at /\ h.by < s.by
               \/ h.at = s.at /\ h.by = s.by /\ h.rid = s.rid

(* A link that a report rejected comes back only when a search for that    *)
(* very report finds it, never from an older report, a carried-forward     *)
(* value or a late activation.                                             *)
NoResurrection ==
    [][\A k \in Keys :
        (ReportedAt(k) > 0 /\ LinkOf(k) = NoRid /\ LinkOf(k)' # NoRid) =>
            \E r \in Reports : /\ At(r, "write")
                               /\ key[r] = k
                               /\ fresh[r]
                               /\ rid[r] = LinkOf(k)']_vars

(* The snapshot's report time never moves back, whatever the order in      *)
(* which frames arrive, are retried or fail.                               *)
ReportTimeGrows == [][\A k \in Keys : ReportedAt(k)' >= ReportedAt(k)]_vars

(* A link is dropped only after as many consecutive failed checks of that  *)
(* link as RidStrikesBeforeUnlink says: one odd report does not make a     *)
(* train vanish from the boards.                                           *)
DroppedEarly(r) ==
    /\ At(r, "check") /\ CanCheck(r)
    /\ step[r]' \in {"find", "write"} /\ rid[r]' = NoRid
    /\ failed[key[r]] + 1 < RidStrikesBeforeUnlink
UnlinkTakesTwoFailures == [][\A r \in Reports : ~DroppedEarly(r)]_vars

(* The same of the movements of TRUST trains, as long as no query failed   *)
(* or the train is never activated. (A strike whose write failed stays     *)
(* counted when a later activation of the train puts another link into the *)
(* row it had seeded; UnlinkTakesTwoFailures is false of it then.)         *)
Unactivated(k) == \A r \in Reports : key[r] = k => msg[r].kind # "activation"
TrustUnlinkTakesTwoFailures ==
    [][\A r \in Reports :
           (key[r] \notin TdKeys /\ (faults = 0 \/ Unactivated(key[r])))
               => ~DroppedEarly(r)]_vars

=============================================================================
