--------------------------- MODULE NrIngestProofs ---------------------------
(***************************************************************************)
(* Proofs about the nr-ingest service.                                     *)
(*                                                                         *)
(* NrPosition, KeyLock and the two together, for any reports, trains,      *)
(* times and faults: the lock and the two where clauses make a handler's   *)
(* read-resolve-write sequence atomic, and keep the snapshot the newest of *)
(* its history; the promise chain is such a lock, and the handlers over it *)
(* take no step that they do not take under the lock.                      *)
(*                                                                         *)
(* PositionHistory and the process around it, for any set of rows and any  *)
(* batch size: no row is written twice, the buffer stays below its limit,  *)
(* and the shutdown waits for the rows its own flush took.  The process    *)
(* takes only the steps PositionHistory allows, however its connections    *)
(* fail, and has one connection, or one reconnect on its way, whatever the *)
(* number of errors and refusals.                                          *)
(***************************************************************************)
EXTENDS LockedPosition, IngestProcess, FiniteSetTheorems, TLAPS

Active(r) == phase[r] \in {"waiting", "running"}

(* Active reports hold distinct tickets, all handed out by the clock.      *)
TicketsInv ==
    /\ \A r \in Reports : Active(r) => ticket[r] \in 1..clock
    /\ \A r, q \in Reports : (Active(r) /\ Active(q) /\ ticket[r] = ticket[q]) => r = q

(* A running handler arrived before every other active one of its key.     *)
RunsFirst == \A r, q \in Reports :
    (phase[r] = "running" /\ Active(q) /\ key[r] = key[q] /\ r # q) => ticket[r] < ticket[q]

(* Which steps a handler of which kind is at, and what it has read by then.*)
StepsInv == \A r \in Reports :
    /\ phase[r] = "running" <=> step[r] # "off"
    /\ step[r] \in {"off", "ref", "return", "link", "seed"} => seen[r] = Unread
    /\ step[r] \in {"read", "check", "find", "write", "record"} => msg[r].kind # "activation"
    /\ step[r] \in {"link", "seed"} => msg[r].kind = "activation"
    /\ step[r] = "check" => seen[r] # Unread

(* A rid about to be written was found, or is the one that was read.       *)
CarriedInv == \A r \in Reports :
    (step[r] = "write" /\ rid[r] # NoRid /\ ~fresh[r]) => rid[r] = seen[r]

(* What is stored was written by reports that arrived before the active    *)
(* ones, but for the report that has yet to queue its history row.         *)
StoredInv ==
    /\ \A k \in Keys : row[k] # NoRow => row[k].by <= clock
    /\ \A h \in history : h.by <= clock
    /\ \A r \in Reports : \A h \in history :
           (Active(r) /\ key[r] = h.key) => h.by < ticket[r]
    /\ \A r \in Reports :
           (Active(r) /\ row[key[r]] # NoRow /\ step[r] # "record")
               => row[key[r]].by < ticket[r]

(* A report about to queue its history row is in the snapshot, or is older.*)
RecordInv == \A r \in Reports :
    step[r] = "record" =>
        LET s == row[key[r]]
        IN  /\ s # NoRow
            /\ \/ msg[r].at < s.at
               \/ msg[r].at = s.at /\ s.by = ticket[r] /\ s.rid = rid[r]

IInv == /\ TypeOK
        /\ TicketsInv
        /\ RunsFirst
        /\ StepsInv
        /\ CarriedInv
        /\ ReadIsCurrent
        /\ StoredInv
        /\ RecordInv
        /\ SnapshotIsNewest

-----------------------------------------------------------------------------

(* What the message and the lock say of a report, by its kind.             *)
LEMMA ReportFacts ==
    ASSUME TypeOK, NEW r \in Reports
    PROVE  /\ msg[r].at \in Nat
           /\ msg[r].kind # "activation" => msg[r].at \in Times /\ msg[r].at > 0
           /\ msg[r].kind = "activation" => msg[r].at = 0
           /\ ticket[r] \in Nat
           /\ key[r] \in Keys
           /\ rid[r] \in Links
<1>1. msg[r] \in Report
  BY DEF TypeOK
<1>2. msg[r].at \in Nat /\ (msg[r].kind # "activation" => msg[r].at \in Times /\ msg[r].at > 0)
  <2>1. CASE msg[r] \in [kind : {"movement", "berth"}, at : Times, usable : BOOLEAN]
    <3>1. msg[r].at \in Times
      BY <2>1
    <3>2. Times \subseteq Nat \ {0}
      BY NrAssumption
    <3>3. msg[r].at \in Nat /\ msg[r].at # 0
      BY <3>1, <3>2
    <3>4. msg[r].at > 0
      BY <3>3
    <3>5. QED
      BY <3>1, <3>3, <3>4
  <2>2. CASE msg[r] \in [kind : {"activation"}, at : {0}, usable : BOOLEAN]
    BY <2>2
  <2>3. QED
    BY <1>1, <2>1, <2>2 DEF Report
<1>3. msg[r].kind = "activation" => msg[r].at = 0
  BY <1>1 DEF Report
<1>4. ticket[r] \in Nat /\ key[r] \in Keys /\ rid[r] \in Links
  BY DEF TypeOK, LockTypeOK, Reports
<1>5. QED
  BY <1>2, <1>3, <1>4

(* A row that is present has a rid, a time and a writer.                   *)
LEMMA RowFacts ==
    ASSUME TypeOK, NEW k \in Keys
    PROVE  /\ LinkOf(k) \in Links
           /\ ReportedAt(k) \in Nat
           /\ row[k] # NoRow => row[k] \in Row /\ row[k].rid \in Links
                                /\ row[k].at \in Nat /\ row[k].by \in Nat
BY DEF TypeOK, Row, Links, LinkOf, ReportedAt

(* Writing a row sets that row alone.                                      *)
LEMMA WriteRowFacts ==
    ASSUME TypeOK, NEW r \in Reports, WriteRow(r)
    PROVE  /\ row' \in [Keys -> Row \cup {NoRow}]
           /\ failed' \in [Keys -> Nat]
           /\ row'[key[r]] # NoRow
           /\ row'[key[r]].rid = rid[r]
           /\ row'[key[r]].at = msg[r].at
           /\ row'[key[r]].by = ticket[r]
           /\ \A k \in Keys : k # key[r] => row'[k] = row[k]
<1>1. [rid |-> rid[r], at |-> msg[r].at, by |-> ticket[r]] \in Row
  BY ReportFacts DEF Row
<1>2. row \in [Keys -> Row \cup {NoRow}] /\ failed \in [Keys -> Nat] /\ key[r] \in Keys
  BY ReportFacts DEF TypeOK
<1>3. row' = [row EXCEPT ![key[r]] = [rid |-> rid[r], at |-> msg[r].at, by |-> ticket[r]]]
  BY DEF WriteRow
<1>4. failed' \in [Keys -> Nat]
  BY <1>2 DEF WriteRow
<1>5. row'[key[r]] = [rid |-> rid[r], at |-> msg[r].at, by |-> ticket[r]]
  BY <1>2, <1>3
<1>6. QED
  BY <1>1, <1>2, <1>3, <1>4, <1>5, NrAssumption

(* A guarded write either leaves the table alone, because a newer report   *)
(* has been written, or writes the report's row.                           *)
LEMMA UpsertFacts ==
    ASSUME TypeOK, NEW r \in Reports, Upsert(r), msg[r].kind # "activation"
    PROVE  \/ /\ UNCHANGED <<row, failed>>
              /\ row[key[r]] # NoRow
              /\ msg[r].at < row[key[r]].at
           \/ WriteRow(r) /\ (row[key[r]] # NoRow => row[key[r]].at <= msg[r].at)
<1>1. msg[r].at \in Nat /\ msg[r].at > 0 /\ key[r] \in Keys
  BY ReportFacts
<1>2. ReportedAt(key[r]) \in Nat
  BY <1>1, RowFacts
<1>3. CASE IsAsNew(r)
  BY <1>1, <1>2, <1>3 DEF Upsert, IsAsNew, ReportedAt
<1>4. CASE ~IsAsNew(r)
  BY <1>1, <1>2, <1>4 DEF Upsert, IsAsNew, ReportedAt
<1>5. QED
  BY <1>3, <1>4

LEMMA SeedFacts ==
    ASSUME TypeOK, NEW r \in Reports, Seed(r)
    PROVE  \/ UNCHANGED <<row, failed>>
           \/ WriteRow(r) /\ (row[key[r]] # NoRow => row[key[r]].at = 0)
BY DEF Seed, MaySeed, ReportedAt

(* The two together: a handler that stores either finds a newer report     *)
(* stored, or a report already there, or replaces nothing newer.           *)
LEMMA StoreFacts ==
    ASSUME TypeOK, StepsInv, NEW r \in Reports,
           (At(r, "write") /\ Upsert(r)) \/ (At(r, "seed") /\ Seed(r))
    PROVE  /\ row' \in [Keys -> Row \cup {NoRow}]
           /\ failed' \in [Keys -> Nat]
           /\ \A k \in Keys : k # key[r] => row'[k] = row[k]
           /\ \/ /\ row'[key[r]] = row[key[r]]
                 /\ step[r] = "write" => /\ row[key[r]] # NoRow
                                         /\ msg[r].at < row[key[r]].at
              \/ /\ row'[key[r]] # NoRow
                 /\ row'[key[r]].rid = rid[r]
                 /\ row'[key[r]].at = msg[r].at
                 /\ row'[key[r]].by = ticket[r]
                 /\ row[key[r]] # NoRow => row[key[r]].at <= msg[r].at
<1>1. row \in [Keys -> Row \cup {NoRow}] /\ failed \in [Keys -> Nat]
  BY DEF TypeOK
<1>2. CASE At(r, "write") /\ Upsert(r)
  <2>1. msg[r].kind # "activation"
    BY <1>2 DEF StepsInv, At
  <2>2. CASE WriteRow(r)
    BY <1>2, <2>1, <2>2, UpsertFacts, WriteRowFacts
  <2>3. CASE ~WriteRow(r)
    BY <1>1, <1>2, <2>1, <2>3, UpsertFacts
  <2>4. QED
    BY <2>2, <2>3
<1>3. CASE At(r, "seed") /\ Seed(r)
  <2>1. step[r] # "write" /\ msg[r].at = 0
    BY <1>3, ReportFacts DEF StepsInv, At
  <2>2. CASE WriteRow(r)
    BY <1>3, <2>1, <2>2, SeedFacts, WriteRowFacts
  <2>3. CASE ~WriteRow(r)
    BY <1>1, <1>3, <2>1, <2>3, SeedFacts
  <2>4. QED
    BY <2>2, <2>3
<1>4. QED
  BY <1>2, <1>3

LEMMA InitIInv == Init => IInv
BY NrAssumption
   DEF Init, LockInit, IInv, TypeOK, LockTypeOK, Phases, Steps, Links, Reports, Active, TicketsInv,
       RunsFirst, StepsInv, CarriedInv, ReadIsCurrent, StoredInv, RecordInv, SnapshotIsNewest

(* A report arrives behind every active one of its train.                  *)
LEMMA ReceiveIInv == ASSUME IInv, NEW r \in Reports, Receive(r) PROVE IInv'
<1> USE DEF IInv, Receive, Call, handler
<1>1. TypeOK'
  BY NrAssumption DEF TypeOK, LockTypeOK, Phases, Steps, Report, Row, Links,
         Reports, LinkOf, ReportedAt
<1>2. TicketsInv'
  BY NrAssumption DEF TypeOK, LockTypeOK, TicketsInv, Active, Reports
<1>3. RunsFirst'
  BY NrAssumption DEF TypeOK, LockTypeOK, TicketsInv, RunsFirst, Active,
         Reports
<1>4. StepsInv'
  BY NrAssumption DEF TypeOK, LockTypeOK, Steps, StepsInv, Reports, Links,
         LinkOf, Row
<1>5. CarriedInv'
  BY NrAssumption DEF TypeOK, LockTypeOK, Steps, StepsInv, CarriedInv,
         Reports, Links
<1>6. ReadIsCurrent'
  BY NrAssumption DEF TypeOK, LockTypeOK, Row, Steps, StepsInv, RunsFirst,
         TicketsInv, Active, ReadIsCurrent, LinkOf, Reports, ReportedAt
<1>7. StoredInv'
  BY NrAssumption DEF TypeOK, LockTypeOK, Row, StepsInv, RunsFirst,
         TicketsInv, Active, StoredInv, Reports, ReportedAt
<1>8. RecordInv'
  BY NrAssumption DEF TypeOK, LockTypeOK, Row, Report, StepsInv, RunsFirst,
         TicketsInv, Active, RecordInv, Reports, ReportedAt
<1>9. SnapshotIsNewest'
  BY NrAssumption DEF TypeOK, LockTypeOK, Row, Report, StepsInv, StoredInv,
         Active, RecordInv, SnapshotIsNewest, Reports, ReportedAt
<1>10. QED
  BY <1>1, <1>2, <1>3, <1>4, <1>5, <1>6, <1>7, <1>8, <1>9

(* A handler starts only when it is first in line for its key.             *)
LEMMA BeginIInv == ASSUME IInv, NEW r \in Reports, Begin(r) PROVE IInv'
<1> USE DEF IInv, Begin, Entered, Start, Ahead, Goto
<1>1. TypeOK'
  BY NrAssumption DEF TypeOK, LockTypeOK, Phases, Steps, Report, Row, Links,
         Reports, LinkOf, ReportedAt
<1>2. TicketsInv'
  BY NrAssumption DEF TypeOK, LockTypeOK, TicketsInv, Active, Reports
<1>3. RunsFirst'
  BY NrAssumption DEF TypeOK, LockTypeOK, TicketsInv, RunsFirst, Active,
         Reports
<1>4. StepsInv'
  BY NrAssumption DEF TypeOK, LockTypeOK, Steps, StepsInv, Reports, Links,
         LinkOf, Row
<1>5. CarriedInv'
  BY NrAssumption DEF TypeOK, LockTypeOK, Steps, StepsInv, CarriedInv,
         Reports, Links
<1>6. ReadIsCurrent'
  BY NrAssumption DEF TypeOK, LockTypeOK, Row, Steps, StepsInv, RunsFirst,
         TicketsInv, Active, ReadIsCurrent, LinkOf, Reports, ReportedAt
<1>7. StoredInv'
  BY NrAssumption DEF TypeOK, LockTypeOK, Row, StepsInv, RunsFirst,
         TicketsInv, Active, StoredInv, Reports, ReportedAt
<1>8. RecordInv'
  BY NrAssumption DEF TypeOK, LockTypeOK, Row, Report, StepsInv, RunsFirst,
         TicketsInv, Active, RecordInv, Reports, ReportedAt
<1>9. SnapshotIsNewest'
  BY NrAssumption DEF TypeOK, LockTypeOK, Row, Report, StepsInv, StoredInv,
         Active, RecordInv, SnapshotIsNewest, Reports, ReportedAt
<1>10. QED
  BY <1>1, <1>2, <1>3, <1>4, <1>5, <1>6, <1>7, <1>8, <1>9

LEMMA EnsureRefIInv == ASSUME IInv, NEW r \in Reports, EnsureRef(r) PROVE IInv'
<1> USE DEF IInv, EnsureRef, At, Goto, lockVars
<1>1. TypeOK'
  BY NrAssumption DEF TypeOK, LockTypeOK, Phases, Steps, Report, Row, Links,
         Reports, LinkOf, ReportedAt
<1>2. TicketsInv'
  BY NrAssumption DEF TypeOK, LockTypeOK, TicketsInv, Active, Reports
<1>3. RunsFirst'
  BY NrAssumption DEF TypeOK, LockTypeOK, TicketsInv, RunsFirst, Active,
         Reports
<1>4. StepsInv'
  <2>1. CASE msg[r].kind = "movement"
    BY <2>1 DEF TypeOK, LockTypeOK, StepsInv, Reports
  <2>2. CASE msg[r].kind = "activation"
    BY <2>2 DEF TypeOK, LockTypeOK, StepsInv, Reports
  <2>3. CASE msg[r].kind = "berth"
    BY <2>3 DEF TypeOK, LockTypeOK, StepsInv, Reports
  <2>4. QED
    BY <2>1, <2>2, <2>3 DEF TypeOK, Report
<1>5. CarriedInv'
  <2>1. CASE msg[r].kind = "movement"
    BY <2>1 DEF TypeOK, LockTypeOK, CarriedInv, Reports
  <2>2. CASE msg[r].kind = "activation"
    BY <2>2 DEF TypeOK, LockTypeOK, CarriedInv, Reports
  <2>3. CASE msg[r].kind = "berth"
    BY <2>3 DEF TypeOK, LockTypeOK, CarriedInv, Reports
  <2>4. QED
    BY <2>1, <2>2, <2>3 DEF TypeOK, Report
<1>6. ReadIsCurrent'
  BY NrAssumption DEF TypeOK, LockTypeOK, Row, Steps, StepsInv, RunsFirst,
         TicketsInv, Active, ReadIsCurrent, LinkOf, Reports, ReportedAt
<1>7. StoredInv'
  BY NrAssumption DEF TypeOK, LockTypeOK, Row, StepsInv, RunsFirst,
         TicketsInv, Active, StoredInv, Reports, ReportedAt
<1>8. RecordInv'
  BY NrAssumption DEF TypeOK, LockTypeOK, Row, Report, StepsInv, RunsFirst,
         TicketsInv, Active, RecordInv, Reports, ReportedAt
<1>9. SnapshotIsNewest'
  BY NrAssumption DEF TypeOK, LockTypeOK, Row, Report, StepsInv, StoredInv,
         Active, RecordInv, SnapshotIsNewest, Reports, ReportedAt
<1>10. QED
  BY <1>1, <1>2, <1>3, <1>4, <1>5, <1>6, <1>7, <1>8, <1>9

LEMMA EarlyReturnIInv == ASSUME IInv, NEW r \in Reports, EarlyReturn(r) PROVE IInv'
<1> USE DEF IInv, EarlyReturn, At, Leave, Finish, Goto
<1>1. TypeOK'
  BY NrAssumption DEF TypeOK, LockTypeOK, Phases, Steps, Report, Row, Links,
         Reports, LinkOf, ReportedAt
<1>2. TicketsInv'
  BY NrAssumption DEF TypeOK, LockTypeOK, TicketsInv, Active, Reports
<1>3. RunsFirst'
  BY NrAssumption DEF TypeOK, LockTypeOK, TicketsInv, RunsFirst, Active,
         Reports
<1>4. StepsInv'
  BY NrAssumption DEF TypeOK, LockTypeOK, Steps, StepsInv, Reports, Links,
         LinkOf, Row
<1>5. CarriedInv'
  BY NrAssumption DEF TypeOK, LockTypeOK, Steps, StepsInv, CarriedInv,
         Reports, Links
<1>6. ReadIsCurrent'
  BY NrAssumption DEF TypeOK, LockTypeOK, Row, Steps, StepsInv, RunsFirst,
         TicketsInv, Active, ReadIsCurrent, LinkOf, Reports, ReportedAt
<1>7. StoredInv'
  BY NrAssumption DEF TypeOK, LockTypeOK, Row, StepsInv, RunsFirst,
         TicketsInv, Active, StoredInv, Reports, ReportedAt
<1>8. RecordInv'
  BY NrAssumption DEF TypeOK, LockTypeOK, Row, Report, StepsInv, RunsFirst,
         TicketsInv, Active, RecordInv, Reports, ReportedAt
<1>9. SnapshotIsNewest'
  BY NrAssumption DEF TypeOK, LockTypeOK, Row, Report, StepsInv, StoredInv,
         Active, RecordInv, SnapshotIsNewest, Reports, ReportedAt
<1>10. QED
  BY <1>1, <1>2, <1>3, <1>4, <1>5, <1>6, <1>7, <1>8, <1>9

LEMMA ReadRowIInv == ASSUME IInv, NEW r \in Reports, ReadRow(r) PROVE IInv'
<1> USE DEF IInv, ReadRow, At, Goto, lockVars
<1>1. TypeOK'
  BY NrAssumption DEF TypeOK, LockTypeOK, Phases, Steps, Report, Row, Links,
         Reports, LinkOf, ReportedAt
<1>2. TicketsInv'
  BY NrAssumption DEF TypeOK, LockTypeOK, TicketsInv, Active, Reports
<1>3. RunsFirst'
  BY NrAssumption DEF TypeOK, LockTypeOK, TicketsInv, RunsFirst, Active,
         Reports
<1>4. StepsInv'
  BY NrAssumption DEF TypeOK, LockTypeOK, Steps, StepsInv, Reports, Links,
         LinkOf, Row
<1>5. CarriedInv'
  BY NrAssumption DEF TypeOK, LockTypeOK, Steps, StepsInv, CarriedInv,
         Reports, Links
<1>6. ReadIsCurrent'
  BY NrAssumption DEF TypeOK, LockTypeOK, Row, Steps, StepsInv, RunsFirst,
         TicketsInv, Active, ReadIsCurrent, LinkOf, Reports, ReportedAt
<1>7. StoredInv'
  BY NrAssumption DEF TypeOK, LockTypeOK, Row, StepsInv, RunsFirst,
         TicketsInv, Active, StoredInv, Reports, ReportedAt
<1>8. RecordInv'
  BY NrAssumption DEF TypeOK, LockTypeOK, Row, Report, StepsInv, RunsFirst,
         TicketsInv, Active, RecordInv, Reports, ReportedAt
<1>9. SnapshotIsNewest'
  BY NrAssumption DEF TypeOK, LockTypeOK, Row, Report, StepsInv, StoredInv,
         Active, RecordInv, SnapshotIsNewest, Reports, ReportedAt
<1>10. QED
  BY <1>1, <1>2, <1>3, <1>4, <1>5, <1>6, <1>7, <1>8, <1>9

(* revalidateRid hands on the link that was read, or drops it.             *)
LEMMA CheckIInv == ASSUME IInv, NEW r \in Reports,
   KeepUnchecked(r) \/ CheckPasses(r) \/ CheckFails(r) PROVE IInv'
<1> USE DEF IInv, KeepUnchecked, CheckPasses, CheckFails, CanCheck, MayStrike,
         Struck, Revalidated, At, Goto, lockVars
<1>1. TypeOK'
  <2>1. strikes' \in [Keys -> 0..(RidStrikesBeforeUnlink - 1)]
    <3> DEFINE S == 0..(RidStrikesBeforeUnlink - 1)
    <3>1. strikes \in [Keys -> S] /\ 0 \in S /\ key[r] \in Keys
      BY NrAssumption, ReportFacts DEF TypeOK
    <3>2. CASE CheckFails(r) /\ MayStrike(key[r])
      <4>1. strikes[key[r]] + 1 \in S
        BY <3>1, <3>2, NrAssumption
      <4>2. Struck(key[r]) \in [Keys -> S]
        BY <3>1, <4>1
      <4>3. QED
        BY <3>2, <4>2
    <3>3. CASE ~(CheckFails(r) /\ MayStrike(key[r]))
      BY <3>1, <3>3
    <3>4. QED
      BY <3>2, <3>3
  <2>2. failed' \in [Keys -> Nat]
    BY DEF TypeOK
  <2>3. rid' \in [Reports -> Links] /\ step' \in [Reports -> Steps]
    BY DEF TypeOK, StepsInv, Links, Steps
  <2>4. QED
    BY <2>1, <2>2, <2>3 DEF TypeOK, LockTypeOK
<1>2. TicketsInv'
  BY NrAssumption DEF TypeOK, LockTypeOK, TicketsInv, Active, Reports
<1>3. RunsFirst'
  BY NrAssumption DEF TypeOK, LockTypeOK, TicketsInv, RunsFirst, Active,
         Reports
<1>4. StepsInv'
  BY NrAssumption DEF TypeOK, LockTypeOK, Steps, StepsInv, Reports, Links,
         LinkOf, Row
<1>5. CarriedInv'
  BY NrAssumption DEF TypeOK, LockTypeOK, Steps, StepsInv, CarriedInv,
         Reports, Links
<1>6. ReadIsCurrent'
  BY NrAssumption DEF TypeOK, LockTypeOK, Row, Steps, StepsInv, RunsFirst,
         TicketsInv, Active, ReadIsCurrent, LinkOf, Reports, ReportedAt
<1>7. StoredInv'
  BY NrAssumption DEF TypeOK, LockTypeOK, Row, StepsInv, RunsFirst,
         TicketsInv, Active, StoredInv, Reports, ReportedAt
<1>8. RecordInv'
  BY NrAssumption DEF TypeOK, LockTypeOK, Row, Report, StepsInv, RunsFirst,
         TicketsInv, Active, RecordInv, Reports, ReportedAt
<1>9. SnapshotIsNewest'
  BY NrAssumption DEF TypeOK, LockTypeOK, Row, Report, StepsInv, StoredInv,
         Active, RecordInv, SnapshotIsNewest, Reports, ReportedAt
<1>10. QED
  BY <1>1, <1>2, <1>3, <1>4, <1>5, <1>6, <1>7, <1>8, <1>9

LEMMA FindRidIInv == ASSUME IInv, NEW r \in Reports, FindRid(r) PROVE IInv'
<1> USE DEF IInv, FindRid, At, Goto, lockVars
<1>1. TypeOK'
  BY NrAssumption DEF TypeOK, LockTypeOK, Phases, Steps, Report, Row, Links,
         Reports, LinkOf, ReportedAt
<1>2. TicketsInv'
  BY NrAssumption DEF TypeOK, LockTypeOK, TicketsInv, Active, Reports
<1>3. RunsFirst'
  BY NrAssumption DEF TypeOK, LockTypeOK, TicketsInv, RunsFirst, Active,
         Reports
<1>4. StepsInv'
  BY NrAssumption DEF TypeOK, LockTypeOK, Steps, StepsInv, Reports, Links,
         LinkOf, Row
<1>5. CarriedInv'
  BY NrAssumption DEF TypeOK, LockTypeOK, Steps, StepsInv, CarriedInv,
         Reports, Links
<1>6. ReadIsCurrent'
  BY NrAssumption DEF TypeOK, LockTypeOK, Row, Steps, StepsInv, RunsFirst,
         TicketsInv, Active, ReadIsCurrent, LinkOf, Reports, ReportedAt
<1>7. StoredInv'
  BY NrAssumption DEF TypeOK, LockTypeOK, Row, StepsInv, RunsFirst,
         TicketsInv, Active, StoredInv, Reports, ReportedAt
<1>8. RecordInv'
  BY NrAssumption DEF TypeOK, LockTypeOK, Row, Report, StepsInv, RunsFirst,
         TicketsInv, Active, RecordInv, Reports, ReportedAt
<1>9. SnapshotIsNewest'
  BY NrAssumption DEF TypeOK, LockTypeOK, Row, Report, StepsInv, StoredInv,
         Active, RecordInv, SnapshotIsNewest, Reports, ReportedAt
<1>10. QED
  BY <1>1, <1>2, <1>3, <1>4, <1>5, <1>6, <1>7, <1>8, <1>9

(* The guarded upsert, by the only running handler of its key.             *)
LEMMA WriteReportIInv == ASSUME IInv, NEW r \in Reports, WriteReport(r) PROVE IInv'
<1> USE DEF IInv, WriteReport, At, Goto, lockVars
<1> DEFINE k0 == key[r]
<1>0. /\ row' \in [Keys -> Row \cup {NoRow}] /\ failed' \in [Keys -> Nat]
      /\ \A k \in Keys : k # k0 => row'[k] = row[k]
      /\ \/ /\ row'[k0] = row[k0]
            /\ step[r] = "write" => row[k0] # NoRow /\ msg[r].at < row[k0].at
         \/ /\ row'[k0] # NoRow /\ row'[k0].rid = rid[r]
            /\ row'[k0].at = msg[r].at /\ row'[k0].by = ticket[r]
            /\ row[k0] # NoRow => row[k0].at <= msg[r].at
  BY StoreFacts
<1>1. TypeOK'
  <2>1. phase' \in [Callers -> Phases] /\ step' \in [Reports -> Steps]
    BY DEF TypeOK, LockTypeOK, Phases, Steps, Reports
  <2>2. seen' \in [Reports -> Links \cup {Unread}] /\ rid' \in [Reports -> Links]
        /\ fresh' \in [Reports -> BOOLEAN]
    BY DEF TypeOK, Links
  <2>3. faults' \in 0..MaxFaults
    BY NrAssumption DEF TypeOK
  <2>4. QED
    BY <1>0, <2>1, <2>2, <2>3 DEF TypeOK, LockTypeOK
<1>2. TicketsInv'
  BY NrAssumption DEF TypeOK, LockTypeOK, TicketsInv, Active, Reports
<1>3. RunsFirst'
  BY NrAssumption DEF TypeOK, LockTypeOK, TicketsInv, RunsFirst, Active,
         Reports
<1>4. StepsInv'
  BY NrAssumption DEF TypeOK, LockTypeOK, Steps, StepsInv, Reports, Links,
         LinkOf, Row
<1>5. CarriedInv'
  BY NrAssumption DEF TypeOK, LockTypeOK, Steps, StepsInv, CarriedInv,
         Reports, Links
<1>6. ReadIsCurrent'
  BY <1>0, ReportFacts DEF TypeOK, LockTypeOK, StepsInv, RunsFirst, Active, ReadIsCurrent,
     LinkOf, Reports
<1>7. StoredInv'
  BY <1>0, ReportFacts DEF TypeOK, LockTypeOK, StepsInv, RunsFirst, TicketsInv, Active,
     StoredInv, Reports
<1>8. RecordInv'
  BY <1>0, ReportFacts DEF TypeOK, LockTypeOK, StepsInv, RunsFirst, TicketsInv, Active,
     RecordInv, Reports
<1>9. SnapshotIsNewest'
  <2> SUFFICES ASSUME NEW h \in history
               PROVE  LET s == row'[h.key]
                      IN  /\ s # NoRow
                          /\ \/ h.at < s.at
                             \/ h.at = s.at /\ h.by < s.by
                             \/ h.at = s.at /\ h.by = s.by /\ h.rid = s.rid
    BY DEF SnapshotIsNewest
  <2>1. h.key \in Keys /\ h.at \in Nat /\ h.by \in Nat
    BY NrAssumption DEF TypeOK
  <2>2. CASE h.key # k0
    BY <1>0, <2>1, <2>2 DEF SnapshotIsNewest
  <2>3. CASE h.key = k0 /\ row'[k0] = row[k0]
    BY <2>3 DEF SnapshotIsNewest
  <2>4. CASE h.key = k0 /\ row'[k0] # row[k0]
    <3>1. h.by < ticket[r]
      BY <2>4 DEF StoredInv, Active
    <3>2. row[k0] # NoRow
      BY <2>4 DEF SnapshotIsNewest
    <3>3. row[k0].at \in Nat /\ msg[r].at \in Nat
      BY <3>2, RowFacts, ReportFacts
    <3>4. h.at <= row[k0].at
      BY <2>1, <2>4, <3>3 DEF SnapshotIsNewest
    <3>5. QED
      BY <1>0, <2>1, <2>4, <3>1, <3>2, <3>3, <3>4
  <2>5. QED
    BY <2>2, <2>3, <2>4
<1>10. QED
  BY <1>1, <1>2, <1>3, <1>4, <1>5, <1>6, <1>7, <1>8, <1>9

LEMMA RecordIInv == ASSUME IInv, NEW r \in Reports, Record(r) PROVE IInv'
<1> USE DEF IInv, Record, At, Leave, Finish, Goto
<1>1. TypeOK'
  <2>1. msg[r].kind # "activation"
    BY DEF StepsInv
  <2>2. ticket[r] \in Nat /\ key[r] \in Keys /\ rid[r] \in Links /\ msg[r].at \in Times
    BY <2>1, ReportFacts
  <2>3. history' \subseteq [key : Keys, rid : Links, at : Times, by : Nat]
    BY <2>2 DEF TypeOK
  <2>4. phase' \in [Callers -> Phases] /\ step' \in [Reports -> Steps]
    BY DEF TypeOK, LockTypeOK, Phases, Steps
  <2>5. seen' \in [Reports -> Links \cup {Unread}] /\ rid' \in [Reports -> Links]
        /\ fresh' \in [Reports -> BOOLEAN]
    BY DEF TypeOK, Links
  <2>6. QED
    BY <2>3, <2>4, <2>5 DEF TypeOK, LockTypeOK
<1>2. TicketsInv'
  BY NrAssumption DEF TypeOK, LockTypeOK, TicketsInv, Active, Reports
<1>3. RunsFirst'
  BY NrAssumption DEF TypeOK, LockTypeOK, TicketsInv, RunsFirst, Active,
         Reports
<1>4. StepsInv'
  BY NrAssumption DEF TypeOK, LockTypeOK, Steps, StepsInv, Reports, Links,
         LinkOf, Row
<1>5. CarriedInv'
  BY NrAssumption DEF TypeOK, LockTypeOK, Steps, StepsInv, CarriedInv,
         Reports, Links
<1>6. ReadIsCurrent'
  BY NrAssumption DEF TypeOK, LockTypeOK, Row, Steps, StepsInv, RunsFirst,
         TicketsInv, Active, ReadIsCurrent, LinkOf, Reports, ReportedAt
<1>7. StoredInv'
  BY NrAssumption DEF TypeOK, LockTypeOK, Row, StepsInv, RunsFirst,
         TicketsInv, Active, StoredInv, Reports, ReportedAt
<1>8. RecordInv'
  BY NrAssumption DEF TypeOK, LockTypeOK, Row, Report, StepsInv, RunsFirst,
         TicketsInv, Active, RecordInv, Reports, ReportedAt
<1>9. SnapshotIsNewest'
  BY NrAssumption DEF TypeOK, LockTypeOK, Row, Report, StepsInv, StoredInv,
         Active, RecordInv, SnapshotIsNewest, Reports, ReportedAt
<1>10. QED
  BY <1>1, <1>2, <1>3, <1>4, <1>5, <1>6, <1>7, <1>8, <1>9

LEMMA LinkActivationIInv == ASSUME IInv, NEW r \in Reports, LinkActivation(r) PROVE IInv'
<1> USE DEF IInv, LinkActivation, At, Goto, lockVars
<1>1. TypeOK'
  BY NrAssumption DEF TypeOK, LockTypeOK, Phases, Steps, Report, Row, Links,
         Reports, LinkOf, ReportedAt
<1>2. TicketsInv'
  BY NrAssumption DEF TypeOK, LockTypeOK, TicketsInv, Active, Reports
<1>3. RunsFirst'
  BY NrAssumption DEF TypeOK, LockTypeOK, TicketsInv, RunsFirst, Active,
         Reports
<1>4. StepsInv'
  BY NrAssumption DEF TypeOK, LockTypeOK, Steps, StepsInv, Reports, Links,
         LinkOf, Row
<1>5. CarriedInv'
  BY NrAssumption DEF TypeOK, LockTypeOK, Steps, StepsInv, CarriedInv,
         Reports, Links
<1>6. ReadIsCurrent'
  BY NrAssumption DEF TypeOK, LockTypeOK, Row, Steps, StepsInv, RunsFirst,
         TicketsInv, Active, ReadIsCurrent, LinkOf, Reports, ReportedAt
<1>7. StoredInv'
  BY NrAssumption DEF TypeOK, LockTypeOK, Row, StepsInv, RunsFirst,
         TicketsInv, Active, StoredInv, Reports, ReportedAt
<1>8. RecordInv'
  BY NrAssumption DEF TypeOK, LockTypeOK, Row, Report, StepsInv, RunsFirst,
         TicketsInv, Active, RecordInv, Reports, ReportedAt
<1>9. SnapshotIsNewest'
  BY NrAssumption DEF TypeOK, LockTypeOK, Row, Report, StepsInv, StoredInv,
         Active, RecordInv, SnapshotIsNewest, Reports, ReportedAt
<1>10. QED
  BY <1>1, <1>2, <1>3, <1>4, <1>5, <1>6, <1>7, <1>8, <1>9

(* An activation writes only a row that no report has spoken for.          *)
LEMMA SeedRowIInv == ASSUME IInv, NEW r \in Reports, SeedRow(r) PROVE IInv'
<1> USE DEF IInv, SeedRow, At, Leave, Finish, Goto
<1> DEFINE k0 == key[r]
<1>0. /\ row' \in [Keys -> Row \cup {NoRow}] /\ failed' \in [Keys -> Nat]
      /\ \A k \in Keys : k # k0 => row'[k] = row[k]
      /\ \/ /\ row'[k0] = row[k0]
            /\ step[r] = "write" => row[k0] # NoRow /\ msg[r].at < row[k0].at
         \/ /\ row'[k0] # NoRow /\ row'[k0].rid = rid[r]
            /\ row'[k0].at = msg[r].at /\ row'[k0].by = ticket[r]
            /\ row[k0] # NoRow => row[k0].at <= msg[r].at
  BY StoreFacts
<1>1. TypeOK'
  <2>1. phase' \in [Callers -> Phases] /\ step' \in [Reports -> Steps]
    BY DEF TypeOK, LockTypeOK, Phases, Steps, Reports
  <2>2. seen' \in [Reports -> Links \cup {Unread}] /\ rid' \in [Reports -> Links]
        /\ fresh' \in [Reports -> BOOLEAN]
    BY DEF TypeOK, Links
  <2>3. faults' \in 0..MaxFaults
    BY NrAssumption DEF TypeOK
  <2>4. QED
    BY <1>0, <2>1, <2>2, <2>3 DEF TypeOK, LockTypeOK
<1>2. TicketsInv'
  BY NrAssumption DEF TypeOK, LockTypeOK, TicketsInv, Active, Reports
<1>3. RunsFirst'
  BY NrAssumption DEF TypeOK, LockTypeOK, TicketsInv, RunsFirst, Active,
         Reports
<1>4. StepsInv'
  BY NrAssumption DEF TypeOK, LockTypeOK, Steps, StepsInv, Reports, Links,
         LinkOf, Row
<1>5. CarriedInv'
  BY NrAssumption DEF TypeOK, LockTypeOK, Steps, StepsInv, CarriedInv,
         Reports, Links
<1>6. ReadIsCurrent'
  BY <1>0, ReportFacts DEF TypeOK, LockTypeOK, StepsInv, RunsFirst, Active, ReadIsCurrent,
     LinkOf, Reports
<1>7. StoredInv'
  BY <1>0, ReportFacts DEF TypeOK, LockTypeOK, StepsInv, RunsFirst, TicketsInv, Active,
     StoredInv, Reports
<1>8. RecordInv'
  BY <1>0, ReportFacts DEF TypeOK, LockTypeOK, StepsInv, RunsFirst, TicketsInv, Active,
     RecordInv, Reports
<1>9. SnapshotIsNewest'
  <2> SUFFICES ASSUME NEW h \in history
               PROVE  LET s == row'[h.key]
                      IN  /\ s # NoRow
                          /\ \/ h.at < s.at
                             \/ h.at = s.at /\ h.by < s.by
                             \/ h.at = s.at /\ h.by = s.by /\ h.rid = s.rid
    BY DEF SnapshotIsNewest
  <2>1. h.key \in Keys /\ h.at \in Nat /\ h.by \in Nat
    BY NrAssumption DEF TypeOK
  <2>2. CASE h.key # k0
    BY <1>0, <2>1, <2>2 DEF SnapshotIsNewest
  <2>3. CASE h.key = k0 /\ row'[k0] = row[k0]
    BY <2>3 DEF SnapshotIsNewest
  <2>4. CASE h.key = k0 /\ row'[k0] # row[k0]
    <3>1. h.by < ticket[r]
      BY <2>4 DEF StoredInv, Active
    <3>2. row[k0] # NoRow
      BY <2>4 DEF SnapshotIsNewest
    <3>3. row[k0].at \in Nat /\ msg[r].at \in Nat
      BY <3>2, RowFacts, ReportFacts
    <3>4. h.at <= row[k0].at
      BY <2>1, <2>4, <3>3 DEF SnapshotIsNewest
    <3>5. QED
      BY <1>0, <2>1, <2>4, <3>1, <3>2, <3>3, <3>4
  <2>5. QED
    BY <2>2, <2>3, <2>4
<1>10. QED
  BY <1>1, <1>2, <1>3, <1>4, <1>5, <1>6, <1>7, <1>8, <1>9

LEMMA QueryFailsIInv == ASSUME IInv, NEW r \in Reports, QueryFails(r) PROVE IInv'
<1> USE DEF IInv, QueryFails, At, Leave, Finish, Goto, Fault
<1>1. TypeOK'
  BY NrAssumption DEF TypeOK, LockTypeOK, Phases, Steps, Report, Row, Links,
         Reports, LinkOf, ReportedAt
<1>2. TicketsInv'
  BY NrAssumption DEF TypeOK, LockTypeOK, TicketsInv, Active, Reports
<1>3. RunsFirst'
  BY NrAssumption DEF TypeOK, LockTypeOK, TicketsInv, RunsFirst, Active,
         Reports
<1>4. StepsInv'
  BY NrAssumption DEF TypeOK, LockTypeOK, Steps, StepsInv, Reports, Links,
         LinkOf, Row
<1>5. CarriedInv'
  BY NrAssumption DEF TypeOK, LockTypeOK, Steps, StepsInv, CarriedInv,
         Reports, Links
<1>6. ReadIsCurrent'
  BY NrAssumption DEF TypeOK, LockTypeOK, Row, Steps, StepsInv, RunsFirst,
         TicketsInv, Active, ReadIsCurrent, LinkOf, Reports, ReportedAt
<1>7. StoredInv'
  BY NrAssumption DEF TypeOK, LockTypeOK, Row, StepsInv, RunsFirst,
         TicketsInv, Active, StoredInv, Reports, ReportedAt
<1>8. RecordInv'
  BY NrAssumption DEF TypeOK, LockTypeOK, Row, Report, StepsInv, RunsFirst,
         TicketsInv, Active, RecordInv, Reports, ReportedAt
<1>9. SnapshotIsNewest'
  BY NrAssumption DEF TypeOK, LockTypeOK, Row, Report, StepsInv, StoredInv,
         Active, RecordInv, SnapshotIsNewest, Reports, ReportedAt
<1>10. QED
  BY <1>1, <1>2, <1>3, <1>4, <1>5, <1>6, <1>7, <1>8, <1>9

LEMMA AnswerLostIInv == ASSUME IInv, NEW r \in Reports, AnswerLost(r) PROVE IInv'
<1> USE DEF IInv, AnswerLost, At, Leave, Finish, Goto, Fault
<1> DEFINE k0 == key[r]
<1>0. /\ row' \in [Keys -> Row \cup {NoRow}] /\ failed' \in [Keys -> Nat]
      /\ \A k \in Keys : k # k0 => row'[k] = row[k]
      /\ \/ /\ row'[k0] = row[k0]
            /\ step[r] = "write" => row[k0] # NoRow /\ msg[r].at < row[k0].at
         \/ /\ row'[k0] # NoRow /\ row'[k0].rid = rid[r]
            /\ row'[k0].at = msg[r].at /\ row'[k0].by = ticket[r]
            /\ row[k0] # NoRow => row[k0].at <= msg[r].at
  BY StoreFacts
<1>1. TypeOK'
  <2>1. phase' \in [Callers -> Phases] /\ step' \in [Reports -> Steps]
    BY DEF TypeOK, LockTypeOK, Phases, Steps, Reports
  <2>2. seen' \in [Reports -> Links \cup {Unread}] /\ rid' \in [Reports -> Links]
        /\ fresh' \in [Reports -> BOOLEAN]
    BY DEF TypeOK, Links
  <2>3. faults' \in 0..MaxFaults
    BY NrAssumption DEF TypeOK
  <2>4. QED
    BY <1>0, <2>1, <2>2, <2>3 DEF TypeOK, LockTypeOK
<1>2. TicketsInv'
  BY NrAssumption DEF TypeOK, LockTypeOK, TicketsInv, Active, Reports
<1>3. RunsFirst'
  BY NrAssumption DEF TypeOK, LockTypeOK, TicketsInv, RunsFirst, Active,
         Reports
<1>4. StepsInv'
  BY NrAssumption DEF TypeOK, LockTypeOK, Steps, StepsInv, Reports, Links,
         LinkOf, Row
<1>5. CarriedInv'
  BY NrAssumption DEF TypeOK, LockTypeOK, Steps, StepsInv, CarriedInv,
         Reports, Links
<1>6. ReadIsCurrent'
  BY <1>0, ReportFacts DEF TypeOK, LockTypeOK, StepsInv, RunsFirst, Active, ReadIsCurrent,
     LinkOf, Reports
<1>7. StoredInv'
  BY <1>0, ReportFacts DEF TypeOK, LockTypeOK, StepsInv, RunsFirst, TicketsInv, Active,
     StoredInv, Reports
<1>8. RecordInv'
  BY <1>0, ReportFacts DEF TypeOK, LockTypeOK, StepsInv, RunsFirst, TicketsInv, Active,
     RecordInv, Reports
<1>9. SnapshotIsNewest'
  <2> SUFFICES ASSUME NEW h \in history
               PROVE  LET s == row'[h.key]
                      IN  /\ s # NoRow
                          /\ \/ h.at < s.at
                             \/ h.at = s.at /\ h.by < s.by
                             \/ h.at = s.at /\ h.by = s.by /\ h.rid = s.rid
    BY DEF SnapshotIsNewest
  <2>1. h.key \in Keys /\ h.at \in Nat /\ h.by \in Nat
    BY NrAssumption DEF TypeOK
  <2>2. CASE h.key # k0
    BY <1>0, <2>1, <2>2 DEF SnapshotIsNewest
  <2>3. CASE h.key = k0 /\ row'[k0] = row[k0]
    BY <2>3 DEF SnapshotIsNewest
  <2>4. CASE h.key = k0 /\ row'[k0] # row[k0]
    <3>1. h.by < ticket[r]
      BY <2>4 DEF StoredInv, Active
    <3>2. row[k0] # NoRow
      BY <2>4 DEF SnapshotIsNewest
    <3>3. row[k0].at \in Nat /\ msg[r].at \in Nat
      BY <3>2, RowFacts, ReportFacts
    <3>4. h.at <= row[k0].at
      BY <2>1, <2>4, <3>3 DEF SnapshotIsNewest
    <3>5. QED
      BY <1>0, <2>1, <2>4, <3>1, <3>2, <3>3, <3>4
  <2>5. QED
    BY <2>2, <2>3, <2>4
<1>10. QED
  BY <1>1, <1>2, <1>3, <1>4, <1>5, <1>6, <1>7, <1>8, <1>9

(* After a restart no report is active.                                    *)
LEMMA RestartIInv == ASSUME IInv, Restart PROVE IInv'
<1> USE DEF IInv, Restart, Fault
<1>1. TypeOK'
  BY NrAssumption DEF TypeOK, LockTypeOK, Phases, Steps, Report, Row, Links,
         Reports, LinkOf, ReportedAt
<1>2. TicketsInv'
  BY NrAssumption DEF TypeOK, LockTypeOK, TicketsInv, Active, Reports
<1>3. RunsFirst'
  BY NrAssumption DEF TypeOK, LockTypeOK, TicketsInv, RunsFirst, Active,
         Reports
<1>4. StepsInv'
  BY NrAssumption DEF TypeOK, LockTypeOK, Steps, StepsInv, Reports, Links,
         LinkOf, Row
<1>5. CarriedInv'
  BY NrAssumption DEF TypeOK, LockTypeOK, Steps, StepsInv, CarriedInv,
         Reports, Links
<1>6. ReadIsCurrent'
  BY NrAssumption DEF TypeOK, LockTypeOK, Row, Steps, StepsInv, RunsFirst,
         TicketsInv, Active, ReadIsCurrent, LinkOf, Reports, ReportedAt
<1>7. StoredInv'
  BY NrAssumption DEF TypeOK, LockTypeOK, Row, StepsInv, RunsFirst,
         TicketsInv, Active, StoredInv, Reports, ReportedAt
<1>8. RecordInv'
  BY NrAssumption DEF TypeOK, LockTypeOK, Row, Report, StepsInv, RunsFirst,
         TicketsInv, Active, RecordInv, Reports, ReportedAt
<1>9. SnapshotIsNewest'
  BY NrAssumption DEF TypeOK, LockTypeOK, Row, Report, StepsInv, StoredInv,
         Active, RecordInv, SnapshotIsNewest, Reports, ReportedAt
<1>10. QED
  BY <1>1, <1>2, <1>3, <1>4, <1>5, <1>6, <1>7, <1>8, <1>9

LEMMA StutterIInv == ASSUME IInv, UNCHANGED vars PROVE IInv'
<1> USE DEF vars, handler, lockVars, IInv
<1>1. TypeOK' /\ TicketsInv' /\ RunsFirst'
  BY DEF TypeOK, LockTypeOK, TicketsInv, RunsFirst, Active
<1>2. StepsInv' /\ CarriedInv' /\ ReadIsCurrent'
  BY DEF StepsInv, CarriedInv, ReadIsCurrent, LinkOf
<1>3. StoredInv' /\ RecordInv' /\ SnapshotIsNewest'
  BY DEF StoredInv, RecordInv, SnapshotIsNewest, Active
<1>4. QED
  BY <1>1, <1>2, <1>3

LEMMA NextIInv == IInv /\ [Next]_vars => IInv'
<1> SUFFICES ASSUME IInv, [Next]_vars PROVE IInv'
  OBVIOUS
<1>1. ASSUME NEW r \in Reports, Receive(r) \/ Begin(r) \/ EnsureRef(r) \/ EarlyReturn(r)
      PROVE  IInv'
  BY <1>1, ReceiveIInv, BeginIInv, EnsureRefIInv, EarlyReturnIInv
<1>2. ASSUME NEW r \in Reports,
             ReadRow(r) \/ KeepUnchecked(r) \/ CheckPasses(r) \/ CheckFails(r) \/ FindRid(r)
      PROVE  IInv'
  BY <1>2, ReadRowIInv, CheckIInv, FindRidIInv
<1>3. ASSUME NEW r \in Reports,
             WriteReport(r) \/ Record(r) \/ LinkActivation(r) \/ SeedRow(r)
      PROVE  IInv'
  BY <1>3, WriteReportIInv, RecordIInv, LinkActivationIInv, SeedRowIInv
<1>4. ASSUME NEW r \in Reports, QueryFails(r) \/ AnswerLost(r)
      PROVE  IInv'
  BY <1>4, QueryFailsIInv, AnswerLostIInv
<1>5. CASE Restart
  BY <1>5, RestartIInv
<1>6. CASE UNCHANGED vars
  BY <1>6, StutterIInv
<1>7. QED
  BY <1>1, <1>2, <1>3, <1>4, <1>5, <1>6 DEF Next, Handle, Proceed, End

(* The inductive invariant: what is read stays current, what is stored was *)
(* written by earlier arrivals, and what is about to be recorded is in the *)
(* snapshot or behind it.                                                  *)
THEOREM HandlersAreSerial == Spec => []IInv
BY InitIInv, NextIInv, PTL DEF Spec

(* Every variable keeps its type; strikes stay below the limit.            *)
THEOREM TypeCorrect == Spec => []TypeOK
<1>1. IInv => TypeOK
  BY DEF IInv
<1>2. QED
  BY <1>1, HandlersAreSerial, PTL

(* The rid a handler carries across its awaits is never stale.             *)
THEOREM CarriedRidIsCurrent == Spec => []ReadIsCurrent
<1>1. IInv => ReadIsCurrent
  BY DEF IInv
<1>2. QED
  BY <1>1, HandlersAreSerial, PTL

(* The snapshot and the history never diverge, whatever the order in which *)
(* reports arrive, the queries that fail and the restarts between them.    *)
THEOREM SnapshotFollowsHistory == Spec => []SnapshotIsNewest
<1>1. IInv => SnapshotIsNewest
  BY DEF IInv
<1>2. QED
  BY <1>1, HandlersAreSerial, PTL

-----------------------------------------------------------------------------

(* Only a store changes the table.                                         *)
LEMMA OnlyStoresWrite ==
    ASSUME IInv, [Next]_vars
    PROVE  \/ UNCHANGED row
           \/ \E r \in Reports : \/ At(r, "write") /\ Upsert(r)
                                 \/ At(r, "seed") /\ Seed(r)
<1>1. ASSUME NEW r \in Reports, Receive(r) \/ Handle(r), row' # row
      PROVE  (At(r, "write") /\ Upsert(r)) \/ (At(r, "seed") /\ Seed(r))
  BY <1>1 DEF Handle, Proceed, End, Receive, Begin, Entered, EnsureRef, EarlyReturn, ReadRow,
     KeepUnchecked,
     CheckPasses, CheckFails, Revalidated, FindRid, WriteReport, Record,
     LinkActivation, SeedRow, QueryFails, AnswerLost
<1>2. QED
  BY <1>1 DEF Next, Restart, vars

(* The report time of a train's snapshot never decreases.                  *)
THEOREM SnapshotTimeGrows == Spec => ReportTimeGrows
<1>1. IInv /\ [Next]_vars => [\A k \in Keys : ReportedAt(k)' >= ReportedAt(k)]_vars
  <2> SUFFICES ASSUME IInv, [Next]_vars, NEW k \in Keys
               PROVE  ReportedAt(k)' >= ReportedAt(k)
    OBVIOUS
  <2>1. TypeOK /\ StepsInv /\ ReportedAt(k) \in Nat
    BY RowFacts DEF IInv
  <2>2. CASE UNCHANGED row
    BY <2>1, <2>2 DEF ReportedAt
  <2>3. ASSUME NEW r \in Reports,
               (At(r, "write") /\ Upsert(r)) \/ (At(r, "seed") /\ Seed(r))
        PROVE  ReportedAt(k)' >= ReportedAt(k)
    <3>1. CASE row'[k] = row[k]
      BY <2>1, <3>1 DEF ReportedAt
    <3>2. CASE row'[k] # row[k]
      <4>1. /\ k = key[r] /\ row'[k] # NoRow /\ row'[k].at = msg[r].at
            /\ row[k] # NoRow => row[k].at <= msg[r].at
        BY <2>1, <2>3, <3>2, StoreFacts
      <4>2. msg[r].at \in Nat
        BY <2>1, ReportFacts
      <4>3. QED
        BY <2>1, <4>1, <4>2 DEF ReportedAt
    <3>3. QED
      BY <3>1, <3>2
  <2>4. QED
    BY <2>2, <2>3, OnlyStoresWrite
<1>2. QED
  BY <1>1, HandlersAreSerial, PTL DEF Spec, ReportTimeGrows

(* A rejected link comes back only by a fresh search for the very report   *)
(* that writes it.                                                         *)
THEOREM RejectedLinksStayRejected == Spec => NoResurrection
<1>1. IInv /\ [Next]_vars =>
        [\A k \in Keys :
            (ReportedAt(k) > 0 /\ LinkOf(k) = NoRid /\ LinkOf(k)' # NoRid) =>
                \E r \in Reports : /\ At(r, "write")
                                   /\ key[r] = k
                                   /\ fresh[r]
                                   /\ rid[r] = LinkOf(k)']_vars
  <2> SUFFICES ASSUME IInv, [Next]_vars, NEW k \in Keys,
                      ReportedAt(k) > 0, LinkOf(k) = NoRid, LinkOf(k)' # NoRid
               PROVE  \E r \in Reports : /\ At(r, "write")
                                         /\ key[r] = k
                                         /\ fresh[r]
                                         /\ rid[r] = LinkOf(k)'
    OBVIOUS
  <2>1. TypeOK /\ StepsInv
    BY DEF IInv
  <2>2. row'[k] # row[k]
    BY DEF LinkOf
  <2>3. PICK r \in Reports : (At(r, "write") /\ Upsert(r)) \/ (At(r, "seed") /\ Seed(r))
    BY <2>2, OnlyStoresWrite
  <2>4. /\ k = key[r] /\ row'[k] # NoRow /\ row'[k].rid = rid[r]
        /\ row'[k].at = msg[r].at
        /\ row[k] # NoRow => row[k].at <= msg[r].at
    BY <2>1, <2>2, <2>3, StoreFacts
  <2>5. At(r, "write")
    <3> SUFFICES ASSUME At(r, "seed") PROVE FALSE
      BY <2>3
    <3>1. msg[r].at = 0
      BY <2>1, ReportFacts DEF StepsInv, At
    <3>2. row[k] # NoRow /\ row[k].at > 0 /\ row[k].at \in Nat
      BY <2>1, RowFacts DEF ReportedAt
    <3>3. QED
      BY <2>4, <3>1, <3>2
  <2>6. rid[r] = LinkOf(k)' /\ rid[r] # NoRid
    BY <2>4 DEF LinkOf
  <2>7. fresh[r]
    <3> SUFFICES ASSUME ~fresh[r] PROVE FALSE
      BY <2>1 DEF TypeOK
    <3>1. rid[r] = seen[r]
      BY <2>5, <2>6 DEF IInv, CarriedInv, At
    <3>2. rid[r] # Unread
      BY <2>1, ReportFacts, NrAssumption
    <3>3. seen[r] = LinkOf(k)
      BY <2>4, <2>5, <3>1, <3>2 DEF IInv, ReadIsCurrent, At
    <3>4. QED
      BY <2>6, <3>1, <3>3
  <2>8. QED
    BY <2>4, <2>5, <2>6, <2>7
<1>2. QED
  BY <1>1, HandlersAreSerial, PTL DEF Spec, NoResurrection

-----------------------------------------------------------------------------

(* The strikes counted against a TRUST train's link are failed checks of   *)
(* that very link: none is left when the link is gone or about to be       *)
(* replaced. A row that no report has spoken for, which an activation may  *)
(* still overwrite, has strikes only while the handler that counted them   *)
(* is about to write it.                                                   *)
Unfaulted(k) == faults = 0 \/ Unactivated(k)
StrikeInv(k) ==
    /\ strikes[k] <= failed[k]
    /\ LinkOf(k) = NoRid => strikes[k] = 0
    /\ \A r \in Reports :
           (key[r] = k /\ (step[r] = "find" \/ (step[r] = "write" /\ rid[r] # seen[r])))
               => strikes[k] = 0
    /\ (faults = 0 /\ ReportedAt(k) = 0 /\ strikes[k] > 0)
           => \E r \in Reports : key[r] = k /\ step[r] = "write"
StrikesInv == \A k \in Keys \ TdKeys : Unfaulted(k) => StrikeInv(k)

(* Berth steps are TD keys' alone, and a movement reads before it writes.  *)
KindsInv == \A r \in Reports :
    /\ msg[r].kind = "berth" <=> key[r] \in TdKeys
    /\ (key[r] \notin TdKeys /\ step[r] \in {"find", "write"}) => seen[r] # Unread

CountInv == IInv /\ KindsInv /\ StrikesInv

(* What a step of one handler leaves alone.                                *)
LEMMA StepIsLocal ==
    ASSUME IInv, NEW r \in Reports, Receive(r) \/ Handle(r)
    PROVE  /\ key' = key /\ msg' = msg
           /\ \A q \in Reports : q # r => /\ step'[q] = step[q] /\ rid'[q] = rid[q]
                                          /\ seen'[q] = seen[q]
           /\ \A j \in Keys : j # key[r] => /\ row'[j] = row[j] /\ failed'[j] = failed[j]
                                            /\ strikes'[j] \in {0, strikes[j]}
           /\ faults' = faults \/ faults' = faults + 1
<1> USE DEF IInv, TypeOK, handler, Goto, Leave, Finish, lockVars
<1>1. key' = key /\ msg' = msg
  BY DEF Receive, Call, Handle, Proceed, End, Begin, Entered, Start, EnsureRef, EarlyReturn,
     ReadRow, KeepUnchecked,
         CheckPasses, CheckFails, Revalidated, FindRid, WriteReport, Record,
         LinkActivation, SeedRow, QueryFails, AnswerLost
<1>2. \A q \in Reports : q # r => /\ step'[q] = step[q] /\ rid'[q] = rid[q]
                                  /\ seen'[q] = seen[q]
  <2>1. CASE Receive(r) \/ Begin(r) \/ EnsureRef(r) \/ EarlyReturn(r) \/ ReadRow(r)
    BY <2>1 DEF Receive, Begin, Entered, EnsureRef, EarlyReturn, ReadRow
  <2>2. CASE KeepUnchecked(r) \/ CheckPasses(r) \/ CheckFails(r)
    BY <2>2 DEF KeepUnchecked, CheckPasses, CheckFails, Revalidated
  <2>3. CASE FindRid(r) \/ WriteReport(r) \/ Record(r)
    BY <2>3 DEF FindRid, WriteReport, Record
  <2>4. CASE LinkActivation(r) \/ SeedRow(r) \/ QueryFails(r) \/ AnswerLost(r)
    BY <2>4 DEF LinkActivation, SeedRow, QueryFails, AnswerLost
  <2> QED BY <2>1, <2>2, <2>3, <2>4 DEF Handle, Proceed, End
<1>3. \A j \in Keys : j # key[r] => row'[j] = row[j] /\ failed'[j] = failed[j]
  <2>1. CASE UNCHANGED <<row, failed>>
    BY <2>1
  <2>2. CASE Upsert(r) \/ Seed(r)
    BY <2>2 DEF Upsert, Seed, WriteRow
  <2>3. CASE CheckPasses(r) \/ CheckFails(r)
    BY <2>3 DEF CheckPasses, CheckFails, Revalidated
  <2>4. UNCHANGED <<row, failed>> \/ Upsert(r) \/ Seed(r) \/ CheckPasses(r) \/ CheckFails(r)
    BY DEF Receive, Handle, Proceed, End, Begin, Entered, EnsureRef, EarlyReturn, ReadRow,
       KeepUnchecked, Revalidated,
           FindRid, WriteReport, Record, LinkActivation, SeedRow, QueryFails, AnswerLost
  <2> QED BY <2>1, <2>2, <2>3, <2>4
<1>4. \A j \in Keys : j # key[r] => strikes'[j] \in {0, strikes[j]}
  <2>1. CASE UNCHANGED strikes
    BY <2>1
  <2>2. CASE CheckPasses(r)
    BY <2>2 DEF CheckPasses
  <2>3. CASE CheckFails(r)
    BY <2>3 DEF CheckFails, Struck
  <2>4. UNCHANGED strikes \/ CheckPasses(r) \/ CheckFails(r)
    BY DEF Receive, Handle, Proceed, End, Begin, Entered, EnsureRef, EarlyReturn, ReadRow,
       KeepUnchecked, Revalidated,
           FindRid, WriteReport, Record, LinkActivation, SeedRow, QueryFails, AnswerLost
  <2> QED BY <2>1, <2>2, <2>3, <2>4
<1>5. faults' = faults \/ faults' = faults + 1
  BY DEF Receive, Handle, Proceed, End, Begin, Entered, EnsureRef, EarlyReturn, ReadRow,
     KeepUnchecked, CheckPasses,
         CheckFails, Revalidated, FindRid, WriteReport, Record, LinkActivation, SeedRow,
         QueryFails, AnswerLost, Fault
<1> QED BY <1>1, <1>2, <1>3, <1>4, <1>5

(* A handler's step does nothing to the strikes of another train.          *)
LEMMA StrikesOfOthers ==
    ASSUME IInv, NEW r \in Reports, Receive(r) \/ Handle(r),
           NEW k \in Keys, k # key[r], StrikeInv(k)
    PROVE  StrikeInv(k)'
<1>1. /\ key' = key
      /\ \A q \in Reports : q # r => step'[q] = step[q] /\ rid'[q] = rid[q] /\ seen'[q] = seen[q]
      /\ row'[k] = row[k] /\ failed'[k] = failed[k] /\ strikes'[k] \in {0, strikes[k]}
      /\ faults' = faults \/ faults' = faults + 1
  BY StepIsLocal
<1>2. strikes[k] \in Nat /\ failed[k] \in Nat /\ faults \in Nat
  BY NrAssumption DEF IInv, TypeOK
<1>3. LinkOf(k)' = LinkOf(k) /\ ReportedAt(k)' = ReportedAt(k)
  BY <1>1 DEF LinkOf, ReportedAt
<1>4. faults' = 0 => faults = 0
  BY <1>1, <1>2
<1>5. strikes'[k] <= failed'[k]
  BY <1>1, <1>2 DEF StrikeInv
<1>6. \A q \in Reports : key'[q] = k => q # r
  BY <1>1
<1> QED BY <1>1, <1>2, <1>3, <1>4, <1>5, <1>6 DEF StrikeInv

(* Two handlers of a train never run at once.                              *)
LEMMA OnlyRunner ==
    ASSUME IInv, NEW r \in Reports, phase[r] = "running"
    PROVE  \A q \in Reports : (key[q] = key[r] /\ q # r) => step[q] = "off"
<1> SUFFICES ASSUME NEW q \in Reports, key[q] = key[r], q # r, phase[q] = "running"
             PROVE  FALSE
  BY DEF IInv, StepsInv
<1>1. ticket[r] < ticket[q] /\ ticket[q] < ticket[r]
  BY DEF IInv, RunsFirst, Active
<1>2. ticket[r] \in Nat /\ ticket[q] \in Nat
  BY ReportFacts DEF IInv
<1> QED BY <1>1, <1>2

(* What is left to show of a train's strikes after a step of its own       *)
(* handler.                                                                *)
OwnStrikes(r) ==
    /\ strikes[key[r]] <= failed[key[r]]
    /\ LinkOf(key[r]) = NoRid => strikes[key[r]] = 0
    /\ step[r] = "find" \/ (step[r] = "write" /\ rid[r] # seen[r]) => strikes[key[r]] = 0
    /\ faults = 0 /\ ReportedAt(key[r]) = 0 /\ strikes[key[r]] > 0 => step[r] = "write"

LEMMA StrikesOfRunner ==
    ASSUME IInv, NEW r \in Reports, phase[r] = "running", Handle(r), OwnStrikes(r)'
    PROVE  StrikeInv(key[r])'
<1>1. key' = key /\ \A q \in Reports : q # r => step'[q] = step[q]
  BY StepIsLocal
<1>2. \A q \in Reports : (key[q] = key[r] /\ q # r) => step'[q] = "off"
  BY <1>1, OnlyRunner
<1> QED BY <1>1, <1>2 DEF OwnStrikes, StrikeInv

(* A step that touches neither the row nor the strikes.                    *)
LEMMA StrikesUntouched ==
    ASSUME IInv, NEW k \in Keys, StrikeInv(k),
           NEW r \in Reports, key[r] = k, Receive(r) \/ Handle(r),
           UNCHANGED <<row, strikes, failed>>,
           step'[r] \notin {"find", "write"}, step[r] # "write" \/ faults' # 0
    PROVE  StrikeInv(k)'
<1>1. /\ key' = key
      /\ faults' = faults \/ faults' = faults + 1
      /\ \A q \in Reports : q # r => step'[q] = step[q] /\ rid'[q] = rid[q] /\ seen'[q] = seen[q]
  BY StepIsLocal
<1>2. faults \in Nat
  BY NrAssumption DEF IInv, TypeOK
<1>3. faults' = 0 => faults = 0
  BY <1>1, <1>2
<1>4. LinkOf(k)' = LinkOf(k) /\ ReportedAt(k)' = ReportedAt(k)
  BY DEF LinkOf, ReportedAt
<1>5. \A q \in Reports : step'[q] \in {"find", "write"} =>
          q # r /\ step'[q] = step[q] /\ rid'[q] = rid[q] /\ seen'[q] = seen[q]
  BY <1>1
<1>6. ASSUME faults' = 0, NEW q \in Reports, step[q] = "write" PROVE step'[q] = "write"
  BY <1>1, <1>6
<1>7. ASSUME faults' = 0, ReportedAt(k)' = 0, strikes'[k] > 0
      PROVE  \E q \in Reports : key'[q] = k /\ step'[q] = "write"
  BY <1>1, <1>3, <1>4, <1>6, <1>7 DEF StrikeInv
<1>8. \A q \in Reports :
          (key'[q] = k /\ (step'[q] = "find" \/ (step'[q] = "write" /\ rid'[q] # seen'[q])))
              => strikes'[k] = 0
  BY <1>1, <1>5 DEF StrikeInv
<1>9. strikes'[k] <= failed'[k] /\ (LinkOf(k)' = NoRid => strikes'[k] = 0)
  BY <1>4 DEF StrikeInv
<1> QED BY <1>7, <1>8, <1>9 DEF StrikeInv

(* The steps of a movement's check.                                        *)
LEMMA CheckStrikes ==
    ASSUME CountInv, NEW r \in Reports, key[r] \notin TdKeys, Unfaulted(key[r]),
           KeepUnchecked(r) \/ CheckPasses(r) \/ CheckFails(r)
    PROVE  OwnStrikes(r)'
<1> DEFINE k == key[r]
<1>1. /\ phase[r] = "running" /\ step[r] = "check" /\ key' = key /\ faults' = faults
      /\ k \in Keys /\ k \notin TdKeys
  BY ReportFacts DEF KeepUnchecked, CheckPasses, CheckFails, Revalidated, At, lockVars,
                     CountInv, IInv
<1>2. StrikeInv(k) /\ seen[r] = LinkOf(k) /\ seen[r] # Unread
  BY <1>1 DEF CountInv, StrikesInv, IInv, ReadIsCurrent, StepsInv
<1>3. /\ rid \in [Reports -> Links] /\ step \in [Reports -> Steps] /\ seen' = seen /\ row' = row
      /\ strikes \in [Keys -> 0..(RidStrikesBeforeUnlink - 1)] /\ failed \in [Keys -> Nat]
  BY DEF CountInv, IInv, TypeOK, KeepUnchecked, CheckPasses, CheckFails, Revalidated
<1>4. LinkOf(k)' = seen[r] /\ ReportedAt(k)' = ReportedAt(k)
  BY <1>1, <1>2, <1>3 DEF LinkOf, ReportedAt
<1>5. strikes[k] \in Nat /\ failed[k] \in Nat
  BY <1>1, <1>3, NrAssumption
<1>6. ASSUME NEW l \in Links, Revalidated(r, l)
      PROVE  /\ rid'[r] = l /\ step'[r] \in {"find", "write"}
             /\ step'[r] = "find" => l = NoRid
  BY <1>3, <1>6 DEF Revalidated, Goto
<1>7. CASE KeepUnchecked(r)
  <2>1. seen[r] \in Links /\ Revalidated(r, seen[r]) /\ UNCHANGED <<strikes, failed>>
    BY <1>2, <1>7 DEF KeepUnchecked, CountInv, IInv, TypeOK
  <2>2. step'[r] = "find" => strikes[k] = 0
    BY <1>2, <1>6, <2>1 DEF StrikeInv
  <2>3. ReportedAt(k) = 0 /\ strikes[k] > 0 => step'[r] = "write"
    BY <1>5, <1>6, <2>1, <2>2
  <2> QED BY <1>1, <1>2, <1>3, <1>4, <1>6, <2>1, <2>2, <2>3 DEF OwnStrikes, StrikeInv
<1>8. CASE CheckPasses(r)
  <2>1. strikes'[k] = 0 /\ failed'[k] = 0
    BY <1>1, <1>3, <1>8 DEF CheckPasses
  <2> QED BY <1>1, <2>1 DEF OwnStrikes
<1>9. CASE CheckFails(r) /\ MayStrike(k)
  <2>1. seen[r] \in Links /\ Revalidated(r, seen[r]) /\ seen[r] # NoRid
    BY <1>2, <1>9 DEF CheckFails, CanCheck, CountInv, IInv, TypeOK
  <2>2. strikes'[k] = strikes[k] + 1
    BY <1>1, <1>3, <1>9 DEF CheckFails, Struck
  <2>3. failed'[k] = failed[k] + 1
    BY <1>1, <1>3, <1>9 DEF CheckFails
  <2>4. strikes'[k] <= failed'[k]
    BY <1>2, <1>5, <2>2, <2>3 DEF StrikeInv
  <2>5. step'[r] = "write" /\ rid'[r] = seen'[r]
    BY <1>3, <1>6, <2>1
  <2> QED BY <1>1, <1>4, <2>1, <2>4, <2>5 DEF OwnStrikes
<1>10. CASE CheckFails(r) /\ ~MayStrike(k)
  <2>1. strikes'[k] = 0 /\ failed'[k] = 0
    BY <1>1, <1>3, <1>10 DEF CheckFails
  <2> QED BY <1>1, <2>1 DEF OwnStrikes
<1> QED BY <1>7, <1>8, <1>9, <1>10

(* The upserts: a new link finds no strike, an old one keeps its own.      *)
LEMMA StoreStrikes ==
    ASSUME CountInv, NEW r \in Reports, key[r] \notin TdKeys, Unfaulted(key[r]), key' = key,
           (At(r, "write") /\ Upsert(r)) \/ (At(r, "seed") /\ Seed(r) /\ faults = 0),
           UNCHANGED strikes, step'[r] \notin {"find", "write"}
    PROVE  OwnStrikes(r)'
<1> DEFINE k == key[r]
<1>1. /\ phase[r] = "running" /\ k \in Keys /\ k \notin TdKeys /\ IInv /\ TypeOK /\ StepsInv
      /\ rid[r] \in Links /\ msg[r].at \in Nat
  BY ReportFacts DEF At, CountInv, IInv
<1>2. StrikeInv(k)
  BY <1>1 DEF CountInv, StrikesInv
<1>3. strikes[k] \in Nat /\ failed[k] \in Nat /\ LinkOf(k) \in Links /\ ReportedAt(k) \in Nat
  BY <1>1, RowFacts, NrAssumption DEF TypeOK
<1>4. CASE ReportedAt(k)' = 0 \/ strikes[k] # 0
  <2>1. CASE At(r, "write") /\ Upsert(r)
    <3>1. msg[r].kind # "activation" /\ msg[r].at > 0
      BY <1>1, <2>1, ReportFacts DEF StepsInv, At
    <3>2. rid[r] # LinkOf(k) => strikes[k] = 0
      <4>1. seen[r] # Unread /\ seen[r] = LinkOf(k)
        BY <1>1, <2>1 DEF At, CountInv, KindsInv, IInv, ReadIsCurrent
      <4> QED BY <1>2, <2>1, <4>1 DEF At, StrikeInv
    <3>3. CASE IsAsNew(r)
      <4>1. WriteRow(r)
        BY <2>1, <3>3 DEF Upsert
      <4>2. row'[k] # NoRow /\ row'[k].rid = rid[r] /\ row'[k].at = msg[r].at
        BY <1>1, <4>1, WriteRowFacts
      <4>3. LinkOf(k)' = rid[r] /\ ReportedAt(k)' = msg[r].at
        BY <4>2 DEF LinkOf, ReportedAt
      <4>4. rid[r] = LinkOf(k) /\ failed' = failed
        BY <1>3, <1>4, <3>1, <3>2, <4>1, <4>3 DEF WriteRow
      <4> QED BY <1>2, <1>3, <3>1, <4>3, <4>4 DEF OwnStrikes, StrikeInv
    <3>4. CASE ~IsAsNew(r)
      <4>1. UNCHANGED <<row, failed>>
        BY <2>1, <3>4 DEF Upsert
      <4>2. ReportedAt(k)' = ReportedAt(k) /\ LinkOf(k)' = LinkOf(k)
        BY <4>1 DEF ReportedAt, LinkOf
      <4>3. ReportedAt(k) # 0
        BY <3>4 DEF IsAsNew
      <4> QED BY <1>2, <4>1, <4>2, <4>3 DEF OwnStrikes, StrikeInv
    <3> QED BY <3>3, <3>4
  <2>2. CASE At(r, "seed") /\ Seed(r) /\ faults = 0
    <3>1. ReportedAt(k) = 0 => strikes[k] = 0
      <4>1. \A q \in Reports : key[q] = k => step[q] # "write"
        BY <1>1, <2>2, OnlyRunner DEF At
      <4> QED BY <1>2, <1>3, <2>2, <4>1 DEF StrikeInv
    <3>2. CASE MaySeed(r)
      <4>1. strikes[k] = 0
        BY <3>1, <3>2 DEF MaySeed
      <4>2. WriteRow(r)
        BY <2>2, <3>2 DEF Seed
      <4>3. failed' \in [Keys -> Nat]
        BY <1>1, <4>2, WriteRowFacts
      <4> QED BY <1>1, <4>1, <4>3 DEF OwnStrikes
    <3>3. CASE ~MaySeed(r)
      <4>1. UNCHANGED <<row, failed>>
        BY <2>2, <3>3 DEF Seed
      <4>2. ReportedAt(k)' = ReportedAt(k) /\ LinkOf(k)' = LinkOf(k)
        BY <4>1 DEF ReportedAt, LinkOf
      <4>3. ReportedAt(k) # 0
        BY <3>3 DEF MaySeed
      <4> QED BY <1>2, <4>1, <4>2, <4>3 DEF OwnStrikes, StrikeInv
    <3> QED BY <3>2, <3>3
  <2> QED BY <2>1, <2>2
<1>5. CASE ReportedAt(k)' # 0 /\ strikes[k] = 0
  <2>1. failed' \in [Keys -> Nat]
    BY <1>1, StoreFacts
  <2> QED BY <1>1, <1>5, <2>1 DEF OwnStrikes
<1> QED BY <1>4, <1>5

(* One lemma for the handlers of a TRUST train, one for their messages.    *)
LEMMA OwnHandlerStrikes ==
    ASSUME CountInv, NEW r \in Reports, key[r] \notin TdKeys, Unfaulted(key[r])',
           Receive(r) \/ Handle(r)
    PROVE  StrikeInv(key[r])'
<1> DEFINE k == key[r]
<1>1. /\ IInv /\ k \in Keys \ TdKeys /\ faults \in Nat /\ step \in [Reports -> Steps]
      /\ key' = key /\ msg' = msg
      /\ faults' = faults \/ faults' = faults + 1
  BY ReportFacts, StepIsLocal, NrAssumption DEF CountInv, IInv, TypeOK
<1>2. Unfaulted(k)
  BY <1>1 DEF Unfaulted, Unactivated
<1>3. StrikeInv(k)
  BY <1>1, <1>2 DEF CountInv, StrikesInv
<1>4. msg[r].kind # "berth"
  BY DEF CountInv, KindsInv
<1>5. CASE Receive(r) \/ Begin(r) \/ EnsureRef(r) \/ EarlyReturn(r) \/ ReadRow(r) \/ Record(r)
           \/ LinkActivation(r)
  <2>1. UNCHANGED <<row, strikes, failed>>
    BY <1>5 DEF Receive, Begin, Entered, EnsureRef, EarlyReturn, ReadRow, Record, LinkActivation
  <2>2. step[r] # "write" /\ step'[r] \notin {"find", "write"}
    <3>1. CASE Receive(r)
      BY <1>1, <3>1 DEF Receive, Call, handler, IInv, StepsInv
    <3>2. CASE Begin(r)
      BY <1>1, <3>2 DEF Begin, Entered, Start, Goto, IInv, StepsInv
    <3>3. CASE EnsureRef(r)
      <4>1. msg[r].kind \in {"movement", "activation"}
        BY <1>1, <1>4 DEF IInv, TypeOK, Report
      <4> QED BY <1>1, <3>3, <4>1 DEF EnsureRef, At, Goto
    <3>4. CASE EarlyReturn(r) \/ ReadRow(r) \/ Record(r) \/ LinkActivation(r)
      BY <1>1, <3>4 DEF EarlyReturn, ReadRow, Record, LinkActivation, At, Leave, Goto
    <3> QED BY <1>5, <3>1, <3>2, <3>3, <3>4
  <2> QED BY <1>1, <1>3, <2>1, <2>2, StrikesUntouched
<1>6. CASE QueryFails(r)
  <2>1. UNCHANGED <<row, strikes, failed>> /\ step'[r] = "off" /\ faults' # 0
    BY <1>1, <1>6 DEF QueryFails, Leave, Goto, Fault
  <2> QED BY <1>1, <1>3, <2>1, StrikesUntouched
<1>7. CASE KeepUnchecked(r) \/ CheckPasses(r) \/ CheckFails(r)
  <2>1. phase[r] = "running" /\ Handle(r)
    BY <1>7 DEF KeepUnchecked, CheckPasses, CheckFails, At, Handle, Proceed, End
  <2>2. OwnStrikes(r)'
    BY <1>2, <1>7, CheckStrikes
  <2> QED BY <1>1, <2>1, <2>2, StrikesOfRunner
<1>8. CASE FindRid(r)
  <2>1. phase[r] = "running" /\ Handle(r) /\ UNCHANGED <<strikes, failed>> /\ step[r] = "find"
    BY <1>8 DEF FindRid, At, Handle, Proceed, End
  <2>2. strikes[k] = 0
    BY <1>3, <2>1 DEF StrikeInv
  <2>3. failed[k] \in Nat
    BY <1>1 DEF IInv, TypeOK
  <2>4. OwnStrikes(r)'
    BY <1>1, <2>1, <2>2, <2>3 DEF OwnStrikes
  <2> QED BY <1>1, <2>1, <2>4, StrikesOfRunner
<1>9. CASE WriteReport(r) \/ SeedRow(r) \/ AnswerLost(r)
  <2>1. phase[r] = "running" /\ Handle(r) /\ UNCHANGED strikes /\ step'[r] \notin {"find", "write"}
    BY <1>1, <1>9 DEF WriteReport, SeedRow, AnswerLost, At, Handle, Proceed, End, Leave, Goto
  <2>2. At(r, "seed") => faults' = 0
    BY <1>1 DEF At, IInv, StepsInv, Unfaulted, Unactivated
  <2>3. (At(r, "write") /\ Upsert(r)) \/ (At(r, "seed") /\ Seed(r) /\ faults = 0)
    <3>1. CASE WriteReport(r)
      BY <3>1 DEF WriteReport
    <3>2. CASE SeedRow(r)
      BY <2>2, <3>2 DEF SeedRow
    <3>3. CASE AnswerLost(r)
      <4>1. faults' # 0
        BY <1>1, <3>3 DEF AnswerLost, Fault
      <4> QED BY <2>2, <3>3, <4>1 DEF AnswerLost
    <3> QED BY <1>9, <3>1, <3>2, <3>3
  <2>4. OwnStrikes(r)'
    BY <1>1, <1>2, <2>1, <2>3, StoreStrikes
  <2> QED BY <1>1, <2>1, <2>4, StrikesOfRunner
<1> QED BY <1>5, <1>6, <1>7, <1>8, <1>9 DEF Handle, Proceed, End

LEMMA KindsStep == ASSUME CountInv, [Next]_vars PROVE KindsInv'
<1>1. ASSUME NEW r \in Reports, Receive(r) \/ Handle(r) PROVE KindsInv'
  <2>1. /\ key' = key /\ msg' = msg
        /\ \A q \in Reports : q # r => step'[q] = step[q] /\ seen'[q] = seen[q]
    BY <1>1, StepIsLocal DEF CountInv
  <2>2. /\ step \in [Reports -> Steps] /\ seen \in [Reports -> Links \cup {Unread}]
        /\ msg[r].kind = "berth" <=> key[r] \in TdKeys
        /\ msg[r].kind \in {"movement", "activation", "berth"}
        /\ key[r] \notin TdKeys /\ step[r] \in {"find", "write"} => seen[r] # Unread
        /\ step[r] = "check" => seen[r] # Unread
    BY DEF CountInv, IInv, TypeOK, Report, KindsInv, StepsInv
  <2>3. ASSUME key[r] \notin TdKeys, step'[r] \in {"find", "write"} PROVE seen'[r] # Unread
    <3>1. CASE Receive(r)
      BY <2>2, <2>3, <3>1 DEF Receive, handler
    <3>2. CASE Begin(r) \/ EnsureRef(r) \/ EarlyReturn(r) \/ ReadRow(r)
      BY <2>2, <2>3, <3>2 DEF Begin, Entered, EnsureRef, EarlyReturn, ReadRow, Leave, Goto
    <3>3. CASE KeepUnchecked(r) \/ CheckPasses(r) \/ CheckFails(r) \/ FindRid(r)
      BY <2>2, <2>3, <3>3 DEF KeepUnchecked, CheckPasses, CheckFails, Revalidated, FindRid, At
    <3>4. CASE WriteReport(r) \/ Record(r) \/ LinkActivation(r) \/ SeedRow(r) \/ QueryFails(r)
               \/ AnswerLost(r)
      BY <2>2, <2>3, <3>4 DEF WriteReport, Record, LinkActivation, SeedRow, QueryFails,
                              AnswerLost, Leave, Goto
    <3> QED BY <1>1, <3>1, <3>2, <3>3, <3>4 DEF Handle, Proceed, End
  <2> QED BY <2>1, <2>3 DEF CountInv, KindsInv
<1>2. CASE Restart
  BY <1>2 DEF Restart, CountInv, KindsInv
<1>3. CASE UNCHANGED vars
  BY <1>3 DEF vars, lockVars, handler, CountInv, KindsInv
<1> QED BY <1>1, <1>2, <1>3 DEF Next

LEMMA StrikesStep == ASSUME CountInv, [Next]_vars PROVE StrikesInv'
<1> SUFFICES ASSUME NEW k \in Keys, k \notin TdKeys, Unfaulted(k)' PROVE StrikeInv(k)'
  BY DEF StrikesInv
<1>1. ASSUME NEW r \in Reports, Receive(r) \/ Handle(r) PROVE StrikeInv(k)'
  <2>1. /\ key' = key /\ msg' = msg
        /\ faults' = faults \/ faults' = faults + 1
        /\ faults \in Nat
    BY <1>1, StepIsLocal, NrAssumption DEF CountInv, IInv, TypeOK
  <2>2. Unfaulted(k)
    BY <2>1 DEF Unfaulted, Unactivated
  <2>3. CASE k = key[r]
    <3>1. Unfaulted(key[r])'
      BY <2>1, <2>3 DEF Unfaulted, Unactivated
    <3>2. StrikeInv(key[r])'
      BY <1>1, <2>3, <3>1, OwnHandlerStrikes
    <3> QED BY <2>1, <2>3, <3>2 DEF StrikeInv, LinkOf, ReportedAt
  <2>4. CASE k # key[r]
    BY <1>1, <2>2, <2>4, StrikesOfOthers DEF CountInv, StrikesInv
  <2> QED BY <2>3, <2>4
<1>2. CASE Restart
  <2>1. strikes'[k] = 0 /\ failed'[k] \in Nat
    BY <1>2 DEF Restart, CountInv, IInv, TypeOK
  <2> QED BY <2>1 DEF StrikeInv
<1>3. CASE UNCHANGED vars
  BY <1>3 DEF vars, lockVars, handler, CountInv, StrikesInv, StrikeInv, LinkOf, ReportedAt,
     Unfaulted,
              Unactivated
<1> QED BY <1>1, <1>2, <1>3 DEF Next

LEMMA InitCountInv == Init => CountInv
<1> SUFFICES ASSUME Init PROVE KindsInv /\ StrikesInv
  BY InitIInv DEF CountInv
<1>1. KindsInv
  BY DEF Init, KindsInv
<1>2. StrikesInv
  BY DEF Init, StrikesInv, StrikeInv
<1> QED BY <1>1, <1>2

(* A movement's link is never dropped on fewer failed checks of that link  *)
(* than the limit, until a query fails for a train that is activated.      *)
THEOREM TrustLinksDropLate == Spec => TrustUnlinkTakesTwoFailures
<1>1. ASSUME CountInv, [Next]_vars, NEW r \in Reports, key[r] \notin TdKeys,
             faults = 0 \/ Unactivated(key[r])
      PROVE  ~DroppedEarly(r)
  <2> SUFFICES ASSUME DroppedEarly(r) PROVE FALSE
    OBVIOUS
  <2>1. /\ IInv /\ key[r] \in Keys /\ StrikeInv(key[r])
        /\ At(r, "check") /\ CanCheck(r) /\ rid'[r] = NoRid
        /\ step'[r] \in {"find", "write"}
        /\ failed[key[r]] + 1 < RidStrikesBeforeUnlink
    BY <1>1, ReportFacts DEF CountInv, IInv, StrikesInv, Unfaulted, DroppedEarly
  <2>2. step' # step
    BY <2>1 DEF At
  <2>3. Handle(r)
    BY <1>1, <2>1, StepIsLocal DEF Next, Restart, Receive, handler, vars, At
  <2>4. CheckFails(r) \/ CheckPasses(r)
    BY <2>1, <2>3 DEF Handle, Proceed, End, At, CanCheck, Begin, Entered, Start, EnsureRef,
       EarlyReturn, Leave, Finish,
          ReadRow, KeepUnchecked, FindRid, WriteReport, Record, LinkActivation, SeedRow,
          QueryFails, AnswerLost, Goto, DroppedEarly
  <2>5. rid \in [Reports -> Links] /\ seen[r] # NoRid
    BY <2>1 DEF IInv, TypeOK, CanCheck
  <2>6. CASE CheckPasses(r)
    BY <2>1, <2>5, <2>6 DEF CheckPasses, Revalidated
  <2>7. CASE CheckFails(r)
    <3>1. ~MayStrike(key[r])
      BY <2>1, <2>5, <2>7 DEF CheckFails, Revalidated
    <3>2. strikes[key[r]] \in Nat /\ failed[key[r]] \in Nat /\ RidStrikesBeforeUnlink \in Nat
      BY <2>1, NrAssumption DEF IInv, TypeOK
    <3> QED BY <2>1, <3>1, <3>2 DEF MayStrike, StrikeInv
  <2> QED BY <2>4, <2>6, <2>7
<1>2. CountInv /\ [Next]_vars => CountInv'
  BY NextIInv, KindsStep, StrikesStep DEF CountInv
<1>3. CountInv /\ [Next]_vars =>
        [\A r \in Reports :
             (key[r] \notin TdKeys /\ (faults = 0 \/ Unactivated(key[r]))) => ~DroppedEarly(r)]_vars
  BY <1>1
<1> QED BY <1>2, <1>3, InitCountInv, PTL DEF Spec, TrustUnlinkTakesTwoFailures

-----------------------------------------------------------------------------
(* The promise chain: for any number of calls and keys it is a first-in    *)
(* first-out mutex.                                                        *)

(* Tickets are handed out from the clock, each once.                       *)
CallsInv ==
    /\ \A c \in Callers : phase[c] # "idle" => ticket[c] \in 1..clock
    /\ \A c, d \in Callers :
           (phase[c] # "idle" /\ phase[d] # "idle" /\ ticket[c] = ticket[d]) => c = d

(* The map entry of a key is the promise of the last call made with it, or *)
(* absent when all of its calls are done.                                  *)
MapInv == \A k \in Keys : \A d \in Callers :
    (phase[d] # "idle" /\ key[d] = k) =>
        IF keyLocks[k] = NoPromise
        THEN phase[d] = "done"
        ELSE ticket[d] <= ticket[keyLocks[k]]

MapEntryInv == \A k \in Keys : keyLocks[k] # NoPromise =>
    /\ key[keyLocks[k]] = k
    /\ phase[keyLocks[k]] \in {"waiting", "running"}

(* A call waits for the promise of the call made just before it with the   *)
(* same key, or for none when every earlier one is done.                   *)
ChainInv == \A c, d \in Callers :
    (/\ phase[c] # "idle"
     /\ phase[d] # "idle"
     /\ key[d] = key[c]
     /\ ticket[d] < ticket[c]) =>
        IF previous[c] = NoPromise
        THEN phase[d] = "done"
        ELSE ticket[d] <= ticket[previous[c]]

ChainEntryInv == \A c \in Callers : (phase[c] # "idle" /\ previous[c] # NoPromise) =>
    /\ phase[previous[c]] # "idle"
    /\ key[previous[c]] = key[c]

(* A call whose release is set has every earlier call of its key behind it.*)
ArmedInv == \A c, d \in Callers :
    ( /\ c \in armed \/ phase[c] \in {"running", "done"}
      /\ phase[d] # "idle"
      /\ key[d] = key[c]
      /\ ticket[d] < ticket[c] ) => phase[d] = "done"

ArmedEntryInv == \A c \in armed : phase[c] # "idle"

SettledInv == \A c \in settled : phase[c] = "done"

CInv == /\ ChainTypeOK
        /\ CallsInv
        /\ MapInv
        /\ MapEntryInv
        /\ ChainInv
        /\ ChainEntryInv
        /\ ArmedInv
        /\ ArmedEntryInv
        /\ SettledInv

-----------------------------------------------------------------------------

(* Initially no call has been made and the map is empty.                   *)
LEMMA InitCInv == ChainInit => CInv
BY NoPromiseAssumption
   DEF ChainInit, LockInit, CInv, ChainTypeOK, LockTypeOK, Phases, CallsInv, MapInv,
       MapEntryInv, ChainInv, ChainEntryInv, ArmedInv, ArmedEntryInv, SettledInv

(* Entering the chain takes the last promise of the key and becomes it.    *)
LEMMA EnterCInv == ASSUME CInv, NEW e \in Callers, Enter(e) PROVE CInv'
<1> USE DEF Enter, Call, CInv, LockTypeOK, Phases
<1>1. ChainTypeOK'
  BY DEF ChainTypeOK
<1>2. CallsInv'
  BY DEF ChainTypeOK, CallsInv
<1>3. MapEntryInv'
  BY NoPromiseAssumption DEF ChainTypeOK, MapEntryInv
<1>4. MapInv'
  BY NoPromiseAssumption DEF ChainTypeOK, MapInv, MapEntryInv, CallsInv
<1>5. ChainInv'
  <2> SUFFICES ASSUME NEW c \in Callers, NEW d \in Callers,
                      phase'[c] # "idle", phase'[d] # "idle", key'[d] = key'[c],
                      ticket'[d] < ticket'[c]
               PROVE  IF previous'[c] = NoPromise
                      THEN phase'[d] = "done"
                      ELSE ticket'[d] <= ticket'[previous'[c]]
    BY DEF ChainInv
  <2>1. d # e
    BY DEF ChainTypeOK, CallsInv
  <2>2. CASE c = e
    BY <2>1, <2>2 DEF ChainTypeOK, MapInv, MapEntryInv
  <2>3. CASE c # e
    BY <2>1, <2>3 DEF ChainTypeOK, ChainInv, ChainEntryInv
  <2>4. QED
    BY <2>2, <2>3
<1>6. ChainEntryInv'
  BY DEF ChainTypeOK, ChainEntryInv, MapEntryInv
<1>7. ArmedInv'
  <2> SUFFICES ASSUME NEW c \in Callers, NEW d \in Callers,
                      c \in armed' \/ phase'[c] \in {"running", "done"},
                      phase'[d] # "idle", key'[d] = key'[c],
                      ticket'[d] < ticket'[c]
               PROVE  phase'[d] = "done"
    BY DEF ArmedInv
  <2>1. c # e
    BY DEF ChainTypeOK, ArmedEntryInv
  <2>2. d # e
    BY <2>1 DEF ChainTypeOK, CallsInv, ArmedEntryInv
  <2>3. QED
    BY <2>1, <2>2 DEF ChainTypeOK, ArmedInv
<1>8. ArmedEntryInv'
  BY DEF ChainTypeOK, ArmedEntryInv
<1>9. SettledInv'
  BY DEF ChainTypeOK, SettledInv
<1>10. QED
  BY <1>1, <1>2, <1>3, <1>4, <1>5, <1>6, <1>7, <1>8, <1>9

(* A call is armed only when the promise before it has settled, and then   *)
(* everything before that promise has settled too.                         *)
LEMMA ArmCInv == ASSUME CInv, NEW a \in Callers, Arm(a) PROVE CInv'
<1> USE DEF Arm, CInv, lockVars
<1>1. ChainTypeOK'
  BY DEF ChainTypeOK, LockTypeOK
<1>2. CallsInv' /\ MapInv' /\ MapEntryInv' /\ ChainInv' /\ ChainEntryInv' /\ SettledInv'
  BY DEF CallsInv, MapInv, MapEntryInv, ChainInv, ChainEntryInv, SettledInv
<1>3. ArmedInv'
  <2> SUFFICES ASSUME NEW d \in Callers, phase[d] # "idle", key[d] = key[a],
                      ticket[d] < ticket[a]
               PROVE  phase[d] = "done"
    BY DEF ArmedInv
  <2>1. CASE previous[a] = NoPromise
    BY <2>1 DEF ChainInv
  <2>2. CASE previous[a] # NoPromise
    <3> DEFINE p == previous[a]
    <3>1. p \in Callers /\ phase[p] = "done" /\ key[p] = key[a]
      BY <2>2 DEF ChainTypeOK, IsSettled, SettledInv, ChainEntryInv
    <3>2. ticket[d] <= ticket[p]
      BY <2>2 DEF ChainInv
    <3>3. ticket[d] \in Nat /\ ticket[p] \in Nat
      BY <3>1 DEF ChainTypeOK, LockTypeOK
    <3>4. CASE d = p
      BY <3>1, <3>4
    <3>5. CASE d # p
      <4>1. ticket[d] < ticket[p]
        BY <3>1, <3>2, <3>3, <3>5 DEF CallsInv
      <4>2. QED
        BY <3>1, <4>1 DEF ArmedInv
    <3>6. QED
      BY <3>4, <3>5
  <2>3. QED
    BY <2>1, <2>2
<1>4. ArmedEntryInv'
  BY DEF ArmedEntryInv
<1>5. QED
  BY <1>1, <1>2, <1>3, <1>4

LEMMA RunCInv == ASSUME CInv, NEW r \in Callers, Run(r) PROVE CInv'
<1> USE DEF Run, CInv, ChainTypeOK, LockTypeOK, Phases
<1>1. ChainTypeOK'
  OBVIOUS
<1>2. CallsInv' /\ MapInv' /\ MapEntryInv'
  BY DEF CallsInv, MapInv, MapEntryInv
<1>3. ChainInv' /\ ChainEntryInv'
  BY DEF ChainInv, ChainEntryInv
<1>4. ArmedInv' /\ ArmedEntryInv'
  BY DEF ArmedInv, ArmedEntryInv
<1>5. SettledInv'
  BY DEF SettledInv
<1>6. QED
  BY <1>1, <1>2, <1>3, <1>4, <1>5

(* Only the last call of a key finds its own promise in the map, and by    *)
(* then every earlier one is done.                                         *)
LEMMA ReleaseCInv == ASSUME CInv, NEW r \in Callers, Release(r) PROVE CInv'
<1> USE DEF Release, Unlinked, CInv, ChainTypeOK, LockTypeOK, Phases
<1>1. ChainTypeOK'
  OBVIOUS
<1>2. CallsInv'
  BY DEF CallsInv
<1>3. MapEntryInv'
  BY DEF MapEntryInv
<1>4. MapInv'
  <2> SUFFICES ASSUME NEW k \in Keys, NEW d \in Callers, phase'[d] # "idle", key'[d] = k
               PROVE  IF keyLocks'[k] = NoPromise
                      THEN phase'[d] = "done"
                      ELSE ticket'[d] <= ticket'[keyLocks'[k]]
    BY DEF MapInv
  <2>1. CASE keyLocks[key[r]] = r /\ k = key[r]
    <3>1. ticket[d] <= ticket[r]
      BY <2>1, NoPromiseAssumption DEF MapInv
    <3>2. d = r \/ ticket[d] < ticket[r]
      BY <3>1 DEF CallsInv
    <3>3. phase'[d] = "done"
      BY <2>1, <3>2 DEF ArmedInv
    <3>4. QED
      BY <2>1, <3>3
  <2>2. CASE ~(keyLocks[key[r]] = r /\ k = key[r])
    BY <2>2 DEF MapInv
  <2>3. QED
    BY <2>1, <2>2
<1>5. ChainInv' /\ ChainEntryInv'
  BY DEF ChainInv, ChainEntryInv
<1>6. ArmedInv' /\ ArmedEntryInv'
  BY DEF ArmedInv, ArmedEntryInv
<1>7. SettledInv'
  BY DEF SettledInv
<1>8. QED
  BY <1>1, <1>2, <1>3, <1>4, <1>5, <1>6, <1>7

LEMMA SettleCInv == ASSUME CInv, NEW s \in Callers, Settle(s) PROVE CInv'
BY DEF Settle, CInv, lockVars, ChainTypeOK, LockTypeOK, CallsInv, MapInv,
       MapEntryInv, ChainInv, ChainEntryInv, ArmedInv, ArmedEntryInv, SettledInv

LEMMA StutterCInv == ASSUME CInv, UNCHANGED chainVars PROVE CInv'
BY DEF chainVars, CInv, lockVars, ChainTypeOK, LockTypeOK, CallsInv, MapInv,
       MapEntryInv, ChainInv, ChainEntryInv, ArmedInv, ArmedEntryInv, SettledInv

(* The chain of promises always has the shape that CInv describes.         *)
THEOREM ChainShape == ChainSpec => []CInv
<1>1. CInv /\ [ChainNext]_chainVars => CInv'
  <2> SUFFICES ASSUME CInv, [ChainNext]_chainVars PROVE CInv'
    OBVIOUS
  <2>1. ASSUME NEW c \in Callers, Enter(c) PROVE CInv'
    BY <2>1, EnterCInv
  <2>2. ASSUME NEW c \in Callers, Arm(c) PROVE CInv'
    BY <2>2, ArmCInv
  <2>3. ASSUME NEW c \in Callers, Run(c) PROVE CInv'
    BY <2>3, RunCInv
  <2>4. ASSUME NEW c \in Callers, Release(c) PROVE CInv'
    BY <2>4, ReleaseCInv
  <2>5. ASSUME NEW c \in Callers, Settle(c) PROVE CInv'
    BY <2>5, SettleCInv
  <2>6. CASE UNCHANGED chainVars
    BY <2>6, StutterCInv
  <2>7. QED
    BY <2>1, <2>2, <2>3, <2>4, <2>5, <2>6 DEF ChainNext, Step, Terminated
<1>2. QED
  BY <1>1, InitCInv, PTL DEF ChainSpec

-----------------------------------------------------------------------------

LEMMA CInvImpliesArrivalOrder == CInv => ArrivalOrder
BY DEF CInv, ArmedInv, ArrivalOrder

LEMMA CInvImpliesMutualExclusion == CInv => MutualExclusion
<1> SUFFICES ASSUME CInv, NEW c \in Callers, NEW d \in Callers,
                    phase[c] = "running", phase[d] = "running", key[c] = key[d]
             PROVE  c = d
  BY DEF MutualExclusion
<1>1. ticket[c] \in Nat /\ ticket[d] \in Nat
  BY DEF CInv, ChainTypeOK, LockTypeOK
<1>2. ~(ticket[d] < ticket[c]) /\ ~(ticket[c] < ticket[d])
  BY DEF CInv, ArmedInv
<1>3. ticket[c] = ticket[d]
  BY <1>1, <1>2
<1>4. QED
  BY <1>3 DEF CInv, CallsInv

(* Type correctness of the promise chain.                                  *)
THEOREM ChainTypeCorrect == ChainSpec => []ChainTypeOK
<1>1. CInv => ChainTypeOK
  BY DEF CInv
<1>2. QED
  BY <1>1, ChainShape, PTL

(* The calls of one key never overlap, whatever their number.              *)
THEOREM LockExcludes == ChainSpec => []MutualExclusion
BY ChainShape, CInvImpliesMutualExclusion, PTL

(* The calls of one key run in the order in which they were made.          *)
THEOREM LockKeepsOrder == ChainSpec => []ArrivalOrder
BY ChainShape, CInvImpliesArrivalOrder, PTL

(* The map holds no entry for a key none of whose calls is outstanding.    *)
THEOREM LockMapIsTidy == ChainSpec => []NoEntryWhenIdle
<1>1. CInv => NoEntryWhenIdle
  BY DEF CInv, ChainTypeOK, MapEntryInv, NoEntryWhenIdle
<1>2. QED
  BY <1>1, ChainShape, PTL

(* The promise chain implements the abstract lock: Enter, Run and Release  *)
(* are its Call, Start and Finish, and the other steps are microtasks that *)
(* the abstract lock does not see.                                         *)
THEOREM ChainImplementsLock == ChainSpec => ImplementsFifoLock
<1>1. ChainInit => Abstract!LockInit
  BY DEF ChainInit, LockInit, Abstract!LockInit
<1>2. CInv /\ [ChainNext]_chainVars => [Abstract!LockNext]_(Abstract!lockVars)
  <2> SUFFICES ASSUME CInv, [ChainNext]_chainVars
               PROVE  Abstract!LockNext \/ UNCHANGED Abstract!lockVars
    OBVIOUS
  <2>1. ASSUME NEW c \in Callers, Enter(c) PROVE Abstract!LockNext
    BY <2>1 DEF Enter, Call, Abstract!LockNext, Abstract!Call
  <2>2. ASSUME NEW c \in Callers, Run(c) PROVE Abstract!LockNext
    <3>1. Abstract!Ahead(c) = {}
      BY <2>2 DEF CInv, ArmedInv, Run, Abstract!Ahead
    <3>2. Abstract!Start(c)
      BY <2>2, <3>1 DEF Run, Abstract!Start
    <3>3. QED
      BY <3>2 DEF Abstract!LockNext
  <2>3. ASSUME NEW c \in Callers, Release(c) PROVE Abstract!LockNext
    BY <2>3 DEF Release, Abstract!LockNext, Abstract!Finish
  <2>4. ASSUME NEW c \in Callers, Arm(c) \/ Settle(c)
        PROVE  UNCHANGED Abstract!lockVars
    BY <2>4 DEF Arm, Settle, lockVars, Abstract!lockVars
  <2>5. CASE UNCHANGED chainVars
    BY <2>5 DEF chainVars, lockVars, Abstract!lockVars
  <2>6. QED
    BY <2>1, <2>2, <2>3, <2>4, <2>5 DEF ChainNext, Step, Terminated
<1>3. QED
  BY <1>1, <1>2, ChainShape, PTL DEF ChainSpec, ImplementsFifoLock, Abstract!LockSpec

-----------------------------------------------------------------------------
(* The handlers over the promise chain.                                    *)

(* A restart empties the chain, and leaves the calls that are done.        *)
LEMMA RestartsCInv == ASSUME CInv, Restarts PROVE CInv'
<1> USE DEF CInv, Restarts, Restart
<1>1. ChainTypeOK'
  BY NoPromiseAssumption DEF ChainTypeOK, LockTypeOK, Phases, Reports
<1>2. CallsInv'
  BY DEF ChainTypeOK, LockTypeOK, CallsInv, Reports
<1>3. MapInv' /\ MapEntryInv'
  BY DEF ChainTypeOK, LockTypeOK, MapInv, MapEntryInv, Reports
<1>4. ChainInv' /\ ChainEntryInv'
  BY DEF ChainTypeOK, LockTypeOK, ChainInv, ChainEntryInv, Reports
<1>5. ArmedInv' /\ ArmedEntryInv' /\ SettledInv'
  BY DEF ChainTypeOK, LockTypeOK, ArmedInv, ArmedEntryInv, SettledInv, Reports
<1>6. QED
  BY <1>1, <1>2, <1>3, <1>4, <1>5

(* A handler's own steps leave the chain alone, and the lock with it.      *)
LEMMA ProceedKeepsLock ==
    ASSUME NEW r \in Reports, Proceed(r) PROVE UNCHANGED lockVars
BY Zenon DEF Proceed, EnsureRef, ReadRow, KeepUnchecked, CheckPasses, CheckFails, Revalidated,
   FindRid, WriteReport, LinkActivation

(* Every step of the composition is a step of the chain, or a restart.     *)
LEMMA LockedCInv == ASSUME CInv, [LockedNext]_lockedVars PROVE CInv'
<1>1. ASSUME NEW r \in Reports, Receives(r) PROVE CInv'
  BY <1>1, EnterCInv DEF Receives, Reports
<1>2. ASSUME NEW r \in Reports, ArmsOrSettles(r) PROVE CInv'
  BY <1>2, ArmCInv, SettleCInv DEF ArmsOrSettles, Reports
<1>3. ASSUME NEW r \in Reports, Runs(r) PROVE CInv'
  BY <1>3, RunCInv DEF Runs, Reports
<1>4. ASSUME NEW r \in Reports, Ends(r) PROVE CInv'
  BY <1>4, ReleaseCInv DEF Ends, Reports
<1>5. ASSUME NEW r \in Reports, Proceeds(r) PROVE CInv'
  <2>1. UNCHANGED chainVars
    BY <1>5, ProceedKeepsLock DEF Proceeds, chain, chainVars
  <2>2. QED
    BY <2>1, StutterCInv
<1>6. CASE Restarts
  BY <1>6, RestartsCInv
<1>7. CASE UNCHANGED lockedVars
  BY <1>7, StutterCInv DEF lockedVars, vars, chain, chainVars
<1>8. QED
  BY <1>1, <1>2, <1>3, <1>4, <1>5, <1>6, <1>7 DEF LockedNext

(* With the chain in the place of the lock, the handlers take the steps of *)
(* NrPosition and no others: a handler runs only when no earlier one of    *)
(* its key is active, restarts and redeliveries included.                  *)
THEOREM ChainServesPosition == LockedSpec => ImplementsPosition
<1>1. LockedInit => Init /\ CInv
  BY InitCInv DEF LockedInit
<1>2. CInv /\ [LockedNext]_lockedVars => [Next]_vars
  <2> SUFFICES ASSUME CInv, [LockedNext]_lockedVars PROVE Next \/ UNCHANGED vars
    OBVIOUS
  <2>1. ASSUME NEW r \in Reports, Receives(r) PROVE Next
    BY <2>1 DEF Receives, Enter, Receive, position, Next
  <2>2. ASSUME NEW r \in Reports, ArmsOrSettles(r) PROVE UNCHANGED vars
    BY <2>2 DEF ArmsOrSettles, Arm, Settle, position, vars
  <2>3. ASSUME NEW r \in Reports, Runs(r) PROVE Next
    <3>1. Ahead(r) = {}
      BY <2>3 DEF CInv, ArmedInv, Runs, Run, Ahead, Reports
    <3>2. Begin(r)
      BY <2>3, <3>1 DEF Runs, Run, Begin, Start
    <3>3. QED
      BY <3>2 DEF Handle, Next
  <2>4. ASSUME NEW r \in Reports, Proceeds(r) \/ Ends(r) PROVE Next
    BY <2>4 DEF Proceeds, Ends, Handle, Next
  <2>5. CASE Restarts
    BY <2>5 DEF Restarts, Next
  <2>6. CASE UNCHANGED lockedVars
    BY <2>6 DEF lockedVars
  <2>7. QED
    BY <2>1, <2>2, <2>3, <2>4, <2>5, <2>6 DEF LockedNext
<1>3. QED
  BY <1>1, <1>2, LockedCInv, PTL DEF LockedSpec, Spec, ImplementsPosition

(* So what is proved of the handlers under a lock holds of the process.    *)
THEOREM ProcessKeepsPosition ==
    LockedSpec => [](ReadIsCurrent /\ SnapshotIsNewest)
                    /\ NoResurrection /\ TrustUnlinkTakesTwoFailures
BY ChainServesPosition, CarriedRidIsCurrent, SnapshotFollowsHistory, RejectedLinksStayRejected,
   TrustLinksDropLate, PTL DEF ImplementsPosition

-----------------------------------------------------------------------------
(* The buffer.                                                             *)

BufferInv == IsFiniteSet(buffer) /\ BufferBounded

(* The shutdown's batch is in flight until it is answered.                 *)
LastBatchInv ==
    /\ process \in {"up", "stopping"} => lastBatch = {}
    /\ process \in {"flushing", "exited"} =>
          lastBatch \in inflight \/ lastBatch \subseteq table \cup dropped
    /\ ShutdownFlushCompletes

HistoryInv == HistoryTypeOK /\ EachRowOnce /\ BufferInv /\ LastBatchInv

LEMMA InitHistoryInv == HistoryInit => HistoryInv
<1> SUFFICES ASSUME HistoryInit PROVE HistoryInv
  OBVIOUS
<1>1. HistoryTypeOK /\ EachRowOnce /\ LastBatchInv
  BY DEF HistoryInit, HistoryTypeOK, EachRowOnce, LastBatchInv, ShutdownFlushCompletes, Queued, Alive
<1>2. BufferInv
  BY FS_EmptySet, BatchAssumption DEF HistoryInit, BufferInv, BufferBounded
<1>3. QED
  BY <1>1, <1>2 DEF HistoryInv

(* Taking the rows out of the buffer leaves it empty, with nothing lost.   *)
LEMMA EmptyBuffer == BatchMax > 0 /\ IsFiniteSet({}) /\ Cardinality({}) = 0
BY FS_EmptySet, BatchAssumption

LEMMA QueueHistoryIInv ==
    ASSUME HistoryInv, NEW x \in Rows, QueueHistory(x) PROVE HistoryInv'
<1> USE DEF HistoryInv, QueueHistory
<1>1. x \notin buffer /\ x \notin table /\ x \notin dropped /\ \A b \in inflight : x \notin b
  BY DEF EachRowOnce, Queued
<1> DEFINE rows == buffer \cup {x}
<1>2. HistoryTypeOK'
  <2>1. rows \subseteq Rows
    BY DEF HistoryTypeOK
  <2>2. buffer' \subseteq Rows /\ inflight' \subseteq SUBSET Rows
    <3>1. CASE IsFull(rows)
      BY <2>1, <3>1 DEF HistoryTypeOK, Flush
    <3>2. CASE ~IsFull(rows)
      BY <2>1, <3>2 DEF HistoryTypeOK
    <3>3. QED
      BY <3>1, <3>2
  <2>3. timerSet' \in BOOLEAN /\ callback' \in BOOLEAN
    BY DEF HistoryTypeOK, Flush
  <2>4. report' \in [Rows -> {"new", "handling", "queued"}]
    BY DEF HistoryTypeOK
  <2>5. QED
    BY <2>2, <2>3, <2>4 DEF HistoryTypeOK
<1>3. Queued' = Queued \cup {x}
  BY DEF Queued, HistoryTypeOK
<1>4. EachRowOnce'
  <2>1. CASE IsFull(rows)
    <3>1. inflight' = inflight \cup {rows} /\ buffer' = {}
      BY <2>1 DEF Flush
    <3>2. \A b \in inflight' : b \cap (buffer' \cup table \cup dropped) = {}
      BY <1>1, <3>1 DEF EachRowOnce
    <3>3. \A b, c \in inflight' : b = c \/ b \cap c = {}
      <4> SUFFICES ASSUME NEW b \in inflight', NEW c \in inflight', b # c
                   PROVE  b \cap c = {}
        OBVIOUS
      <4>1. CASE b = rows
        BY <1>1, <3>1, <4>1 DEF EachRowOnce
      <4>2. CASE c = rows
        BY <1>1, <3>1, <4>2 DEF EachRowOnce
      <4>3. CASE b # rows /\ c # rows
        BY <3>1, <4>3 DEF EachRowOnce
      <4>4. QED
        BY <4>1, <4>2, <4>3
    <3>4. Queued' = UNION (inflight' \cup {buffer', table, dropped})
      BY <1>3, <3>1 DEF EachRowOnce
    <3>5. QED
      BY <3>1, <3>2, <3>3, <3>4 DEF EachRowOnce
  <2>2. CASE ~IsFull(rows)
    <3>1. inflight' = inflight /\ buffer' = rows
      BY <2>2
    <3>2. QED
      BY <1>1, <1>3, <3>1 DEF EachRowOnce
  <2>3. QED
    BY <2>1, <2>2
<1>5. BufferInv'
  <2>1. IsFiniteSet(rows) /\ Cardinality(rows) \in Nat
    BY FS_AddElement, FS_CardinalityType DEF BufferInv
  <2>2. CASE IsFull(rows)
    BY <2>2, EmptyBuffer DEF Flush, BufferInv, BufferBounded
  <2>3. CASE ~IsFull(rows)
    BY <2>1, <2>3, BatchAssumption DEF IsFull, BufferInv, BufferBounded
  <2>4. QED
    BY <2>2, <2>3
<1>6. LastBatchInv'
  BY DEF LastBatchInv, ShutdownFlushCompletes, Alive, Flush
<1>7. QED
  BY <1>2, <1>4, <1>5, <1>6

LEMMA FlushIInv ==
    ASSUME HistoryInv, TimerFires \/ FlushAtShutdown PROVE HistoryInv'
<1> USE DEF HistoryInv, TimerFires, FlushAtShutdown, Flush
<1>1. HistoryTypeOK'
  BY DEF HistoryTypeOK
<1>2. EachRowOnce'
  BY DEF EachRowOnce, Queued
<1>3. BufferInv'
  BY EmptyBuffer DEF BufferInv, BufferBounded
<1>4. LastBatchInv'
  BY DEF LastBatchInv, ShutdownFlushCompletes, Alive
<1>5. QED
  BY <1>1, <1>2, <1>3, <1>4

LEMMA AnswerIInv ==
    ASSUME HistoryInv, NEW b \in inflight, InsertSucceeds(b) \/ InsertFails(b) PROVE HistoryInv'
<1> USE DEF HistoryInv, InsertSucceeds, InsertFails
<1>1. HistoryTypeOK'
  BY DEF HistoryTypeOK
<1>2. EachRowOnce'
  BY DEF EachRowOnce, Queued
<1>3. BufferInv'
  BY DEF BufferInv, BufferBounded
<1>4. LastBatchInv'
  BY DEF LastBatchInv, ShutdownFlushCompletes, Alive
<1>5. QED
  BY <1>1, <1>2, <1>3, <1>4

(* The steps that touch neither the buffer nor the batches.                *)
LEMMA OtherIInv ==
    ASSUME HistoryInv, (\E x \in Rows : TakeReport(x)) \/ Signal \/ Exit \/ Crash \/ UNCHANGED historyVars
    PROVE  HistoryInv'
<1> USE DEF HistoryInv, TakeReport, Signal, Exit, Crash, historyVars
<1>1. HistoryTypeOK'
  BY DEF HistoryTypeOK
<1>2. Queued' = Queued
  BY DEF HistoryTypeOK, Queued
<1>3. EachRowOnce' /\ BufferInv'
  BY <1>2 DEF EachRowOnce, BufferInv, BufferBounded
<1>4. LastBatchInv'
  BY DEF LastBatchInv, ShutdownFlushCompletes, Alive
<1>5. QED
  BY <1>1, <1>3, <1>4

(* The inductive invariant of the history buffer.                          *)
THEOREM BufferIsConsistent == HistorySpec => []HistoryInv
<1>1. HistoryInv /\ [HistoryNext]_historyVars => HistoryInv'
  BY QueueHistoryIInv, FlushIInv, AnswerIInv, OtherIInv DEF HistoryNext, AnswerInsert
<1>2. QED
  BY <1>1, InitHistoryInv, PTL DEF HistorySpec

(* No history row is written twice or left out of account.                 *)
THEOREM RowsAreWrittenOnce == HistorySpec => []EachRowOnce
<1>1. HistoryInv => EachRowOnce
  BY DEF HistoryInv
<1>2. QED
  BY <1>1, BufferIsConsistent, PTL

(* The buffer stays below HISTORY_BATCH_MAX.                               *)
THEOREM BufferStaysBounded == HistorySpec => []BufferBounded
<1>1. HistoryInv => BufferBounded
  BY DEF HistoryInv, BufferInv
<1>2. QED
  BY <1>1, BufferIsConsistent, PTL

(* The process does not exit before its final flush is answered.           *)
THEOREM ShutdownAwaitsItsFlush == HistorySpec => []ShutdownFlushCompletes
<1>1. HistoryInv => ShutdownFlushCompletes
  BY DEF HistoryInv, LastBatchInv
<1>2. QED
  BY <1>1, BufferIsConsistent, PTL

-----------------------------------------------------------------------------
(* The process.                                                            *)

(* Whatever the connections do, the buffer sees only its own steps.        *)
THEOREM ProcessIsHistory == ProcessSpec => HistorySpec
<1>1. ProcessInit => HistoryInit
  BY DEF ProcessInit
<1>2. [ProcessNext]_all => [HistoryNext]_historyVars
  <2> SUFFICES ASSUME ProcessNext PROVE [HistoryNext]_historyVars
    BY DEF all
  <2>1. CASE \E c \in Clients : Connected(c) \/ ClientError(c)
    BY <2>1 DEF Connected, ClientError
  <2>2. CASE Refused
    BY <2>2 DEF Refused, HistoryNext
  <2>3. CASE ReconnectFires
    BY <2>3 DEF ReconnectFires
  <2>4. CASE RetryFires
    BY <2>4 DEF RetryFires
  <2>5. CASE ConsumerCrashes \/ Stop
    BY <2>5 DEF ConsumerCrashes, Stop, HistoryNext
  <2>6. CASE HandlerStep
    BY <2>6 DEF HandlerStep, HistoryNext
  <2>7. QED
    BY <2>1, <2>2, <2>3, <2>4, <2>5, <2>6 DEF ProcessNext
<1>3. QED
  BY <1>1, <1>2, PTL DEF ProcessSpec, HistorySpec

(* So the connections' failures cost the history no row and no limit.      *)
THEOREM ProcessKeepsHistory ==
    ProcessSpec => [](EachRowOnce /\ BufferBounded /\ ShutdownFlushCompletes)
BY ProcessIsHistory, RowsAreWrittenOnce, BufferStaysBounded, ShutdownAwaitsItsFlush, PTL

StreamTypeOK ==
    /\ conn \in [Clients -> {"none", "subscribed", "closed"}]
    /\ stamp \in [Clients -> Nat] /\ generation \in Nat
    /\ activeClient \in Clients \cup {None}
    /\ reconnecting \in BOOLEAN
    /\ attempts \in Nat /\ waiting \in Nat /\ retries \in Nat
    /\ broken \subseteq Clients
    /\ \A c \in Clients : stamp[c] <= generation

(* The connection in activeClient is the subscribed one.                   *)
ActiveInv ==
    /\ \A c \in Clients : conn[c] = "subscribed" <=> c = activeClient
    /\ \A c \in broken : conn[c] = "closed"

(* Only the active connection is of the present generation, so the errors  *)
(* of all others are ignored.                                              *)
GenerationInv ==
    \A c \in Clients : /\ conn[c] = "subscribed" => stamp[c] = generation
                       /\ conn[c] = "closed" => stamp[c] < generation

(* One reconnect is on its way unless there is a connection, and           *)
(* `reconnecting' says that it is waiting for its timer.                   *)
OwedInv ==
    /\ attempts + waiting + retries = IF activeClient = None THEN 1 ELSE 0
    /\ reconnecting <=> waiting = 1

StreamInv == StreamTypeOK /\ (process = "up" => ActiveInv /\ GenerationInv /\ OwedInv)

LEMMA NoneIsNoClient == None \notin Clients
BY ClientsAssumption DEF Clients

LEMMA InitStream == ProcessInit => StreamInv
<1> SUFFICES ASSUME ProcessInit PROVE StreamInv
  OBVIOUS
<1>1. StreamTypeOK
  <2>1. conn \in [Clients -> {"none", "subscribed", "closed"}]
    BY DEF ProcessInit
  <2>2. stamp \in [Clients -> Nat] /\ \A c \in Clients : stamp[c] <= generation
    BY DEF ProcessInit
  <2>3. reconnecting \in BOOLEAN
    BY DEF ProcessInit
  <2>4. generation \in Nat /\ attempts \in Nat /\ waiting \in Nat /\ retries \in Nat
    BY DEF ProcessInit
  <2>5. activeClient \in Clients \cup {None} /\ broken \subseteq Clients
    BY DEF ProcessInit
  <2>6. QED
    BY <2>1, <2>2, <2>3, <2>4, <2>5 DEF StreamTypeOK
<1>2. ActiveInv /\ GenerationInv /\ OwedInv
  BY NoneIsNoClient DEF ProcessInit, ActiveInv, GenerationInv, OwedInv
<1>3. QED
  BY <1>1, <1>2 DEF StreamInv

(* The types of what ScheduleReconnect changes.                            *)
LEMMA ScheduleTypes ==
    ASSUME StreamTypeOK, ScheduleReconnect
    PROVE  /\ conn' \in [Clients -> {"none", "subscribed", "closed"}]
           /\ generation' \in Nat /\ generation' >= generation
           /\ activeClient' \in Clients \cup {None}
           /\ reconnecting' \in BOOLEAN /\ waiting' \in Nat
<1>1. CASE reconnecting
  BY <1>1 DEF ScheduleReconnect, StreamTypeOK
<1>2. CASE ~reconnecting
  BY <1>2 DEF ScheduleReconnect, Disconnected, StreamTypeOK
<1>3. QED
  BY <1>1, <1>2

(* What ScheduleReconnect does when nothing waits yet.                     *)
LEMMA ScheduleStream ==
    ASSUME StreamTypeOK, process = "up", process' = "up", ~reconnecting, ScheduleReconnect,
           \A c \in Clients : conn[c] = "subscribed" <=> c = activeClient,
           waiting = 0, attempts = 0, attempts' = 0, retries' = 0, stamp' = stamp,
           broken' \subseteq Clients,
           \A c \in broken' : conn[c] # "none"
    PROVE  StreamInv'
<1> USE DEF ScheduleReconnect, Disconnected
<1>1. StreamTypeOK'
  BY DEF StreamTypeOK
<1>2. \A c \in Clients : conn'[c] # "subscribed"
  BY DEF StreamTypeOK
<1>3. ActiveInv'
  BY <1>2, NoneIsNoClient DEF StreamTypeOK, ActiveInv
<1>4. GenerationInv'
  BY <1>2 DEF StreamTypeOK, GenerationInv
<1>5. OwedInv'
  BY DEF StreamTypeOK, OwedInv
<1>6. QED
  BY <1>1, <1>3, <1>4, <1>5 DEF StreamInv

LEMMA ConnectedStream == ASSUME StreamInv, NEW c \in Clients, Connected(c) PROVE StreamInv'
<1> USE DEF StreamInv, Connected, historyVars
<1>1. StreamTypeOK'
  BY DEF StreamTypeOK
<1>2. ASSUME process = "up" PROVE ActiveInv' /\ GenerationInv' /\ OwedInv'
  <2> USE <1>2
  <2>1. activeClient = None /\ attempts = 1 /\ waiting = 0 /\ retries = 0
    BY DEF OwedInv, StreamTypeOK
  <2>2. ActiveInv'
    BY <2>1, NoneIsNoClient DEF ActiveInv, StreamTypeOK
  <2>3. GenerationInv'
    BY <2>1, NoneIsNoClient DEF GenerationInv, ActiveInv, StreamTypeOK
  <2>4. OwedInv'
    BY <2>1, NoneIsNoClient DEF OwedInv, StreamTypeOK
  <2>5. QED
    BY <2>2, <2>3, <2>4
<1>3. QED
  BY <1>1, <1>2

LEMMA ErrorStream == ASSUME StreamInv, NEW c \in Clients, ClientError(c) PROVE StreamInv'
<1> USE DEF ClientError, OfThisGeneration, historyVars
<1>1. StreamTypeOK'
  <2>1. CASE ScheduleReconnect
    BY <2>1, ScheduleTypes DEF StreamInv, StreamTypeOK
  <2>2. CASE UNCHANGED <<conn, generation, activeClient, reconnecting, waiting>>
    BY <2>2 DEF StreamInv, StreamTypeOK
  <2>3. QED
    BY <2>1, <2>2
<1>2. CASE process # "up"
  BY <1>1, <1>2 DEF StreamInv
<1>3. CASE process = "up" /\ stamp[c] = generation
  <2> USE <1>3
  <2>1. c = activeClient
    BY DEF StreamInv, StreamTypeOK, ActiveInv, GenerationInv
  <2>2. attempts = 0 /\ waiting = 0 /\ retries = 0
    BY <2>1, NoneIsNoClient DEF StreamInv, StreamTypeOK, OwedInv
  <2>3. ~reconnecting
    BY <2>2 DEF StreamInv, OwedInv
  <2>4. \A d \in broken' : conn[d] # "none"
    BY DEF StreamInv, ActiveInv
  <2>5. ScheduleReconnect /\ process' = "up" /\ attempts' = 0 /\ retries' = 0 /\ stamp' = stamp
    BY <2>2
  <2>6. QED
    BY <1>1, <2>2, <2>3, <2>4, <2>5, ScheduleStream DEF StreamInv, StreamTypeOK, ActiveInv
<1>4. CASE process = "up" /\ stamp[c] # generation
  <2>1. conn[c] = "closed"
    BY <1>4 DEF StreamInv, StreamTypeOK, GenerationInv
  <2>2. ActiveInv' /\ GenerationInv' /\ OwedInv'
    BY <1>4, <2>1 DEF StreamInv, ActiveInv, GenerationInv, OwedInv
  <2>3. QED
    BY <1>1, <2>2 DEF StreamInv
<1>5. QED
  BY <1>2, <1>3, <1>4

LEMMA RefusedStream == ASSUME StreamInv, Refused PROVE StreamInv'
<1> USE DEF Refused, Crash, Alive, historyVars
<1>1. StreamTypeOK'
  BY DEF StreamInv, StreamTypeOK
<1>2. process' = "up" => process = "up" /\ retries' = retries + 1
  OBVIOUS
<1>3. ASSUME process' = "up" PROVE ActiveInv' /\ GenerationInv' /\ OwedInv'
  BY <1>2, <1>3 DEF StreamInv, StreamTypeOK, ActiveInv, GenerationInv, OwedInv
<1>4. QED
  BY <1>1, <1>3 DEF StreamInv

LEMMA TimersStream == ASSUME StreamInv, ReconnectFires \/ RetryFires PROVE StreamInv'
<1>1. CASE ReconnectFires
  <2> USE <1>1 DEF ReconnectFires, historyVars
  <2>1. StreamTypeOK'
    <3>1. waiting' \in Nat /\ attempts' \in Nat
      BY DEF StreamInv, StreamTypeOK
    <3>2. QED
      BY <3>1 DEF StreamInv, StreamTypeOK
  <2>2. ASSUME process = "up" PROVE ActiveInv' /\ GenerationInv' /\ OwedInv'
    BY <2>2 DEF StreamInv, StreamTypeOK, ActiveInv, GenerationInv, OwedInv
  <2>3. QED
    BY <2>1, <2>2 DEF StreamInv
<1>2. CASE RetryFires
  <2> USE <1>2 DEF RetryFires, historyVars
  <2>1. StreamTypeOK'
    <3>1. retries' \in Nat
      BY DEF StreamInv, StreamTypeOK
    <3>2. QED
      BY <3>1, ScheduleTypes DEF StreamInv, StreamTypeOK
  <2>2. CASE process # "up"
    BY <2>1, <2>2 DEF StreamInv
  <2>3. CASE process = "up"
    <3>1. attempts = 0 /\ waiting = 0 /\ retries = 1
      BY <2>3 DEF StreamInv, StreamTypeOK, OwedInv
    <3>2. ~reconnecting
      BY <2>3, <3>1 DEF StreamInv, OwedInv
    <3>3. broken' \subseteq Clients /\ \A c \in broken' : conn[c] # "none"
      BY <2>3 DEF StreamInv, StreamTypeOK, ActiveInv
    <3>4. ScheduleReconnect /\ process' = "up" /\ attempts' = 0 /\ retries' = 0 /\ stamp' = stamp
      BY <2>3, <3>1
    <3>5. QED
      BY <2>3, <3>1, <3>2, <3>3, <3>4, ScheduleStream DEF StreamInv, ActiveInv
  <2>4. QED
    BY <2>2, <2>3
<1>3. QED
  BY <1>1, <1>2

(* The steps that leave the connections alone, or end the process.         *)
LEMMA OtherStream ==
    ASSUME StreamInv,
           Stop \/ ConsumerCrashes \/ (HandlerStep /\ UNCHANGED <<stream, kafka, errors, refusals>>)
             \/ UNCHANGED all
    PROVE  StreamInv'
<1>1. CASE Stop
  BY <1>1 DEF Stop, Signal, Disconnected, StreamInv, StreamTypeOK
<1>2. CASE UNCHANGED stream
  <2>1. process' = "up" => process = "up"
    BY <1>2, Zenon DEF HandlerStep, TakeReport, QueueHistory, TimerFires, AnswerInsert,
       InsertSucceeds, InsertFails, FlushAtShutdown, Exit, ConsumerCrashes, Crash, Stop, Signal,
       all, historyVars
  <2>2. QED
    BY <1>2, <2>1 DEF stream, StreamInv, StreamTypeOK, ActiveInv, GenerationInv, OwedInv
<1>3. QED
  BY <1>1, <1>2 DEF ConsumerCrashes, all

(* The process never has two connections, nor two reconnects on their way, *)
(* nor neither of them.                                                    *)
THEOREM OneStreamOnly == ProcessSpec => []OneStream
<1>1. StreamInv /\ [ProcessNext]_all => StreamInv'
  BY ConnectedStream, ErrorStream, RefusedStream, TimersStream, OtherStream DEF ProcessNext
<1>2. StreamInv => OneStream
  BY NoneIsNoClient DEF StreamInv, StreamTypeOK, ActiveInv, OwedInv, OneStream, Subscribed
<1>3. QED
  BY <1>1, <1>2, InitStream, PTL DEF ProcessSpec
=============================================================================
