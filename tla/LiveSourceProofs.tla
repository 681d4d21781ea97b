-------------------------- MODULE LiveSourceProofs --------------------------
(***************************************************************************)
(* Proofs about LiveSource: whoever comes and goes, one source serves all  *)
(* the viewers and nothing is timed for nobody; and the snapshot and the   *)
(* differences a viewer was sent add up to the latest computation.         *)
(***************************************************************************)
EXTENDS LiveSource, TLAPS

USE LiveSourceAssumption

(* An answer that was read is a picture of the map.                        *)
AnswersInv == \A s \in Sources : phase[s] = "read" => answer[s] \in Pictures

(* The sources not created yet are as they were initially.                 *)
MadeInv ==
    /\ current <= made
    /\ \A s \in Sources : s > made => phase[s] = "idle" /\ latest[s] = None

(* The difference to come is taken to what the viewers of the source in    *)
(* the map were sent last.                                                 *)
PreviousInv ==
    /\ \A v \in Viewers : at[v] = 0 => view[v] = None
    /\ \A s \in Sources : s = current /\ ~crossed[s] /\ latest[s] # None
                              => previous = latest[s]

TypeInv == TypeOK /\ AnswersInv
ServedInv == OneSourceServesAll /\ MadeInv
ViewInv == PreviousInv /\ ViewsFollowLatest

-----------------------------------------------------------------------------

(* EndRun and Run keep the types: the steps that Finish, Fail and the      *)
(* timers have in common.                                                  *)
LEMMA EndRunType ==
    ASSUME TypeInv, NEW s \in Sources, EndRun(s)
    PROVE  /\ phase' \in [Sources -> {"idle", "asked", "read"}]
           /\ pending' \in [Sources -> BOOLEAN]
           /\ answer' \in [Sources -> Pictures \cup {None}]
           /\ AnswersInv'
  BY DEF TypeInv, TypeOK, AnswersInv, EndRun

LEMMA RunType ==
    ASSUME TypeInv, NEW s \in Sources, Run(s), UNCHANGED answer
    PROVE  /\ phase' \in [Sources -> {"idle", "asked", "read"}]
           /\ pending' \in [Sources -> BOOLEAN]
           /\ AnswersInv'
  BY DEF TypeInv, TypeOK, AnswersInv, Run

(* What a subscriber makes of an emission is a picture.                    *)
LEMMA ShownType ==
    ASSUME TypeInv, NEW v \in Viewers, NEW p \in Pictures
    PROVE  Shown(v, p) \in Pictures
  <1>1. view[v] \in Pictures \cup {None} /\ previous \in Pictures \cup {None}
    BY DEF TypeInv, TypeOK
  <1>2. ASSUME NEW shown \in Pictures, NEW before \in Pictures
        PROVE  ApplyDelta(shown, diff(before, p)) \in Pictures
    BY DEF ApplyDelta, diff, Pictures
  <1> QED BY <1>1, <1>2 DEF Shown

(* A difference applied to what it was taken to gives what it was taken    *)
(* from: diff() of live-trains-source.ts and applyMapDelta agree.          *)
LEMMA DeltasApply ==
    ASSUME NEW p \in Pictures, NEW q \in Pictures
    PROVE  ApplyDelta(p, diff(p, q)) = q
  BY DEF ApplyDelta, diff, Pictures

-----------------------------------------------------------------------------

LEMMA TypeInit == Init => TypeInv
  BY DEF Init, TypeInv, TypeOK, AnswersInv, Sources

LEMMA TypeStep == TypeInv /\ [Next]_vars => TypeInv'
  <1> SUFFICES ASSUME TypeInv, [Next]_vars PROVE TypeInv'
    OBVIOUS
  <1> USE DEF TypeInv
  <1>1. ASSUME NEW s \in Sources, Read(s) PROVE TypeInv'
    BY <1>1 DEF TypeOK, AnswersInv, Read, clients
  <1>2. ASSUME NEW s \in Sources, Finish(s) PROVE TypeInv'
    <2>1. answer[s] \in Pictures
      BY <1>2 DEF AnswersInv, Finish
    <2>2. view' \in [Viewers -> Pictures \cup {None}]
      BY <1>2, <2>1, ShownType DEF TypeOK, Finish
    <2>3. crossed' \in [Sources -> BOOLEAN]
      BY <1>2 DEF Finish
    <2> QED BY <1>2, <2>1, <2>2, <2>3, EndRunType DEF TypeOK, Finish
  <1>3. ASSUME NEW s \in Sources, Fail(s) PROVE TypeInv'
    BY <1>3, EndRunType DEF TypeOK, Fail, clients
  <1>4. ASSUME NEW s \in Sources, Trigger(s) PROVE TypeInv'
    BY <1>4 DEF TypeOK, AnswersInv, Trigger, clients
  <1>5. ASSUME NEW s \in Sources, DebounceFires(s) PROVE TypeInv'
    BY <1>5, RunType DEF TypeOK, DebounceFires, clients
  <1>6. ASSUME NEW s \in Sources, Tick(s) PROVE TypeInv'
    BY <1>6, RunType DEF TypeOK, Tick, clients
  <1>7. ASSUME NEW v \in Viewers, Create(v) PROVE TypeInv'
    BY <1>7 DEF TypeOK, AnswersInv, Create, Sources
  <1>8. ASSUME NEW v \in Viewers, Join(v) PROVE TypeInv'
    BY <1>8 DEF TypeOK, AnswersInv, Join, server, Sources
  <1>9. ASSUME NEW v \in Viewers, Leave(v) PROVE TypeInv'
    <2>1. /\ current' \in 0..MaxSources
          /\ on' \in [Sources -> BOOLEAN] /\ debounce' \in [Sources -> BOOLEAN]
      <3>1. CASE Stop(at[v])
        <4>1. on \in [Sources -> BOOLEAN] /\ debounce \in [Sources -> BOOLEAN]
          BY DEF TypeOK
        <4>2. current' \in 0..MaxSources
          BY <3>1 DEF Stop
        <4> QED BY <3>1, <4>1, <4>2, Zenon DEF Stop
      <3>2. CASE UNCHANGED <<current, on, debounce>>
        BY <3>2 DEF TypeOK
      <3> QED BY <1>9, <3>1, <3>2 DEF Leave
    <2>2. at' \in [Viewers -> 0..MaxSources] /\ view' \in [Viewers -> Pictures \cup {None}]
      BY <1>9 DEF TypeOK, Leave
    <2> QED BY <1>9, <2>1, <2>2 DEF TypeOK, AnswersInv, Leave
  <1>10. CASE Move
    BY <1>10 DEF TypeOK, AnswersInv, Move, server, clients
  <1>11. CASE UNCHANGED vars
    BY <1>11 DEF TypeOK, AnswersInv, vars, server, clients
  <1> QED BY <1>1, <1>2, <1>3, <1>4, <1>5, <1>6, <1>7, <1>8, <1>9, <1>10, <1>11 DEF Next

(* Every variable keeps its type.                                          *)
THEOREM TypeCorrect == Spec => []TypeOK
  <1>1. TypeInv => TypeOK
    BY DEF TypeInv
  <1> QED BY TypeInit, TypeStep, <1>1, PTL DEF Spec

-----------------------------------------------------------------------------

LEMMA ServedInit == Init => ServedInv
  BY DEF Init, ServedInv, OneSourceServesAll, MadeInv, Sources

LEMMA ServedStep == TypeInv /\ ServedInv /\ [Next]_vars => ServedInv'
  <1> SUFFICES ASSUME TypeOK, ServedInv, [Next]_vars PROVE ServedInv'
    BY DEF TypeInv
  <1> USE DEF ServedInv
  <1>1. ASSUME NEW s \in Sources, Read(s) PROVE ServedInv'
    BY <1>1 DEF TypeOK, OneSourceServesAll, MadeInv, Read, clients, Sources
  <1>2. ASSUME NEW s \in Sources, Finish(s) PROVE ServedInv'
    BY <1>2 DEF TypeOK, OneSourceServesAll, MadeInv, Finish, EndRun, Sources
  <1>3. ASSUME NEW s \in Sources, Fail(s) PROVE ServedInv'
    BY <1>3 DEF TypeOK, OneSourceServesAll, MadeInv, Fail, EndRun, clients, Sources
  <1>4. ASSUME NEW s \in Sources, Trigger(s) PROVE ServedInv'
    BY <1>4 DEF TypeOK, OneSourceServesAll, MadeInv, Trigger, clients, Sources
  <1>5. ASSUME NEW s \in Sources, DebounceFires(s) PROVE ServedInv'
    BY <1>5 DEF TypeOK, OneSourceServesAll, MadeInv, DebounceFires, Run, clients, Sources
  <1>6. ASSUME NEW s \in Sources, Tick(s) PROVE ServedInv'
    BY <1>6 DEF TypeOK, OneSourceServesAll, MadeInv, Tick, Run, clients, Sources
  <1>7. ASSUME NEW v \in Viewers, Create(v) PROVE ServedInv'
    BY <1>7 DEF TypeOK, OneSourceServesAll, MadeInv, Create, Sources
  <1>8. ASSUME NEW v \in Viewers, Join(v) PROVE ServedInv'
    BY <1>8 DEF TypeOK, OneSourceServesAll, MadeInv, Join, server, Sources
  <1>9. ASSUME NEW v \in Viewers, Leave(v) PROVE ServedInv'
    <2>1. at[v] = current /\ at[v] \in Sources
      BY <1>9 DEF TypeOK, OneSourceServesAll, Leave, Sources
    <2>2. MadeInv'
      BY <1>9 DEF TypeOK, MadeInv, Leave, Stop, Sources
    <2>3. CASE \E u \in Viewers \ {v} : at[u] = at[v]
      BY <1>9, <2>1, <2>2, <2>3 DEF TypeOK, OneSourceServesAll, Leave
    <2>4. CASE ~\E u \in Viewers \ {v} : at[u] = at[v]
      BY <1>9, <2>1, <2>2, <2>4 DEF TypeOK, OneSourceServesAll, Leave, Stop
    <2> QED BY <2>3, <2>4
  <1>10. CASE Move
    BY <1>10 DEF OneSourceServesAll, MadeInv, Move, server, clients
  <1>11. CASE UNCHANGED vars
    BY <1>11 DEF OneSourceServesAll, MadeInv, vars, server, clients
  <1> QED BY <1>1, <1>2, <1>3, <1>4, <1>5, <1>6, <1>7, <1>8, <1>9, <1>10, <1>11 DEF Next

(* Every viewer is on the source in the map, and timers run only while     *)
(* someone looks.                                                          *)
THEOREM ViewersShareOneSource == Spec => []OneSourceServesAll
  <1>1. ServedInv => OneSourceServesAll
    BY DEF ServedInv
  <1> QED BY TypeInit, TypeStep, ServedInit, ServedStep, <1>1, PTL DEF Spec

-----------------------------------------------------------------------------

LEMMA ViewInit == Init => ViewInv
  BY DEF Init, ViewInv, PreviousInv, ViewsFollowLatest, Sources

(* The step that serves the viewers.                                       *)
LEMMA FinishKeepsViews ==
    ASSUME TypeInv, ServedInv, ViewInv, NEW s \in Sources, Finish(s)
    PROVE  ViewInv'
  <1>1. answer[s] \in Pictures /\ answer[s] # None
    BY DEF TypeInv, AnswersInv, Finish
  <1>2. ASSUME NEW v \in Viewers, at[v] # 0, ~crossed'[at[v]]
        PROVE  view'[v] = latest'[at[v]]
    <2>1. at[v] \in Sources /\ at[v] = current /\ ~crossed[at[v]]
      BY <1>2 DEF TypeInv, TypeOK, ServedInv, OneSourceServesAll, Finish, Sources
    <2>2. view[v] = latest[at[v]]
      BY <1>2, <2>1 DEF ViewInv, ViewsFollowLatest
    <2>3. CASE at[v] # s
      BY <2>1, <2>2, <2>3 DEF TypeInv, TypeOK, Finish
    <2>4. CASE at[v] = s
      <3>1. view'[v] = Shown(v, answer[s]) /\ latest'[s] = answer[s]
        BY <2>4 DEF TypeInv, TypeOK, Finish
      <3>2. view[v] # None => previous = view[v] /\ view[v] \in Pictures
        BY <2>1, <2>2 DEF ViewInv, PreviousInv, TypeInv, TypeOK
      <3>3. Shown(v, answer[s]) = answer[s]
        BY <1>1, <3>2, DeltasApply DEF Shown
      <3> QED BY <2>4, <3>1, <3>3
    <2> QED BY <2>3, <2>4
  <1>3. ASSUME NEW q \in Sources, q = current', ~crossed'[q], latest'[q] # None
        PROVE  previous' = latest'[q]
    BY <1>3 DEF TypeInv, TypeOK, Finish
  <1>4. ASSUME NEW v \in Viewers, at'[v] = 0 PROVE view'[v] = None
    BY <1>4 DEF ViewInv, PreviousInv, Finish, Sources
  <1>5. at' = at /\ current' = current
    BY DEF Finish
  <1> QED BY <1>2, <1>3, <1>4, <1>5 DEF ViewInv, PreviousInv, ViewsFollowLatest

LEMMA ViewStep == TypeInv /\ ServedInv /\ ViewInv /\ [Next]_vars => ViewInv'
  <1> SUFFICES ASSUME TypeInv, ServedInv, ViewInv, [Next]_vars PROVE ViewInv'
    OBVIOUS
  <1> USE DEF ViewInv
  <1>1. ASSUME NEW s \in Sources, Read(s) PROVE ViewInv'
    BY <1>1 DEF PreviousInv, ViewsFollowLatest, Read, clients
  <1>2. ASSUME NEW s \in Sources, Finish(s) PROVE ViewInv'
    BY <1>2, FinishKeepsViews
  <1>3. ASSUME NEW s \in Sources, Fail(s) PROVE ViewInv'
    BY <1>3 DEF PreviousInv, ViewsFollowLatest, Fail, clients
  <1>4. ASSUME NEW s \in Sources, Trigger(s) PROVE ViewInv'
    BY <1>4 DEF PreviousInv, ViewsFollowLatest, Trigger, clients
  <1>5. ASSUME NEW s \in Sources, DebounceFires(s) PROVE ViewInv'
    BY <1>5 DEF PreviousInv, ViewsFollowLatest, DebounceFires, clients
  <1>6. ASSUME NEW s \in Sources, Tick(s) PROVE ViewInv'
    BY <1>6 DEF PreviousInv, ViewsFollowLatest, Tick, clients
  <1>7. ASSUME NEW v \in Viewers, Create(v) PROVE ViewInv'
    <2>1. made + 1 \in Sources /\ latest[made + 1] = None
      BY <1>7 DEF TypeInv, TypeOK, ServedInv, MadeInv, Create, Sources
    <2> QED BY <1>7, <2>1 DEF PreviousInv, ViewsFollowLatest, Create, TypeInv, TypeOK, Sources
  <1>8. ASSUME NEW v \in Viewers, Join(v) PROVE ViewInv'
    BY <1>8 DEF PreviousInv, ViewsFollowLatest, Join, server, TypeInv, TypeOK
  <1>9. ASSUME NEW v \in Viewers, Leave(v) PROVE ViewInv'
    BY <1>9 DEF PreviousInv, ViewsFollowLatest, Leave, Stop, TypeInv, TypeOK, Sources
  <1>10. CASE Move
    BY <1>10 DEF PreviousInv, ViewsFollowLatest, Move, server, clients
  <1>11. CASE UNCHANGED vars
    BY <1>11 DEF PreviousInv, ViewsFollowLatest, vars, server, clients
  <1> QED BY <1>1, <1>2, <1>3, <1>4, <1>5, <1>6, <1>7, <1>8, <1>9, <1>10, <1>11 DEF Next

(* The snapshot and the differences a viewer was sent add up to the latest *)
(* computation of its source, unless one left over from a stopped source   *)
(* ended in between.                                                       *)
THEOREM DeltasAddUp == Spec => []ViewsFollowLatest
  <1>1. ViewInv => ViewsFollowLatest
    BY DEF ViewInv
  <1> QED BY TypeInit, TypeStep, ServedInit, ServedStep, ViewInit, ViewStep, <1>1, PTL
          DEF Spec

=============================================================================
