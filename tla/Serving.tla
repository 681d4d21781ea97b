------------------------------ MODULE Serving ------------------------------
(***************************************************************************)
(* What the timetable pipeline promises the traveller: the routing engine  *)
(* only ever serves a timetable that the database was loaded with before,  *)
(* so that every trip of a plan had its row in trip_mapping.               *)
(***************************************************************************)
CONSTANTS Versions,   \* the timetables there can be
          First       \* the one both sides start with

VARIABLES published,  \* the versions the database was loaded with so far
          serving     \* the version the engine answers from

vars == <<published, serving>>

Init == published = {First} /\ serving = First

\* A version is loaded into the database.
Publish == /\ \E v \in Versions : published' = published \union {v}
           /\ UNCHANGED serving

\* The engine restarts on a version loaded before.
Serve == /\ serving' \in published
         /\ UNCHANGED published

Next == Publish \/ Serve

Spec == Init /\ [][Next]_vars
=============================================================================
