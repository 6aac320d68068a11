------------------------------- MODULE MCEngine -------------------------------
(***************************************************************************)
(* A small instance of Engine.                                             *)
(***************************************************************************)
EXTENDS Engine, TLC

\* Large enough to be a candidate only once its mappings are measured.  Every
\* process looks so: each may come before each in the order of the scores.
MCProfiles == {[rss |-> 3, vsz |-> 5, factor |-> 1]}

Reading(some, full, avail) == [ok |-> TRUE, some |-> some, full |-> full, avail |-> avail]

\* Calm, high pressure, a stall.
MCSystems == {Reading(0, FALSE, "ok"), Reading(3, FALSE, "ok"), Reading(3, TRUE, "ok")}
===============================================================================
