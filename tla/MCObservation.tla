---------------------------- MODULE MCObservation ----------------------------
(***************************************************************************)
(* A small instance of Observation.                                        *)
(***************************************************************************)
EXTENDS Observation

\* The keys of both tasks are in one bucket.
MCBucket == <<1, 1>>

\* A huge page of two pages, and a page of another mapping.
MCHuge == {[lo |-> 1, hi |-> 2, anon |-> TRUE]}
MCVmas == MCHuge \cup {[lo |-> 3, hi |-> 3, anon |-> TRUE]}
===============================================================================
