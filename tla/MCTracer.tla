------------------------------- MODULE MCTracer -------------------------------
(***************************************************************************)
(* Small instances of Tracer.                                              *)
(***************************************************************************)
EXTENDS Tracer

\* Tasks 1 and 2 share a bucket.
MCBucket == <<1, 1, 2>>
===============================================================================
