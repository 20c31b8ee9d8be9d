------------------------------- MODULE MCJobs -------------------------------
(***************************************************************************)
(* Instances of Jobs for TLC: two GPUs and two jobs, on the same GPU or   *)
(* on different ones, and an event stream.                                 *)
(***************************************************************************)
EXTENDS Jobs

CONSTANTS j1, j2, k1
=============================================================================
