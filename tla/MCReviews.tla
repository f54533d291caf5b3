----------------------------- MODULE MCReviews -----------------------------
(* Two clients and one session; the modes with their numbers of rounds. *)
EXTENDS Reviews, TLC

CONSTANTS c1, c2, s1,
          single, iterative, continuous

\* Any surgeon may fail to answer.
Anyone == SUBSET Surgeon

Limits == single :> 1 @@ iterative :> 3 @@ continuous :> 5
=============================================================================
