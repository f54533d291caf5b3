---------------------------- MODULE MCEcosystem ----------------------------
(* One server, one doctor, two batches.

   What can disturb a property of the registry is spread over uses of it: two
   threads' batches, safe mode among probes, the JSON file, and each store
   together with a failing event log. *)
EXTENDS Ecosystem

CONSTANTS s1, d1, b1, b2

Users == [phase |-> 0, user |-> TRUE]

Both == <<"evidence_store", "cross_exam">>
One == <<"evidence_store">>

Uses ==
  { [ops |-> {"set", "probe", "batch"}, order |-> Both],
    [ops |-> {"set", "baseline", "probe", "diff", "safe"}, order |-> Both],
    [ops |-> {"set", "baseline", "diff", "safe", "batch"}, order |-> One],
    [ops |-> {"set", "safe", "file", "restart"}, order |-> One],
    [ops |-> {"set", "file", "log"}, order |-> One],
    [ops |-> {"file", "status"}, order |-> One],
    [ops |-> {"set", "safe", "redis", "log"}, order |-> One] }
=============================================================================
