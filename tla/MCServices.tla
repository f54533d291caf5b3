----------------------------- MODULE MCServices -----------------------------
(* Two lists of checks, callers of every family, three requests, two streams,
   three clients of which one may connect, three segments, two files. *)
EXTENDS Services, TLC

CONSTANTS r1, r2, r3, s1, s2, c1, c2, c3

\* The default checks, and a list of the others with a name that is unknown.
TheLists ==
  { <<"neurologist_health", "cardiologist_health", "evidence_store">>,
    <<"gpu_lock_stale", "critical_findings", "llm_test_query", "disk_space">> }

\* Callers of every family; the last one shows marks of two tools.
TheMarks == { {}, {"codex"}, {"gemini"}, {"claude"}, {"opencode"}, {"codex", "claude"} }

Asking(by, count, ids) == [by |-> by, count |-> count, ids |-> ids]

TheRequests ==
  { Asking("priority", 3, <<>>), Asking("diversity", 2, <<>>),
    Asking("only", 2, <<"claude", "codex">>) }

Tools == {"probe"}

Instants == {"early", "late"}

\* Two patterns that overlap, one of which the bridge has, too.  Once handlers
\* have a prefix.
ThePatterns == { <<"*", "skill.suggested">> }

Prefixes == {"ide.*"}

\* Three segments, with and without a project's overrides ...
Segments == {"scan", "review", "verify"}

ThePresets == { <<"scan", "review", "verify">>, <<"verify", "scan">> }

TheOverrides ==
  { <<>>, <<[name |-> "scan", on |-> FALSE], [name |-> "review", on |-> TRUE]>> }

\* ... none of which needs anything, or each its own.
Needing(llms, wanted, rest) == [llms |-> llms, wanted |-> wanted, rest |-> rest]

TheNeeds ==
  { [s \in Segments |-> Needing(0, 0, FALSE)],
    [s \in Segments |-> CASE s = "scan"   -> Needing(1, 2, FALSE)
                          [] s = "review" -> Needing(2, 3, FALSE)
                          [] s = "verify" -> Needing(0, 1, TRUE)] }

Named == { <<"f">>, <<"f", "g">>, <<"f", "g", "f">> }

\* Less than a character each, a share that is less than a chunk, and more.
TheBudgets == {0, 1, 5, 16}

\* Around one chunk, and two; the chunk is 4 and the overlap 2.
TheSizes == {0, 3, 5, 8}

\* Requests and streams are told apart by what they do alone.
Alike == Permutations(Stream) \cup Permutations(Request)
=============================================================================
