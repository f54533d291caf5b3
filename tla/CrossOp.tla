------------------------------ MODULE CrossOp ------------------------------
(***************************************************************************)
(* orchestration/cross.py: one run of run_cross_op.  Worker threads take   *)
(* reviewers from a list and ask each by its command-line tool, falling    *)
(* back to an API; with min_responses they stop once so many have settled  *)
(* and kill the tools still running.  The main thread joins them,          *)
(* classifies what came back and writes a receipt.                         *)
(***************************************************************************)
EXTENDS Receipts

CONSTANTS Self,      \* the writer this run is
          N,         \* reviewers picked, numbered as in picks
          Worker,    \* the threads: min(concurrency, N) of them
          Quotas,    \* min_responses a caller may ask for
          Routes     \* how the reviewers can be reached, a set of functions

ASSUME OpAssumption ==
  /\ Self \in Writer /\ N \in Nat \ {0} /\ Quotas \subseteq Nat
  /\ Routes \subseteq [1..N -> {"cli", "cli+api", "api"}]
  /\ IsFiniteSet(Worker) /\ Cardinality(Worker) \in 1..N

VARIABLES quota,     \* min_responses
          route,     \* what of each reviewer is configured
          main,      \* where the main thread is
          pc, task, res,  \* of each worker: place, index taken, result in hand
          next, settled, abort,  \* state["next"], state["settled"], abort_event
          results,   \* the slots
          asked      \* times each reviewer's tool was spawned or API called first

ovars == <<quota, route, main, pc, task, res, next, settled, abort, results, asked>>
vars  == <<rvars, ovars>>

Pick == 1..N

\* ExternalResult.status; "answer" and "exit" are status None with exit code
\* zero and another.
Result == {"answer", "exit", "fallback-used", "aborted", "timeout", "failed"}
Slot   == Result \cup {"none"}

TypeOK ==
  /\ ReceiptsTypeOK
  /\ quota \in Quotas
  /\ route \in Routes
  /\ main \in {"budget", "join", "receipt", "write", "returned"}
  /\ pc \in [Worker -> {"take", "ask", "spawn", "cli", "api", "late", "settle", "done", "raised"}]
  /\ task \in [Worker -> Pick \cup {0}]
  /\ res \in [Worker -> Slot]
  /\ next \in 1..N + 1
  /\ settled \in 0..N
  /\ abort \in BOOLEAN
  /\ results \in [Pick -> Slot]
  /\ asked \in [Pick -> 0..1]

Init ==
  /\ ReceiptsInit
  /\ quota \in Quotas
  /\ route \in Routes
  /\ main = "budget"
  /\ pc = [w \in Worker |-> "take"]
  /\ task = [w \in Worker |-> 0]
  /\ res = [w \in Worker |-> "none"]
  /\ next = 1 /\ settled = 0 /\ abort = FALSE
  /\ results = [i \in Pick |-> "none"]
  /\ asked = [i \in Pick |-> 0]

\* Whether min_responses_fan_out is used, else fan_out; only the former has
\* an abort event.
Short == 0 < quota /\ quota < N
Threshold == IF Short THEN quota ELSE N

\* The dispatcher may find the budget used up: nobody is asked.
CheckBudget ==
  /\ main = "budget"
  /\ main' \in {"join", "returned"}
  /\ UNCHANGED <<rvars, quota, route, pc, task, res, next, settled, abort, results, asked>>

-----------------------------------------------------------------------------
(* The workers *)

OpFrame == <<rvars, quota, route, main>>

\* Mutant: the end of the list is found one index late.
Take_OffByOne(w) ==
  /\ main = "join" /\ pc[w] = "take"
  /\ IF (Short /\ abort) \/ next > N + 1
     THEN pc' = [pc EXCEPT ![w] = "done"] /\ UNCHANGED <<task, next>>
     ELSE /\ pc' = [pc EXCEPT ![w] = "ask"]
          /\ task' = [task EXCEPT ![w] = next]
          /\ next' = next + 1
  /\ UNCHANGED <<OpFrame, res, settled, abort, results, asked>>

\* The next index, under the lock.
Take(w) ==
  /\ main = "join" /\ pc[w] = "take"
  /\ IF (Short /\ abort) \/ next > N
     THEN pc' = [pc EXCEPT ![w] = "done"] /\ UNCHANGED <<task, next>>
     ELSE /\ pc' = [pc EXCEPT ![w] = "ask"]
          /\ task' = [task EXCEPT ![w] = next]
          /\ next' = next + 1
  /\ UNCHANGED <<OpFrame, res, settled, abort, results, asked>>

Have(w, result) ==
  /\ res' = [res EXCEPT ![w] = result]
  /\ pc' = [pc EXCEPT ![w] = "settle"]

\* fire_external, or spawn_cli, looks at the abort event before anything else.
LookFirst(w) ==
  /\ pc[w] = "ask"
  /\ IF Short /\ abort
     THEN Have(w, "aborted")
     ELSE pc' = [pc EXCEPT ![w] = "spawn"] /\ UNCHANGED res
  /\ UNCHANGED <<OpFrame, task, next, settled, abort, results, asked>>

HasApi(i) == route[i] \in {"cli+api", "api"}

\* A reviewer that prefers the API is not spawned; a tool that is not installed
\* is bypassed by the API, if there is one.
Spawn(w) ==
  /\ pc[w] = "spawn"
  /\ asked' = [asked EXCEPT ![task[w]] = @ + 1]
  /\ \/ route[task[w]] # "api" /\ pc' = [pc EXCEPT ![w] = "cli"] /\ UNCHANGED res
     \/ HasApi(task[w]) /\ pc' = [pc EXCEPT ![w] = "api"] /\ UNCHANGED res
     \/ route[task[w]] = "cli" /\ Have(w, "failed")
  /\ UNCHANGED <<OpFrame, task, next, settled, abort, results>>

\* The tool ends, is killed at its timeout, or is killed by the watcher thread.
Communicate(w) ==
  /\ pc[w] = "cli"
  /\ \/ Have(w, "answer")
     \/ IF HasApi(task[w]) THEN pc' = [pc EXCEPT ![w] = "api"] /\ UNCHANGED res
                           ELSE Have(w, "exit")
     \/ IF HasApi(task[w]) THEN pc' = [pc EXCEPT ![w] = "late"] /\ UNCHANGED res
                           ELSE Have(w, "timeout")
     \/ Short /\ abort /\ Have(w, "aborted")
  /\ UNCHANGED <<OpFrame, task, next, settled, abort, results, asked>>

\* communicate() raises (its output is no UTF-8): the worker thread ends.
Raise(w) ==
  /\ pc[w] = "cli"
  /\ pc' = [pc EXCEPT ![w] = "raised"]
  /\ UNCHANGED <<OpFrame, task, res, next, settled, abort, results, asked>>

\* Mutant: when the API fails, the tool is waited for again.
CallApi_Retries(w) ==
  /\ pc[w] \in {"api", "late"}
  /\ \/ Have(w, "fallback-used")
     \/ pc' = [pc EXCEPT ![w] = "cli"] /\ UNCHANGED res
  /\ UNCHANGED <<OpFrame, task, next, settled, abort, results, asked>>

\* The API call, which does not look at the abort event; after a timeout of
\* the tool, its failure is reported as that timeout.
CallApi(w) ==
  /\ pc[w] \in {"api", "late"}
  /\ \/ Have(w, "fallback-used")
     \/ Have(w, IF pc[w] = "late" THEN "timeout" ELSE "failed")
  /\ UNCHANGED <<OpFrame, task, next, settled, abort, results, asked>>

\* Mutant: the reviewers taken are counted, not those settled.
Settle_CountsTaken(w) ==
  /\ pc[w] = "settle"
  /\ results' = [results EXCEPT ![task[w]] = res[w]]
  /\ settled' = next - 1
  /\ abort' = (abort \/ settled' >= Threshold)
  /\ pc' = [pc EXCEPT ![w] = "take"]
  /\ task' = [task EXCEPT ![w] = 0]
  /\ res' = [res EXCEPT ![w] = "none"]
  /\ UNCHANGED <<OpFrame, next, asked>>

\* The result is stored and counted under the lock.
Settle(w) ==
  /\ pc[w] = "settle"
  /\ results' = [results EXCEPT ![task[w]] = res[w]]
  /\ settled' = settled + 1
  /\ abort' = (abort \/ settled' >= Threshold)
  /\ pc' = [pc EXCEPT ![w] = "take"]
  /\ task' = [task EXCEPT ![w] = 0]
  /\ res' = [res EXCEPT ![w] = "none"]
  /\ UNCHANGED <<OpFrame, next, asked>>

Work(w) ==
  Take(w) \/ LookFirst(w) \/ Spawn(w) \/ Communicate(w) \/ Raise(w) \/ CallApi(w) \/ Settle(w)

-----------------------------------------------------------------------------
(* The main thread *)

\* Each slot is classified: one that was never filled is "aborted" in one
\* fan-out and "spawn error" in the other.  With nothing but timeouts there is
\* no merge and no receipt.
Join ==
  /\ main = "join"
  /\ \A w \in Worker : pc[w] \in {"done", "raised"}
  /\ main' = IF \A i \in Pick : results[i] = "timeout" THEN "returned" ELSE "receipt"
  /\ UNCHANGED <<rvars, quota, route, pc, task, res, next, settled, abort, results, asked>>

\* write_receipt; what it raises is logged.
Receipt ==
  /\ main = "receipt"
  /\ \/ Append1(Self) /\ main' = "write"
     \/ UNCHANGED rvars /\ main' = "returned"
  /\ UNCHANGED <<quota, route, pc, task, res, next, settled, abort, results, asked>>

Prune ==
  /\ main = "write"
  /\ Rewrite(Self) \/ Interrupt(Self)
  /\ main' = IF at'[Self] = "idle" THEN "returned" ELSE "write"
  /\ UNCHANGED <<quota, route, pc, task, res, next, settled, abort, results, asked>>

Run == CheckBudget \/ (\E w \in Worker : Work(w)) \/ Join \/ Receipt \/ Prune

Next == Run \/ \E v \in Writer \ {Self} : Other(v) /\ UNCHANGED ovars

\* The run's own threads are scheduled; tools and API calls end, having timeouts.
Spec == Init /\ [][Next]_vars /\ WF_vars(Run)

-----------------------------------------------------------------------------
(* Properties *)

\* A reviewer is asked and counted at most once whoever takes it, and left out
\* or cut short only when as many others as were asked for have settled, or a
\* worker was lost.
AbortJustified ==
  /\ settled = Cardinality({i \in Pick : results[i] # "none"})
  /\ main \notin {"budget", "join"} /\ (\A w \in Worker : pc[w] = "done") =>
       \/ Cardinality({i \in Pick : results[i] \notin {"none", "aborted"}}) >= Threshold
       \/ \A i \in Pick : asked[i] = 1 /\ results[i] # "none"

\* Lost workers or not, the run returns.
Returns == <>(main = "returned")
=============================================================================
