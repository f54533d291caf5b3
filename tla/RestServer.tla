----------------------------- MODULE RestServer -----------------------------
(***************************************************************************)
(* http/server.py, POST /tool/{name}, with http/rate_limit.py and the      *)
(* audit trail of core/audit.py.                                           *)
(*                                                                         *)
(* A handler waits once, for the body of its request; what follows it does *)
(* without a pause on the event loop, the tool included.  The memory       *)
(* limiter, the one that create_app makes, serves one server.  The Redis   *)
(* limiter is for several, whose steps interleave: a call reads the clock, *)
(* which is one for all of them here, and then runs a pipeline on a sorted *)
(* set of stamps, of which two at the same instant are one member.         *)
(*                                                                         *)
(* MaxTime bounds the clock; Stamps are the instants told apart in a tick. *)
(***************************************************************************)
EXTENDS Naturals, FiniteSets

CONSTANTS None, Request, Tool, Calls, Window, Stamps, MaxTime

VARIABLES limiter,  \* "memory" or "redis"
          now,
          window,   \* of each tool: the calls on record, [at, id]
          tool,     \* of each request: the tool it names, or "unknown"
          answer,   \* of each request: "none", "reading", a status or "gone"
          stamp,    \* of each request: the instant whose pipeline is to run, or None
          log,      \* of each request: the statuses in its audit records
          ran,      \* the requests whose tool has been called (history)
          tried,    \* what the limiter said to whom; "lost" is no answer (history)
          crossed   \* pipelines ran in another order than their clocks were
                    \* read in, or one after its window had expired (history)

vars == <<limiter, now, window, tool, answer, stamp, log, ran, tried, crossed>>

Status == {"200", "dry", "400", "404", "422", "429", "500"}

Instants == [at : 0..MaxTime, id : Request \cup Stamps]

Tried == [by : Request, tool : Tool, on : Instants, said : {"yes", "no", "lost"}]

TypeOK ==
  /\ limiter \in {"memory", "redis"}
  /\ now \in 0..MaxTime
  /\ \A t \in Tool : window[t] \subseteq Instants
  /\ tool \in [Request -> Tool \cup {"unknown"}]
  /\ answer \in [Request -> Status \cup {"none", "reading", "gone"}]
  /\ stamp \in [Request -> {None} \cup Instants]
  /\ log \in [Request -> SUBSET {"success", "error"}]
  /\ ran \subseteq Request
  /\ tried \subseteq Tried
  /\ crossed \in BOOLEAN

Init ==
  /\ limiter \in {"memory", "redis"}
  /\ now = 0
  /\ window = [t \in Tool |-> {}]
  /\ tool \in [Request -> Tool \cup {"unknown"}]
  /\ answer = [r \in Request |-> "none"]
  /\ stamp = [r \in Request |-> None]
  /\ log = [r \in Request |-> {}]
  /\ ran = {} /\ tried = {} /\ crossed = FALSE

Say(r, status) == answer' = [answer EXCEPT ![r] = status]

\* The tool's name is looked up before the body is awaited.
Arrive(r) ==
  /\ answer[r] = "none"
  /\ Say(r, IF tool[r] = "unknown" THEN "404" ELSE "reading")
  /\ UNCHANGED <<limiter, now, window, tool, stamp, log, ran, tried, crossed>>

\* The body is no JSON, does not fit the schema, or is no text at all, which
\* only Starlette catches; or the client is gone.
Reject(r) ==
  /\ answer[r] = "reading" /\ stamp[r] = None
  /\ \E status \in {"400", "422", "500", "gone"} : Say(r, status)
  /\ UNCHANGED <<limiter, now, window, tool, stamp, log, ran, tried, crossed>>

-----------------------------------------------------------------------------
(* allow *)

\* Redis: the clock is read, and the pipeline is to come.
Ask(r) ==
  /\ answer[r] = "reading" /\ stamp[r] = None
  /\ limiter = "redis"
  /\ \E id \in Stamps : stamp' = [stamp EXCEPT ![r] = [at |-> now, id |-> id]]
  /\ UNCHANGED <<limiter, now, window, tool, answer, log, ran, tried, crossed>>

\* The limiter decides: memory when it reads the clock, Redis in the pipeline.
Due(r) == answer[r] = "reading" /\ (limiter = "memory" <=> stamp[r] = None)

Instant(r) == IF stamp[r] = None THEN [at |-> now, id |-> r] ELSE stamp[r]

\* What is in the window that ends at a call; what is later is in Redis' too.
Kept(r) == {c \in window[tool[r]] : Instant(r).at < c.at + Window}

\* Mutant: one call more than the limit is let in.
Allowed_OffByOne(r) == Cardinality(Kept(r)) <= Calls

Allowed(r) == Cardinality(Kept(r)) < Calls

\* Memory records a call that it lets in, Redis every call.
Record(r, said) ==
  /\ window' = [window EXCEPT ![tool[r]] =
       Kept(r) \cup (IF limiter = "redis" \/ said = "yes" THEN {Instant(r)} ELSE {})]
  /\ stamp' = [stamp EXCEPT ![r] = None]
  /\ crossed' = (crossed \/ \E c \in window[tool[r]] : Instant(r).at < c.at)
  /\ tried' = tried \cup {[by |-> r, tool |-> tool[r], on |-> Instant(r), said |-> said]}

\* Redis drops a key that no pipeline has touched for a window and a second.
Expire(t) ==
  /\ limiter = "redis" /\ window[t] # {}
  /\ \A c \in window[t] : c.at + Window < now
  /\ window' = [window EXCEPT ![t] = {}]
  /\ crossed' = (crossed \/ \E r \in Request, c \in window[t] :
                              stamp[r] # None /\ tool[r] = t /\ stamp[r].at < c.at + Window)
  /\ UNCHANGED <<limiter, now, tool, answer, stamp, log, ran, tried>>

-----------------------------------------------------------------------------
(* invoke_tool, after the body *)

Refuse(r) ==
  /\ Due(r) /\ ~Allowed(r)
  /\ Record(r, "no")
  /\ Say(r, "429")
  /\ UNCHANGED <<limiter, now, tool, log, ran>>

\* The pipeline raises, and nobody catches it; it may have run nevertheless.
Fail(r) ==
  /\ Due(r) /\ limiter = "redis"
  /\ \/ Record(r, "lost")
     \/ stamp' = [stamp EXCEPT ![r] = None] /\ UNCHANGED <<window, tried, crossed>>
  /\ Say(r, "500")
  /\ UNCHANGED <<limiter, now, tool, log, ran>>

DryRun(r) ==
  /\ Due(r) /\ Allowed(r)
  /\ Record(r, "yes")
  /\ Say(r, "dry")
  /\ UNCHANGED <<limiter, now, tool, log, ran>>

\* A record that cannot be written is logged, and missing.
Audit(r, statuses) == \E written \in SUBSET statuses : log' = [log EXCEPT ![r] = written]

\* The tool returns, and its result is rendered inside the same try: a result
\* that is no JSON leaves a success on record, and an error.
Invoke(r) ==
  /\ Due(r) /\ Allowed(r)
  /\ Record(r, "yes")
  /\ ran' = ran \cup {r}
  /\ \/ Say(r, "200") /\ Audit(r, {"success"})
     \/ Say(r, "500") /\ (Audit(r, {"error"}) \/ Audit(r, {"success", "error"}))
  /\ UNCHANGED <<limiter, now, tool>>

Tick ==
  /\ now < MaxTime
  /\ now' = now + 1
  /\ UNCHANGED <<limiter, window, tool, answer, stamp, log, ran, tried, crossed>>

Next ==
  \/ Tick
  \/ \E t \in Tool : Expire(t)
  \/ \E r \in Request :
       \/ Arrive(r) \/ Reject(r) \/ Ask(r)
       \/ Refuse(r) \/ Fail(r) \/ DryRun(r) \/ Invoke(r)

Spec == Init /\ [][Next]_vars

-----------------------------------------------------------------------------
(* Properties *)

\* The calls of a tool within the window that ends at a time, ...
Within(t, time) == {c \in tried : c.tool = t /\ c.on.at <= time /\ time < c.on.at + Window}

\* ... and at how many instants they were made.
Apart(some) == Cardinality({c.on : c \in some})

\* In no window of time calls of a tool are let in at more instants than the
\* limit, and each call has its own instant in memory: only those that share one
\* in Redis may be more.  A call is refused only with that many in its window:
\* let in, by the memory limiter; for Redis also those refused or failed count, so
\* that a caller who keeps trying stays out.  Redis keeps to this as long as its
\* pipelines run in the order in which their clocks were read; memory always
\* does.  What was not let in has not run and is not on record as run, a run is
\* answered with its result or as failed, and refused is who the limiter refused.
CallsLimited ==
  /\ limiter = "memory" => ~crossed /\ \A c, d \in tried : c.on = d.on => c = d
  /\ ~crossed =>
       /\ \A t \in Tool, time \in 0..now :
            Apart({c \in Within(t, time) : c.said = "yes"}) <= Calls
       /\ \A c \in tried : c.said = "no" =>
            Apart({e \in Within(c.tool, c.on.at) : limiter = "memory" => e.said = "yes"}
                  \ {c}) >= Calls
  /\ \A r \in Request :
       /\ log[r] # {} => r \in ran
       /\ r \in ran => answer[r] \in {"200", "500"}
       /\ answer[r] = "200" => r \in ran
       /\ "error" \in log[r] => answer[r] = "500"
       /\ r \in ran \/ answer[r] = "dry" => \E c \in tried : c.by = r /\ c.said = "yes"
       /\ answer[r] = "429" <=> \E c \in tried : c.by = r /\ c.said = "no"
=============================================================================
