------------------------------ MODULE Surgeons ------------------------------
(***************************************************************************)
(* A command from its configuration to its result: Config.discover chooses *)
(* a provider for each surgeon (core/config.py), LLMProvider asks it with  *)
(* retries (core/models.py), consult and consensus collect the replies and *)
(* their cost (core/cross_exam.py), the diversity canary and the           *)
(* counter-probe gate judge a consensus, and every counter bumped on the   *)
(* way is written to one file (core/zsf_counter_persist.py).  A process is *)
(* a CLI invocation, or an MCP server that serves several calls.           *)
(***************************************************************************)
EXTENDS Naturals, Sequences

CONSTANTS Process,
          Server,    \* the processes that are MCP servers
          Use,       \* of each process: the calls it may get, see Uses
          Local,     \* providers that run on this machine
          Provider,  \* those and the others, each with the model asked there
          Ladder,    \* surgeon -> its FALLBACK_CHAIN
          Fallback,  \* surgeon -> fallbacks the YAML files list
          Retries,   \* max_retries
          Vote,      \* the Votes a surgeon may cast
          MaxCalls,  \* bound: calls one server serves
          MaxErrors, \* bound: failed writes of the counter file, per process
          None

Surgeon == {"cardio", "neuro"}
Default == [cardio |-> "openai", neuro |-> "ollama"]
Preset  == [cardio |-> {"openai", "deepseek", "anthropic"},
            neuro  |-> {"ollama", "mlx", "mlx_proxy", "deepseek"}]

\* A call: what is asked for ("gated" is a consensus with the counter-probe
\* on), and the provider each surgeon gets from the environment variable, the
\* YAML files, which may pair it with another model, and the command line;
\* canary is off when CONTEXT_DNA_DIVERSITY_CANARY says so.
Uses == [job    : {"probe", "consult", "consensus", "gated"},
         env    : [Surgeon -> Provider \cup {None, "bogus", "disabled"}],
         canary : BOOLEAN,
         yaml   : [Surgeon -> Provider \cup {None}],
         flag   : [Surgeon -> Provider \cup {None}]]

\* An assessment, "weak" when its confidence is below CONF_THRESHOLD.
\* "unavailable" stands for a query that failed and for an unusable reply.
Votes == {"agree", "weak agree", "disagree", "weak disagree", "uncertain", "unavailable"}
Pass  == {"claim", "negation"}

ASSUME SurgeonsAssumption ==
  /\ Server \subseteq Process /\ Use \in [Process -> SUBSET Uses]
  /\ Local \subseteq Provider /\ None \notin Process \cup Provider \cup {"bogus", "disabled"}
  /\ Retries \in Nat /\ MaxCalls \in Nat \ {0} /\ MaxErrors \in Nat /\ Vote \subseteq Votes
  /\ \A s \in Surgeon : /\ Preset[s] \subseteq Provider
                        /\ Ladder[s] \in Seq(Preset[s])
                        /\ Fallback[s] \in Seq(Provider)

VARIABLES pc, calls,   \* of each process: where it is, calls it has had
          use,         \* the call it serves; env and canary are the process's
          cfg,         \* the Config: the provider of each surgeon
          at,          \* position in a list: rung, or attempt of a query
          who, pass,   \* the surgeon being asked, of the claim or its negation
          vote,        \* the replies to each pass
          cost, ledger,  \* cost of each pass, cost rows written in this call
          result,      \* verdict of the gate, the canary's flag, total cost
          count, error,  \* counters bumped in this process, failed writes
          file         \* zsf_counters.json: whose, and what it shows

query == <<who, pass, vote, cost, ledger, result>>
vars  == <<pc, calls, use, cfg, at, query, count, error, file>>

Counter == {"fallback", "diversity", "gate"}
Zero    == [k \in Counter |-> 0]

\* What the file shows of a process: persist_counters has no entry for
\* COUNTER_PROBE_COUNTERS.
Snapshot(c) == [k \in Counter \ {"gate"} |-> c[k]]

NoUse   == [s \in Surgeon |-> None]
Idle    == [job |-> "probe", env |-> NoUse, canary |-> TRUE, yaml |-> NoUse, flag |-> NoUse]
NoVotes == [q \in Pass |-> [s \in Surgeon |-> "unavailable"]]
NoCost  == [q \in Pass |-> 0]
NoResult == [verdict |-> "none", yellow |-> FALSE, total |-> 0]
Verdict == {"none", "skipped", "sycophantic", "genuine", "single", "no signal"}

TypeOK ==
  /\ pc \in [Process -> {"off", "idle", "neuro", "cardio", "flags", "ask",
                         "judge", "gate", "done"}]
  /\ calls \in [Process -> 0..MaxCalls]
  /\ use \in [Process -> Uses]
  /\ cfg \in [Process -> [Surgeon -> Provider]]
  /\ at \in [Process -> Nat \ {0}]
  /\ who \in [Process -> Surgeon] /\ pass \in [Process -> Pass]
  /\ vote \in [Process -> [Pass -> [Surgeon -> Votes]]]
  /\ cost \in [Process -> [Pass -> Nat]] /\ ledger \in [Process -> Nat]
  /\ result \in [Process -> [verdict : Verdict, yellow : BOOLEAN, total : Nat]]
  /\ count \in [Process -> [Counter -> Nat]] /\ error \in [Process -> 0..MaxErrors]
  /\ file \in [by : Process \cup {None}, shows : [Counter \ {"gate"} -> Nat]]

Init ==
  /\ pc = [p \in Process |-> "off"] /\ calls = [p \in Process |-> 0]
  /\ use = [p \in Process |-> Idle]
  /\ cfg = [p \in Process |-> Default]
  /\ at = [p \in Process |-> 1]
  /\ who = [p \in Process |-> "cardio"] /\ pass = [p \in Process |-> "claim"]
  /\ vote = [p \in Process |-> NoVotes]
  /\ cost = [p \in Process |-> NoCost] /\ ledger = calls
  /\ result = [p \in Process |-> NoResult]
  /\ count = [p \in Process |-> Zero] /\ error = calls
  /\ file = [by |-> None, shows |-> Snapshot(Zero)]

-----------------------------------------------------------------------------
Goto(p, place) == pc' = [pc EXCEPT ![p] = place]

\* A counter goes up and persist_counters replaces the file, or fails to and
\* counts that.
Bump(p, k) ==
  /\ count' = [count EXCEPT ![p][k] = @ + 1]
  /\ \/ file' = [by |-> p, shows |-> Snapshot(count'[p])] /\ UNCHANGED error
     \/ error[p] < MaxErrors /\ error' = [error EXCEPT ![p] = @ + 1] /\ UNCHANGED file

\* Nothing of a call outlives it but what its process has counted.
Forget(p) ==
  /\ cfg' = [cfg EXCEPT ![p] = Default] /\ at' = [at EXCEPT ![p] = 1]
  /\ who' = [who EXCEPT ![p] = "cardio"] /\ pass' = [pass EXCEPT ![p] = "claim"]
  /\ vote' = [vote EXCEPT ![p] = NoVotes]
  /\ cost' = [cost EXCEPT ![p] = NoCost] /\ ledger' = [ledger EXCEPT ![p] = 0]
  /\ result' = [result EXCEPT ![p] = NoResult]

\* The process is over, at whatever point; the file stays, nobody's now.
End(p) ==
  /\ Goto(p, "off") /\ Forget(p)
  /\ calls' = [calls EXCEPT ![p] = 0] /\ use' = [use EXCEPT ![p] = Idle]
  /\ count' = [count EXCEPT ![p] = Zero] /\ error' = [error EXCEPT ![p] = 0]
  /\ file' = [file EXCEPT !.by = IF @ = p THEN None ELSE @]

\* A process between calls has its environment.
Waiting(u) == [Idle EXCEPT !.env = u.env, !.canary = u.canary]

\* A server goes back to wait for its next call.
Return(p) ==
  /\ Goto(p, "idle") /\ Forget(p)
  /\ use' = [use EXCEPT ![p] = Waiting(use[p])]
  /\ UNCHANGED <<calls, count, error, file>>

Leave(p) == IF p \in Server THEN Return(p) ELSE End(p)

Launch(p) ==
  /\ pc[p] = "off"
  /\ \E u \in Use[p] : use' = [use EXCEPT ![p] = Waiting(u)]
  /\ Goto(p, "idle")
  /\ UNCHANGED <<calls, cfg, at, query, count, error, file>>

\* What the files of a call say of a surgeon.
Filed(u, s) == IF u.yaml[s] = None THEN Default[s] ELSE u.yaml[s]

\* A command, or a tool call: discover() starts over, from the files.
Call(p) ==
  /\ pc[p] = "idle" /\ calls[p] < (IF p \in Server THEN MaxCalls ELSE 1)
  /\ \E u \in Use[p] :
       /\ Waiting(u) = Waiting(use[p]) /\ (p \in Server => u.flag = NoUse)
       /\ use' = [use EXCEPT ![p] = u]
       /\ cfg' = [cfg EXCEPT ![p] = [s \in Surgeon |-> Filed(u, s)]]
  /\ calls' = [calls EXCEPT ![p] = @ + 1]
  /\ Goto(p, "neuro")
  /\ UNCHANGED <<at, query, count, error, file>>

-----------------------------------------------------------------------------
\* discover() settles the neurologist, then the cardiologist.
Settled(p, s) ==
  /\ pc[p] = s
  /\ Goto(p, IF s = "neuro" THEN "cardio" ELSE "flags")
  /\ at' = [at EXCEPT ![p] = 1]
  /\ UNCHANGED <<calls, use, query>>

\* Mutant: any name is taken.
Override_AnyName(p, s) ==
  /\ use[p].env[s] \notin {None, "disabled"}
  /\ cfg' = [cfg EXCEPT ![p][s] = use[p].env[s]]
  /\ Bump(p, "fallback")
  /\ Settled(p, s)

\* The environment variable is set; an unknown name keeps what the files say.
Override(p, s) ==
  /\ use[p].env[s] \notin {None, "disabled"}
  /\ cfg' = [cfg EXCEPT ![p][s] = IF use[p].env[s] \in Preset[s] THEN use[p].env[s] ELSE @]
  /\ Bump(p, "fallback")
  /\ Settled(p, s)

\* It is not, but CONTEXT_DNA_*_FALLBACK_DISABLE is.
NoLadder(p, s) ==
  /\ use[p].env[s] = "disabled"
  /\ UNCHANGED <<cfg, count, error, file>>
  /\ Settled(p, s)

\* Mutant: the ladder is walked whatever the environment says.
Reach_Always(p, s) ==
  /\ at[p] <= Len(Ladder[s])
  /\ cfg' = [cfg EXCEPT ![p][s] = Ladder[s][at[p]]]
  /\ Bump(p, "fallback")
  /\ Settled(p, s)

\* The rung answers its probe, or its key resolves.
Reach(p, s) ==
  /\ use[p].env[s] = None /\ at[p] <= Len(Ladder[s])
  /\ cfg' = [cfg EXCEPT ![p][s] = Ladder[s][at[p]]]
  /\ Bump(p, "fallback")
  /\ Settled(p, s)

Refuse(p, s) ==
  /\ pc[p] = s /\ use[p].env[s] = None /\ at[p] <= Len(Ladder[s])
  /\ at' = [at EXCEPT ![p] = @ + 1]
  /\ UNCHANGED <<pc, calls, use, cfg, query, count, error, file>>

\* no_provider_reachable: the surgeon stays as it was.
Exhaust(p, s) ==
  /\ use[p].env[s] = None /\ at[p] > Len(Ladder[s])
  /\ Bump(p, "fallback")
  /\ Settled(p, s)
  /\ UNCHANGED cfg

\* cli() applies --cardio-provider and --neuro-provider to what discover()
\* returned; a tool call has neither.
ApplyFlags(p) ==
  /\ pc[p] = "flags"
  /\ cfg' = [cfg EXCEPT ![p] = [s \in Surgeon |->
               IF use[p].flag[s] = None THEN cfg[p][s] ELSE use[p].flag[s]]]
  /\ Goto(p, "ask")
  /\ UNCHANGED <<calls, use, at, query, count, error, file>>

-----------------------------------------------------------------------------
\* The providers a query goes to, one after another.  A local neurologist is
\* asked once, under the GPU lock; only the CLI's probe passes fallbacks.
Attempts(p) ==
  LET s == who[p]
      asked == cfg[p][s]
      probing == use[p].job = "probe"
  IN IF s = "neuro" /\ asked \in Local /\ ~probing THEN <<asked>>
     ELSE [i \in 1..1 + Retries |-> asked]
          \o (IF probing /\ p \notin Server THEN Fallback[s] ELSE <<>>)

\* On to the neurologist, or to what follows both.
NextSurgeon(p) ==
  /\ at' = [at EXCEPT ![p] = 1]
  /\ who' = [who EXCEPT ![p] = "neuro"]
  /\ IF who[p] = "cardio" THEN UNCHANGED pc
     ELSE Goto(p, IF use[p].job = "probe" THEN "done" ELSE "judge")

Paid(p) == use[p].job # "probe" /\ Attempts(p)[at[p]] \notin Local

\* A reply, a vote if it is a consensus; one that was paid for is recorded,
\* except by a probe.
Answer(p) ==
  /\ pc[p] = "ask"
  /\ IF use[p].job \in {"probe", "consult"} THEN UNCHANGED vote
     ELSE \E v \in Vote : vote' = [vote EXCEPT ![p][pass[p]][who[p]] = v]
  /\ cost' = [cost EXCEPT ![p][pass[p]] = @ + (IF Paid(p) THEN 1 ELSE 0)]
  /\ ledger' = [ledger EXCEPT ![p] = @ + (IF Paid(p) THEN 1 ELSE 0)]
  /\ NextSurgeon(p)
  /\ UNCHANGED <<calls, use, cfg, pass, result, count, error, file>>

\* Mutant: after the last attempt the query starts over.
Fail_Forever(p) ==
  /\ pc[p] = "ask"
  /\ at' = [at EXCEPT ![p] = IF @ < Len(Attempts(p)) THEN @ + 1 ELSE 1]
  /\ UNCHANGED <<pc, calls, use, cfg, query, count, error, file>>

\* An attempt fails: the next one, or _safe_query gives the surgeon up.
Fail(p) ==
  /\ pc[p] = "ask"
  /\ IF at[p] < Len(Attempts(p))
     THEN at' = [at EXCEPT ![p] = @ + 1] /\ UNCHANGED <<pc, who>>
     ELSE NextSurgeon(p)
  /\ UNCHANGED <<calls, use, cfg, pass, vote, cost, ledger, result, count, error, file>>

\* The CLI's probe finds no key, or nothing listening, and asks nobody.
Unlisted(p) ==
  /\ pc[p] = "ask" /\ use[p].job = "probe" /\ p \notin Server /\ at[p] = 1
  /\ NextSurgeon(p)
  /\ UNCHANGED <<calls, use, cfg, pass, vote, cost, ledger, result, count, error, file>>

\* A reply, with so many rows of it in the ledger, makes consult() or
\* consensus() raise.  In the negation pass consensus() catches that and keeps
\* the claim's result, otherwise the call is over.
Raise(p, rows) ==
  IF pass[p] = "negation"
  THEN /\ Goto(p, "done")
       /\ result' = [result EXCEPT ![p].verdict = "skipped"]
       /\ ledger' = [ledger EXCEPT ![p] = @ + rows]
       /\ UNCHANGED <<calls, use, cfg, at, who, pass, vote, cost, count, error, file>>
  ELSE Leave(p)

\* track_cost raises, ...
Untracked(p) == pc[p] = "ask" /\ Paid(p) /\ Raise(p, 0)

\* ... or a vote that parses to a JSON list does: it has no get().
Unparsed(p) ==
  /\ pc[p] = "ask" /\ use[p].job \in {"consensus", "gated"}
  /\ Raise(p, IF Paid(p) THEN 1 ELSE 0)

-----------------------------------------------------------------------------
\* Model collapse, byte-identical replies, or agreement: consensus() passes no
\* caveat.
Yellow(u, c, v, identical) ==
  /\ u.canary
  /\ \/ c.cardio = c.neuro
     \/ identical
     \/ \A s \in Surgeon : v[s] \in {"agree", "weak agree"}

\* detect_sycophancy, on the replies to the claim and to its negation.
Flipped(v, s) == {v["claim"][s], v["negation"][s]} = {"agree", "disagree"}
Gate(v) ==
  IF \A q \in Pass, s \in Surgeon : v[q][s] = "agree" THEN "sycophantic"
  ELSE IF \A s \in Surgeon : Flipped(v, s) THEN "genuine"
  ELSE IF \E s \in Surgeon : Flipped(v, s) THEN "single"
  ELSE "no signal"

\* consult() has both reports, or those there are.
Consult(p) ==
  /\ pc[p] = "judge" /\ use[p].job = "consult"
  /\ result' = [result EXCEPT ![p].total = cost[p]["claim"]]
  /\ Goto(p, "done")
  /\ UNCHANGED <<calls, use, cfg, at, who, pass, vote, cost, ledger, count, error, file>>

\* Mutant: the canary counts and does not persist.
Canary_Unpersisted(p) ==
  /\ pc[p] = "judge" /\ use[p].job # "consult"
  /\ count' = [count EXCEPT ![p]["diversity"] = @ + 1]
  /\ Goto(p, IF use[p].job = "gated" THEN "gate" ELSE "done")
  /\ UNCHANGED <<calls, use, cfg, at, query, error, file>>

\* Both replies to a pass are in and the canary looks at them; what it says of
\* the negation is dropped with that pass's result.
Canary(p) ==
  /\ pc[p] = "judge" /\ use[p].job # "consult"
  /\ \E identical \in BOOLEAN :
       LET v == vote[p][pass[p]]
       IN /\ identical => v.cardio = v.neuro /\ v.cardio # "unavailable"
          /\ result' = IF pass[p] = "negation" THEN result
                       ELSE [result EXCEPT ![p].yellow = Yellow(use[p], cfg[p], v, identical),
                                           ![p].total = cost[p]["claim"]]
  /\ Bump(p, "diversity")
  /\ Goto(p, IF use[p].job = "gated" THEN "gate" ELSE "done")
  /\ UNCHANGED <<calls, use, cfg, at, who, pass, vote, cost, ledger>>

\* The claim's negation is put to the same surgeons.
Negate(p) ==
  /\ pc[p] = "gate" /\ pass[p] = "claim"
  /\ pass' = [pass EXCEPT ![p] = "negation"] /\ who' = [who EXCEPT ![p] = "cardio"]
  /\ Goto(p, "ask")
  /\ UNCHANGED <<calls, use, cfg, at, vote, cost, ledger, result, count, error, file>>

\* The same claim less than a second ago, or a claim with no text: counted,
\* not persisted.
SkipGate(p) ==
  /\ pc[p] = "gate" /\ pass[p] = "claim"
  /\ result' = [result EXCEPT ![p].verdict = "skipped"]
  /\ count' = [count EXCEPT ![p]["gate"] = @ + 1]
  /\ Goto(p, "done")
  /\ UNCHANGED <<calls, use, cfg, at, who, pass, vote, cost, ledger, error, file>>

\* Mutant: the negation's cost is left out of the total.
ApplyGate_Free(p) ==
  /\ pc[p] = "gate" /\ pass[p] = "negation"
  /\ result' = [result EXCEPT ![p].verdict = Gate(vote[p])]
  /\ Bump(p, "gate")
  /\ Goto(p, "done")
  /\ UNCHANGED <<calls, use, cfg, at, who, pass, vote, cost, ledger>>

\* apply_to_result
ApplyGate(p) ==
  /\ pc[p] = "gate" /\ pass[p] = "negation"
  /\ result' = [result EXCEPT ![p].verdict = Gate(vote[p]),
                              ![p].total = @ + cost[p]["negation"]]
  /\ Bump(p, "gate")
  /\ Goto(p, "done")
  /\ UNCHANGED <<calls, use, cfg, at, who, pass, vote, cost, ledger>>

Done(p) == pc[p] = "done" /\ Leave(p)
Die(p)  == pc[p] # "off" /\ End(p)

Discover(p) == \E s \in Surgeon : \/ Override(p, s) \/ NoLadder(p, s)
                                  \/ Reach(p, s) \/ Refuse(p, s) \/ Exhaust(p, s)
Query(p)  == Answer(p) \/ Fail(p) \/ Unlisted(p) \/ Untracked(p) \/ Unparsed(p)
Finish(p) == Consult(p) \/ Canary(p) \/ Negate(p) \/ SkipGate(p) \/ ApplyGate(p)
Run(p)    == Discover(p) \/ ApplyFlags(p) \/ Query(p) \/ Finish(p) \/ Done(p)

Next == \E p \in Process : Launch(p) \/ Call(p) \/ Run(p) \/ Die(p)

\* Every probe and every attempt has a timeout, so a call moves on.
Spec == Init /\ [][Next]_vars /\ \A p \in Process : WF_vars(Run(p))

-----------------------------------------------------------------------------
\* discover() has done right by a surgeon: it is what the environment variable
\* names; what the files say, if the variable names nothing known or stops the
\* ladder; and otherwise a rung of the ladder, or the files' if none answered.
Discovered(u, c, s) ==
  /\ u.env[s] \in Preset[s] => c[s] = u.env[s]
  /\ u.env[s] \in {"bogus", "disabled"} => c[s] = Filed(u, s)
  /\ c[s] \in {u.env[s], Filed(u, s)} \cup {Ladder[s][i] : i \in DOMAIN Ladder[s]}

Asking == {"ask", "judge", "gate", "done"}

\* "Explicit overrides MUST win" (config.py:856): a surgeon is asked at the
\* provider its flag names, and without a flag at the one discovered for it.
OverridesWin ==
  \A p \in Process, s \in Surgeon : pc[p] \in Asking =>
    IF use[p].flag[s] # None THEN cfg[p][s] = use[p].flag[s]
    ELSE Discovered(use[p], cfg[p], s)

\* A result is backed by what happened.  The cost it reports, over both passes
\* of a gated consensus, is what the ledger was told; only a gate cut short
\* leaves paid replies there that no result mentions.  And the gate judges only
\* by surgeons it heard in both passes: both of them to call a consensus
\* genuine or sycophantic, one to lower confidence.  Where the canary is on, a
\* consensus whose surgeons turned out to be one model of one provider is
\* flagged, however each of them came to it.
ResultBacked ==
  \A p \in Process : pc[p] = "done" =>
    LET Heard == {s \in Surgeon : \A q \in Pass : vote[p][q][s] # "unavailable"}
    IN /\ result[p].total <= ledger[p]
       /\ result[p].verdict # "skipped" => result[p].total = ledger[p]
       /\ result[p].verdict \in {"genuine", "sycophantic"} => Heard = Surgeon
       /\ result[p].verdict = "single" => Heard # {}
       /\ /\ use[p].job \in {"consensus", "gated"} /\ use[p].canary
          /\ cfg[p].cardio = cfg[p].neuro
          => result[p].yellow

\* No bump of a persisted counter is lost without a trace: the file shows all
\* a running process has counted if it wrote it last, or a write has failed.
FileHonest ==
  \A p \in Process : file.by = p /\ error[p] = 0 => file.shows = Snapshot(count[p])

\* Every call ends, whatever answers and whatever fails.
CommandEnds ==
  \A p \in Process : pc[p] \notin {"off", "idle"} ~> pc[p] \in {"off", "idle"}

\* "Walked only when no explicit env-var/CLI/YAML override is in effect."
\* (config.py:173): the cardiologist that the files name, and nothing else
\* does, is the one asked.
YamlKept ==
  \A p \in Process :
    /\ pc[p] \in Asking /\ use[p].yaml.cardio # None
    /\ use[p].flag.cardio = None /\ use[p].env.cardio = None
    => cfg[p].cardio = use[p].yaml.cardio
=============================================================================
