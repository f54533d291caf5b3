# 3-Surgeons: a verification development in TLA+

3-Surgeons is a Python package that lets several language models ("surgeons")
examine each other's work. It is used from a command line, from an MCP server,
from an HTTP server and from editor hooks, usually several of them at once on
one machine. They share files under `~/.3surgeons`, a lock directory, a
state backend and SQLite databases. What is hard in it is therefore seldom one
call: it is what two processes, or two threads of one, do to the same file or
field, what a killed process leaves behind, and which promises survive a partial
failure. That is what is modelled here.

Contents: [1 Inventory](#1-inventory), [2 Modules](#2-modules),
[3 Runs](#3-runs), [4 Proofs](#4-proofs), [5 Divergences](#5-divergences),
[6 Not modelled](#6-not-modelled), [7 Plan](#7-plan).

The paths below are relative to `src/three_surgeons/` unless they start with
`src/`. `PROJECT.json` maps each definition to the lines it models, lists the
hazards with their lines, and for every property of a passing run holds a
plausible bug of the code that breaks it.

## 1 Inventory

### GPU lock - `core/priority_queue.py`
*State:* a lock file holding a pid; one `threading.Lock` per process and
lock directory. *Operations:* `acquire` (gate, create
exclusively, write the pid, else judge the holder, unlink, retry, back off),
`release`, and the adapter of `make_gpu_locked_adapter`, which brackets each local
query with the two on a `GPULock` of its own. *Interaction:* local LLM calls of the
command line and the MCP server go through it; health checks read the file. *Hard:* each
system call is a point where other processes interleave; holders are killed; a worker
thread can vanish before its `finally`; timeouts race with late holders. *Correct if*
one query runs at a time, an acquire returns, a lock whose holder is gone is reclaimed
and a living one is not.

### A/B tests - `core/ab_testing.py`, `core/ab_lifecycle.py`
*State:* a JSON record per test in the state backend, an index of ids, an
"active" slot, evidence rows. *Operations:* propose, grace period, veto,
activate, conclude, safety check (revert), and the `ab-*` commands which drive
the same records by other rules. *Hard:* each operation is load, change a copy,
store; several clients; further writes after the store, any of which a kill
may cut off. *Correct if* forbidden parameters are never tested, a veto is
final, a test passes its grace period, index and slot tell the truth, a
verdict is recorded.

### Phased cross-examination - `core/sessions.py`, `core/cross_exam.py` (`phase_*`), `mcp/server.py`, `cli/main.py`
*State:* one JSON session file per examination: phase, iteration, findings,
score. *Operations:* create, the phases start, deepen, explore, synthesize,
iterate, cleanup. The MCP tools run one phase per call on a file that any
server may touch; `3s cross-exam --live` runs the loop in one process. *Hard:*
a call reads, spends minutes in LLM queries and writes; `write_text` truncates
before it writes; kills; clients that call tools in any order. *Correct if* no
phase is passed over, the number of rounds is bounded, each review has
something to review, the loop ends, old files go.

### Cross-examination engine - `core/cross_exam.py` (`cross_examine_iterative`)
*State:* the result of the call; rows in the evidence store. *Hard:* any query
may fail, the database may raise, three modes with different limits. *Correct
if* it stops at the first agreement or the last round, and the row it records
says what happened.

### Upgrade engine - `core/upgrade.py`, `http/background_poller.py`, `cli/main.py` (`doctor --revert`)
*State:* `config.yaml`, `upgrade_snapshot.json`, the phase in memory, an event
log. *Operations:* recovery at start-up, probe and decide, begin, apply,
commit, rollback, revert. *Hard:* kills between any two file operations and
inside a write, a full disk, two servers, a doctor beside a server.
*Correct if* the user's settings are never lost, an upgrade is all or nothing,
memory and file agree, and the phase follows the infrastructure.

### Capability registry - `core/capability_registry.py`, `mcp/server.py` (`capability_status`)
*State:* a level per capability, the baseline, the posture (nominal, degraded,
recovering, safe mode), pending changes, a JSON file, a Redis hash.
*Operations:* `set_level`, `apply_probe`, `mark_probe_healthy`,
`enter_safe_mode`, `exit_safe_mode`, `batch_events`, save and load, persist
and rehydrate. *Hard:* batches of two threads overlap, an event log that
raises in the middle of a method, two stores that are written in two halves.
*Correct if* listeners know the levels, the posture follows them, and safe
mode is left only on purpose.

### Cross operations - `orchestration/cross.py`, `receipts/store.py`, `receipts/render.py`
*State:* threads, a queue of reviewers, their results; a JSONL file of receipts
that all processes share. *Operations:* `fan_out`, the worker per reviewer (CLI,
retry, API fallback), the quota that cuts a run short, `finalize`; append, prune
and purge of receipts. *Hard:* workers finish in any order and may die; the
deadline races with late answers; a prune reads all, then rewrites. *Correct if*
each reviewer is counted once, a run is cut short only with reason and returns,
receipts stay in order and recent ones stay.

### A surgeon's query - `core/config.py` (`discover`), `core/models.py`, `core/cross_exam.py` (`consult`, `consensus`), `core/diversity_canary.py`, `core/counter_probe.py`, `core/zsf_counter_persist.py`
*State:* the provider of each surgeon, the replies and costs of a call, the
counters of a process, one JSON file of counters that every process replaces.
*Operations:* `discover` (YAML, environment variables, two fallback ladders whose
rungs are probed over the network), the command-line flags, `query` with retries and
fallbacks, `consult`, `consensus`, the diversity canary, the counter-probe gate with its
second pass on the negated claim, `persist_counters`. *Interaction:* every command
starts here; a local neurologist goes through the GPU lock, except for `3s probe`, the
gates' health checks and research, which call the provider without that adapter.
*Hard:* an override can come from four places, any probe, attempt, cost row or
file write may fail, and both surgeons may end on one provider without anybody
having asked for it. *Correct if* explicit overrides win, results are backed by
what was asked and paid, a collapse onto one model is flagged, no count is lost unseen, and
every command ends.

### State backends and leases - `core/state.py`, `core/priority_queue.py` (`RedisLockBackend`), `core/chain_consultation.py`
*State:* keys with a time to live, lists, hashes and counters, in memory, SQLite or
Redis. *Operations:* `increment`, `list_push`, `hash_increment`, `acquire_lock`,
`release_lock`; chains, surgery teams and `ModeAuthority` count with them. *Hard:* the
same call is one step in one backend and three in another; a lease has no owner.
*Correct if* nothing is counted that is not on record and a lock has one user while it
lasts.

### Grades and migration - `core/evidence.py` (`auto_upgrade_grade`), `core/migration.py`
*State:* the grade of an observation, its outcomes and history; the database file
with its write-ahead log, snapshots, one backup. *Operations:* record an outcome,
upgrade; migrate, revert. *Hard:* two upgrades start from one old grade; a copied file
lacks what is in the log; kills between file operations. *Correct if* the history
explains the grade, and a revert puts back what the snapshot says.

### Quality gates - `core/gates.py`
*State:* none of their own: counters, a lock file, the stores, model endpoints.
*Operations:* `GainsGate`, `CardioGate`, `CorrigibilityGate`. *Hard:* the checks run
one after the other while the world changes; a check that cannot read must still
decide. *Correct if* a verdict is backed by what was so during the run.

### Roster - `orchestration/roster.py`
*State:* the environment, the PATH, a cache of the tools found. *Operations:*
`detect_self`, `pick_reviewers` by list, priority or diversity. *Hard:* the cache is
kept and the marks are not; back-filling. *Correct if* nobody reviews their own work
and as many review as can.

### REST server - `http/server.py`, `http/rate_limit.py`, `core/audit.py`
*State:* a window of calls per tool, in memory or Redis; audit records.
*Operations:* `POST /tool/{name}`. *Hard:* the window's edge, refused calls, requests
that wait for their body while others are served. *Correct if* a tool is called within
its limit and the record tells what ran.

### Event bus and transports - `ide/event_bus.py`, `ide/transports/`, `ide/bridges/`, `ide/skill_suggestions.py`, `mcp/event_tools.py`
*State:* handlers, once handlers, a ring buffer, queues of streams, a JSONL file, the
clients of a WebSocket server. *Operations:* subscribe, emit, poll, unsubscribe;
accept, deliver, close. *Hard:* handlers that emit, overlapping patterns, a rotation; a
lock that is held over an await. *Correct if* each event arrives once and in order.

### Chains and commands - `core/chains.py`, `core/requirements.py`, `core/mode_authority.py`
*State:* the data that segments hand on, results, the record of a run.
*Operations:* `resolve`, `gate`, `run`, `_run_command`. *Hard:* segments that are
blocked, degraded, fail or raise, halting, two writes for one record. *Correct if* what
ran was let in and every segment is accounted for.

### File access - `core/file_access.py`
*State:* the files of a review. *Operations:* `check`, `read_file_chunked`,
`read_files_with_budget`. *Hard:* chunk and budget arithmetic; files change between
check and read. *Correct if* the budget is kept and texts have no gaps.

Research, health, adapters, text processing, documents and packaging are sequential
I/O or pure functions of text; `PROJECT.json` gives each its reason.

## 2 Modules

| module | models | state and actions against the code |
|---|---|---|
| `ExclusiveUse` | what a lock promises (abstract) | the user of each resource; acquire and release |
| `GpuLock` | `GPULock` and the adapter of `make_gpu_locked_adapter` | `pc[t]` is the place of a caller in `acquire`/`release`, each system call an action; `gate` the `threading.Lock`s, `file` the lock file; `Kill`, `Abandon`, `Age` are the environment |
| `ABTest` | engine and `ab-*` commands | `store`, `index`, `slot`, `results` are the keys and the table; `call[c]` is the copy a client holds; `Load`, `Save` and one action per further write |
| `LiveSession` | the session record, `phase_*` | functions from a session to the set of its possible successors |
| `McpSessions` | the five MCP tools, `SessionManager` | `disk` is the session files, `call[c]` a tool call with its copy; truncation and write are two actions |
| `LiveCli` | `3s cross-exam --live` | `pc` the statement of the loop body, `n` the loop variable, `over` what cut the command short |
| `ReviewRounds` | what a cross-examination promises (abstract) | round, stage and verdict |
| `IterativeReview` | `cross_examine_iterative` | `pc` the phase or database call that comes next, `raised` that it has raised |
| `Upgrade` | `UpgradeTransaction`, `UpgradeEngine`, poller, doctor | `config`, `snap` the two files, `proc[p]` a process with the file operation (`op`) it is in and how far (`stage`: read, open, write) |
| `ProbeRules` | the probe rule table | `LevelOf(cap, found)` |
| `CapabilityRegistry` | `CapabilityRegistry`, `capability_status` | `reg` has the object's fields; methods are functions of it, since they hold its lock; batches, loads, saves and persists, which do not, are several steps |
| `Receipts` | `receipts/store.py` | `file` is the log, `at[w]` the place of a process in append, prune or purge, `text[w]` the lines its prune has read; `Left` says what a write over longer text may leave |
| `CrossOp` | `fan_out` and the operations built on it | `worker`, `queue`, `result` per reviewer; the main thread counts, cuts short and finalizes, then appends its receipt |
| `Surgeons` | `Config.discover`, `LLMProvider`, `consult`, `consensus`, canary, gate, counter file | `pc[p]` the stage of a command or tool call: discovering a surgeon, applying flags, asking, judging, at the gate; `cfg` the provider of each surgeon, `vote`, `cost`, `ledger`, `result` what the call has gathered; `count` the process's counters, `file` the shared file |
| `StateStore` | counters and lists of a backend under the programs that count | `at[p]` the place of a process in a call, `seen[p]` what its increment has read, `counter`, `executions`, `prefs` the keys |
| `LeaseLock` | `acquire_lock`, `release_lock`, `RedisLockBackend` | `key` who set the lock, `stale` a SQLite row past its time; each command or transaction an action; `Lapse` is the time to live |
| `Grades` | `record_outcome`, `auto_upgrade_grade` | `old[p]`, `earned[p]` what an upgrade has read and decided; `grade`, `history` the tables |
| `Migration` | `EvidenceMigrator` beside a writer of the database | `main`, `wal`, `snap`, `bak` the files, `cmd` the file operation that comes next |
| `Gates` | the three gates | `left`, `checks`, `verdict` of a run, `world` what checks look at, `was` all worlds during the run, `look` how far the check of the lock file is |
| `Roster` | `pick_reviewers` | `marks`, `path`, `keys` the environment, `known` the cache, `picks` the answer |
| `RestServer` | `POST /tool/{name}`, the limiters | `window` the limiter's record, `stamp` the instant a Redis pipeline is to run for, `answer` and `log` of each request |
| `EventBus` | bus, streams, suggestion engine, hook bridge, JSONL transport | `frames` the stack of `emit` calls, `handlers`, `once`, `buffer`, `queue`, `file`; `lost` the events whose line was not written |
| `WebSockets` | the WebSocket transport | `clients` its table, `lock` the handler that holds it, `due` scheduled sends |
| `Chains` | `ChainExecutor.run`, `_run_command` | `left` the segments to come, `data` what they hand on, `record` and `counted` the two writes |
| `FileContext` | the policy, chunks and budget | `allowed`, `remaining`, `given` the text taken of each file, `handed` how long it is once sanitized |
| `Sublists` | list comprehensions, nested loops over lists | `Only`, `Flat`, recursive functions so that proofs can unfold them |

`McpSessions` and `LiveCli` EXTEND `LiveSession`; `CapabilityRegistry` EXTENDS
`ProbeRules`; `CrossOp` EXTENDS `Receipts`; `Roster`, `EventBus`, `FileContext` and
`Chains` EXTEND `Sublists`. Four modules compose. Their components share no
state but a run, so they are followed one at a time, chosen in the initial state (`part`,
`way`), with a single initial state for the others:

| module | composes |
|---|---|
| `Reviews` | `McpSessions` (EXTENDS), `LiveCli`, `IterativeReview`: the three ways of running a cross-examination |
| `Ecosystem` | `Upgrade` (EXTENDS), `CapabilityRegistry`: the phase and the levels |
| `Stores` | `StateStore` (EXTENDS), `LeaseLock`, `Grades`, `Migration`: what processes share |
| `Services` | `Gates`, `Roster`, `RestServer`, `EventBus`, `WebSockets`, `Chains`, `FileContext` |

`GpuLock` implements `ExclusiveUse`, `LiveCli` and `IterativeReview` implement
`ReviewRounds` (an INSTANCE with a refinement mapping, checked as a PROPERTY). `MC*`
modules only give the constants their instances, and `*Proofs` modules hold the theorems,
which are about the specifications the runs check.

Conventions. A name `X_Y` next to a definition `X` is `X` with a bug a
programmer could have made there; the specifications do not use it. Time is abstract:
a deadline may pass whenever it is looked at. A text is what later code can tell
about it. Every write by `Path.write_text` truncates and then writes; an append of one
short line is one write.

## 3 Runs

Passing runs:

| run | instance | shows |
|---|---|---|
| `gpu_lock` | a process of two callers, one of one caller, one that was killed earlier and may have left a file | `ExclusionUnlessRobbed`, `VerdictSound`, `ImplementsLock` under kills, lost workers and failing system calls; `AcquireReturns` |
| `ab_tests` | 2 clients, 2 tests | `ForbiddenNeverTested`, `IndexSound` in every interleaving with kills; `SlotHasRun`, `TerminalExit` as long as operations do not overlap |
| `reviews` | the tools with 2 clients, 1 session, 3 iterations; `--live` with 5 rounds; one call in the modes with their real limits 1, 3, 5 | `SessionsComplete` whatever is called in whatever order, `OutcomeHonest`, `ReviewsEnd` (for the tools: an agent that does as `next_action` says), `ImplementRounds` |
| `ecosystem` | phase: 1 server, 1 doctor between the server's lives, 2 kills, 1 failing write; levels: 1 server with 2 batches, both stores, loaded and persisted step by step, an event log that raises once | `SettingsKept`, `Atomic`, `Agreement`, `PhaseConverges`; `ReportsTrue`, `SafeModeHeld` |
| `cross_ops` | 3 reviewers on 2 threads, quotas 0 to 2, 2 writers of receipts | `InOrder`, `RecentKept`, `AbortJustified`, `Returns` |
| `surgeons` | a CLI that probes, consults and gates under each kind of override, beside an MCP server that serves two consultations | `OverridesWin`, `ResultBacked` (with the flag of a collapse onto one model), `FileHonest`, `CommandEnds` |
| `stores` | 3 processes on each backend; 3 chains, 2 flagged answers, cadence 1; outcomes around each threshold, 3 upgrades; 3 learnings, 4 migrations or reverts | `CountsKept`, `LocksExclude`, `HistoryExplains`, `MigrationSound` with deaths between any two steps |
| `services` | gates with 1 change of the world; callers of every family, 1 tool or key that comes or goes or 1 change of the caller; 3 requests of 1 tool, 2 instants in each of 4 ticks, limit 1 in a window of 2; 2 streams, 2 published events, 1 failing write, a file of 2 lines, a buffer of 2; 3 sockets, limit 1; chains of 3 segments; 2 files around 1 and 2 chunks of 4 | `VerdictBacked`, `PickSound`, `LimitsKept`, `NothingLost` |

The other runs each find one statement of the repository violated; they are in
[section 5](#5-divergences).

*Bounds.* Three processes are enough for the lock since an unlink under a user
involves a holder, a judge and a third that takes the place; two callers in one
of them exercise the gate. Two clients suffice for load-save races because a
step of a call depends on one stored record only; two tests let the slot and the
index name another test than the one being saved. `IterBound` is one more than
`Max`, so that going beyond the mode's limit is possible. `MaxKills = 2` kills
a server in a transaction and in the recovery of it; `MaxFaults` is 1. The groups of
the registry (`Uses`) are the independent parts of the object: two batches; safe
mode among probes; the JSON file; Redis and a failing log. Each history uses one
of them. In `cross_ops` three reviewers on two threads make one wait in the
queue, and a log of at most two receipts with four appends makes every append
after the second prune. `WaitingSpec` lets the other process write its receipts
only while no fan-out runs: fan-out and receipts share no state, so
nothing is lost but states. In `surgeons` the ladders have two rungs (the first that
answers ends the walk, so a third adds no case), one retry stands for three, the
votes are `agree` and `disagree` besides the unavailable ones a failed query
leaves (they are what the gate's verdicts and the canary tell apart; to the
gate a weak or uncertain vote is one that tells nothing, like an unavailable one), and
`Calls` picks one call for each way a provider can be settled: both ladders, variables
that name a provider, that name none and that switch the ladder off, YAML, flags. A
provider stands for itself with the model asked there, so the files may pair one
provider with two models; some calls let the cardiologist fall on the neurologist's
provider, with the canary on and off. In `stores` a third process is the one that enters
beside two that misjudge each other; three chains let a consultation lie between two
executions; `Earlier` starts one or two outcomes below the thresholds 3 and 5, 10 and
20, and `Full` stops above each, so that the thresholds are the code's own; four
commands are two migrations and two reverts in any order. In `services` one change of
the world is enough for a check to see something else than the next one; a limit of 1 in
a window of 2 puts a third request on either edge; the suggestion that the engine adds
to a published event makes the buffer drop and the file rotate with two; the budgets are
less than a character per file, less than a chunk, and more than everything. Tools share
nothing in the limiter, so one is enough; two Redis calls of a tick may share their
instant or not; one failing write suffices for a torn line that spoils the next. With
920,169 distinct states `services` is the largest after `cross_ops` (1.2 million);
`ecosystem` has 601,138.

*Conditions in properties.* Some promises hold only part of the time, and the
property says when. `ExclusionUnlessRobbed`: unless a file was unlinked under its
user, which the code can do (section 5). `InOrder`: until two prunes have both truncated
the log (`crossed`). `ResultBacked`: a collapse is flagged unless the canary is switched
off. The command and the call of `reviews` end with a result, or by what they raise.
`FileHonest`: unless a write has failed, or another process has written since.
`SlotHasRun`, `TerminalExit`, `RecentKept`: until two operations on the same data have
overlapped (a history variable records it), since nothing locks them. `SettingsKept`,
`Agreement`: the faults after which the code does lose or leave something are those of
section 5, named in the property: settings may be lost by a raising write after a kill,
or by a second one, which can cut into the rollback of the first. `ReportsTrue`: not
while a batch is open, after a rehydration, or after the log has raised. `CountsKept`,
`LocksExclude`, `HistoryExplains` each have a part that always holds (nothing is counted
that is not on record; a row of the history goes up and was earned) and one that holds
until two calls cross on one row (`crossed`), or a key ends under its user (`lapsed`).
`MigrationSound` speaks of a revert unless the database was open while a file was copied
(`shared`) or the migration died before its backup was whole (`broken`).
`VerdictBacked`: a gate may also fail because a live holder let go of the lock file
between two looks. `LimitsKept` (`CallsLimited` and the sockets' `Served`) counts Redis
calls of one instant once, and speaks of Redis until pipelines run in another order than
their clocks were read in, or after their window has expired (`crossed`). `NothingLost`
is `EventsWhole` (of the bus), which leaves out events whose write failed (`lost`), and
`BudgetKept` (of the files), which bounds what is taken by the budget and what is handed
on by three times what is taken.

*Fairness.* `GpuLock!FairSpec`: threads that are not killed run, and a loop
that looks at its deadline again and again finds it passed (strong fairness of
`Timeout`); nothing is assumed of new requests, of the holders or of faults.
`Reviews!AnySpec`: an agent that follows `next_action` goes on, and each query
of `--live` or a call returns, because every provider call has a timeout and `_safe_query`
turns exceptions into `None`. `Ecosystem!EitherSpec`: a server is restarted and its poller
runs; `PhaseConverges` only speaks of infrastructure that stays as it is. `CrossOp`:
the threads run; a reviewer's subprocess has a timeout. `Surgeons`: a process that is in
a call goes on, since every probe, attempt and health check has a timeout; nothing is
assumed of new processes and calls, nor of which attempts are answered. `stores` and
`services` check safety only and assume no fairness.

*Symmetry* is used for the processes of `stores` and the requests and streams of
`services`, which no definition tells apart; neither run checks a temporal property.

*Deadlock* is checked except where the system may stop: every process of the
GPU lock may be dead, sessions may all be done, a command may have ended
(`gpu_lock*`, `mcp_*`, `reviews`), a bound of `stores` is reached, a gate has its verdict or
the event loop is stuck (`services`).

## 4 Proofs

`GpuLockProofs`, for any processes, threads and gates with the assumptions named
in `GpuLock` (each thread has one process, callers of a gate are of one process,
the null values are distinct from the others):

- `TypeCorrect`: `Spec => []TypeOK`;
- `IntraProcessThm`: callers of one process that spell the lock directory
  alike exclude each other;
- `ExclusionThm`: two callers are inside their query at once only if
  one's file was unlinked under it;
- `VerdictThm`: no pid of a caller that uses the lock is judged gone;
- `ImplementsLockThm`: seen from one gate, the lock is an `ExclusiveUse`.

Exclusion is not inductive: the number of users follows from who owns the
gate, whose file is at the path and what a judge has read. The invariant is
`IndInv`, the conjunction of `TypeOK`, `GateInv` (a thread inside its gate is
the one the gate names), `FileInv` (the file at the path is that of whoever uses
the lock, unless robbed), `DeadInv` (a killed process executes nothing) and
`VerdictInv` (a pid judged stale is dead or the judge's own).

`ABTestProofs`, for any clients, tests and parameters (`NullAssumption`: the null
values are not among the others):

- `TypeCorrect`; `ForbiddenThm`: no interleaving stores a test of a forbidden
  parameter; `IndexThm`: an indexed test is stored;
- `SlotThm` and `TerminalThm`: the two that hold while operations do not overlap.

The first two rest on an invariant about the copies clients hold as well as the
records (`Safe`: what is going to be saved is as good as what is stored). The
last two need that without overlap one call at most is under way and
that its copy is still what is stored (`AloneInv`, `CopyInv`), from which the
slot's own invariant (`SlotInv`) follows.

`SurgeonsProofs`, for any processes, calls, ladders, lists of fallbacks and retries
(`SurgeonsAssumption`: the rungs are known providers, and no provider has the name of
"no variable set" or of the two words that are not providers):

- `TypeCorrect`; `OverridesWinAlways`, `FileHonestAlways`, `ResultBackedAlways`:
  `Spec => []OverridesWin` and so on.

`OverridesWin` speaks of a command that has finished discovering. It becomes inductive
with what each earlier stage has settled and what it has yet to touch (`Good`): before
a surgeon is reached its provider is still that of the files, and settling the
cardiologist leaves the neurologist alone. `ResultBacked` speaks of a call that is done;
`Fit` says for every stage what the call has gathered by then (nothing before it asks,
the votes of the passes it has made, the verdict once it has judged), and `Apart` that no
step of one process touches what another has gathered.

`CrossOpProofs`, for any writers, maximum of receipts, reviewers, threads, quotas and
routes (`ReceiptAssumption`, `OpAssumption`):

- `TypeCorrect`; `Order`: `Spec => []InOrder`; `Keeps`: `[]RecentKept`; `Counts`:
  `[]AbortJustified`.

The order of the file does not say why a prune may write over lines it has not read:
unless another prune wrote between its truncation and its write, those it leaves behind its
own were appended after it had truncated the file (`Texts`). `Whole` says that the lines
of an undisturbed file are the last receipts without a gap. A count is justified because
every reviewer taken is one worker's (`Own`, `Covered`), asked once (`AskedOnce`), and
cut short only past the threshold (`Patient`, `Ends`, `Counted`).

`ReviewsProofs`, for any clients, sessions, modes and maximum of iterations:

- `ReviewsTypes`; `CompleteThm`: `AnySpec => []SessionsComplete`; `HonestThm`:
  `[]OutcomeHonest`; `BoundedThm`: the session of an agent that follows `next_action`
  stays within its mode's rounds;
- `RoundsThm`: `AnySpec => ImplementRounds`: `--live` and `cross_examine_iterative` each
  implement `ReviewRounds`, their steps being steps of it or stutters.

`SessionsComplete` says that a session in a phase has the findings of those before;
it becomes inductive with two facts about every session, on disk or
in a call's copy: no finding is ahead of the iteration, and initial findings are
those of the first iteration (`Sound`). The refinement of `--live` needs that the loop
variable is the session's iteration, except while a new one begins, and which statement
goes with which phase (`LiveInv`); that of the call, that the rounds logged are those
that went by and that without an agreement it ends in the last one (`CallInv`).

`EcosystemProofs`, for any providers, capabilities, uses and bounds:

- `UpgradeTypes` and `EcosystemTypes`; `EitherIsUpgrade`: the phase, followed beside the
  registry, is `Upgrade`'s own, so that what is proved of one holds in the other;
- `SettingsKeptAlways`, `AgreementAlways`, `AtomicAlways`, of one server and one doctor
  that take turns (`OneEach`, a hypothesis of these three: two servers do overwrite each
  other's only backup, section 5);
- `ReportsTrueAlways`, `SafeModeHeldAlways`, which assume no more than
  `RegistryAssumption`.

That the settings are in one of the two files does not say what a half-done operation
will make of them. `IInv` is the conjunction of the types and possible places of a process
(`Typed`, `Shape`), of who runs while who is down (`Roles`), of what an operation in
progress has read and may rely on (`Sure`, `Safe`, `Agreed`, per process) and of
what the files hold when nobody is in the middle of anything (`GoodFiles`). Each step of
`Upgrade` moves one process, and the lemmas are about the process that moves while all
others are down. The registry's `ReportsTrue` follows from `RegInv`: what listeners
know of a capability is its level or what it was when a batch that is still open began
(`HeardInv`), and a nominal posture which no batch holds back means that no capability is
below its baseline (`NominalInv`). `apply_probe` is a loop over capabilities;
`LoopKeeps` shows by least elements what is true after any number of its rounds.

`StoresProofs`, for any finite set of processes and all bounds (`StoresAssumption` and
the assumptions of the four modules: earlier outcomes are outcomes, the null values
are distinct):

- `StoresTypes`; `CountsAreKept`, `Exclusion`, `History`, `Migrated`:
  `AnySpec => []CountsKept`, `[]LocksExclude`, `[]HistoryExplains`, `[]MigrationSound`.

`CountsKept`: `Places` says where a process may have read something, `Room` that whatever
an increment has read leaves room for all that are counting, `Fresh` that it is the counter
there is unless two cross; how many processes are at a place changes by lemmas on
cardinalities. `LocksExclude` does not say why a SQLite process may set a key some time
after it has looked: `OneStep` (only SQLite keeps a key past its time or acquires in several
steps), `OneInside` (at most one process is inside `acquire_lock` until two cross) and
`Owned` (nobody uses the lock that somebody acquires) do. The history alone says nothing of
an upgrade in progress: `Sound` adds that what it has decided is earned and above what it
read, `FreshGrade` that it read the grade there is, unless two cross. For a revert,
`Logged` says when there is a log or a torn file, `StillThere` that until the backup is
made the database holds what the migration has read, `BackedUp` that the backup of an
unbroken migration is what it kept, `Reported` that a command with a report is over.

`ServicesProofs`, for any requests, tools, clients, chains and lists of checks
(`ServicesAssumption`: a gate's list does not name another gate's checks, a preset names no
segment twice, as in `core/mode_authority.py`, a review asks in one of the three ways
`pick_reviewers` has, limits, sizes and budgets are numbers and some size is the greatest,
chunks overlap by less than a chunk, the engine and the hook bridge are no streams; the
sets of requests, clients and streams may be infinite):

- `VerdictBackedAlways`: `AnySpec => []VerdictBacked`; `LimitsKeptAlways`: `[]LimitsKept`;
- `PickSoundAlways`: `AnySpec => []PickSound`; `NothingLostAlways`: `[]NothingLost`;
- `TypesOKAlways`: `AnySpec => []TypesOK`, of all seven parts.

A verdict says what every check of a list found; during the run, `GateInv` says that each
result so far is what its check finds in some world there was and could read
(`GateFound`), that a check which must run has run or is still on the list
(`GateOwes`), which results a verdict goes back to (`GateSays`), and what there was at each
look at the lock file that the next one builds on. For a chain,
`RunLetIn` says of every segment that was called what it needed and was given, `RunStage`
what is on record when, and `ResolveKeeps`, by least elements over the overrides, that
what is requested has no segment twice. `RestInv` speaks of the limiter's record: all
that is in it was asked for, and, unless pipelines have crossed, no call is missing
whose instant still counts for a pipeline to come (`RestKept`); the limit in every
window follows. `SocketInv` says that the lock is held for the client being refused.

`pick_reviewers` answers in one step of three stages: it looks for who could review, orders
them and fills up. Each is a list got from an earlier one; `OnlyTakes` says which positions
of it a comprehension takes, in order, from which follow that no list has a reviewer twice
and that what one stage leaves out another had. Of the files, `FilesShared` says that every
file that is left has its share of the budget, `FilesGiven` that what is given and what
remains are the budget at most, and that a file read has given its share or its whole text,
unless somebody changed a file meanwhile; that what is handed on is at most three times as
long is arithmetic on the shortest marker and its replacement.

`NothingLost` speaks of the bus while no call of `emit` is under way; its invariant
(`BusInv`) speaks of the stack of those that are. `FramesOK` says which event each is about
and which handlers it has left, `Complete` that a stream has been given, or will be by a
call on the stack, each event as often as its patterns cover it, and none otherwise.
`Written` says of the JSONL files that an event is there, is lost, or its call has not
returned, and that otherwise only a suggestion made for an event already there may be
missing; `BufferOK` that the
ring holds the last events and the counter those before. A suggestion is emitted from inside
a handler, so its call lies on top of that of its event, and none follows another (`KindsOK`).

*Assumptions* are named (`ASSUME NAssumption == ...`) in the module that declares the
constants and evaluated by TLC on the instances of the runs.

*Only model-checked.* Liveness (`AcquireReturns`, `Returns`, `CommandEnds`, `ReviewsEnd`,
`PhaseConverges`), since fairness and ENABLED are beyond the prover. Every safety property
of a passing run, state or action, is a theorem. What a comprehension or a concatenation
returns is an induction over the list, which the library's theorems cannot be cited for (they
take an operator as a parameter); `Only` and `Flat` are functions of the number of elements
looked at, and the proofs take the least number for which the claim fails.

Each lemma about a step has one case per action.

## 5 Divergences

Where the code does not do what a comment, a docstring or a skill says. Each is a
run that violates one property; the counterexample is the schedule.

- `gpu_lock_exclusion` / `MutualExclusion` (core/priority_queue.py:208): _try_lock
  creates the file and writes the pid in two system calls, and _steal_stale unlinks an
  empty file (and, through the OSError handler, a file that was missing when it was
  read), so a process can remove a lock that another has just taken; the class comment
  says "Prevents concurrent GPU/Metal operations by acquiring an exclusive lock file"
  (src/three_surgeons/core/priority_queue.py:64).
- `ab_veto_race` / `VetoBlocksActivation` (core/ab_testing.py:215): activate loads the
  test, checks the status of its copy and stores the copy, so a veto stored in between
  is overwritten by 'active'; the skill says "If the test was vetoed during the grace
  period, activation will fail." (src/skills/ab-testing/SKILL.md:66).
- `mcp_round_two` / `ReviewsHaveInput` (mcp/server.py:879): the iterate tool leaves the
  session at 'start' of a new iteration and no tool runs phase_start on an existing
  session, so the next deepen finds no initial finding of that iteration; phase_deepen
  says "Each surgeon cross-reviews the other's initial analysis"
  (src/three_surgeons/core/cross_exam.py:921) and phase_iterate "Store enriched topic
  for next phase_start to pick up" (src/three_surgeons/core/cross_exam.py:1217).
- `surgeons_yaml` / `YamlKept` (core/config.py:761): discover() walks the cardiologist's
  ladder whenever CONTEXT_DNA_CARDIO_PROVIDER is unset, so a provider the YAML files
  name is replaced by the first one with a key; the comment on the ladder says "Walked
  only when no explicit env-var/CLI/YAML override is in effect."
  (src/three_surgeons/core/config.py:173).

Met while modelling, and without a run of their own (the first line of each is
where to look):

- core/ab_lifecycle.py:129: `ab-start` accepts a proposed test and skips the grace
  period which the engine's class comment requires; core/ab_testing.py:191:
  `start_grace_period` reopens a vetoed test; core/ab_lifecycle.py:277: the `ab-*`
  commands call `record_observation` with keywords it does not have, the
  TypeError is logged, and no evidence is stored.
- core/priority_queue.py:99: two spellings of one lock directory give two gates;
  core/priority_queue.py:228: the rule for a lock orphaned by the own process
  runs only behind the gate which that orphan's thread still holds.
- core/cross_exam.py:1320: a reply to the vote that parses to a JSON list has no `get`, and
  no `except` there names the AttributeError, which ends `--live`,
  `cross_examine_iterative`, `consult` or `consensus`; so do a cost row and a session file
  that cannot be written (:1394, core/sessions.py:194).
- core/diversity_canary.py:114: the canary compares providers with their models, and
  `CONTEXT_DNA_DIVERSITY_CANARY=off` switches it off: two models of one provider are no
  collapse.
- core/cross_exam.py:1192: `phase_iterate` has no upper bound; :878: `--live` goes on
  with nobody reachable; core/sessions.py:214: `cleanup` skips a torn session
  file for ever.
- core/upgrade.py:348: the engine of a starting server recovers any in_progress
  snapshot, that of a live server's upgrade included;
  core/capability_registry.py:357: a second `enter_safe_mode` saves the L1 levels of
  the first over those to restore.
- core/upgrade.py:255: the first upgrade, without a `config.yaml` before, is not
  taken back, nor does `doctor --revert` then revert anything; :246: when the write of
  `commit` raises, the snapshot is torn and `rollback` cannot read it; :237: `begin`
  after a failed rollback overwrites the only backup; :256: a revert can interleave with
  a server's upgrade; a doctor killed between truncation and write leaves an empty
  `config.yaml`.
- core/capability_registry.py:261: a probe raises levels in safe mode; :420: the
  inner of two batches announces for both; :274: a raising log leaves the posture
  nominal; :511: rehydration announces nothing; mcp/server.py:667:
  `capability_status` never reports the changes of its own probe.
- receipts/store.py:111: the docstring has concurrent writers without a lock; a
  prune that read before another's append drops it, a kill inside
  the rewrite empties the log, and of two prunes that have both truncated it the one with the
  shorter text leaves whole lines of the other behind its own, a second time and out of order.
- orchestration/cross.py:480: a worker whose reviewer's output raises dies with the
  rest of its queue; those reviewers are reported as aborted.
- core/zsf_counter_persist.py:55: the snapshot has no entry for
  `COUNTER_PROBE_COUNTERS`, which its module says is persisted; core/config.py:41:
  the counter of kept defaults is not bumped for `--neuro-provider` and `--cardio-provider`,
  and the ladder is walked although they are given.
- core/models.py:325: a daily cap on external spending is offered but no caller
  passes a budget tracker, and `daily_external_usd` is never read.
- cli/main.py:404: the comment says every call site passes fallbacks; only `3s probe`
  does.
- core/evidence.py:451: "Never downgrades" holds for one upgrade at a time; of two that
  cross, the slower one writes what the smaller number of outcomes earned.
- core/migration.py:258: a revert drops what was recorded after the migration, and all
  migrations share one `.bak`, so an older snapshot cannot be reverted to.
- core/gates.py:264: the stale-lock check parses the file as a number, so it fails for
  the JSON a living `GPULock` holder has written, and, since :249 and :256 are two looks, for
  one that lets go in between; :338: `critical_findings` passes while
  the backend is down; mcp/server.py: `_gains_gate` runs on a new `MemoryBackend`, so it
  never sees what others counted; nothing raises the counter `CardioGate` limits by, and
  reading it is not guarded.
- orchestration/roster.py:325: "never including the caller's lineage" (:20 says so, too), but
  only the caller's own id is left out: priority and the back-filling by diversity may pick
  another tool of the caller's lab, and `only` the caller itself; a family may be reported
  missing although a stand-in of it was picked.
- http/rate_limit.py:74: the Redis limiter records the calls it refuses, so a
  caller who keeps trying stays out, and two calls of one instant are one entry; :69: the
  clock is read before the pipeline runs, so that a pipeline which comes late drops too
  little or counts too much, and several servers may exceed the limit that the class calls
  atomic; :76: one that fails is answered 500, whether it was recorded or not.
- http/server.py:264: a body that is not UTF-8 is answered 500, not 400; a result that cannot
  be sent leaves a success and an error record of one call.
- ide/transports/websocket.py:82: a lock of threads is kept over the await that refuses
  a client; whoever on the loop needs it meanwhile stops the loop for good, a client's own
  publish (:115) included when the suggestion engine emits for it.
- ide/transports/jsonl.py:18: a suggestion is made while handlers run, before the event it
  is about reaches the file, so the file has it first; a rotation between the two and the
  next one leave the event in the files without its suggestion; :24: a write that fails is
  swallowed (ide/event_bus.py:124) and the event is missing, and part of a line makes the next
  one unreadable.
- core/file_access.py:222: "within a total character budget", but `sanitize_for_llm` replaces
  markers of 6 and more characters by one of 18 after they were counted, up to three times the
  budget; :224: what one file leaves of its share is not redistributed; one
  unreadable file, or one in a directory that may not be searched (:130), ends the reading
  of all.
- core/chains.py: a chain whose segment returned a failure is a success;
  core/requirements.py: a context never has more than two models, so a command that
  recommends three is always degraded; no segment is registered anywhere.
- mcp/server.py: `_consensus` returns the weighted score alone, so the gate's
  lowered confidence does not reach the client; `cross_examine_iterative` decides by the
  same score.

## 6 Not modelled

Left out for good: HTTP, prompts and the parsing of answers; secrets and the
merging of YAML files; adapters; text processing
(regular expressions and scores); audit lines; packaging and hooks. Inside what is
modelled: the text of findings, costs and warnings; the probing itself; the
poller's interval and its change trackers; the arithmetic of scores; how the
answers of a cross operation are classified and merged; the weights of a consensus
and the wording of prompts; the one-second memory of the counter-probe gate, which is
a choice; the moment between `apply_probe`'s release of its lock and the `diff` it returns,
which only clears the pending changes.
Further: `FileLockBackend`, which only tests build, with the `GPULock` that its callers share
and its `_held` and `_caller`; `GPULock` as a context manager; `RedisLockBackend.renew`,
which nothing calls; the SSE generator; a once handler that emits an event of its own
pattern (no code has one); reports over telemetry, costs and evidence snapshots, which
read, or write one row by one statement; the sorted sets and ranges of the state
backends; research, whose `BudgetTracker` no code outside the tests creates.

## 7 Plan

Done, in this order: the GPU lock, A/B tests, sessions and review loops, the upgrade
engine, the registry; cross operations with their receipts; the path of a query; the
stores (counters, leases, grades, migration); the services around them (gates, roster,
REST server, event bus and sockets, chains, file access).

What would add most next: monotonicity of `LevelOf`; the poller's change trackers and the
reading of receipts.
