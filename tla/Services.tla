------------------------------ MODULE Services ------------------------------
(***************************************************************************)
(* What runs inside one process and is asked from outside: the quality     *)
(* gates (Gates), the choice of reviewers (Roster), the REST server        *)
(* (RestServer), the event bus (EventBus) and its web sockets              *)
(* (WebSockets), chains and commands (Chains) and the files that a review  *)
(* is given (FileContext), each followed by itself.  They share no state,  *)
(* and the WebSocket transport is started by nothing in the repository.    *)
(***************************************************************************)
EXTENDS Naturals, Sequences

CONSTANTS None,
          Lists, Changes,                                      \* Gates, FileContext
          Marks, Requests, Moves,                              \* Roster
          Request, Tool, Calls, Window, Stamps, MaxTime,       \* RestServer
          Stream, Patterns, Onces,                             \* EventBus
          BufferSize, MaxEvents, MaxLines, MaxLost,
          Client, MaxConnections, MaxSends,                    \* WebSockets
          Segment, Presets, Overrides, Needs,                  \* Chains
          File, PathLists, Budgets, Sizes, ChunkSize, Overlap  \* FileContext

VARIABLES part,
          gate, world, left, look, checks, verdict, was,
          marks, path, keys, request, known, picks, missing, moves,
          limiter, now, window, tool, answer, stamp, log, ran, tried, crossed,
          attached, handlers, once, kind, buffer, dropped, frames, throttled, stream,
          wants, queue, polled, since, hint, file, aside, torn, lost, heard,
          socket, clients, subscribed, lock, stuck, due, sends, got,
          role, strict, requested, needs, ctx, ahead, saw, data, results, errors, skipped,
          degraded, halted, record, counted, stage,
          paths, budget, disk, allowed, turn, remaining, given, handed, status, changes

Gate == INSTANCE Gates
Reviewers == INSTANCE Roster
Rest == INSTANCE RestServer
Bus == INSTANCE EventBus
Sockets == INSTANCE WebSockets
Chain == INSTANCE Chains WITH kind <- role, left <- ahead, status <- stage
Files == INSTANCE FileContext

\* No list asks GainsGate for what the other gates check, no preset has a
\* segment twice, and limits are numbers.
ServicesAssumption ==
  /\ \A list \in Lists :
       /\ list \in Seq(STRING)
       /\ \A i \in DOMAIN list : list[i] \notin {"rate_limit"} \cup Gate!Counter
  /\ \A preset \in Presets :
       /\ preset \in Seq(Segment)
       /\ \A i, j \in DOMAIN preset : preset[i] = preset[j] => i = j
  /\ Overrides \subseteq Seq([name : Segment, on : BOOLEAN])
  /\ Needs \subseteq [Segment -> Chain!Requirements]
  /\ Calls \in Nat /\ Window \in Nat \ {0} /\ MaxTime \in Nat
  /\ MaxConnections \in Nat /\ MaxSends \in Nat /\ None \notin Client /\ Moves \in Nat
  /\ PathLists \subseteq Seq(File) /\ Budgets \subseteq Nat
  /\ Sizes \subseteq Nat /\ \E most \in Sizes : \A size \in Sizes : size <= most
  /\ ChunkSize \in Nat \ {0} /\ Overlap \in 0..ChunkSize - 1 /\ Changes \in Nat
  /\ Patterns \subseteq Seq(Bus!Pattern) /\ Onces \subseteq Bus!Pattern
  /\ "engine" \notin Stream /\ "hooks" \notin Stream
  /\ BufferSize \in Nat \ {0} /\ MaxLines \in Nat \ {0} /\ MaxEvents \in Nat
  /\ \A q \in Requests :
       /\ q.by \in {"priority", "diversity", "only"}
       /\ q.count \in Nat /\ q.ids \in Seq(STRING)

ASSUME ServicesAssumption

gateVars == <<gate, world, left, look, checks, verdict, was>>

rosterVars == <<marks, path, keys, request, known, picks, missing, moves>>

restVars == <<limiter, now, window, tool, answer, stamp, log, ran, tried, crossed>>

busVars ==
  <<attached, handlers, once, kind, buffer, dropped, frames, throttled, stream, wants,
    queue, polled, since, hint, file, aside, torn, lost, heard>>

socketVars == <<socket, clients, subscribed, lock, stuck, due, sends, got>>

chainVars ==
  <<role, strict, requested, needs, ctx, ahead, saw, data, results, errors, skipped,
    degraded, halted, record, counted, stage>>

fileVars == <<paths, budget, disk, allowed, turn, remaining, given, handed, status, changes>>

\* What is not followed has one initial state, chosen before its Init looks at it.
Unless(followed, fixed) == IF part = followed THEN TRUE ELSE fixed

AnyInit ==
  /\ part \in {"gates", "roster", "rest", "bus", "sockets", "chains", "files"}
  /\ Unless("gates", gate = "action")
  /\ Gate!Init
  /\ Unless("gates", world.matched = {})
  /\ Unless("roster", /\ marks = CHOOSE m \in Marks : TRUE
                      /\ path = {} /\ keys = {}
                      /\ request = CHOOSE q \in Requests : TRUE)
  /\ Reviewers!Init
  /\ Unless("rest", limiter = "memory" /\ tool = [r \in Request |-> "unknown"])
  /\ Rest!Init
  /\ Unless("bus", attached = {})
  /\ Bus!Init
  /\ Sockets!Init
  /\ Unless("chains", /\ role = "command" /\ strict = FALSE
                      /\ requested = Chain!Single(CHOOSE p \in Presets : TRUE)
                      /\ needs = CHOOSE n \in Needs : TRUE
                      /\ ctx = [llms |-> 0, rest |-> FALSE])
  /\ Chain!Init
  /\ Unless("files", /\ paths = CHOOSE l \in PathLists : TRUE
                     /\ budget = CHOOSE b \in Budgets : TRUE
                     /\ disk = [f \in File |->
                                 [kind |-> "refused", size |-> Files!Min(Sizes)]])
  /\ Files!Init

AnyNext ==
  /\ UNCHANGED part
  /\ \/ /\ part = "gates" /\ Gate!Next
        /\ UNCHANGED <<rosterVars, restVars, busVars, socketVars, chainVars, fileVars>>
     \/ /\ part = "roster" /\ Reviewers!Next
        /\ UNCHANGED <<gateVars, restVars, busVars, socketVars, chainVars, fileVars>>
     \/ /\ part = "rest" /\ Rest!Next
        /\ UNCHANGED <<gateVars, rosterVars, busVars, socketVars, chainVars, fileVars>>
     \/ /\ part = "bus" /\ Bus!Next
        /\ UNCHANGED <<gateVars, rosterVars, restVars, socketVars, chainVars, fileVars>>
     \/ /\ part = "sockets" /\ Sockets!Next
        /\ UNCHANGED <<gateVars, rosterVars, restVars, busVars, chainVars, fileVars>>
     \/ /\ part = "chains" /\ Chain!Next
        /\ UNCHANGED <<gateVars, rosterVars, restVars, busVars, socketVars, fileVars>>
     \/ /\ part = "files" /\ Files!Next
        /\ UNCHANGED <<gateVars, rosterVars, restVars, busVars, socketVars, chainVars>>

all == <<part, gateVars, rosterVars, restVars, busVars, socketVars, chainVars, fileVars>>

AnySpec == AnyInit /\ [][AnyNext]_all

-----------------------------------------------------------------------------
(* Properties *)

\* All seven keep their types.
TypesOK ==
  /\ Gate!TypeOK /\ Reviewers!TypeOK /\ Rest!TypeOK /\ Bus!TypeOK /\ Sockets!TypeOK
  /\ Chain!TypeOK /\ Files!TypeOK

\* A gate's verdict is backed by what was so while it ran, and what a chain or a
\* command runs, and what it records, by the gate of its requirements.
VerdictBacked == Gate!VerdictBacked /\ Chain!RunBacked

\* Reviewers can be reached.  Asked for by strategy they are others than the caller,
\* and no reviewer of another lab than the caller's is passed over; of the caller's
\* lab, and by name, the code picks more than its docstring allows.
PickSound == Reviewers!PickSound

\* No tool is called more often than its limit, unless pipelines run in another
\* order than their clocks were read in, and never by a request refused; and no
\* more web sockets are open than theirs, whose table holds those that are, and
\* whose loop stops only while it refuses one.
LimitsKept == Rest!CallsLimited /\ Sockets!Served

\* Streams get every event, and files those whose write did not fail, once and in
\* order; a review takes no more of the files than its budget, no less than their
\* share, and no gaps, and what it hands on is at most three times as long.
NothingLost == Bus!EventsWhole /\ Files!BudgetKept
=============================================================================
