---------------------------- MODULE McpSessions ----------------------------
(***************************************************************************)
(* mcp/server.py, the stepwise cross_examine_* tools, over the session     *)
(* files of core/sessions.py, SessionManager.                              *)
(*                                                                         *)
(* A tool call loads the session file, runs one phase on the copy (the LLM *)
(* queries happen here) and saves the copy.  Path.write_text truncates the *)
(* file before it writes it: between the two a reader finds no JSON and is *)
(* told the session does not exist.  Two calls may overlap (two servers    *)
(* share ~/.3surgeons) and a server may be killed at any point.            *)
(*                                                                         *)
(* A call that finds no session, whose phase advance_phase refuses or      *)
(* which raises in its phase, leaves the file as it is and is not an       *)
(* action (a start that raises once it has created its file: Crash).       *)
(* IterBound bounds the iterations explored.                               *)
(***************************************************************************)
EXTENDS LiveSession

CONSTANTS Client,      \* at most two: see Write
          Id,          \* session ids (uuid4: never drawn twice)
          IterBound,
          Absent, Torn, Idle

VARIABLES disk,    \* the file of each id: Absent, Torn or a session
          aged,    \* ids whose created_at is more than 24 hours ago
          call,    \* the tool call each client is inside of
          guided   \* one client, which does what next_action says, is all there is

vars == <<disk, aged, call, guided>>

CallRec == [id : Id, rec : Session, stage : {"create", "save", "write"}]

ASSUME NullAssumption == Absent \notin Session /\ Torn \notin Session /\ Idle \notin CallRec

TypeOK ==
  /\ disk \in [Id -> Session \cup {Absent, Torn}]
  /\ aged \in SUBSET Id
  /\ call \in [Client -> CallRec \cup {Idle}]
  /\ guided \in BOOLEAN

Init ==
  /\ disk = [i \in Id |-> Absent]
  /\ aged = {}
  /\ call = [c \in Client |-> Idle]
  /\ guided \in BOOLEAN

Readable(i) == disk[i] \notin {Absent, Torn}

\* cross_examine_start: create() opens the new file for writing.
Start(c, i) ==
  /\ call[c] = Idle
  /\ disk[i] = Absent
  /\ i \notin aged
  /\ \A d \in Client : call[d] # Idle => call[d].id # i
  /\ disk' = [disk EXCEPT ![i] = Torn]
  /\ call' = [call EXCEPT ![c] = [id |-> i, rec |-> Fresh, stage |-> "create"]]
  /\ UNCHANGED aged

\* create() has written the file; phase_start runs on the session in memory.
StartPhase(c) ==
  /\ call[c] # Idle /\ call[c].stage = "create"
  /\ disk' = [disk EXCEPT ![call[c].id] = call[c].rec]
  /\ \E s \in Started(call[c].rec) :
       call' = [call EXCEPT ![c].rec = s, ![c].stage = "save"]
  /\ UNCHANGED aged

\* The outcomes of each tool on the session it loaded.
Outcomes(op, s) ==
  CASE op = "deepen"     -> IF CanAdvance(s, "deepen") THEN Deepened(s) ELSE {}
    [] op = "explore"    -> IF CanAdvance(s, "explore") THEN Explored(s) ELSE {}
    [] op = "synthesize" -> IF CanAdvance(s, "synthesize") THEN Synthesized(s) ELSE {}
    [] op = "iterate"    -> IF CanAdvance(s, "start") /\ s.iter < IterBound
                            THEN Iterated(s) ELSE {}

Tool == {"deepen", "explore", "synthesize", "iterate"}

Run(c, op, i) ==
  /\ call[c] = Idle
  /\ Readable(i)
  /\ \E s \in Outcomes(op, disk[i]) :
       call' = [call EXCEPT ![c] = [id |-> i, rec |-> s, stage |-> "save"]]
  /\ UNCHANGED <<disk, aged>>

Truncate(c) ==
  /\ call[c] # Idle /\ call[c].stage = "save"
  /\ disk' = [disk EXCEPT ![call[c].id] = Torn]
  /\ call' = [call EXCEPT ![c].stage = "write"]
  /\ UNCHANGED aged

\* A file written by the other client since the truncation is overwritten,
\* but keeps the end of the longer text; a file unlinked since then is not
\* there to be read.
Write(c) ==
  /\ call[c] # Idle /\ call[c].stage = "write"
  /\ \/ disk[call[c].id] = Absent /\ UNCHANGED disk
     \/ disk[call[c].id] # Absent
        /\ disk' = [disk EXCEPT ![call[c].id] = call[c].rec]
     \/ Readable(call[c].id) /\ disk' = [disk EXCEPT ![call[c].id] = Torn]
  /\ call' = [call EXCEPT ![c] = Idle]
  /\ UNCHANGED aged

Crash(c) ==
  /\ call[c] # Idle
  /\ call' = [call EXCEPT ![c] = Idle]
  /\ UNCHANGED <<disk, aged>>

\* cleanup() on one file: it must parse to be removed.
Cleanup(i) ==
  /\ Readable(i)
  /\ i \in aged
  /\ disk' = [disk EXCEPT ![i] = Absent]
  /\ UNCHANGED <<aged, call>>

Age(i) ==
  /\ disk[i] # Absent
  /\ i \notin aged
  /\ aged' = aged \cup {i}
  /\ UNCHANGED <<disk, call>>

Save(c) == StartPhase(c) \/ Truncate(c) \/ Write(c)

\* Servers of any clients, which call the tools in any order and may be killed.
FreeNext ==
  \/ \E c \in Client :
       \/ \E i \in Id : Start(c, i) \/ \E op \in Tool : Run(c, op, i)
       \/ Save(c)
       \/ Crash(c)
  \/ \E i \in Id : Cleanup(i) \/ Age(i)

\* The agent of the narrate-surgery skill: it starts a session and then calls
\* the tool that next_action names, alone and within the 24 hours.
\* (cross_examine_iterate answers "start", for which there is no tool; the
\* skill goes on with deepen, which is what next_action says of the session
\* it left behind.)
Guided(c) ==
  \/ \E i \in Id : Start(c, i)
  \/ \E i \in Id, op \in Tool :
       Readable(i) /\ op = NextAction(disk[i]) /\ Run(c, op, i)
  \/ Save(c)

Alone(c) == \A d \in Client \ {c} : call[d] = Idle

GuidedNext == \E c \in Client : Alone(c) /\ Guided(c)

Next ==
  /\ IF guided THEN GuidedNext ELSE FreeNext
  /\ UNCHANGED guided

\* The agent goes on until it is told "done".
Spec == Init /\ [][Next]_vars /\ WF_vars(guided /\ Next)

-----------------------------------------------------------------------------
(* Properties *)

\* However calls overlap, die or overwrite each other, no session on disk or
\* in a server's hands has passed over a phase: advance_phase refuses it.
SessionsComplete ==
  /\ \A i \in Id : Readable(i) => NoPhaseSkipped(disk[i])
  /\ \A c \in Client : call[c] # Idle => NoPhaseSkipped(call[c].rec)

\* ReviewMode.max_iterations is the "maximum number of review iterations for
\* this mode".  phase_iterate does not look at it, and a client that does not
\* ask next_action can go on for ever; one that does stays within it.
RoundsBounded == guided => \A i \in Id : Readable(i) => disk[i].iter <= Max

\* An agent that follows the skill is told "done" in the end, whoever answers
\* and however the votes go.
SurgeryEnds ==
  \A i \in Id :
    guided /\ Readable(i) ~> Readable(i) /\ NextAction(disk[i]) = "done"

\* phase_deepen: each surgeon "cross-reviews the other's initial analysis".
\* Through the tools there is none from the second iteration on, since none
\* of them runs phase_start on a session that exists.
ReviewsHaveInput == guided => \A i \in Id : Readable(i) => ReviewsAnalysis(disk[i])
=============================================================================
