--------------------------- MODULE ReviewsProofs ---------------------------
(***************************************************************************)
(* Cross-examinations, for any clients and sessions, any modes with their  *)
(* numbers of rounds and every way surgeons may fail to answer: what the   *)
(* sessions on disk and in memory are, and that the command and the call   *)
(* implement ReviewRounds.                                                 *)
(*                                                                         *)
(*   tools  NoPhaseSkipped is not kept by the phases on its own: a new     *)
(*          iteration has no findings only because none is ever ahead of   *)
(*          the iteration, which Sound adds.                               *)
(*   live   The loop variable is the session's iteration but while a new   *)
(*          one begins, and the phase is the one the loop is at (LiveInv). *)
(*   call   The rounds logged are those that went by (CallInv).            *)
(***************************************************************************)
EXTENDS Reviews, TLAPS

-----------------------------------------------------------------------------
(* The tools *)

\* Findings are of past iterations or of the current one; a session is
\* "created" only in its first iteration, and then it has none.
Sound(s) ==
  /\ NoPhaseSkipped(s)
  /\ \A f \in s.found : f[1] <= s.iter
  /\ s.phase = "created" => s.iter = 1 /\ s.found = {}

SoundRecords ==
  /\ \A id \in Id : Readable(id) => Sound(disk[id])
  /\ \A c \in Client : call[c] # Idle =>
       /\ Sound(call[c].rec)
       /\ call[c].stage = "create" => call[c].rec = Fresh

\* The inductive invariant of the tools.
IndInv == TypeOK /\ SoundRecords

-----------------------------------------------------------------------------
(* The phases of a session *)

Findings == SUBSET ((Nat \ {0}) \X Phase)
Quoted   == SUBSET Surgeon
Scores   == {"none", "below", "consensus"}

\* A session from its fields ...
LEMMA MakeSession ==
  ASSUME NEW a \in Phase, NEW m \in Nat \ {0}, NEW f \in Findings,
         NEW w \in Quoted, NEW v \in Scores
  PROVE  [phase |-> a, iter |-> m, found |-> f, initial |-> w, score |-> v] \in Session
  BY DEF Session, Findings, Quoted, Scores

\* ... and the fields of a session.
LEMMA Fields ==
  ASSUME NEW s \in Session
  PROVE  /\ s.phase \in Phase /\ s.iter \in Nat \ {0}
         /\ s.found \in Findings /\ s.initial \in Quoted /\ s.score \in Scores
  BY DEF Session, Findings, Quoted, Scores

\* A new session is sound.
LEMMA FreshSound == Fresh \in Session /\ Sound(Fresh)
  BY DEF Fresh, Session, Phase, Sound, NoPhaseSkipped, Reviewed, Rank

\* What a phase method keeps of the session when it adds its finding.
LEMMA HeldFields ==
  ASSUME NEW s \in Session, NEW p \in Phase
  PROVE  /\ Held(s, p) \in Session
         /\ Held(s, p) = [phase |-> p, iter |-> s.iter,
                         found |-> s.found \cup {<<s.iter, p>>},
                         initial |-> s.initial, score |-> s.score]
         /\ Held(s, p).phase = p /\ Held(s, p).iter = s.iter
         /\ Held(s, p).found = s.found \cup {<<s.iter, p>>}
         /\ Held(s, p).score = s.score
  <1> DEFINE f == s.found \cup {<<s.iter, p>>}
             h == [phase |-> p, iter |-> s.iter, found |-> f,
                   initial |-> s.initial, score |-> s.score]
  <1>1. f \in Findings
    <2>1. <<s.iter, p>> \in (Nat \ {0}) \X Phase /\ s.found \in Findings
      BY Fields
    <2>2. QED BY <2>1, Zenon DEF Findings
  <1>2. Held(s, p) = [s EXCEPT !.phase = p, !.found = f]
    BY DEF Held
  <1> HIDE DEF f
  <1>3. Held(s, p) = h
    BY <1>2 DEF Session
  <1>4. h \in Session
    BY <1>1, Fields, MakeSession
  <1>5. QED BY <1>3, <1>4 DEF f

\* Entering the phase after the current one, with its finding.
LEMMA HeldSound ==
  ASSUME NEW s \in Session, Sound(s), NEW p \in {"deepen", "explore", "synthesize"},
         CanAdvance(s, p)
  PROVE  Held(s, p) \in Session /\ Sound(Held(s, p))
  <1> DEFINE h == Held(s, p)
  <1>1. /\ h \in Session /\ h.phase = p /\ h.iter = s.iter
        /\ h.found = s.found \cup {<<s.iter, p>>}
    <2>1. p \in Phase
      BY DEF Phase
    <2>2. QED BY <2>1, HeldFields
  <1>2. s.iter \in Nat \ {0} /\ s.phase \in Phase /\ Rank[p] = Rank[s.phase] + 1
    BY DEF CanAdvance, Session
  <1> HIDE DEF h
  <1>3. Reviewed(h, h.iter) = Reviewed(s, s.iter) \cup {p}
    BY <1>1 DEF Reviewed
  <1>4. \A r \in 1..(s.iter - 1) : Reviewed(h, r) = Reviewed(s, r)
    BY <1>1, <1>2 DEF Reviewed
  <1>5. {q \in Phase : 1 < Rank[q] /\ Rank[q] <= Rank[p]} =
          {q \in Phase : 1 < Rank[q] /\ Rank[q] <= Rank[s.phase]} \cup {p}
    BY <1>2 DEF Phase, Rank
  <1>6. NoPhaseSkipped(h)
    BY <1>1, <1>2, <1>3, <1>4, <1>5 DEF Sound, NoPhaseSkipped
  <1>7. \A f \in h.found : f[1] <= h.iter
    BY <1>1, <1>2 DEF Sound
  <1>8. Sound(h)
    BY <1>1, <1>6, <1>7 DEF Sound
  <1>9. QED BY <1>1, <1>8 DEF h

\* Sound looks at phase, iteration and findings only.
LEMMA SameSound ==
  ASSUME NEW s, NEW t, Sound(s), t.phase = s.phase, t.iter = s.iter, t.found = s.found
  PROVE  Sound(t)
  BY DEF Sound, NoPhaseSkipped, Reviewed

\* phase_start keeps the iteration and the score.
LEMMA StartedFields ==
  ASSUME NEW s \in Session, NEW t \in Started(s)
  PROVE  t \in Session /\ t.phase = "start" /\ t.iter = s.iter /\ t.score = s.score
  <1>1. PICK who \in Answering :
          t = IF who = {} THEN [s EXCEPT !.phase = "start"]
                          ELSE [Held(s, "start") EXCEPT !.initial = who]
    BY DEF Started
  <1>2. who \in SUBSET Surgeon /\ "start" \in Phase
    BY AnsweringAssumption DEF Phase
  <1>3. CASE who = {}
    BY <1>1, <1>2, <1>3 DEF Session
  <1>4. CASE who # {}
    <2>1. /\ Held(s, "start") \in Session /\ Held(s, "start").phase = "start"
          /\ Held(s, "start").iter = s.iter /\ Held(s, "start").score = s.score
      BY <1>2, HeldFields
    <2>2. QED BY <1>1, <1>2, <1>4, <2>1 DEF Session
  <1>5. QED BY <1>3, <1>4

\* ... and the session sound.
LEMMA StartedSound ==
  ASSUME NEW t \in Started(Fresh) PROVE t \in Session /\ Sound(t)
  <1>1. PICK who \in Answering :
          t = IF who = {} THEN [Fresh EXCEPT !.phase = "start"]
                          ELSE [Held(Fresh, "start") EXCEPT !.initial = who]
    BY DEF Started
  <1>2. who \in SUBSET Surgeon
    BY AnsweringAssumption
  <1>3. /\ t \in Session /\ t.phase = "start" /\ t.iter = 1
        /\ t.found \in {{}, {<<1, "start">>}}
    <2>1. CASE who = {}
      <3>1. t = [phase |-> "start", iter |-> 1, found |-> {}, initial |-> {}, score |-> "none"]
        BY <1>1, <2>1 DEF Fresh
      <3>2. t \in Session
        BY <3>1 DEF Session, Phase
      <3>3. QED BY <3>1, <3>2
    <2>2. CASE who # {}
      <3>1. t = [phase |-> "start", iter |-> 1, found |-> {<<1, "start">>},
                 initial |-> who, score |-> "none"]
        BY <1>1, <2>2 DEF Fresh, Held
      <3>2. "start" \in Phase /\ {<<1, "start">>} \in Findings /\ who \in Quoted
        BY <1>2 DEF Phase, Findings, Quoted
      <3>3. 1 \in Nat \ {0} /\ "none" \in Scores
        BY DEF Scores
      <3>4. [phase |-> "start", iter |-> 1, found |-> {<<1, "start">>},
             initial |-> who, score |-> "none"] \in Session
        BY <3>2, <3>3, MakeSession
      <3>5. QED BY <3>1, <3>4
    <2>3. QED BY <2>1, <2>2
  <1>4. Reviewed(t, 1) = {}
    BY <1>3 DEF Reviewed
  <1>5. {q \in Phase : 1 < Rank[q] /\ Rank[q] <= Rank["start"]} = {}
    BY DEF Phase, Rank
  <1>6. Sound(t)
    BY <1>3, <1>4, <1>5 DEF Sound, NoPhaseSkipped
  <1>7. QED BY <1>3, <1>6

\* phase_iterate opens an iteration without findings.
LEMMA IteratedSound ==
  ASSUME NEW s \in Session, Sound(s), CanAdvance(s, "start"), NEW t \in Iterated(s)
  PROVE  t \in Session /\ Sound(t)
  <1>1. /\ t \in Session /\ t.phase = "start" /\ t.iter = s.iter + 1
        /\ t.found = s.found
    <2>1. t = [phase |-> "start", iter |-> s.iter + 1, found |-> s.found,
               initial |-> {}, score |-> s.score]
      BY DEF Iterated, Session
    <2>2. "start" \in Phase /\ s.iter + 1 \in Nat \ {0} /\ {} \in Quoted
      BY Fields DEF Phase, Quoted
    <2>3. t \in Session
      BY <2>1, <2>2, Fields, MakeSession
    <2>4. QED BY <2>1, <2>3
  <1>2. s.iter \in Nat \ {0} /\ s.phase \in {"created", "synthesize"}
    BY DEF CanAdvance, Rank, Session, Phase
  <1>3. Reviewed(t, s.iter + 1) = {}
    <2>1. \A p \in Phase : <<s.iter + 1, p>> \notin s.found
      <3>1. SUFFICES ASSUME NEW p \in Phase, <<s.iter + 1, p>> \in s.found PROVE FALSE
        OBVIOUS
      <3>2. <<s.iter + 1, p>>[1] <= s.iter
        BY <3>1 DEF Sound
      <3>3. QED BY <1>2, <3>2
    <2>2. QED BY <1>1, <2>1 DEF Reviewed, Phase
  <1>4. \A r \in Nat : Reviewed(t, r) = Reviewed(s, r)
    BY <1>1 DEF Reviewed
  <1>5. {q \in Phase : 1 < Rank[q] /\ Rank[q] <= Rank["start"]} = {}
    BY DEF Phase, Rank
  <1>6. \/ Reviewed(s, s.iter) = {"deepen", "explore", "synthesize"}
        \/ s.iter = 1 /\ Reviewed(s, s.iter) = {}
    BY <1>2 DEF Sound, NoPhaseSkipped, Phase, Rank, Reviewed
  <1>7. \A r \in 1..((s.iter + 1) - 1) :
          \/ Reviewed(s, r) = {"deepen", "explore", "synthesize"}
          \/ r = 1 /\ Reviewed(s, r) = {}
    <2>1. SUFFICES ASSUME NEW r \in 1..((s.iter + 1) - 1)
                   PROVE  \/ Reviewed(s, r) = {"deepen", "explore", "synthesize"}
                          \/ r = 1 /\ Reviewed(s, r) = {}
      OBVIOUS
    <2>2. CASE r = s.iter
      BY <1>6, <2>2
    <2>3. CASE r # s.iter
      <3>1. r \in 1..(s.iter - 1)
        BY <1>2, <2>3
      <3>2. QED BY <3>1 DEF Sound, NoPhaseSkipped
    <2>4. QED BY <2>2, <2>3
  <1>8. NoPhaseSkipped(t)
    BY <1>1, <1>2, <1>3, <1>4, <1>5, <1>7 DEF NoPhaseSkipped
  <1>9. \A f \in t.found : f[1] <= t.iter
    <2>1. \A f \in s.found : f[1] \in Nat /\ f[1] <= s.iter
      BY DEF Sound, Session
    <2>2. QED BY <1>1, <1>2, <2>1
  <1>10. QED BY <1>1, <1>8, <1>9 DEF Sound

\* Every tool leaves a session sound.
LEMMA OutcomesSound ==
  ASSUME NEW s \in Session, Sound(s), NEW op \in Tool, NEW t \in Outcomes(op, s)
  PROVE  t \in Session /\ Sound(t)
  <1>1. CASE op = "deepen"
    BY <1>1, HeldSound DEF Outcomes, Deepened
  <1>2. CASE op = "explore"
    BY <1>2, HeldSound DEF Outcomes, Explored
  <1>3. CASE op = "synthesize"
    <2>1. CanAdvance(s, "synthesize") /\ t \in Synthesized(s)
      BY <1>3 DEF Outcomes
    <2>2. PICK v \in {"below", "consensus"} : t = [Held(s, "synthesize") EXCEPT !.score = v]
      BY <2>1 DEF Synthesized
    <2>3. Held(s, "synthesize") \in Session /\ Sound(Held(s, "synthesize"))
      BY <2>1, HeldSound
    <2>4. /\ t \in Session
          /\ t.phase = Held(s, "synthesize").phase
          /\ t.iter = Held(s, "synthesize").iter
          /\ t.found = Held(s, "synthesize").found
      BY <2>2, <2>3 DEF Session
    <2>5. QED BY <2>3, <2>4, SameSound
  <1>4. CASE op = "iterate"
    BY <1>4, IteratedSound DEF Outcomes
  <1>5. QED BY <1>1, <1>2, <1>3, <1>4 DEF Tool

-----------------------------------------------------------------------------
(* The tools and files *)

\* The tools start well.
LEMMA InitIndInv == Init => IndInv
  BY NullAssumption DEF Init, IndInv, TypeOK, SoundRecords, Readable

\* A step that changes one file to something sound and one call likewise.
LEMMA ChangeOne ==
  ASSUME IndInv, NEW id \in Id, NEW c \in Client,
         NEW f \in Session \cup {Absent, Torn}, f \notin {Absent, Torn} => Sound(f),
         NEW k \in CallRec \cup {Idle},
         k # Idle => Sound(k.rec) /\ (k.stage = "create" => k.rec = Fresh),
         disk' = disk \/ disk' = [disk EXCEPT ![id] = f],
         call' = call \/ call' = [call EXCEPT ![c] = k],
         aged' \in SUBSET Id, guided' = guided
  PROVE  IndInv'
  <1>1. TypeOK'
    BY DEF IndInv, TypeOK
  <1>2. \A j \in Id : disk'[j] = disk[j] \/ disk'[j] = f
    BY DEF IndInv, TypeOK
  <1>3. \A d \in Client : call'[d] = call[d] \/ call'[d] = k
    BY DEF IndInv, TypeOK
  <1>4. SoundRecords'
    BY <1>2, <1>3 DEF IndInv, SoundRecords, Readable
  <1>5. QED BY <1>1, <1>4 DEF IndInv

\* Each tool keeps it, step by step.
LEMMA StartStep ==
  ASSUME IndInv, NEW c \in Client, NEW id \in Id, Start(c, id), guided' = guided
  PROVE  IndInv'
  <1> DEFINE k == [id |-> id, rec |-> Fresh, stage |-> "create"]
  <1>1. k \in CallRec
    BY FreshSound DEF CallRec
  <1>2. k.rec = Fresh /\ Sound(k.rec)
    BY FreshSound
  <1>3. /\ disk' = [disk EXCEPT ![id] = Torn] /\ call' = [call EXCEPT ![c] = k]
        /\ aged' \in SUBSET Id
    BY DEF Start, IndInv, TypeOK
  <1> HIDE DEF k
  <1>4. QED BY <1>1, <1>2, <1>3, ChangeOne

\* ... a phase run on a copy,
LEMMA RunStep ==
  ASSUME IndInv, NEW c \in Client, NEW id \in Id, NEW op \in Tool, Run(c, op, id),
         guided' = guided
  PROVE  IndInv'
  <1>1. disk[id] \in Session /\ Sound(disk[id])
    BY DEF Run, Readable, IndInv, TypeOK, SoundRecords
  <1>2. PICK s \in Outcomes(op, disk[id]) :
          call' = [call EXCEPT ![c] = [id |-> id, rec |-> s, stage |-> "save"]]
    BY DEF Run
  <1>3. s \in Session /\ Sound(s)
    BY <1>1, OutcomesSound
  <1> DEFINE k == [id |-> id, rec |-> s, stage |-> "save"]
  <1>4. k \in CallRec /\ k.rec = s /\ k.stage = "save"
    BY <1>3 DEF CallRec
  <1>5. call' = [call EXCEPT ![c] = k] /\ disk' = disk /\ aged' \in SUBSET Id
    BY <1>2 DEF Run, IndInv, TypeOK
  <1> HIDE DEF k
  <1>6. QED BY <1>3, <1>4, <1>5, NullAssumption, ChangeOne

\* ... its way to the file,
LEMMA SaveStep ==
  ASSUME IndInv, NEW c \in Client, Save(c), guided' = guided
  PROVE  IndInv'
  <1>1. /\ call[c] # Idle /\ call[c] \in CallRec /\ call[c].id \in Id
        /\ call[c].rec \in Session /\ Sound(call[c].rec)
        /\ call[c].stage = "create" => call[c].rec = Fresh
    BY DEF Save, StartPhase, Truncate, Write, IndInv, TypeOK, SoundRecords, CallRec
  <1>2. aged' \in SUBSET Id
    BY DEF Save, StartPhase, Truncate, Write, IndInv, TypeOK
  <1>3. CASE StartPhase(c)
    <2>1. PICK s \in Started(call[c].rec) :
            call' = [call EXCEPT ![c].rec = s, ![c].stage = "save"]
      BY <1>3 DEF StartPhase
    <2>2. s \in Session /\ Sound(s)
      BY <1>1, <1>3, <2>1, StartedSound DEF StartPhase
    <2> DEFINE k == [call[c] EXCEPT !.rec = s, !.stage = "save"]
    <2>3. k \in CallRec /\ k.rec = s /\ k.stage = "save"
      BY <1>1, <2>2 DEF CallRec
    <2>4. call' = [call EXCEPT ![c] = k]
      BY <2>1
    <2>5. disk' = [disk EXCEPT ![call[c].id] = call[c].rec]
      BY <1>3 DEF StartPhase
    <2> HIDE DEF k
    <2>6. QED BY <1>1, <1>2, <2>2, <2>3, <2>4, <2>5, ChangeOne
  <1>4. CASE Truncate(c)
    <2> DEFINE k == [call[c] EXCEPT !.stage = "write"]
    <2>1. k \in CallRec /\ k.rec = call[c].rec /\ k.stage = "write"
      BY <1>1 DEF CallRec
    <2>2. call' = [call EXCEPT ![c] = k]
      BY <1>4 DEF Truncate
    <2>3. disk' = [disk EXCEPT ![call[c].id] = Torn]
      BY <1>4 DEF Truncate
    <2> HIDE DEF k
    <2>4. QED BY <1>1, <1>2, <2>1, <2>2, <2>3, ChangeOne
  <1>5. CASE Write(c)
    <2>1. call' = [call EXCEPT ![c] = Idle]
      BY <1>5 DEF Write
    <2>2. PICK f \in {call[c].rec, Torn} :
            disk' = disk \/ disk' = [disk EXCEPT ![call[c].id] = f]
      BY <1>5 DEF Write
    <2>3. QED BY <1>1, <1>2, <2>1, <2>2, ChangeOne
  <1>6. QED BY <1>3, <1>4, <1>5 DEF Save

\* ... a killed server,
LEMMA CrashStep ==
  ASSUME IndInv, NEW c \in Client, Crash(c), guided' = guided PROVE IndInv'
  BY DEF IndInv, Crash, TypeOK, SoundRecords, Readable

\* ... and cleanup.
LEMMA FilesStep ==
  ASSUME IndInv, NEW id \in Id, Cleanup(id) \/ Age(id), guided' = guided PROVE IndInv'
  BY DEF IndInv, Cleanup, Age, TypeOK, SoundRecords, Readable

\* Every step of the tools does.
LEMMA NextIndInv == IndInv /\ [Next]_vars => IndInv'
  <1>1. CASE UNCHANGED vars
    BY <1>1 DEF vars, IndInv, TypeOK, SoundRecords, Readable
  <1>2. ASSUME IndInv, FreeNext, guided' = guided PROVE IndInv'
    BY <1>2, StartStep, RunStep, SaveStep, CrashStep, FilesStep DEF FreeNext
  <1>3. ASSUME IndInv, GuidedNext, guided' = guided PROVE IndInv'
    BY <1>3, StartStep, RunStep, SaveStep DEF GuidedNext, Guided
  <1>4. QED BY <1>1, <1>2, <1>3 DEF Next

\* Seen from all three ways, a step of the tools or none.
LEMMA ToolsStep == AnyNext \/ UNCHANGED all => [Next]_vars
  BY DEF AnyNext, all

\* Whatever is run, the sessions of the tools are sound.
LEMMA ToolsSound == AnySpec => []IndInv
<1>1. AnyInit => IndInv
  BY InitIndInv DEF AnyInit
<1>2. IndInv /\ [AnyNext]_all => IndInv'
  BY ToolsStep, NextIndInv
<1>3. QED
  BY <1>1, <1>2, PTL DEF AnySpec

\* No session on disk or in a server's hands has passed over a phase.
THEOREM CompleteThm == AnySpec => []SessionsComplete
<1>1. IndInv => SessionsComplete
  BY DEF IndInv, SoundRecords, Sound, SessionsComplete
<1>2. QED
  BY ToolsSound, <1>1, PTL

-----------------------------------------------------------------------------
(* The number of rounds of an agent that follows next_action *)

\* Neither a file nor a copy is past the last round.
Bounded ==
  guided => /\ \A id \in Id : Readable(id) => disk[id].iter <= Max
            /\ \A c \in Client : call[c] # Idle => call[c].rec.iter <= Max

\* Every phase but phase_iterate keeps the iteration.
LEMMA KeepsIteration ==
  ASSUME NEW s \in Session, NEW op \in Tool, NEW t \in Outcomes(op, s)
  PROVE  t.iter = IF op = "iterate" THEN s.iter + 1 ELSE s.iter
<1>1. \A p \in Phase : Held(s, p).iter = s.iter /\ Held(s, p) \in Session
  BY HeldFields
<1>2. CASE op \in {"deepen", "explore"}
  BY <1>1, <1>2 DEF Outcomes, Deepened, Explored, Phase
<1>3. CASE op = "synthesize"
  <2>1. PICK v \in {"below", "consensus"} : t = [Held(s, "synthesize") EXCEPT !.score = v]
    BY <1>3 DEF Outcomes, Synthesized
  <2>2. QED
    BY <1>1, <1>3, <2>1 DEF Session, Phase
<1>4. CASE op = "iterate"
  BY <1>4 DEF Outcomes, Iterated, Session
<1>5. QED
  BY <1>2, <1>3, <1>4 DEF Tool

\* A guided step goes on only with a session that is not at its last round.
LEMMA BoundedStep == IndInv /\ Bounded /\ [Next]_vars => Bounded'
<1> SUFFICES ASSUME IndInv, Bounded, [Next]_vars, guided' PROVE Bounded'
  BY DEF Bounded
<1>1. CASE UNCHANGED vars
  BY <1>1 DEF vars, Bounded, Readable
<1>2. CASE Next
  <2>1. guided /\ GuidedNext
    BY <1>2 DEF Next
  <2>2. PICK c \in Client : Guided(c)
    BY <2>1 DEF GuidedNext
  <2>3. /\ disk \in [Id -> Session \cup {Absent, Torn}]
        /\ call \in [Client -> CallRec \cup {Idle}]
        /\ \A id \in Id : Readable(id) => disk[id].iter <= Max
        /\ \A d \in Client : call[d] # Idle => call[d].rec.iter <= Max
    BY <2>1 DEF IndInv, TypeOK, Bounded
  <2>4. ASSUME NEW id \in Id, Start(c, id) PROVE Bounded'
    <3>1. disk' = [disk EXCEPT ![id] = Torn]
      BY <2>4 DEF Start
    <3>2. call' = [call EXCEPT ![c] = [id |-> id, rec |-> Fresh, stage |-> "create"]]
      BY <2>4 DEF Start
    <3>3. Fresh.iter <= Max
      BY MaxAssumption DEF Fresh
    <3>4. QED
      BY <2>3, <3>1, <3>2, <3>3 DEF Bounded, Readable
  <2>5. ASSUME NEW id \in Id, NEW op \in Tool, Readable(id), op = NextAction(disk[id]),
               Run(c, op, id)
        PROVE  Bounded'
    <3>1. disk' = disk
      BY <2>5 DEF Run
    <3>2. PICK s \in Outcomes(op, disk[id]) :
            call' = [call EXCEPT ![c] = [id |-> id, rec |-> s, stage |-> "save"]]
      BY <2>5 DEF Run
    <3>3. disk[id] \in Session /\ disk[id].iter <= Max
      BY <2>3, <2>5 DEF Readable
    <3>4. disk[id].iter \in Nat /\ disk[id].phase \in Phase
      BY <3>3, Fields
    <3>5. op = "iterate" => ~(disk[id].iter >= Max)
      BY <2>5, <3>4 DEF NextAction, Phase
    <3>6. s.iter = IF op = "iterate" THEN disk[id].iter + 1 ELSE disk[id].iter
      BY <3>2, <3>3, KeepsIteration
    <3>7. s.iter <= Max
      BY <3>3, <3>4, <3>5, <3>6, MaxAssumption
    <3>8. QED
      BY <2>3, <3>1, <3>2, <3>7 DEF Bounded, Readable
  <2>6. ASSUME Save(c) PROVE Bounded'
    <3>1. /\ call[c] # Idle /\ call[c] \in CallRec
          /\ call[c].rec \in Session /\ call[c].rec.iter <= Max
          /\ call[c].id \in Id
      BY <2>3, <2>6 DEF Save, StartPhase, Truncate, Write, CallRec
    <3>2. CASE StartPhase(c)
      <4>1. disk' = [disk EXCEPT ![call[c].id] = call[c].rec]
        BY <3>2 DEF StartPhase
      <4>2. PICK s \in Started(call[c].rec) :
              call' = [call EXCEPT ![c].rec = s, ![c].stage = "save"]
        BY <3>2 DEF StartPhase
      <4>3. s.iter = call[c].rec.iter
        BY <3>1, StartedFields
      <4>4. call'[c].rec = s /\ \A d \in Client \ {c} : call'[d] = call[d]
        BY <2>3, <3>1, <4>2 DEF CallRec
      <4>5. \A d \in Client : call'[d] # Idle => call'[d].rec.iter <= Max
        BY <2>3, <3>1, <4>3, <4>4
      <4>6. QED
        BY <2>3, <3>1, <4>1, <4>5 DEF Bounded, Readable
    <3>3. CASE Truncate(c)
      <4>1. disk' = [disk EXCEPT ![call[c].id] = Torn]
        BY <3>3 DEF Truncate
      <4>2. call' = [call EXCEPT ![c].stage = "write"]
        BY <3>3 DEF Truncate
      <4>3. call'[c].rec = call[c].rec /\ \A d \in Client \ {c} : call'[d] = call[d]
        BY <2>3, <3>1, <4>2 DEF CallRec
      <4>4. \A d \in Client : call'[d] # Idle => call'[d].rec.iter <= Max
        BY <2>3, <3>1, <4>3
      <4>5. QED
        BY <2>3, <4>1, <4>4 DEF Bounded, Readable
    <3>4. CASE Write(c)
      <4>1. call' = [call EXCEPT ![c] = Idle]
        BY <3>4 DEF Write
      <4>2. \/ disk' = disk
            \/ disk' = [disk EXCEPT ![call[c].id] = call[c].rec]
            \/ disk' = [disk EXCEPT ![call[c].id] = Torn]
        BY <3>4 DEF Write
      <4>3. QED
        BY <2>3, <3>1, <4>1, <4>2 DEF Bounded, Readable
    <3>5. QED
      BY <2>6, <3>2, <3>3, <3>4 DEF Save
  <2>7. QED
    BY <2>2, <2>4, <2>5, <2>6 DEF Guided
<1>3. QED
  BY <1>1, <1>2

\* An agent that does what next_action says stays within the mode's maximum.
THEOREM BoundedThm == AnySpec => []RoundsBounded
<1>1. AnyInit => Bounded
  BY DEF AnyInit, Init, Bounded, Readable
<1>2. IndInv /\ Bounded /\ [AnyNext]_all => Bounded'
  BY ToolsStep, BoundedStep
<1>3. Bounded => RoundsBounded
  BY DEF Bounded, RoundsBounded
<1>4. QED
  BY ToolsSound, <1>1, <1>2, <1>3, PTL DEF AnySpec

-----------------------------------------------------------------------------
(* The command *)

\* The phases of a round.
LoopBody == {"start", "deepen", "explore", "synthesize"}

\* The phase of the session while the loop is at a step.
Place(step, done) ==
  CASE step = "create"     -> {"created"}
    [] step = "start"      -> IF done THEN {"start"} ELSE {"created", "start"}
    [] step = "deepen"     -> IF done THEN {"deepen"} ELSE {"start"}
    [] step = "explore"    -> IF done THEN {"explore"} ELSE {"deepen"}
    [] step = "synthesize" -> IF done THEN {"synthesize"} ELSE {"explore"}
    [] step = "iterate"    -> IF done THEN {"start"} ELSE {"synthesize"}
    [] OTHER               -> {"synthesize"}

\* Where the vote of a round is known.
Voted == at \in {"decide", "delete", "end"} \/ (at = "synthesize" /\ saving)

\* The inductive invariant of the command ...
LiveInv ==
  /\ Live!TypeOK
  /\ n \in 1..LiveMax
  /\ saving => at \in LoopBody \cup {"iterate"}
  /\ sess.phase \in Place(at, saving)
  /\ sess.iter = IF at = "iterate" /\ ~saving THEN n - 1 ELSE n
  /\ sess.score = "consensus" => Voted
  /\ at \in {"delete", "end"} /\ sess.score # "consensus" => sess.iter = LiveMax
  /\ over # "refused"

\* The command's sessions are those of the tools, though its Max is another.
LEMMA LiveSame ==
  /\ Live!Session = Session /\ Live!Phase = Phase /\ Live!Fresh = Fresh
  /\ \A s : /\ Live!Started(s) = Started(s) /\ Live!Deepened(s) = Deepened(s)
            /\ Live!Explored(s) = Explored(s) /\ Live!Synthesized(s) = Synthesized(s)
            /\ Live!Iterated(s) = Iterated(s)
            /\ \A p : Live!CanAdvance(s, p) = CanAdvance(s, p)
<1>1. Live!Session = Session /\ Live!Phase = Phase /\ Live!Fresh = Fresh
  BY DEF Live!Session, Session, Live!Phase, Phase, Live!Surgeon, Surgeon, Live!Fresh, Fresh
<1>2. \A s, p : Live!Held(s, p) = Held(s, p)
  BY DEF Live!Held, Held
<1>3. \A s, p : Live!CanAdvance(s, p) = CanAdvance(s, p)
  BY DEF Live!CanAdvance, CanAdvance, Live!Rank, Rank
<1>4. \A s : Live!Started(s) = Started(s)
  BY <1>2 DEF Live!Started, Started
<1>5. \A s : Live!Synthesized(s) = Synthesized(s)
  BY <1>2 DEF Live!Synthesized, Synthesized
<1>6. \A s : Live!Iterated(s) = Iterated(s)
  BY DEF Live!Iterated, Iterated
<1>7. \A s : Live!Deepened(s) = Deepened(s) /\ Live!Explored(s) = Explored(s)
  BY <1>2 DEF Live!Deepened, Deepened, Live!Explored, Explored
<1>8. QED
  BY <1>1, <1>3, <1>4, <1>5, <1>6, <1>7

\* What a step of the loop body makes of the session.
LEMMA BodyFields ==
  ASSUME NEW s \in Session, NEW step \in LoopBody \cup {"iterate"},
         NEW t \in CASE step = "iterate"    -> Iterated(s)
                     [] step = "start"      -> Started(s)
                     [] step = "deepen"     -> Deepened(s)
                     [] step = "explore"    -> Explored(s)
                     [] step = "synthesize" -> Synthesized(s)
  PROVE  /\ t \in Session
         /\ t.phase \in Place(step, TRUE)
         /\ t.iter = IF step = "iterate" THEN s.iter + 1 ELSE s.iter
         /\ step # "synthesize" => t.score = s.score
<1>1. CASE step = "iterate"
  <2>1. t = [s EXCEPT !.phase = "start", !.iter = @ + 1, !.initial = {}]
    BY <1>1 DEF Iterated
  <2>2. t = [phase |-> "start", iter |-> s.iter + 1, found |-> s.found,
             initial |-> {}, score |-> s.score]
    BY <2>1 DEF Session
  <2>3. "start" \in Phase /\ s.iter + 1 \in Nat \ {0} /\ {} \in Quoted
    BY Fields DEF Phase, Quoted
  <2>4. t \in Session
    BY <2>2, <2>3, Fields, MakeSession
  <2>5. QED
    BY <1>1, <2>2, <2>4 DEF Place
<1>2. CASE step = "start"
  BY <1>2, StartedFields DEF Place
<1>3. CASE step \in {"deepen", "explore"}
  <2>1. t = Held(s, step)
    BY <1>3 DEF Deepened, Explored
  <2>2. step \in Phase
    BY <1>3 DEF Phase
  <2>3. t \in Session /\ t.phase = step /\ t.iter = s.iter /\ t.score = s.score
    BY <2>1, <2>2, HeldFields
  <2>4. step \in Place(step, TRUE)
    BY <1>3 DEF Place
  <2>5. QED
    BY <1>3, <2>3, <2>4
<1>4. CASE step = "synthesize"
  <2>1. PICK v \in {"below", "consensus"} : t = [Held(s, "synthesize") EXCEPT !.score = v]
    BY <1>4 DEF Synthesized
  <2>2. /\ Held(s, "synthesize") \in Session /\ Held(s, "synthesize").phase = "synthesize"
        /\ Held(s, "synthesize").iter = s.iter
    BY HeldFields DEF Phase
  <2>3. /\ t \in Session /\ t.phase = "synthesize" /\ t.iter = s.iter
    BY <2>1, <2>2 DEF Session
  <2>4. QED
    BY <1>4, <2>3 DEF Place
<1>5. QED
  BY <1>1, <1>2, <1>3, <1>4 DEF LoopBody

\* advance_phase refuses no step of the loop.
LEMMA NeverRefused ==
  ASSUME LiveInv, at \in LoopBody \cup {"iterate"}, ~saving
  PROVE  Live!Allowed(at)
<1>1. sess.phase \in Place(at, FALSE)
  <2>1. saving = FALSE /\ sess.phase \in Place(at, saving)
    BY DEF LiveInv, Live!TypeOK
  <2>2. QED
    BY <2>1
<1>2. /\ CanAdvance(sess, "start") <=> sess.phase \in {"created", "synthesize"}
      /\ CanAdvance(sess, "deepen") <=> sess.phase = "start"
      /\ CanAdvance(sess, "explore") <=> sess.phase = "deepen"
      /\ CanAdvance(sess, "synthesize") <=> sess.phase = "explore"
  <2>1. sess.phase \in Phase
    BY LiveSame, Fields DEF LiveInv, Live!TypeOK
  <2>2. QED
    BY <2>1 DEF CanAdvance, Rank, Phase
<1>3. Live!Allowed(at) <=> CASE at = "start"   -> sess.phase = "start"
                                                  \/ CanAdvance(sess, "start")
                             [] at = "iterate" -> CanAdvance(sess, "start")
                             [] OTHER          -> CanAdvance(sess, at)
  BY LiveSame DEF Live!Allowed
<1>4. QED
  BY <1>1, <1>2, <1>3 DEF Place, LoopBody

\* A step of the loop body, with what it makes of the session.
LEMMA LiveRun ==
  ASSUME LiveInv, Live!RunPhase
  PROVE  /\ at \in LoopBody \cup {"iterate"} /\ ~saving /\ saving'
         /\ UNCHANGED <<at, n, file, over>>
         /\ sess' \in Session
         /\ sess'.phase \in Place(at, TRUE)
         /\ sess'.iter = IF at = "iterate" THEN sess.iter + 1 ELSE sess.iter
         /\ at # "synthesize" => sess'.score = sess.score
<1>1. at \in LoopBody \cup {"iterate"} /\ ~saving
  BY DEF Live!RunPhase, LoopBody
<1>2. Live!Allowed(at)
  BY <1>1, NeverRefused
<1>3. sess' \in Live!Results(at) /\ saving' = TRUE /\ UNCHANGED <<at, n, file, over>>
  BY <1>2 DEF Live!RunPhase
<1>4. sess \in Session
  BY LiveSame DEF LiveInv, Live!TypeOK
<1>5. sess' \in CASE at = "iterate"    -> Iterated(sess)
                  [] at = "start"      -> Started(sess)
                  [] at = "deepen"     -> Deepened(sess)
                  [] at = "explore"    -> Explored(sess)
                  [] at = "synthesize" -> Synthesized(sess)
  BY <1>1, <1>3, LiveSame DEF Live!Results, LoopBody
<1>6. /\ sess' \in Session
      /\ sess'.phase \in Place(at, TRUE)
      /\ sess'.iter = IF at = "iterate" THEN sess.iter + 1 ELSE sess.iter
      /\ at # "synthesize" => sess'.score = sess.score
  <2> DEFINE T(step) == CASE step = "iterate"    -> Iterated(sess)
                          [] step = "start"      -> Started(sess)
                          [] step = "deepen"     -> Deepened(sess)
                          [] step = "explore"    -> Explored(sess)
                          [] step = "synthesize" -> Synthesized(sess)
  <2>1. \A step \in LoopBody \cup {"iterate"} : \A t \in T(step) :
          /\ t \in Session
          /\ t.phase \in Place(step, TRUE)
          /\ t.iter = IF step = "iterate" THEN sess.iter + 1 ELSE sess.iter
          /\ step # "synthesize" => t.score = sess.score
    BY <1>4, BodyFields
  <2>2. sess' \in T(at)
    BY <1>5
  <2> HIDE DEF T
  <2>3. QED
    BY <1>1, <2>1, <2>2
<1>7. QED
  BY <1>1, <1>3, <1>6

\* The command starts well.
LEMMA LiveInit == Live!Init => LiveInv
<1> SUFFICES ASSUME Live!Init PROVE LiveInv
  OBVIOUS
<1>1. sess = Fresh /\ sess \in Session /\ at = "create" /\ saving = FALSE /\ n = 1
  BY LiveSame, FreshSound DEF Live!Init
<1>2. file = Absent /\ over = "no"
  BY DEF Live!Init
<1>3. "create" \in Live!PCs
  BY DEF Live!PCs
<1>4. Live!TypeOK
  BY <1>1, <1>2, <1>3, LiveSame DEF Live!TypeOK
<1>5. QED
  BY <1>1, <1>2, <1>4, LiveMaxAssumption DEF LiveInv, Fresh, Place

\* The loop variable follows the session.
LEMMA LiveStep == LiveInv /\ [Live!Next]_liveVars => LiveInv'
<1> SUFFICES ASSUME LiveInv, [Live!Next]_liveVars PROVE LiveInv'
  OBVIOUS
<1>1. /\ at \in {"create", "iterate", "decide", "delete", "end"} \cup LoopBody
      /\ saving \in BOOLEAN /\ sess \in Session /\ n \in 1..LiveMax
      /\ file \in Session \cup {Absent, Torn}
      /\ over \in {"no", "killed", "raised"}
      /\ sess.iter \in Nat \ {0}
  <2>1. Live!PCs = {"create", "iterate", "decide", "delete", "end"} \cup LoopBody
    BY DEF Live!PCs, Live!Body, LoopBody
  <2>2. QED
    BY <2>1, LiveSame, Fields DEF LiveInv, Live!TypeOK
<1>2. SUFFICES
        /\ at' \in {"create", "iterate", "decide", "delete", "end"} \cup LoopBody
        /\ saving' \in BOOLEAN /\ sess' \in Session /\ n' \in 1..LiveMax
        /\ file' \in Session \cup {Absent, Torn}
        /\ over' \in {"no", "killed", "raised"}
        /\ saving' => at' \in LoopBody \cup {"iterate"}
        /\ sess'.phase \in Place(at', saving')
        /\ sess'.iter = IF at' = "iterate" /\ ~saving' THEN n' - 1 ELSE n'
        /\ sess'.score = "consensus" => Voted'
        /\ at' \in {"delete", "end"} /\ sess'.score # "consensus" => sess'.iter = LiveMax
  <2>1. Live!PCs = {"create", "iterate", "decide", "delete", "end"} \cup LoopBody
    BY DEF Live!PCs, Live!Body, LoopBody
  <2>2. 1..LiveMax \subseteq Nat
    BY LiveMaxAssumption
  <2>3. QED
    BY <1>2, <2>1, <2>2, LiveSame DEF LiveInv, Live!TypeOK
<1>3. CASE UNCHANGED liveVars
  BY <1>1, <1>3 DEF liveVars, LiveInv, Voted
<1>4. CASE Live!Create
  BY <1>1, <1>4 DEF Live!Create, LiveInv, Voted, Place, LoopBody
<1>5. CASE Live!RunPhase
  <2>1. /\ at \in LoopBody \cup {"iterate"} /\ ~saving /\ saving' = TRUE
        /\ at' = at /\ n' = n /\ file' = file /\ over' = over
        /\ sess' \in Session
        /\ sess'.phase \in Place(at', saving')
        /\ sess'.iter = IF at = "iterate" THEN sess.iter + 1 ELSE sess.iter
        /\ at # "synthesize" => sess'.score = sess.score
    BY <1>5, LiveRun
  <2>2. sess.iter = IF at = "iterate" THEN n - 1 ELSE n
    BY <2>1 DEF LiveInv
  <2>3. sess'.iter = n
    BY <1>1, <2>1, <2>2
  <2>4. sess.score = "consensus" => FALSE
    BY <2>1 DEF LiveInv, Voted, LoopBody
  <2>5. sess'.score = "consensus" => Voted'
    BY <2>1, <2>4 DEF Voted
  <2>6. at' \notin {"delete", "end"}
    BY <2>1 DEF LoopBody
  <2>7. QED
    BY <1>1, <2>1, <2>3, <2>5, <2>6
<1>6. CASE Live!Save
  BY <1>1, <1>6 DEF Live!Save, Live!After, LiveInv, Voted, Place, LoopBody
<1>7. CASE Live!Decide
  <2>1. at = "decide" /\ UNCHANGED <<saving, sess, file, over>> /\ ~saving
    BY <1>1, <1>7 DEF Live!Decide, LiveInv, LoopBody
  <2>2. sess.phase = "synthesize" /\ sess.iter = n
    BY <2>1 DEF LiveInv, Place
  <2>3. Live!NextAction(sess) = IF sess.score = "consensus" \/ sess.iter >= LiveMax
                                THEN "done" ELSE "iterate"
    BY <2>2 DEF Live!NextAction
  <2>4. CASE sess.score = "consensus" \/ sess.iter >= LiveMax
    <3>1. at' = "delete" /\ n' = n
      BY <1>7, <2>3, <2>4 DEF Live!Decide
    <3>2. sess.score # "consensus" => sess.iter = LiveMax
      BY <1>1, <2>2, <2>4, LiveMaxAssumption
    <3>3. QED
      BY <1>1, <2>1, <2>2, <3>1, <3>2 DEF Voted, Place
  <2>5. CASE sess.score # "consensus" /\ ~(sess.iter >= LiveMax)
    <3>1. at' = "iterate" /\ n' = n + 1
      BY <1>1, <1>7, <2>2, <2>3, <2>5, LiveMaxAssumption DEF Live!Decide
    <3>2. QED
      BY <1>1, <2>1, <2>2, <2>5, <3>1, LiveMaxAssumption DEF Voted, Place
  <2>6. QED
    BY <2>4, <2>5
<1>8. CASE Live!Delete
  BY <1>1, <1>8 DEF Live!Delete, LiveInv, Voted, Place, LoopBody
<1>9. CASE Live!CutShort
  BY <1>1, <1>9 DEF Live!CutShort, LiveInv, Voted
<1>10. QED
  BY <1>3, <1>4, <1>5, <1>6, <1>7, <1>8, <1>9 DEF Live!Next, Live!Step

\* Whatever is run, the loop and its session agree.
LEMMA LiveAlways == AnySpec => []LiveInv
<1>1. AnyInit => LiveInv
  BY LiveInit DEF AnyInit
<1>2. LiveInv /\ [AnyNext]_all => LiveInv'
  BY LiveStep DEF AnyNext, all
<1>3. QED
  BY <1>1, <1>2, PTL DEF AnySpec

\* Each step of the command is one of a cross-examination in rounds, or none.
LEMMA LiveRounds ==
  ASSUME LiveInv, LiveInv', [Live!Next]_liveVars
  PROVE  [Live!Rounds!Next]_(Live!Rounds!rvars)
<1> USE DEF Live!Stage, Live!Verdict, Live!Rounds!rvars
<1>1. /\ at \in {"create", "iterate", "decide", "delete", "end"} \cup LoopBody
      /\ saving \in BOOLEAN /\ n \in 1..LiveMax
  <2>1. Live!PCs = {"create", "iterate", "decide", "delete", "end"} \cup LoopBody
    BY DEF Live!PCs, Live!Body, LoopBody
  <2>2. QED
    BY <2>1 DEF LiveInv, Live!TypeOK
<1>2. CASE UNCHANGED liveVars
  BY <1>2 DEF liveVars
<1>3. CASE Live!Create
  BY <1>1, <1>3 DEF Live!Create, LiveInv, LoopBody
<1>4. CASE Live!RunPhase
  <2>1. /\ at \in LoopBody \cup {"iterate"} /\ ~saving /\ saving' /\ at' = at /\ n' = n
        /\ sess'.iter = IF at = "iterate" THEN sess.iter + 1 ELSE sess.iter
        /\ at # "synthesize" => sess'.score = sess.score
    BY <1>4, LiveRun
  <2>2. sess.score # "consensus"
    BY <2>1 DEF LiveInv, Voted, LoopBody
  <2>3. CASE at = "iterate"
    <3>1. sess.iter = n - 1
      BY <2>1, <2>3 DEF LiveInv
    <3>2. Live!Rounds!NextRound
      BY <1>1, <2>1, <2>2, <2>3, <3>1, LiveMaxAssumption DEF Live!Rounds!NextRound
    <3>3. QED
      BY <3>2 DEF Live!Rounds!Next
  <2>4. CASE at \in {"start", "deepen", "explore"}
    <3>1. Live!Rounds!Attempt
      BY <2>1, <2>2, <2>4 DEF Live!Rounds!Attempt
    <3>2. QED
      BY <3>1 DEF Live!Rounds!Next
  <2>5. CASE at = "synthesize"
    <3>1. Live!Rounds!Synthesize
      BY <2>1, <2>2, <2>5 DEF Live!Rounds!Synthesize
    <3>2. QED
      BY <3>1 DEF Live!Rounds!Next
  <2>6. QED
    BY <2>1, <2>3, <2>4, <2>5 DEF LoopBody
<1>5. CASE Live!Save
  BY <1>1, <1>5 DEF Live!Save, Live!After, LiveInv, LoopBody
<1>6. CASE Live!Decide
  <2>1. at = "decide" /\ sess' = sess /\ saving' = saving /\ ~saving
    BY <1>1, <1>6 DEF Live!Decide, LiveInv, LoopBody
  <2>2. CASE at' = "iterate"
    <3>1. sess.score # "consensus"
      BY <1>1, <2>1, <2>2 DEF LiveInv, Voted
    <3>2. QED
      BY <2>1, <2>2, <3>1
  <2>3. CASE at' = "delete" /\ sess.score # "consensus"
    <3>1. sess.iter = LiveMax
      BY <2>1, <2>3 DEF LiveInv
    <3>2. Live!Rounds!GiveUp
      BY <2>1, <2>3, <3>1 DEF Live!Rounds!GiveUp
    <3>3. QED
      BY <3>2 DEF Live!Rounds!Next
  <2>4. CASE at' = "delete" /\ sess.score = "consensus"
    BY <2>1, <2>4
  <2>5. QED
    BY <1>6, <2>2, <2>3, <2>4 DEF Live!Decide
<1>7. CASE Live!Delete
  BY <1>1, <1>7 DEF Live!Delete
<1>8. CASE Live!CutShort
  BY <1>8 DEF Live!CutShort
<1>9. QED
  BY <1>2, <1>3, <1>4, <1>5, <1>6, <1>7, <1>8 DEF Live!Next, Live!Step

-----------------------------------------------------------------------------
(* The call *)

\* ... and that of the call.
CallInv ==
  /\ Call!TypeOK
  /\ i <= MaxOf[mode]
  /\ pc \in {"analyse", "review", "explore", "synthesize", "log"} => logged + 1 = i
  /\ pc \in {"vote", "next", "close", "returned"} => logged = i
  /\ agreed => pc \in {"close", "returned"}
  /\ pc \in {"close", "returned"} /\ ~agreed => i = MaxOf[mode]
  /\ Call!OutcomeHonest

\* The call starts well.
LEMMA CallInit == Call!Init => CallInv
<1> SUFFICES ASSUME Call!Init PROVE CallInv
  OBVIOUS
<1>1. /\ pc = "analyse" /\ mode \in Mode /\ i = 1 /\ agreed = FALSE /\ logged = 0
      /\ reports = {} /\ explored = {} /\ synth = FALSE /\ raised = FALSE
  BY DEF Call!Init
<1>2. outcome \in [reached : BOOLEAN, escalated : BOOLEAN, rounds : Nat]
  BY DEF Call!Init, Call!NoRow
<1>3. i <= MaxOf[mode]
  BY <1>1, ModeAssumption
<1>4. Call!TypeOK
  <2>1. agreed \in BOOLEAN /\ synth \in BOOLEAN
    BY <1>1, Zenon
  <2>2. raised \in BOOLEAN
    BY <1>1, Zenon
  <2>3. reports \in SUBSET Call!Surgeon /\ explored \in SUBSET Call!Surgeon
    BY <1>1
  <2>4. pc = "analyse" /\ mode \in Mode /\ i \in Nat \ {0} /\ logged \in Nat
    BY <1>1
  <2>5. QED
    BY <1>2, <2>1, <2>2, <2>3, <2>4 DEF Call!TypeOK
<1>5. QED
  BY <1>1, <1>3, <1>4 DEF CallInv, Call!OutcomeHonest

\* The rounds logged are those that went by.
LEMMA CallStep == CallInv /\ [Call!Next]_callVars => CallInv'
<1> SUFFICES ASSUME CallInv, [Call!Next]_callVars PROVE CallInv'
  OBVIOUS
<1> USE DEF CallInv, Call!TypeOK, Call!OutcomeHonest
<1>0. MaxOf[mode] \in Nat \ {0} /\ MaxOf[SingleMode] = 1
  BY ModeAssumption
<1> DEFINE Went == ~raised /\ UNCHANGED raised
<1>1. CASE UNCHANGED callVars
  BY <1>1 DEF callVars
<1>2. CASE Call!Analyse /\ Went
  BY <1>2 DEF Call!Analyse
<1>3. CASE Call!Review /\ Went
  BY <1>3 DEF Call!Review
<1>4. CASE Call!Explore /\ Went
  BY <1>4 DEF Call!Explore
<1>5. CASE Call!Synthesize /\ Went
  BY <1>5 DEF Call!Synthesize
<1>6. CASE Call!Log /\ Went
  BY <1>0, <1>6 DEF Call!Log
<1>7. CASE Call!Vote /\ Went
  BY <1>7 DEF Call!Vote
<1>8. CASE Call!NextIteration /\ Went
  BY <1>0, <1>8 DEF Call!NextIteration
<1>9. CASE Call!Close /\ Went
  <2>1. /\ pc = "close" /\ pc' = "returned"
        /\ UNCHANGED <<mode, i, reports, explored, synth, agreed, logged, raised>>
    BY <1>9 DEF Call!Close
  <2>2. outcome' \in [reached : BOOLEAN, escalated : BOOLEAN, rounds : Nat]
    <3>1. outcome' = [reached |-> ~Call!Escalation, escalated |-> Call!Escalation,
                      rounds |-> i]
      BY <1>9 DEF Call!Close
    <3>2. Call!Escalation \in BOOLEAN /\ (~Call!Escalation) \in BOOLEAN
      BY DEF Call!Escalation
    <3> HIDE DEF Call!Escalation
    <3>3. ASSUME NEW a \in BOOLEAN, NEW b \in BOOLEAN
          PROVE  [reached |-> a, escalated |-> b, rounds |-> i]
                   \in [reached : BOOLEAN, escalated : BOOLEAN, rounds : Nat]
      OBVIOUS
    <3>4. QED
      BY <3>1, <3>2, <3>3
  <2>3. pc' = "returned" =>
          /\ outcome'.rounds = i
          /\ mode # SingleMode => outcome'.reached = agreed /\ outcome'.escalated = ~agreed
    BY <1>9 DEF Call!Close, Call!Escalation
  <2>4. QED
    BY <2>1, <2>2, <2>3
<1>10. CASE Call!Raise
  BY <1>10 DEF Call!Raise
<1>11. Call!Next => Call!Raise \/ (Call!Step /\ Went)
  BY DEF Call!Next
<1>12. QED
  BY <1>1, <1>2, <1>3, <1>4, <1>5, <1>6, <1>7, <1>8, <1>9, <1>10, <1>11 DEF Call!Step

\* Whatever is run, the call counts its rounds.
LEMMA CallAlways == AnySpec => []CallInv
<1>1. AnyInit => CallInv
  BY CallInit DEF AnyInit
<1>2. CallInv /\ [AnyNext]_all => CallInv'
  BY CallStep DEF AnyNext, all
<1>3. QED
  BY <1>1, <1>2, PTL DEF AnySpec

\* Each step of the call is one of a cross-examination in rounds, or none.
LEMMA CallRounds ==
  ASSUME CallInv, CallInv', [Call!Next]_callVars
  PROVE  [Call!Rounds!Next]_(Call!Rounds!rvars)
<1> USE DEF Call!Stage, Call!Verdict, Call!Rounds!rvars
<1>0. MaxOf[mode] \in Nat \ {0} /\ agreed \in BOOLEAN /\ i \in Nat
  BY ModeAssumption DEF CallInv, Call!TypeOK
<1>1. CASE UNCHANGED callVars
  BY <1>1 DEF callVars
<1>2. CASE Call!Analyse \/ Call!Review \/ Call!Explore
  <2>1. Call!Rounds!Attempt
    BY <1>2 DEF Call!Analyse, Call!Review, Call!Explore, CallInv, Call!Rounds!Attempt
  <2>2. QED
    BY <2>1 DEF Call!Rounds!Next
<1>3. CASE Call!Synthesize
  <2>1. Call!Rounds!Synthesize
    BY <1>3 DEF Call!Synthesize, CallInv, Call!Rounds!Synthesize
  <2>2. QED
    BY <2>1 DEF Call!Rounds!Next
<1>4. CASE Call!Log
  BY <1>4 DEF Call!Log, CallInv
<1>5. CASE Call!Vote
  <2>1. CASE agreed'
    <3>1. Call!Rounds!Agree
      BY <1>5, <2>1 DEF Call!Vote, CallInv, Call!Rounds!Agree
    <3>2. QED
      BY <3>1 DEF Call!Rounds!Next
  <2>2. CASE ~agreed'
    BY <1>5, <2>2 DEF Call!Vote, CallInv
  <2>3. QED
    BY <2>1, <2>2
<1>6. CASE Call!NextIteration
  <2>1. CASE i < MaxOf[mode]
    <3>1. Call!Rounds!NextRound
      BY <1>6, <2>1 DEF Call!NextIteration, CallInv, Call!Rounds!NextRound
    <3>2. QED
      BY <3>1 DEF Call!Rounds!Next
  <2>2. CASE ~(i < MaxOf[mode])
    BY <1>6, <2>2 DEF Call!NextIteration, CallInv
  <2>3. QED
    BY <2>1, <2>2
<1>7. CASE Call!Close
  <2>1. CASE ~agreed
    <3>1. Call!Rounds!GiveUp
      BY <1>7, <2>1 DEF Call!Close, CallInv, Call!Rounds!GiveUp
    <3>2. QED
      BY <3>1 DEF Call!Rounds!Next
  <2>2. CASE agreed
    BY <1>7, <2>2 DEF Call!Close
  <2>3. QED
    BY <1>0, <2>1, <2>2
<1>8. CASE Call!Raise
  BY <1>8 DEF Call!Raise
<1>9. QED
  BY <1>1, <1>2, <1>3, <1>4, <1>5, <1>6, <1>7, <1>8 DEF Call!Next, Call!Step

-----------------------------------------------------------------------------
(* All three *)

\* Sessions on disk, in a server's hands and in the command, and what the call
\* keeps of its rounds, have their types.
THEOREM ReviewsTypes == AnySpec => []TypesOK
<1>1. IndInv /\ LiveInv /\ CallInv => TypesOK
  BY DEF IndInv, LiveInv, CallInv, TypesOK
<1>2. QED
  BY ToolsSound, LiveAlways, CallAlways, <1>1, PTL

\* The row of review_outcomes tells what happened, whatever failed.
THEOREM HonestThm == AnySpec => []OutcomeHonest
<1>1. CallInv => OutcomeHonest
  BY DEF CallInv, OutcomeHonest
<1>2. QED
  BY CallAlways, <1>1, PTL

\* The command and the call are cross-examinations in rounds: every phase of a
\* round is attempted once, in order, and no round follows an agreement or the
\* last one.
THEOREM RoundsThm == AnySpec => ImplementRounds
<1>1. AnyInit => Live!Rounds!Init /\ Call!Rounds!Init
  <2>1. Live!Init => Live!Rounds!Init
    BY DEF Live!Init, Live!Fresh, Live!Rounds!Init, Live!Stage, Live!Verdict
  <2>2. Call!Init => Call!Rounds!Init
    BY DEF Call!Init, Call!Rounds!Init, Call!Stage, Call!Verdict
  <2>3. QED
    BY <2>1, <2>2 DEF AnyInit
<1>2. [AnyNext]_all => [Live!Next]_liveVars /\ [Call!Next]_callVars
  BY DEF AnyNext, all
<1>3. LiveInv /\ LiveInv' /\ [AnyNext]_all => [Live!Rounds!Next]_(Live!Rounds!rvars)
  BY <1>2, LiveRounds
<1>4. CallInv /\ CallInv' /\ [AnyNext]_all => [Call!Rounds!Next]_(Call!Rounds!rvars)
  BY <1>2, CallRounds
<1>5. QED
  BY LiveAlways, CallAlways, <1>1, <1>3, <1>4, PTL
     DEF AnySpec, ImplementRounds, Live!ImplementsRounds, Call!ImplementsRounds,
         Live!Rounds!Spec, Call!Rounds!Spec
=============================================================================
