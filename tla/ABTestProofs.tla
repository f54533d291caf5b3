---------------------------- MODULE ABTestProofs ----------------------------
(***************************************************************************)
(* Theorems about ABTest for every set of clients, tests and parameters.   *)
(* Two inductive invariants: Safe holds in every interleaving; Alone adds  *)
(* what a single operation at a time may rely on, that the test it is      *)
(* about to save is still the one it loaded.                               *)
(***************************************************************************)
EXTENDS ABTest, TLAPS

\* The id of a call about to extend the index is that of a stored test.
IndexInv ==
  /\ IndexSound
  /\ \A c \in Client : At(c, "index") => store[call[c].test] # NoTest

Safe == TypeOK /\ ForbiddenNeverTested /\ IndexInv

RanIn(tests, t) == tests[t] # NoTest /\ tests[t].activated
HasRun(t) == RanIn(store, t)

\* At most one operation is under way.
AloneInv == \A c, d \in Client : c # d => call[c] = Idle \/ call[d] = Idle

\* What a call is about to save was made from what is stored.
CopyOf(k) ==
  IF k.cmd = "propose"
  THEN store[k.test] = NoTest
  ELSE /\ store[k.test] # NoTest
       /\ MayRun(k.cmd, store[k.test])
       /\ k.rec = Changed(k.cmd, store[k.test])

CopyInv == \A c \in Client : At(c, "save") => CopyOf(call[c])

SlotInv ==
  /\ slot # NoTest => HasRun(slot)
  /\ \A c \in Client : At(c, "slot") => HasRun(call[c].test)

Alone == ~overlap => AloneInv /\ CopyInv /\ SlotInv

-----------------------------------------------------------------------------
(* Every step keeps Safe *)

\* The copy an operation makes is a test with the same parameter.
LEMMA ChangedRec ==
  ASSUME NEW cmd \in Cmd, NEW r \in Rec
  PROVE  Changed(cmd, r) \in Rec /\ Changed(cmd, r).param = r.param
  BY DEF Changed, Cmd, Rec, Status

\* At first there is no test, no index and no call.
LEMMA InitSafe == Init => Safe
  BY NullAssumption
  DEF Init, Safe, TypeOK, ForbiddenNeverTested, IndexInv, IndexSound, At

\* propose only holds a record of a parameter that is allowed.
LEMMA ProposeSafe ==
  ASSUME Safe, NEW c \in Client, NEW t \in Test, NEW p \in Param, NEW v \in Verdict,
         Propose(c, t, p, v), overlap' \in BOOLEAN
  PROVE  Safe'
  <1> DEFINE k == [cmd |-> "propose", test |-> t, verdict |-> v, stage |-> "save",
                   rec |-> [param |-> p, status |-> "proposed", activated |-> FALSE]]
  <1>1. k \in Call
    BY DEF Call, Rec, Status, Stage
  <1>2. TypeOK'
    BY <1>1 DEF Safe, TypeOK, Propose
  <1>3. ForbiddenNeverTested'
    BY DEF Safe, TypeOK, ForbiddenNeverTested, Propose
  <1>4. IndexInv'
    BY DEF Safe, TypeOK, IndexInv, IndexSound, At, Propose
  <1>5. QED BY <1>2, <1>3, <1>4 DEF Safe

\* A copy that is loaded and changed keeps the parameter of the record it is of.
LEMMA LoadSafe ==
  ASSUME Safe, NEW c \in Client, NEW cmd \in Cmd, NEW t \in Test, NEW v \in Verdict,
         Load(c, cmd, t, v), overlap' \in BOOLEAN
  PROVE  Safe'
  <1> DEFINE k == [cmd |-> cmd, test |-> t, verdict |-> v, stage |-> "save",
                   rec |-> Changed(cmd, store[t])]
  <1>1. store[t] \in Rec
    BY DEF Safe, TypeOK, Load
  <1>2. k.rec \in Rec /\ k.rec.param = store[t].param
    BY <1>1, ChangedRec
  <1>3. k \in Call
    BY <1>2 DEF Call, Stage
  <1>4. call' = [call EXCEPT ![c] = k] /\ UNCHANGED <<store, index, slot, results>>
    BY DEF Load
  <1> HIDE DEF k
  <1>5. TypeOK'
    BY <1>3, <1>4 DEF Safe, TypeOK
  <1>6. ForbiddenNeverTested'
    BY <1>2, <1>4 DEF Safe, TypeOK, ForbiddenNeverTested, Load
  <1>7. k.stage = "save"
    BY DEF k
  <1>8. IndexInv'
    BY <1>4, <1>7 DEF Safe, TypeOK, IndexInv, IndexSound, At
  <1>9. QED BY <1>5, <1>6, <1>8 DEF Safe

\* Going on to a further write, or ending, keeps a call's test and copy.
LEMMA ProceedCall ==
  ASSUME TypeOK, NEW c \in Client, call[c] # Idle, NEW stages \in SUBSET Stage,
         Proceed(c, stages)
  PROVE  /\ call' \in [Client -> Call \cup {Idle}]
         /\ \A d \in Client \ {c} : call'[d] = call[d]
         /\ call'[c] # Idle =>
              /\ call'[c].test = call[c].test
              /\ call'[c].rec = call[c].rec
              /\ call'[c].cmd = call[c].cmd
              /\ call'[c].stage \in stages
  <1>1. call[c] \in Call
    BY DEF TypeOK
  <1>2. CASE stages = {}
    BY <1>2 DEF Proceed, TypeOK
  <1>3. CASE stages # {}
    <2>1. PICK s \in stages : call' = [call EXCEPT ![c].stage = s]
      BY <1>3 DEF Proceed
    <2>2. [call[c] EXCEPT !.stage = s] \in Call
      BY <1>1 DEF Call
    <2>3. QED BY <1>1, <2>1, <2>2 DEF TypeOK, Call
  <1>4. QED BY <1>2, <1>3

\* The stages that may follow.
LEMMA AfterSaveStages == ASSUME NEW cmd PROVE AfterSave(cmd) \in SUBSET Stage
  BY DEF AfterSave, Stage

\* What is saved is as safe as the copy, and a test is indexed after it is saved.
LEMMA WriteSafe ==
  ASSUME Safe, NEW c \in Client, Write(c), overlap' \in BOOLEAN
  PROVE  Safe'
  <1> USE DEF Safe
  <1>1. CASE Save(c)
    <2>1. call[c] # Idle /\ call[c] \in Call
      BY <1>1 DEF Save, At, TypeOK
    <2>2. Proceed(c, AfterSave(call[c].cmd)) /\ AfterSave(call[c].cmd) \in SUBSET Stage
      BY <1>1, AfterSaveStages DEF Save
    <2>3. /\ call' \in [Client -> Call \cup {Idle}]
          /\ \A d \in Client \ {c} : call'[d] = call[d]
          /\ call'[c] # Idle => call'[c].test = call[c].test /\ call'[c].rec = call[c].rec
      BY <2>1, <2>2, ProceedCall
    <2>4. call[c].rec \in Rec /\ call[c].test \in Test /\ call[c].rec # NoTest
      BY <2>1, NullAssumption DEF Call
    <2>5. TypeOK'
      BY <1>1, <2>3, <2>4 DEF Save, TypeOK
    <2>6. ForbiddenNeverTested'
      BY <1>1, <2>1, <2>3, <2>4 DEF Save, TypeOK, ForbiddenNeverTested
    <2>7. \A t \in Test : store[t] # NoTest => store'[t] # NoTest
      BY <1>1, <2>4 DEF Save, TypeOK
    <2>8. store'[call[c].test] # NoTest
      BY <1>1, <2>4 DEF Save, TypeOK
    <2>9. IndexSound'
      BY <1>1, <2>7 DEF Save, IndexSound, IndexInv, TypeOK
    <2>10. \A d \in Client : call'[d] # Idle /\ call'[d].stage = "index" =>
             store'[call'[d].test] # NoTest
      BY <2>3, <2>7, <2>8 DEF IndexInv, At, TypeOK, Call
    <2>11. QED BY <2>5, <2>6, <2>9, <2>10 DEF IndexInv, At
  <1>2. ASSUME NEW stages \in SUBSET (Stage \ {"index", "save"}), Proceed(c, stages),
               call[c] # Idle, store' = store,
               index' \in SUBSET Test, \A t \in index' : store[t] # NoTest,
               slot' \in Test \cup {NoTest}, results' \in SUBSET Row
        PROVE  Safe'
    <2>1. /\ call' \in [Client -> Call \cup {Idle}]
          /\ \A d \in Client \ {c} : call'[d] = call[d]
          /\ call'[c] # Idle => /\ call'[c].rec = call[c].rec
                                /\ call'[c].stage \in stages
      BY <1>2, ProceedCall
    <2>2. TypeOK'
      BY <1>2, <2>1 DEF TypeOK
    <2>3. ForbiddenNeverTested'
      BY <1>2, <2>1 DEF ForbiddenNeverTested
    <2>4. IndexInv'
      BY <1>2, <2>1 DEF IndexInv, IndexSound, At
    <2>5. QED BY <2>2, <2>3, <2>4
  <1> HIDE DEF Safe
  <1>3. TypeOK /\ (\A t \in index : store[t] # NoTest)
    BY DEF Safe, IndexInv, IndexSound
  <1>4. CASE IndexAdd(c)
    BY <1>2, <1>3, <1>4 DEF Safe, IndexInv, IndexAdd, At, TypeOK, Call
  <1>5. CASE SetSlot(c)
    BY <1>2, <1>3, <1>5 DEF SetSlot, At, TypeOK, Call, Stage
  <1>6. CASE ClearSlot(c)
    BY <1>2, <1>3, <1>6 DEF ClearSlot, At, TypeOK, Stage
  <1>7. CASE RecordObservation(c)
    BY <1>2, <1>3, <1>7 DEF RecordObservation, At, TypeOK
  <1>8. CASE RecordResult(c)
    BY <1>2, <1>3, <1>8 DEF RecordResult, At, TypeOK, Call, Row
  <1>9. QED BY <1>1, <1>4, <1>5, <1>6, <1>7, <1>8 DEF Write

\* A client that dies leaves what it has stored.
LEMMA CrashSafe ==
  ASSUME Safe, NEW c \in Client, Crash(c), overlap' \in BOOLEAN PROVE Safe'
  BY DEF Safe, Crash, TypeOK, ForbiddenNeverTested, IndexInv, IndexSound, At

\* Every step keeps records and copies safe.
LEMMA NextSafe == Safe /\ [Next]_vars => Safe'
  <1>1. CASE UNCHANGED vars
    BY <1>1 DEF vars, Safe, TypeOK, ForbiddenNeverTested, IndexInv, IndexSound, At
  <1>2. ASSUME Safe, NEW c \in Client, Step(c), overlap' \in BOOLEAN PROVE Safe'
    BY <1>2, ProposeSafe, LoadSafe, WriteSafe, CrashSafe DEF Step, Begin
  <1>3. ASSUME Safe, Next PROVE overlap' \in BOOLEAN
    BY <1>3 DEF Next, Safe, TypeOK
  <1>4. QED BY <1>1, <1>2, <1>3 DEF Next

\* Type correctness: every record, slot and call stays in its set.
THEOREM TypeCorrect == Spec => []TypeOK
  <1>1. Safe => TypeOK BY DEF Safe
  <1>2. QED BY InitSafe, NextSafe, <1>1, PTL DEF Spec

\* No forbidden parameter is ever stored or in a client's copy.
THEOREM ForbiddenThm == Spec => []ForbiddenNeverTested
  <1>1. Safe => ForbiddenNeverTested BY DEF Safe
  <1>2. QED BY InitSafe, NextSafe, <1>1, PTL DEF Spec

\* Every id in the index is that of a stored test.
THEOREM IndexThm == Spec => []IndexSound
  <1>1. Safe => IndexSound BY DEF Safe, IndexInv
  <1>2. QED BY InitSafe, NextSafe, <1>1, PTL DEF Spec

-----------------------------------------------------------------------------
(* What holds while operations do not overlap *)

IndInv == Safe /\ Alone

\* At first no client is in a call.
LEMMA InitIndInv == Init => IndInv
  BY InitSafe DEF Init, IndInv, Alone, AloneInv, CopyInv, SlotInv, At

\* Without overlap, a client that changes its call finds the others idle.
LEMMA OthersIdle ==
  ASSUME IndInv, ~overlap', NEW c \in Client, Next,
         call[c] # Idle \/ call'[c] # Idle,
         \A d \in Client \ {c} : call'[d] = call[d]
  PROVE  ~overlap /\ \A d \in Client \ {c} : call[d] = Idle
  BY DEF IndInv, Safe, TypeOK, Alone, AloneInv, Next

\* A call that begins copies what is stored.
LEMMA BeginAlone ==
  ASSUME IndInv, Next, ~overlap', NEW c \in Client, Begin(c)
  PROVE  AloneInv' /\ CopyInv' /\ SlotInv'
  <1>1. PICK k \in Call :
          /\ call' = [call EXCEPT ![c] = k] /\ k.stage = "save"
          /\ CopyOf(k)
          /\ UNCHANGED <<store, index, slot, results>>
    <2>1. ASSUME NEW t \in Test, NEW p \in Param, NEW v \in Verdict, Propose(c, t, p, v)
          PROVE  \E k \in Call :
                   /\ call' = [call EXCEPT ![c] = k] /\ k.stage = "save"
                   /\ CopyOf(k)
                   /\ UNCHANGED <<store, index, slot, results>>
      <3> DEFINE k == [cmd |-> "propose", test |-> t, verdict |-> v, stage |-> "save",
                       rec |-> [param |-> p, status |-> "proposed", activated |-> FALSE]]
      <3>1. k \in Call   BY DEF Call, Rec, Status, Stage
      <3>2. CopyOf(k)    BY <2>1 DEF Propose, CopyOf
      <3>3. QED BY <2>1, <3>1, <3>2 DEF Propose
    <2>2. ASSUME NEW t \in Test, NEW cmd \in Cmd, NEW v \in Verdict, Load(c, cmd, t, v)
          PROVE  \E k \in Call :
                   /\ call' = [call EXCEPT ![c] = k] /\ k.stage = "save"
                   /\ CopyOf(k)
                   /\ UNCHANGED <<store, index, slot, results>>
      <3> DEFINE k == [cmd |-> cmd, test |-> t, verdict |-> v, stage |-> "save",
                       rec |-> Changed(cmd, store[t])]
      <3>1. store[t] \in Rec                BY <2>2 DEF IndInv, Safe, TypeOK, Load
      <3>2. Changed(cmd, store[t]) \in Rec  BY <3>1, ChangedRec
      <3>3. k \in Call                      BY <3>2 DEF Call, Stage
      <3>4. k.cmd = cmd /\ k.test = t /\ k.rec = Changed(cmd, store[t]) /\ k.stage = "save"
        OBVIOUS
      <3>5. call' = [call EXCEPT ![c] = k] /\ UNCHANGED <<store, index, slot, results>>
        BY <2>2 DEF Load
      <3> HIDE DEF k
      <3>6. CopyOf(k)                       BY <2>2, <3>4 DEF Load, CopyOf, Cmd
      <3>7. QED BY <3>3, <3>4, <3>5, <3>6
    <2>3. QED BY <2>1, <2>2 DEF Begin
  <1>2. k # Idle /\ call'[c] = k /\ \A d \in Client \ {c} : call'[d] = call[d]
    BY <1>1, NullAssumption DEF IndInv, Safe, TypeOK
  <1>3. ~overlap /\ \A d \in Client \ {c} : call'[d] = Idle /\ call[d] = Idle
    BY <1>2, OthersIdle
  <1>4. AloneInv'
    BY <1>3 DEF AloneInv
  <1>5. CopyInv'
    BY <1>1, <1>2, <1>3 DEF CopyInv, CopyOf, At
  <1>6. SlotInv'
    BY <1>1, <1>2, <1>3 DEF SlotInv, HasRun, RanIn, At, IndInv, Alone
  <1>7. QED BY <1>4, <1>5, <1>6

\* Saving the copy of a test that has run leaves it a test that has run.
LEMMA CopyRan ==
  ASSUME NEW k \in Call, CopyOf(k), store[k.test] \in Rec \cup {NoTest}
  PROVE  /\ HasRun(k.test) => k.rec.activated
         /\ k.cmd = "ab_start" => k.rec.activated
  <1>1. CASE k.cmd = "propose"
    BY <1>1 DEF CopyOf, HasRun, RanIn
  <1>2. CASE k.cmd # "propose"
    <2>1. k.cmd \in Cmd /\ k.rec = Changed(k.cmd, store[k.test]) /\ store[k.test] \in Rec
      BY <1>2 DEF CopyOf, Call
    <2>2. QED BY <2>1 DEF HasRun, RanIn, Changed, Cmd, Rec
  <1>3. QED BY <1>1, <1>2

\* A call that saves its copy.
LEMMA SaveAlone ==
  ASSUME IndInv, Next, ~overlap', NEW c \in Client, Save(c)
  PROVE  AloneInv' /\ CopyInv' /\ SlotInv'
  <1>1. TypeOK /\ call[c] # Idle /\ call[c] \in Call /\ call[c].stage = "save"
    BY DEF IndInv, Safe, TypeOK, Save, At
  <1>2. AfterSave(call[c].cmd) \in SUBSET Stage
    BY AfterSaveStages
  <1>3. /\ \A d \in Client \ {c} : call'[d] = call[d]
        /\ call'[c] # Idle => /\ call'[c].test = call[c].test
                              /\ call'[c].stage \in AfterSave(call[c].cmd)
    BY <1>1, <1>2, ProceedCall DEF Save
  <1>4. ~overlap /\ \A d \in Client \ {c} : call'[d] = Idle /\ call[d] = Idle
    BY <1>1, <1>3, OthersIdle
  <1>5. CopyOf(call[c]) /\ SlotInv
    BY <1>1, <1>4 DEF IndInv, Alone, CopyInv, At
  <1>6. call[c].test \in Test /\ call[c].rec \in Rec /\ call[c].rec # NoTest
    BY <1>1, NullAssumption DEF Call
  <1>7. store[call[c].test] \in Rec \cup {NoTest}
    BY <1>1, <1>6 DEF TypeOK
  <1>8. /\ HasRun(call[c].test) => call[c].rec.activated
        /\ call[c].cmd = "ab_start" => call[c].rec.activated
    BY <1>1, <1>5, <1>7, CopyRan
  <1>9. store' = [store EXCEPT ![call[c].test] = call[c].rec] /\ slot' = slot
    BY DEF Save
  <1>10. \A t \in Test : RanIn(store, t) => RanIn(store', t)
    BY <1>1, <1>6, <1>8, <1>9 DEF TypeOK, HasRun, RanIn
  <1>11. call[c].cmd = "ab_start" => RanIn(store', call[c].test)
    BY <1>1, <1>6, <1>8, <1>9 DEF TypeOK, HasRun, RanIn
  <1>12. AloneInv'
    BY <1>4 DEF AloneInv
  <1>13. "save" \notin AfterSave(call[c].cmd)
         /\ ("slot" \in AfterSave(call[c].cmd) => call[c].cmd = "ab_start")
    BY DEF AfterSave
  <1>14. CopyInv'
    BY <1>3, <1>4, <1>13 DEF CopyInv, At
  <1>15. slot # NoTest => slot \in Test /\ HasRun(slot)
    BY <1>1, <1>5 DEF SlotInv, TypeOK
  <1>16. slot' # NoTest => RanIn(store', slot')
    BY <1>9, <1>10, <1>15 DEF HasRun, RanIn
  <1>17. call'[c] # Idle /\ call'[c].stage = "slot" => RanIn(store', call'[c].test)
    BY <1>3, <1>11, <1>13 DEF HasRun, RanIn
  <1>18. SlotInv'
    BY <1>4, <1>16, <1>17 DEF SlotInv, At, HasRun, RanIn
  <1>19. QED BY <1>12, <1>14, <1>18

\* The further writes of a call, and its death.
LEMMA RestAlone ==
  ASSUME IndInv, Next, ~overlap', NEW c \in Client,
         IndexAdd(c) \/ SetSlot(c) \/ ClearSlot(c) \/ RecordObservation(c)
           \/ RecordResult(c) \/ Crash(c)
  PROVE  AloneInv' /\ CopyInv' /\ SlotInv'
  <1>1. TypeOK /\ call[c] # Idle /\ store' = store
    BY DEF IndInv, Safe, IndexAdd, SetSlot, ClearSlot, RecordObservation, RecordResult, Crash, At
  <1>2. /\ \A d \in Client \ {c} : call'[d] = call[d]
        /\ call'[c] # Idle => call'[c].stage = "evidence"
    <2>1. CASE Crash(c)
      BY <1>1, <2>1 DEF Crash, TypeOK
    <2>2. ASSUME NEW stages \in {{}, {"evidence"}}, Proceed(c, stages)
          PROVE  /\ \A d \in Client \ {c} : call'[d] = call[d]
                 /\ call'[c] # Idle => call'[c].stage = "evidence"
      <3>1. stages \in SUBSET Stage
        BY DEF Stage
      <3>2. QED BY <1>1, <2>2, <3>1, ProceedCall
    <2>3. QED
      BY <2>1, <2>2 DEF IndexAdd, SetSlot, ClearSlot, RecordObservation, RecordResult
  <1>3. ~overlap /\ \A d \in Client \ {c} : call'[d] = Idle /\ call[d] = Idle
    BY <1>1, <1>2, OthersIdle
  <1>4. SlotInv
    BY <1>3 DEF IndInv, Alone
  <1>5. slot' \in {slot, NoTest} \/ (At(c, "slot") /\ slot' = call[c].test)
    BY DEF IndexAdd, SetSlot, ClearSlot, RecordObservation, RecordResult, Crash
  <1>6. slot' # NoTest => HasRun(slot')
    BY <1>4, <1>5 DEF SlotInv
  <1>7. AloneInv' /\ CopyInv'
    BY <1>2, <1>3 DEF AloneInv, CopyInv, At
  <1>8. SlotInv'
    BY <1>1, <1>2, <1>3, <1>6 DEF SlotInv, At, HasRun, RanIn
  <1>9. QED BY <1>7, <1>8

\* Every step keeps the invariant, that of the slot until operations overlap.
LEMMA NextIndInv == IndInv /\ [Next]_vars => IndInv'
  <1>1. CASE UNCHANGED vars
    BY <1>1, NextSafe
    DEF vars, IndInv, Alone, AloneInv, CopyInv, CopyOf, SlotInv, HasRun, RanIn, At
  <1>2. ASSUME IndInv, Next, ~overlap' PROVE AloneInv' /\ CopyInv' /\ SlotInv'
    BY <1>2, BeginAlone, SaveAlone, RestAlone DEF Next, Step, Write
  <1>3. IndInv /\ Next => Safe'
    BY NextSafe DEF IndInv
  <1>4. QED BY <1>1, <1>2, <1>3 DEF IndInv, Alone

\* Without overlap, the slot of the status command names a test that ran.
THEOREM SlotThm == Spec => []SlotHasRun
  <1>1. IndInv => SlotHasRun
    BY DEF IndInv, Alone, SlotInv, HasRun, RanIn, SlotHasRun
  <1>2. QED BY InitIndInv, NextIndInv, <1>1, PTL DEF Spec

\* Without overlap, a vetoed, concluded or reverted test comes back only
\* through start_grace_period.
THEOREM TerminalThm == Spec => TerminalExit
  <1> DEFINE Exit == ~overlap => \A t \in Test : StatusOf(t) \in Terminal =>
                       StatusOf(t)' \in Terminal \cup {"grace_period"}
  <1>1. ASSUME IndInv, ~overlap, NEW c \in Client, Save(c), NEW t \in Test,
               StatusOf(t) \in Terminal
        PROVE  StatusOf(t)' \in Terminal \cup {"grace_period"}
    <2>1. call[c] \in Call /\ CopyOf(call[c])
      BY <1>1 DEF IndInv, Safe, TypeOK, Alone, CopyInv, Save, At
    <2>2. store[t] # NoTest /\ store[t] \in Rec /\ store[t].status \in Terminal
      BY <1>1 DEF StatusOf, Terminal, IndInv, Safe, TypeOK
    <2>3. CASE t # call[c].test
      BY <1>1, <2>2, <2>3 DEF Save, StatusOf, IndInv, Safe, TypeOK
    <2>4. CASE t = call[c].test
      <3>1. /\ call[c].cmd \in Cmd
            /\ MayRun(call[c].cmd, store[t])
            /\ call[c].rec = Changed(call[c].cmd, store[t])
        BY <2>1, <2>2, <2>4 DEF CopyOf, Call
      <3>2. call[c].rec.status \in Terminal \cup {"grace_period"}
        BY <3>1, <2>2 DEF MayRun, Changed, Cmd, Terminal, Rec
      <3>3. store'[t] = call[c].rec /\ call[c].rec \in Rec
        BY <1>1, <2>1, <2>4 DEF Save, IndInv, Safe, TypeOK, Call
      <3>4. QED BY <3>2, <3>3, NullAssumption DEF StatusOf
    <2>5. QED BY <2>3, <2>4
  <1>2. ASSUME IndInv, NEW c \in Client, Step(c), ~Save(c) PROVE store' = store
    BY <1>2 DEF Step, Begin, Propose, Load, Write, IndexAdd, SetSlot, ClearSlot,
                RecordObservation, RecordResult, Crash
  <1>3. ASSUME store' = store PROVE \A t \in Test : StatusOf(t)' = StatusOf(t)
    BY <1>3 DEF StatusOf
  <1>4. IndInv /\ [Next]_vars => [Exit]_vars
    BY <1>1, <1>2, <1>3 DEF Next
  <1>5. QED BY InitIndInv, NextIndInv, <1>4, PTL DEF Spec, TerminalExit
=============================================================================
