--------------------------- MODULE SurgeonsProofs ---------------------------
(***************************************************************************)
(* Theorems about Surgeons for every set of processes, every call they may *)
(* get, all ladders and any number of retries: types, OverridesWin,        *)
(* FileHonest and ResultBacked.  OverridesWin speaks of the end of         *)
(* discover() and is not inductive: Good says what each of its stages has  *)
(* settled and what it has yet to touch.  ResultBacked speaks of the end   *)
(* of a call: Fit says what each place in it has paid, told the ledger and *)
(* put into the result.                                                    *)
(***************************************************************************)
EXTENDS Surgeons, TLAPS

\* The choice of providers of a process at l, serving u, whose Config is c.
Good(l, u, c) ==
  /\ l = "neuro"  => \A s \in Surgeon : c[s] = Filed(u, s)
  /\ l = "cardio" => Discovered(u, c, "neuro") /\ c["cardio"] = Filed(u, "cardio")
  /\ l = "flags"  => \A s \in Surgeon : Discovered(u, c, s)
  /\ l \in Asking => \A s \in Surgeon :
       IF u.flag[s] # None THEN c[s] = u.flag[s] ELSE Discovered(u, c, s)

Typed ==
  /\ pc \in [Process -> {"off", "idle", "neuro", "cardio", "flags", "ask",
                         "judge", "gate", "done"}]
  /\ use \in [Process -> Uses]
  /\ cfg \in [Process -> [Surgeon -> Provider]]
  /\ at \in [Process -> Nat \ {0}]

IndInv == Typed /\ \A p \in Process : Good(pc[p], use[p], cfg[p])

\* What a step may change of the above, and that it changes it for p only.
Others(p) ==
  \A q \in Process \ {p} : pc'[q] = pc[q] /\ use'[q] = use[q] /\ cfg'[q] = cfg[q]

-----------------------------------------------------------------------------
\* The providers a Config may be given.
LEMMA ProvidersKnown ==
  /\ Default \in [Surgeon -> Provider]
  /\ \A s \in Surgeon : Preset[s] \subseteq Provider
  /\ \A s \in Surgeon : \A i \in DOMAIN Ladder[s] : Ladder[s][i] \in Provider
  <1>1. \A s \in Surgeon : Preset[s] \subseteq Provider /\ Ladder[s] \in Seq(Preset[s])
    BY SurgeonsAssumption
  <1>2. Default \in [Surgeon -> Provider]
    <2>1. Default["cardio"] \in Preset["cardio"] /\ Default["neuro"] \in Preset["neuro"]
      BY DEF Default, Preset
    <2>2. QED BY <1>1, <2>1 DEF Default, Surgeon
  <1>3. QED
    <2> SUFFICES ASSUME NEW s \in Surgeon, NEW i \in DOMAIN Ladder[s]
                 PROVE  Ladder[s][i] \in Provider
      BY <1>1, <1>2
    <2>1. Ladder[s][i] \in Preset[s]
      <3> DEFINE S == Preset[s]
      <3>1. Ladder[s] \in Seq(S)
        BY <1>1
      <3> HIDE DEF S
      <3>2. QED BY <3>1 DEF S
    <2>2. QED BY <1>1, <2>1

\* Variables, files and flags name a provider, or nothing, or a word that is none.
LEMMA FieldsOfUse ==
  ASSUME NEW u \in Uses
  PROVE  /\ u.canary \in BOOLEAN
         /\ u.env \in [Surgeon -> Provider \cup {None, "bogus", "disabled"}]
         /\ u.yaml \in [Surgeon -> Provider \cup {None}]
         /\ u.flag \in [Surgeon -> Provider \cup {None}]
  BY DEF Uses

\* What the files say of a surgeon, or the default, is a known provider.
LEMMA FiledKnown ==
  ASSUME NEW u \in Uses, NEW s \in Surgeon
  PROVE  Filed(u, s) \in Provider
  BY ProvidersKnown, FieldsOfUse DEF Filed

\* A process without a command, with or without variables set, has a use.
LEMMA IdleUse ==
  ASSUME NEW u \in Uses
  PROVE  Idle \in Uses /\ Waiting(u) \in Uses
  BY FieldsOfUse DEF Idle, Uses, NoUse, Waiting

\* A process that is off or idle, or has not begun, is good.
LEMMA GoodAtRest ==
  ASSUME NEW l \in {"off", "idle"}, NEW u, NEW c
  PROVE  Good(l, u, c)
  BY DEF Good, Asking

\* At first every process is off.
LEMMA InitInv == Init => IndInv
  <1> SUFFICES ASSUME Init PROVE IndInv
    OBVIOUS
  <1> USE DEF Init
  <1>1. Idle \in Uses
    BY DEF Idle, Uses, NoUse
  <1>2. Typed
    BY <1>1, ProvidersKnown DEF Typed
  <1>3. ASSUME NEW p \in Process PROVE Good(pc[p], use[p], cfg[p])
    BY GoodAtRest
  <1>4. QED BY <1>2, <1>3 DEF IndInv

-----------------------------------------------------------------------------
\* IndInv holds after a step that leaves the others alone, if it is typed and
\* leaves p good.
LEMMA OneMoves ==
  ASSUME IndInv, NEW p \in Process, Typed', Others(p), Good(pc'[p], use'[p], cfg'[p])
  PROVE  IndInv'
  <1>1. ASSUME NEW q \in Process PROVE Good(pc'[q], use'[q], cfg'[q])
    <2>1. CASE q = p
      BY <2>1
    <2>2. CASE q # p
      BY <2>2 DEF Others, IndInv
    <2>3. QED BY <2>1, <2>2
  <1>2. QED BY <1>1 DEF IndInv

\* A process that ends or returns.
LEMMA EndInv == ASSUME IndInv, NEW p \in Process, End(p) PROVE IndInv'
  <1>1. Typed' /\ Others(p) /\ pc'[p] = "off"
    <2> USE DEF IndInv, Typed, End, Goto, Forget
    <2>1. pc' \in [Process -> {"off", "idle", "neuro", "cardio", "flags", "ask",
                               "judge", "gate", "done"}] /\ pc'[p] = "off"
      OBVIOUS
    <2>2. use' \in [Process -> Uses]
      BY IdleUse
    <2>3. cfg' \in [Process -> [Surgeon -> Provider]] /\ at' \in [Process -> Nat \ {0}]
      BY ProvidersKnown
    <2>4. Others(p)
      BY DEF Others
    <2>5. QED BY <2>1, <2>2, <2>3, <2>4
  <1>2. QED BY <1>1, OneMoves, GoodAtRest

\* A server that has answered is idle.
LEMMA ReturnInv == ASSUME IndInv, NEW p \in Process, Return(p) PROVE IndInv'
  <1>1. Typed' /\ Others(p) /\ pc'[p] = "idle"
    <2> USE DEF IndInv, Typed, Return, Goto, Forget
    <2>1. pc' \in [Process -> {"off", "idle", "neuro", "cardio", "flags", "ask",
                               "judge", "gate", "done"}] /\ pc'[p] = "idle"
      OBVIOUS
    <2>2. use' \in [Process -> Uses]
      BY IdleUse
    <2>3. cfg' \in [Process -> [Surgeon -> Provider]] /\ at' \in [Process -> Nat \ {0}]
      BY ProvidersKnown
    <2>4. Others(p)
      BY DEF Others
    <2>5. QED BY <2>1, <2>2, <2>3, <2>4
  <1>2. QED BY <1>1, OneMoves, GoodAtRest

\* A process that starts is idle, with the variables of its environment.
LEMMA LaunchInv == ASSUME IndInv, NEW p \in Process, Launch(p) PROVE IndInv'
  <1>1. PICK u \in Use[p] : use' = [use EXCEPT ![p] = Waiting(u)]
    BY DEF Launch
  <1>2. u \in Uses
    BY SurgeonsAssumption
  <1>3. Typed' /\ Others(p) /\ pc'[p] = "idle"
    BY <1>1, <1>2, IdleUse DEF IndInv, Typed, Launch, Goto, Others
  <1>4. QED BY <1>3, OneMoves, GoodAtRest

\* A call starts from what its files say.
LEMMA CallInv == ASSUME IndInv, NEW p \in Process, Call(p) PROVE IndInv'
  <1>1. PICK u \in Use[p] :
          /\ use' = [use EXCEPT ![p] = u]
          /\ cfg' = [cfg EXCEPT ![p] = [s \in Surgeon |-> Filed(u, s)]]
    BY DEF Call
  <1>2. u \in Uses
    BY SurgeonsAssumption
  <1>3. [s \in Surgeon |-> Filed(u, s)] \in [Surgeon -> Provider]
    BY <1>2, FiledKnown
  <1>4. /\ Typed' /\ Others(p) /\ pc'[p] = "neuro" /\ use'[p] = u
        /\ cfg'[p] = [s \in Surgeon |-> Filed(u, s)]
    BY <1>1, <1>2, <1>3 DEF IndInv, Typed, Call, Goto, Others
  <1>5. Good(pc'[p], use'[p], cfg'[p])
    BY <1>4 DEF Good, Asking
  <1>6. QED BY <1>4, <1>5, OneMoves

-----------------------------------------------------------------------------
\* What was done for one surgeon does not depend on the other's provider.
LEMMA DiscoveredAlone ==
  ASSUME NEW u, NEW s, NEW c, NEW d, c[s] = d[s], Discovered(u, c, s)
  PROVE  Discovered(u, d, s)
  BY DEF Discovered

\* discover() settles s on v, which is right by what u says of it.
LEMMA SettledInv ==
  ASSUME IndInv, NEW p \in Process, NEW s \in Surgeon, NEW v \in Provider,
         Settled(p, s), cfg' = [cfg EXCEPT ![p] = [@ EXCEPT ![s] = v]],
         Discovered(use[p], cfg'[p], s)
  PROVE  IndInv'
  <1>1. cfg[p] \in [Surgeon -> Provider] /\ cfg'[p] = [cfg[p] EXCEPT ![s] = v]
    BY DEF IndInv, Typed
  <1>2. Typed' /\ Others(p) /\ use' = use
        /\ pc'[p] = IF s = "neuro" THEN "cardio" ELSE "flags"
    BY DEF IndInv, Typed, Settled, Goto, Others
  <1>3. Good(s, use[p], cfg[p])
    BY DEF IndInv, Settled
  <1>4. CASE s = "neuro"
    <2>1. cfg'[p]["cardio"] = Filed(use[p], "cardio")
      BY <1>1, <1>3, <1>4 DEF Good, Surgeon
    <2>2. Good("cardio", use[p], cfg'[p])
      BY <1>4, <2>1 DEF Good, Asking
    <2>3. QED BY <1>2, <1>4, <2>2, OneMoves
  <1>5. CASE s = "cardio"
    <2>1. Discovered(use[p], cfg'[p], "neuro")
      BY <1>1, <1>3, <1>5, DiscoveredAlone DEF Good, Surgeon
    <2>2. Good("flags", use[p], cfg'[p])
      BY <1>5, <2>1 DEF Good, Asking, Surgeon
    <2>3. QED BY <1>2, <1>5, <2>2, OneMoves
  <1>6. QED BY <1>4, <1>5 DEF Surgeon

\* The surgeon being settled still has what the files say.
LEMMA BeforeSettled ==
  ASSUME IndInv, NEW p \in Process, NEW s \in Surgeon, pc[p] = s
  PROVE  cfg[p][s] = Filed(use[p], s) /\ cfg[p][s] \in Provider
         /\ cfg = [cfg EXCEPT ![p] = [@ EXCEPT ![s] = cfg[p][s]]]
  <1>1. Good(s, use[p], cfg[p])
    BY DEF IndInv
  <1>2. QED BY <1>1 DEF Good, Surgeon, IndInv, Typed

\* A variable that names a preset settles the surgeon at it; any other leaves the
\* files' provider.
LEMMA OverrideInv ==
  ASSUME IndInv, NEW p \in Process, NEW s \in Surgeon, Override(p, s)
  PROVE  IndInv'
  <1> DEFINE e == use[p].env[s]
             v == IF e \in Preset[s] THEN e ELSE cfg[p][s]
  <1>1. /\ cfg[p][s] = Filed(use[p], s) /\ cfg[p][s] \in Provider
        /\ cfg[p] \in [Surgeon -> Provider] /\ pc[p] = s
    BY BeforeSettled DEF Override, Settled, IndInv, Typed
  <1>2. v \in Provider
    BY <1>1, ProvidersKnown
  <1>3. cfg' = [cfg EXCEPT ![p] = [@ EXCEPT ![s] = v]]
    BY DEF Override
  <1>4. cfg'[p][s] = v
    BY <1>1, <1>3 DEF IndInv, Typed
  <1>5. {"bogus", "disabled"} \cap Preset[s] = {}
    BY DEF Preset, Surgeon
  <1>6. Discovered(use[p], cfg'[p], s)
    BY <1>1, <1>4, <1>5 DEF Discovered
  <1>7. QED BY <1>2, <1>3, <1>6, SettledInv DEF Override

\* NoLadder, and Exhaust: the surgeon stays as it was.
LEMMA KeptInv ==
  ASSUME IndInv, NEW p \in Process, NEW s \in Surgeon, Settled(p, s),
         UNCHANGED cfg, use[p].env[s] \in {None, "disabled"}
  PROVE  IndInv'
  <1>1. /\ cfg[p][s] = Filed(use[p], s) /\ cfg[p][s] \in Provider
        /\ cfg' = [cfg EXCEPT ![p] = [@ EXCEPT ![s] = cfg[p][s]]]
    BY BeforeSettled DEF Settled
  <1>2. use[p].env[s] \notin Preset[s]
    <2>1. None \notin Preset[s]
      BY SurgeonsAssumption
    <2>2. "disabled" \notin Preset[s]
      BY DEF Preset, Surgeon
    <2>3. QED BY <2>1, <2>2
  <1>3. Discovered(use[p], cfg'[p], s)
    BY <1>1, <1>2 DEF Discovered
  <1>4. QED BY <1>1, <1>3, SettledInv

\* A rung that answers settles the surgeon, which had no override.
LEMMA ReachInv ==
  ASSUME IndInv, NEW p \in Process, NEW s \in Surgeon, Reach(p, s)
  PROVE  IndInv'
  <1> DEFINE v == Ladder[s][at[p]]
  <1>1. at[p] \in DOMAIN Ladder[s]
    <2>1. Ladder[s] \in Seq(Preset[s])
      BY SurgeonsAssumption
    <2>2. QED BY <2>1 DEF Reach, IndInv, Typed
  <1>2. v \in Provider
    BY <1>1, ProvidersKnown
  <1>3. cfg' = [cfg EXCEPT ![p] = [@ EXCEPT ![s] = v]] /\ cfg'[p][s] = v
    BY DEF Reach, IndInv, Typed
  <1>4. use[p].env[s] = None /\ None \notin Preset[s] \cup {"bogus", "disabled"}
    BY SurgeonsAssumption DEF Reach
  <1>5. Discovered(use[p], cfg'[p], s)
    BY <1>1, <1>3, <1>4 DEF Discovered
  <1>6. QED BY <1>2, <1>3, <1>5, SettledInv DEF Reach

\* A rung that does not answer leaves the surgeon as it is.
LEMMA RefuseInv ==
  ASSUME IndInv, NEW p \in Process, NEW s \in Surgeon, Refuse(p, s)
  PROVE  IndInv'
  <1>1. Typed' /\ Others(p) /\ pc' = pc /\ use' = use /\ cfg' = cfg
    BY DEF IndInv, Typed, Refuse, Others
  <1>2. Good(pc[p], use[p], cfg[p])
    BY DEF IndInv
  <1>3. QED BY <1>1, <1>2, OneMoves

\* After the flags, a surgeon that has one is at what it names.
LEMMA FlagsInv == ASSUME IndInv, NEW p \in Process, ApplyFlags(p) PROVE IndInv'
  <1> DEFINE f == use[p].flag
             c == [s \in Surgeon |-> IF f[s] = None THEN cfg[p][s] ELSE f[s]]
  <1>1. /\ use[p] \in Uses /\ cfg[p] \in [Surgeon -> Provider]
        /\ pc[p] = "flags" /\ Good("flags", use[p], cfg[p])
    BY DEF IndInv, Typed, ApplyFlags
  <1>2. c \in [Surgeon -> Provider]
    BY <1>1, FieldsOfUse
  <1>3. Typed' /\ Others(p) /\ pc'[p] = "ask" /\ use' = use /\ cfg'[p] = c
    BY <1>2 DEF IndInv, Typed, ApplyFlags, Goto, Others
  <1>4. ASSUME NEW s \in Surgeon
        PROVE  IF f[s] # None THEN c[s] = f[s] ELSE Discovered(use[p], c, s)
    <2>1. Discovered(use[p], cfg[p], s)
      BY <1>1 DEF Good
    <2>2. QED BY <2>1, DiscoveredAlone
  <1>5. Good("ask", use[p], c)
    BY <1>4 DEF Good
  <1>6. QED BY <1>3, <1>5, OneMoves

\* Once the surgeons are being asked, nothing settles them again.
LEMMA AskingInv ==
  ASSUME IndInv, NEW p \in Process, pc[p] \in Asking,
         UNCHANGED <<use, cfg>>, at' \in [Process -> Nat \ {0}],
         \/ UNCHANGED pc
         \/ \E l \in Asking : Goto(p, l)
  PROVE  IndInv'
  <1>1. Typed' /\ Others(p) /\ pc'[p] \in Asking
    BY DEF IndInv, Typed, Goto, Others, Asking
  <1>2. Good(pc'[p], use[p], cfg[p])
    BY <1>1 DEF IndInv, Good, Asking
  <1>3. QED BY <1>1, <1>2, OneMoves

\* A command that is done ends or, in a server, returns.
LEMMA LeaveInv == ASSUME IndInv, NEW p \in Process, Leave(p) PROVE IndInv'
  BY EndInv, ReturnInv DEF Leave

\* The turn of the next surgeon, or the end of a pass, stays within asking and judging.
LEMMA NextSurgeonMoves ==
  ASSUME IndInv, NEW p \in Process, NextSurgeon(p)
  PROVE  /\ at' \in [Process -> Nat \ {0}]
         /\ UNCHANGED pc \/ \E l \in Asking : Goto(p, l)
  BY DEF NextSurgeon, IndInv, Typed, Asking

\* Attempts, answered or not, do not touch the providers.
LEMMA QueryInv == ASSUME IndInv, NEW p \in Process, Query(p) PROVE IndInv'
  <1> USE DEF Asking
  <1>0. at \in [Process -> Nat \ {0}]
    BY DEF IndInv, Typed
  <1>1. CASE Answer(p)
    BY <1>1, NextSurgeonMoves, AskingInv DEF Answer
  <1>2. CASE Fail(p)
    <2>1. CASE at[p] < Len(Attempts(p))
      <3>1. at' \in [Process -> Nat \ {0}]
        BY <1>0, <1>2, <2>1 DEF Fail
      <3>2. QED BY <1>2, <2>1, <3>1, AskingInv DEF Fail
    <2>2. CASE ~(at[p] < Len(Attempts(p)))
      BY <1>2, <2>2, NextSurgeonMoves, AskingInv DEF Fail
    <2>3. QED BY <2>1, <2>2
  <1>3. CASE Unlisted(p)
    BY <1>3, NextSurgeonMoves, AskingInv DEF Unlisted
  <1>4. CASE Untracked(p) \/ Unparsed(p)
    <2>1. pc[p] = "ask"
      BY <1>4 DEF Untracked, Unparsed
    <2>2. Raise(p, 0) \/ Raise(p, 1)
      BY <1>4 DEF Untracked, Unparsed
    <2>3. CASE pass[p] = "negation"
      BY <1>0, <2>1, <2>2, <2>3, AskingInv DEF Raise
    <2>4. CASE pass[p] # "negation"
      BY <2>2, <2>4, LeaveInv DEF Raise
    <2>5. QED BY <2>3, <2>4
  <1>5. QED BY <1>1, <1>2, <1>3, <1>4 DEF Query

\* Judging and the gate do not touch the providers.
LEMMA FinishInv == ASSUME IndInv, NEW p \in Process, Finish(p) PROVE IndInv'
  <1> USE DEF Asking
  <1>0. at \in [Process -> Nat \ {0}]
    BY DEF IndInv, Typed
  <1>1. CASE Consult(p)
    BY <1>0, <1>1, AskingInv DEF Consult
  <1>2. CASE Canary(p)
    <2>1. /\ pc[p] = "judge" /\ UNCHANGED <<use, cfg, at>>
          /\ Goto(p, IF use[p].job = "gated" THEN "gate" ELSE "done")
      BY <1>2 DEF Canary
    <2>2. QED BY <1>0, <2>1, AskingInv
  <1>3. CASE Negate(p)
    BY <1>0, <1>3, AskingInv DEF Negate
  <1>4. CASE SkipGate(p)
    BY <1>0, <1>4, AskingInv DEF SkipGate
  <1>5. CASE ApplyGate(p)
    <2>1. pc[p] = "gate" /\ UNCHANGED <<use, cfg, at>> /\ Goto(p, "done")
      BY <1>5 DEF ApplyGate
    <2>2. QED BY <1>0, <2>1, AskingInv
  <1>6. QED BY <1>1, <1>2, <1>3, <1>4, <1>5 DEF Finish

\* Each way discovery settles a surgeon keeps the invariant.
LEMMA DiscoverInv == ASSUME IndInv, NEW p \in Process, Discover(p) PROVE IndInv'
  <1>1. PICK s \in Surgeon : \/ Override(p, s) \/ NoLadder(p, s) \/ Reach(p, s)
                             \/ Refuse(p, s) \/ Exhaust(p, s)
    BY DEF Discover
  <1>2. NoLadder(p, s) \/ Exhaust(p, s) =>
          Settled(p, s) /\ UNCHANGED cfg /\ use[p].env[s] \in {None, "disabled"}
    BY DEF NoLadder, Exhaust
  <1>3. QED BY <1>1, <1>2, OverrideInv, KeptInv, ReachInv, RefuseInv

\* Every step keeps the invariant.
LEMMA NextInv == ASSUME IndInv, [Next]_vars PROVE IndInv'
  <1>1. CASE Next
    <2>1. PICK p \in Process : Launch(p) \/ Call(p) \/ Run(p) \/ Die(p)
      BY <1>1 DEF Next
    <2>2. Die(p) \/ Done(p) => End(p) \/ Leave(p)
      BY DEF Die, Done
    <2>3. QED
      BY <2>1, <2>2, LaunchInv, CallInv, DiscoverInv, FlagsInv, QueryInv, FinishInv,
         LeaveInv, EndInv DEF Run
  <1>2. CASE UNCHANGED vars
    BY <1>2 DEF vars, IndInv, Typed
  <1>3. QED BY <1>1, <1>2

\* Whatever the ladders, the files, the environment and the flags are, and
\* whatever answers: a surgeon is asked at the provider its overrides name.
THEOREM OverridesWinAlways == Spec => []OverridesWin
  <1>1. IndInv => OverridesWin
    BY DEF IndInv, Good, OverridesWin
  <1>2. QED BY <1>1, InitInv, NextInv, PTL DEF Spec
-----------------------------------------------------------------------------
(* Types, and the file of counters *)

Replies == [Pass -> [Surgeon -> Votes]]
Costs   == [Pass -> Nat]
Results == [verdict : Verdict, yellow : BOOLEAN, total : Nat]
Counts  == [Counter -> Nat]
Files   == [by : Process \cup {None}, shows : [Counter \ {"gate"} -> Nat]]

Rest ==
  /\ calls \in [Process -> 0..MaxCalls]
  /\ who \in [Process -> Surgeon] /\ pass \in [Process -> Pass]
  /\ vote \in [Process -> Replies]
  /\ cost \in [Process -> Costs] /\ ledger \in [Process -> Nat]
  /\ result \in [Process -> Results]
  /\ count \in [Process -> Counts] /\ error \in [Process -> 0..MaxErrors]
  /\ file \in Files

\* The values that a process starts from.
LEMMA Starting ==
  /\ "claim" \in Pass /\ "negation" \in Pass /\ "cardio" \in Surgeon /\ "neuro" \in Surgeon
  /\ NoVotes \in Replies /\ NoCost \in Costs /\ NoResult \in Results /\ Zero \in Counts
  BY DEF Replies, Costs, Results, Counts, Pass, Surgeon, NoVotes, Votes, NoCost, NoResult,
       Verdict, Zero

\* What a process writes of its counters is what the file may hold.
LEMMA SnapshotTyped ==
  ASSUME NEW c \in Counts, NEW q \in Process \cup {None}
  PROVE  [by |-> q, shows |-> Snapshot(c)] \in Files
  BY DEF Counts, Snapshot, Files

\* At first nothing is counted, and the file shows that.
LEMMA RestAtStart == Init => Rest /\ FileHonest
  <1> SUFFICES ASSUME Init PROVE Rest /\ FileHonest
    OBVIOUS
  <1>1. [by |-> None, shows |-> Snapshot(Zero)] \in Files
    BY Starting, SnapshotTyped
  <1>2. Rest
    BY <1>1, Starting, SurgeonsAssumption DEF Init, Rest
  <1>3. FileHonest
    BY SurgeonsAssumption DEF Init, FileHonest
  <1>4. QED BY <1>2, <1>3

\* A counter that goes up is persisted, or the failure is counted.
LEMMA BumpHonest ==
  ASSUME Rest, FileHonest, NEW p \in Process, NEW k \in Counter, Bump(p, k)
  PROVE  /\ count' \in [Process -> Counts] /\ error' \in [Process -> 0..MaxErrors]
         /\ file' \in Files
         /\ FileHonest'
  <1>1. count' \in [Process -> Counts]
    BY DEF Rest, Counts, Bump
  <1>2. \A q \in Process \ {p} : count'[q] = count[q]
    BY DEF Rest, Bump
  <1>3. CASE file' = [by |-> p, shows |-> Snapshot(count'[p])] /\ UNCHANGED error
    <2>2. file' \in Files
      BY <1>1, <1>3, SnapshotTyped
    <2>3. FileHonest'
      BY <1>3 DEF FileHonest
    <2>4. QED BY <1>1, <1>3, <2>2, <2>3 DEF Rest
  <1>4. CASE error[p] < MaxErrors /\ error' = [error EXCEPT ![p] = @ + 1] /\ UNCHANGED file
    <2>1. error' \in [Process -> 0..MaxErrors] /\ error'[p] # 0
      BY <1>4, SurgeonsAssumption DEF Rest
    <2>2. \A q \in Process \ {p} : error'[q] = error[q]
      BY <1>4 DEF Rest
    <2>3. FileHonest'
      BY <1>2, <1>4, <2>1, <2>2 DEF FileHonest
    <2>4. QED BY <1>1, <1>4, <2>1, <2>3 DEF Rest
  <1>5. QED BY <1>3, <1>4 DEF Bump

\* Nothing was counted, and nothing written.
LEMMA QuietHonest ==
  ASSUME FileHonest, UNCHANGED <<count, error, file>>
  PROVE  FileHonest'
  BY DEF FileHonest

\* A process that ends takes its counters with it; the file then shows those of no
\* one alive.
LEMMA EndRest ==
  ASSUME Rest, FileHonest, NEW p \in Process, End(p)
  PROVE  Rest' /\ FileHonest'
  <1>1. file' \in Files
    BY DEF Rest, Files, End
  <1>2. Rest'
    BY <1>1, Starting, SurgeonsAssumption DEF Rest, End, Forget
  <1>3. file'.by # p /\ file'.shows = file.shows /\ file'.by \in {file.by, None}
    BY SurgeonsAssumption DEF Rest, Files, End
  <1>4. \A q \in Process \ {p} : count'[q] = count[q] /\ error'[q] = error[q]
    BY DEF Rest, End
  <1>5. FileHonest'
    BY <1>3, <1>4, SurgeonsAssumption DEF FileHonest
  <1>6. QED BY <1>2, <1>5

\* A server that returns keeps its counters.
LEMMA ReturnRest ==
  ASSUME Rest, FileHonest, NEW p \in Process, Return(p)
  PROVE  Rest' /\ FileHonest'
  BY Starting, QuietHonest DEF Rest, Return, Forget

\* So does every way to leave a command.
LEMMA LeaveRest ==
  ASSUME Rest, FileHonest, NEW p \in Process, Leave(p)
  PROVE  Rest' /\ FileHonest'
  BY EndRest, ReturnRest DEF Leave

\* A new command starts with empty replies; counters of a new process start at nothing.
LEMMA CallRest ==
  ASSUME Rest, FileHonest, NEW p \in Process, Launch(p) \/ Call(p)
  PROVE  Rest' /\ FileHonest'
  <1>1. calls' \in [Process -> 0..MaxCalls]
    <2>1. CASE Launch(p)
      BY <2>1 DEF Rest, Launch
    <2>2. CASE Call(p)
      <3>1. calls[p] \in 0..MaxCalls /\ calls[p] < (IF p \in Server THEN MaxCalls ELSE 1)
        BY <2>2 DEF Rest, Call
      <3>2. calls[p] + 1 \in 0..MaxCalls
        BY <3>1, SurgeonsAssumption
      <3>3. QED BY <2>2, <3>2 DEF Rest, Call
    <2>3. QED BY <2>1, <2>2
  <1>2. UNCHANGED <<query, count, error, file>>
    BY DEF Launch, Call
  <1>3. QED BY <1>1, <1>2, QuietHonest DEF Rest, query

\* Settling a surgeon counts one fallback at most, and writes the file with it
\* unless that fails.
LEMMA DiscoverRest ==
  ASSUME Rest, FileHonest, NEW p \in Process, Discover(p)
  PROVE  Rest' /\ FileHonest'
  <1>1. PICK s \in Surgeon : \/ Override(p, s) \/ NoLadder(p, s) \/ Reach(p, s)
                             \/ Refuse(p, s) \/ Exhaust(p, s)
    BY DEF Discover
  <1>2. UNCHANGED <<calls, query>>
    BY <1>1 DEF Override, NoLadder, Reach, Refuse, Exhaust, Settled
  <1>3. Bump(p, "fallback") \/ UNCHANGED <<count, error, file>>
    BY <1>1 DEF Override, NoLadder, Reach, Refuse, Exhaust
  <1>4. "fallback" \in Counter
    BY DEF Counter
  <1>5. QED BY <1>2, <1>3, <1>4, BumpHonest, QuietHonest DEF Rest, query

\* Whoever is next is a surgeon.
LEMMA NextSurgeonRest ==
  ASSUME Rest, NEW p \in Process, NextSurgeon(p)
  PROVE  who' \in [Process -> Surgeon]
  BY Starting DEF Rest, NextSurgeon

\* An attempt adds a reply or counts a failure.
LEMMA QueryRest ==
  ASSUME Rest, FileHonest, NEW p \in Process, Query(p)
  PROVE  Rest' /\ FileHonest'
  <1>1. CASE Answer(p)
    <2>1. vote' \in [Process -> Replies]
      <3>1. CASE UNCHANGED vote
        BY <3>1 DEF Rest
      <3>2. ASSUME NEW v \in Vote, vote' = [vote EXCEPT ![p][pass[p]][who[p]] = v]
            PROVE  vote' \in [Process -> Replies]
        <4>1. v \in Votes
          BY SurgeonsAssumption
        <4>2. [vote[p] EXCEPT ![pass[p]][who[p]] = v] \in Replies
          BY <4>1 DEF Rest, Replies
        <4>3. QED BY <3>2, <4>2 DEF Rest
      <3>3. QED BY <1>1, <3>1, <3>2 DEF Answer
    <2>2. cost' \in [Process -> Costs]
      BY <1>1 DEF Answer, Rest, Costs
    <2>3. ledger' \in [Process -> Nat]
      BY <1>1 DEF Answer, Rest
    <2>4. who' \in [Process -> Surgeon]
      BY <1>1, NextSurgeonRest DEF Answer
    <2>5. QED BY <1>1, <2>1, <2>2, <2>3, <2>4, QuietHonest DEF Answer, Rest
  <1>2. CASE Fail(p)
    <2>1. who' \in [Process -> Surgeon]
      BY <1>2, NextSurgeonRest DEF Fail, Rest
    <2>2. QED BY <1>2, <2>1, QuietHonest DEF Fail, Rest
  <1>3. CASE Unlisted(p)
    <2>1. who' \in [Process -> Surgeon]
      BY <1>3, NextSurgeonRest DEF Unlisted
    <2>2. QED BY <1>3, <2>1, QuietHonest DEF Unlisted, Rest
  <1>4. CASE Untracked(p) \/ Unparsed(p)
    <2>0. PICK n \in {0, 1} : Raise(p, n)
      BY <1>4 DEF Untracked, Unparsed
    <2>1. CASE pass[p] = "negation"
      <3>1. "skipped" \in Verdict
        BY DEF Verdict
      <3>2. result' \in [Process -> Results]
        BY <2>0, <2>1, <3>1 DEF Raise, Rest, Results
      <3>3. ledger' \in [Process -> Nat]
        BY <2>0, <2>1 DEF Raise, Rest
      <3>4. QED BY <2>0, <2>1, <3>2, <3>3, QuietHonest DEF Raise, Rest
    <2>2. CASE pass[p] # "negation"
      BY <2>0, <2>2, LeaveRest DEF Raise
    <2>3. QED BY <2>1, <2>2
  <1>5. QED BY <1>1, <1>2, <1>3, <1>4 DEF Query

\* Judging gives a result and may count a collapse or a verdict of the gate.
LEMMA FinishRest ==
  ASSUME Rest, FileHonest, NEW p \in Process, Finish(p)
  PROVE  Rest' /\ FileHonest'
  <1>1. CASE Consult(p)
    <2>1. result' \in [Process -> Results]
      <3>1. cost[p]["claim"] \in Nat
        BY Starting DEF Rest, Costs
      <3>2. QED BY <1>1, <3>1 DEF Consult, Rest, Results
    <2>2. QED BY <1>1, <2>1, QuietHonest DEF Consult, Rest
  <1>2. CASE Canary(p)
    <2>1. PICK identical \in BOOLEAN :
            result' = IF pass[p] = "negation" THEN result
                      ELSE [result EXCEPT ![p].yellow = Yellow(use[p], cfg[p], vote[p][pass[p]],
                                                               identical),
                                          ![p].total = cost[p]["claim"]]
      BY <1>2 DEF Canary
    <2>2. Yellow(use[p], cfg[p], vote[p][pass[p]], identical) \in BOOLEAN
      BY DEF Yellow
    <2>3. cost[p]["claim"] \in Nat
      BY Starting DEF Rest, Costs
    <2>4. result' \in [Process -> Results]
      BY <2>1, <2>2, <2>3 DEF Rest, Results
    <2>5. Bump(p, "diversity") /\ UNCHANGED <<calls, who, pass, vote, cost, ledger>>
      BY <1>2 DEF Canary
    <2>6. QED BY <2>4, <2>5, BumpHonest DEF Counter, Rest
  <1>3. CASE Negate(p)
    BY <1>3, Starting, QuietHonest DEF Negate, Rest
  <1>4. CASE SkipGate(p)
    <2>1. "skipped" \in Verdict /\ "gate" \in Counter
      BY DEF Verdict, Counter
    <2>2. result' \in [Process -> Results]
      BY <1>4, <2>1 DEF SkipGate, Rest, Results
    <2>3. count' \in [Process -> Counts]
      BY <1>4, <2>1 DEF SkipGate, Rest, Counts
    <2>4. \A q \in Process : Snapshot(count'[q]) = Snapshot(count[q])
      BY <1>4, <2>1 DEF SkipGate, Rest, Counts, Snapshot
    <2>5. FileHonest'
      BY <1>4, <2>4 DEF SkipGate, FileHonest
    <2>6. QED BY <1>4, <2>2, <2>3, <2>5 DEF SkipGate, Rest
  <1>5. CASE ApplyGate(p)
    <2>1. Gate(vote[p]) \in Verdict
      BY DEF Gate, Verdict
    <2>2. result[p].total + cost[p]["negation"] \in Nat
      BY Starting DEF Rest, Results, Costs
    <2>3. result' \in [Process -> Results]
      BY <1>5, <2>1, <2>2 DEF ApplyGate, Rest, Results
    <2>4. Bump(p, "gate") /\ UNCHANGED <<calls, who, pass, vote, cost, ledger>>
      BY <1>5 DEF ApplyGate
    <2>5. QED BY <2>3, <2>4, BumpHonest DEF Counter, Rest
  <1>6. QED BY <1>1, <1>2, <1>3, <1>4, <1>5 DEF Finish

\* Every step keeps the types, and the file honest.
LEMMA NextRest ==
  ASSUME Rest, FileHonest, [Next]_vars
  PROVE  Rest' /\ FileHonest'
  <1>1. CASE Next
    <2>1. PICK p \in Process : Launch(p) \/ Call(p) \/ Run(p) \/ Die(p)
      BY <1>1 DEF Next
    <2>2. CASE ApplyFlags(p)
      BY <2>2, QuietHonest DEF ApplyFlags, Rest, query
    <2>3. Die(p) \/ Done(p) => End(p) \/ Leave(p)
      BY DEF Die, Done
    <2>4. QED
      BY <2>1, <2>2, <2>3, CallRest, DiscoverRest, QueryRest, FinishRest, LeaveRest,
         EndRest DEF Run
  <1>2. CASE UNCHANGED vars
    BY <1>2, QuietHonest DEF vars, query, Rest
  <1>3. QED BY <1>1, <1>2

\* The state of every command and of the counter file is typed.
THEOREM TypeCorrect == Spec => []TypeOK
  <1>1. IndInv /\ Rest => TypeOK
    BY DEF IndInv, Typed, Rest, Replies, Costs, Results, Counts, Files, TypeOK
  <1>2. QED BY <1>1, InitInv, NextInv, RestAtStart, NextRest, PTL DEF Spec

\* However processes interleave, end and fail to write: the file shows all
\* that its last writer has counted, or a write of that process has failed.
THEOREM FileHonestAlways == Spec => []FileHonest
  BY RestAtStart, NextRest, PTL DEF Spec
-----------------------------------------------------------------------------
(* Results *)

Before == {"off", "idle", "neuro", "cardio", "flags"}

\* Nothing is left of the call before.
Blank(p) ==
  /\ pass[p] = "claim" /\ cost[p] = NoCost /\ ledger[p] = 0 /\ result[p] = NoResult

SameFlagged(p) ==
  use[p].canary /\ cfg[p]["cardio"] = cfg[p]["neuro"] => result[p].yellow

\* The ledger has been told what the passes cost so far; the claim's pass has
\* a result once it is judged, and only a gated consensus goes on from there.
Open(p) ==
  /\ ledger[p] = cost[p]["claim"] + cost[p]["negation"]
  /\ result[p].verdict = "none"
  /\ use[p].job = "probe" => pc[p] = "ask" /\ ledger[p] = 0
  /\ IF pass[p] = "claim" THEN cost[p]["negation"] = 0 ELSE use[p].job = "gated"
  /\ IF pass[p] = "claim" /\ pc[p] # "gate" THEN result[p] = NoResult
     ELSE use[p].job = "gated" /\ result[p].total = cost[p]["claim"] /\ SameFlagged(p)

Heard(p) == {s \in Surgeon : \A q \in Pass : vote[p][q][s] # "unavailable"}

Backed(p) ==
  /\ result[p].total <= ledger[p]
  /\ result[p].verdict # "skipped" => result[p].total = ledger[p]
  /\ result[p].verdict \in {"genuine", "sycophantic"} => Heard(p) = Surgeon
  /\ result[p].verdict = "single" => Heard(p) # {}
  /\ use[p].job \in {"consensus", "gated"} => SameFlagged(p)

Fit(p) ==
  /\ pc[p] \in Before => Blank(p)
  /\ pc[p] \in {"ask", "judge", "gate"} => Open(p)
  /\ pc[p] = "done" => Backed(p)

\* A step of p leaves what the others have as it is.
Apart(p) ==
  \A q \in Process \ {p} :
    /\ pc'[q] = pc[q] /\ use'[q] = use[q] /\ cfg'[q] = cfg[q] /\ pass'[q] = pass[q]
    /\ vote'[q] = vote[q] /\ cost'[q] = cost[q] /\ ledger'[q] = ledger[q]
    /\ result'[q] = result[q]

AllFit == Typed /\ Rest /\ \A p \in Process : Fit(p)

\* When one process moves apart from the others and fits, all fit.
LEMMA FitMoves ==
  ASSUME AllFit, Typed', Rest', NEW p \in Process, Apart(p), Fit(p)'
  PROVE  AllFit'
  <1>1. ASSUME NEW q \in Process PROVE Fit(q)'
    <2>1. CASE q = p
      BY <2>1
    <2>2. CASE q # p
      BY <2>2 DEF AllFit, Apart, Fit, Blank, Open, Backed, SameFlagged, Heard
    <2>3. QED BY <2>1, <2>2
  <1>2. QED BY <1>1 DEF AllFit

\* A process whose call is forgotten, or has not yet been put to anyone.
LEMMA BlankFits ==
  ASSUME NEW p \in Process, pc[p] \in Before, Blank(p)
  PROVE  Fit(p)
  BY DEF Fit, Before

\* A process that leaves its command has nothing to answer for.
LEMMA LeaveFits ==
  ASSUME AllFit, Typed', Rest', NEW p \in Process, Leave(p) \/ End(p)
  PROVE  AllFit'
  <1>1. Apart(p)
    BY DEF AllFit, Typed, Rest, Leave, Return, End, Goto, Forget, Apart
  <1>2. pc'[p] \in {"off", "idle"}
    BY DEF AllFit, Typed, Leave, Return, End, Goto
  <1>3. Blank(p)'
    BY DEF AllFit, Rest, Leave, Return, End, Forget, Blank
  <1>4. Fit(p)'
    BY <1>2, <1>3 DEF Fit, Before
  <1>5. QED BY <1>1, <1>4, FitMoves

\* Launching, calling and settling providers cost nothing.
LEMMA EarlyFits ==
  ASSUME AllFit, Typed', Rest', NEW p \in Process,
         Launch(p) \/ Call(p) \/ Discover(p) \/ ApplyFlags(p)
  PROVE  AllFit'
  <1>1. UNCHANGED query /\ pc[p] \in Before /\ pc'[p] \in Before \cup {"ask"}
        /\ (pc'[p] = "ask" => UNCHANGED use)
    <2>1. CASE Launch(p) \/ Call(p) \/ ApplyFlags(p)
      BY <2>1 DEF AllFit, Typed, Launch, Call, ApplyFlags, Goto, Before
    <2>2. CASE Discover(p)
      <3>1. PICK s \in Surgeon : \/ Override(p, s) \/ NoLadder(p, s) \/ Reach(p, s)
                                 \/ Refuse(p, s) \/ Exhaust(p, s)
        BY <2>2 DEF Discover
      <3>2. pc[p] = s /\ (pc' = pc \/ Goto(p, IF s = "neuro" THEN "cardio" ELSE "flags"))
            /\ UNCHANGED query
        BY <3>1 DEF Override, NoLadder, Reach, Refuse, Exhaust, Settled
      <3>3. QED BY <3>2 DEF AllFit, Typed, Goto, Surgeon, Before
    <2>3. QED BY <2>1, <2>2
  <1>2. Apart(p)
    <2>1. \A q \in Process \ {p} : pc'[q] = pc[q] /\ use'[q] = use[q] /\ cfg'[q] = cfg[q]
      <3>1. CASE Launch(p) \/ Call(p) \/ ApplyFlags(p)
        BY <3>1 DEF AllFit, Typed, Launch, Call, ApplyFlags, Goto
      <3>2. CASE Discover(p)
        BY <3>2 DEF AllFit, Typed, Discover, Override, NoLadder, Reach, Refuse, Exhaust,
             Settled, Goto
      <3>3. QED BY <3>1, <3>2
    <2>2. QED BY <1>1, <2>1 DEF Apart, query
  <1>3. Blank(p) /\ Blank(p)'
    BY <1>1 DEF AllFit, Fit, Blank, query
  <1>4. Fit(p)'
    <2>1. CASE pc'[p] \in Before
      BY <1>3, <2>1 DEF Fit, Before
    <2>2. CASE pc'[p] = "ask"
      BY <1>3, <2>2 DEF Fit, Before, Blank, Open, NoCost, NoResult, Pass
    <2>3. QED BY <1>1, <2>1, <2>2
  <1>5. QED BY <1>2, <1>4, FitMoves

-----------------------------------------------------------------------------
\* A surgeon is through with.  Nothing else of its process changes but
\* what it is paid, which is told to the ledger.
LEMMA NextSurgeonFits ==
  ASSUME AllFit, Typed', Rest', NEW p \in Process, pc[p] = "ask", NextSurgeon(p),
         UNCHANGED <<use, cfg, pass, result>>, NEW n \in {0, 1},
         n = 1 => use[p].job # "probe",
         cost' = [cost EXCEPT ![p][pass[p]] = @ + n],
         ledger' = [ledger EXCEPT ![p] = @ + n],
         \A q \in Process \ {p} : vote'[q] = vote[q]
  PROVE  AllFit'
  <1>1. /\ pc'[p] = IF who[p] = "cardio" THEN "ask"
                    ELSE IF use[p].job = "probe" THEN "done" ELSE "judge"
        /\ \A q \in Process \ {p} : pc'[q] = pc[q]
    BY DEF AllFit, Typed, NextSurgeon, Goto
  <1>2. Apart(p)
    BY <1>1 DEF AllFit, Rest, Apart
  <1>3. /\ pass[p] \in Pass /\ cost[p] \in [Pass -> Nat] /\ ledger[p] \in Nat
        /\ cost'[p] = [cost[p] EXCEPT ![pass[p]] = @ + n] /\ ledger'[p] = ledger[p] + n
        /\ use'[p] = use[p] /\ cfg'[p] = cfg[p] /\ pass'[p] = pass[p]
        /\ result'[p] = result[p]
    BY DEF AllFit, Rest, Costs
  <1>4. Open(p)
    BY DEF AllFit, Fit
  <1>5. /\ ledger'[p] = cost'[p]["claim"] + cost'[p]["negation"]
        /\ use[p].job = "probe" => ledger'[p] = 0
        /\ IF pass[p] = "claim" THEN cost'[p]["negation"] = 0
           ELSE cost'[p]["claim"] = cost[p]["claim"]
    BY <1>3, <1>4 DEF Open, Pass
  <1>6. CASE use[p].job = "probe" /\ pc'[p] = "done"
    <2>1. result[p] = NoResult
      BY <1>4, <1>6 DEF Open
    <2>2. Backed(p)'
      BY <1>3, <1>5, <1>6, <2>1 DEF Backed, NoResult
    <2>3. QED BY <1>2, <1>6, <2>2, FitMoves DEF Fit, Before
  <1>7. CASE pc'[p] = "ask" \/ (pc'[p] = "judge" /\ use[p].job # "probe")
    <2>1. Open(p)'
      BY <1>3, <1>4, <1>5, <1>7 DEF Open, SameFlagged
    <2>2. QED BY <1>2, <1>7, <2>1, FitMoves DEF Fit, Before
  <1>8. \/ use[p].job = "probe" /\ pc'[p] = "done"
        \/ pc'[p] = "ask"
        \/ pc'[p] = "judge" /\ use[p].job # "probe"
    BY <1>1
  <1>9. QED BY <1>6, <1>7, <1>8

\* What an attempt costs enters the total of the call and the ledger together, or
\* neither.
LEMMA QueryFits ==
  ASSUME AllFit, Typed', Rest', NEW p \in Process, Query(p)
  PROVE  AllFit'
  <1>0. cost = [cost EXCEPT ![p][pass[p]] = @ + 0] /\ ledger = [ledger EXCEPT ![p] = @ + 0]
    BY DEF AllFit, Rest, Costs
  <1>1. CASE Answer(p)
    <2> DEFINE n == IF Paid(p) THEN 1 ELSE 0
    <2>1. n \in {0, 1} /\ (n = 1 => use[p].job # "probe")
      BY DEF Paid
    <2>2. \A q \in Process \ {p} : vote'[q] = vote[q]
      BY <1>1 DEF AllFit, Rest, Answer
    <2>3. cost' = [cost EXCEPT ![p][pass[p]] = @ + n] /\ ledger' = [ledger EXCEPT ![p] = @ + n]
          /\ pc[p] = "ask" /\ NextSurgeon(p) /\ UNCHANGED <<use, cfg, pass, result>>
      BY <1>1 DEF Answer
    <2> HIDE DEF n
    <2>4. QED BY <2>1, <2>2, <2>3, NextSurgeonFits
  <1>2. CASE Fail(p)
    <2>1. CASE at[p] < Len(Attempts(p))
      <3>1. UNCHANGED <<pc, use, cfg, pass, vote, cost, ledger, result>>
        BY <1>2, <2>1 DEF Fail
      <3>2. Apart(p) /\ Fit(p)'
        BY <3>1 DEF AllFit, Apart, Fit, Blank, Open, Backed, SameFlagged, Heard
      <3>3. QED BY <3>2, FitMoves
    <2>2. CASE ~(at[p] < Len(Attempts(p)))
      BY <1>0, <1>2, <2>2, NextSurgeonFits DEF Fail
    <2>3. QED BY <2>1, <2>2
  <1>3. CASE Unlisted(p)
    BY <1>0, <1>3, NextSurgeonFits DEF Unlisted
  <1>4. CASE Untracked(p) \/ Unparsed(p)
    <2>0. PICK n \in {0, 1} : Raise(p, n)
      BY <1>4 DEF Untracked, Unparsed
    <2>1. CASE pass[p] # "negation"
      BY <2>0, <2>1, LeaveFits DEF Raise
    <2>2. CASE pass[p] = "negation"
      <3>1. /\ pc[p] = "ask" /\ Goto(p, "done")
            /\ result' = [result EXCEPT ![p].verdict = "skipped"]
            /\ ledger' = [ledger EXCEPT ![p] = @ + n]
            /\ UNCHANGED <<use, cfg, pass, vote, cost>>
        BY <1>4, <2>0, <2>2 DEF Untracked, Unparsed, Raise
      <3>2. /\ Open(p) /\ pc'[p] = "done" /\ cost[p] \in [Pass -> Nat]
            /\ ledger[p] \in Nat /\ ledger'[p] = ledger[p] + n
        BY <3>1 DEF AllFit, Fit, Typed, Rest, Costs, Goto
      <3>3. result'[p] = [result[p] EXCEPT !.verdict = "skipped"] /\ result[p] \in Results
        BY <3>1 DEF AllFit, Rest
      <3>4. Apart(p)
        BY <3>1 DEF AllFit, Typed, Rest, Goto, Apart
      <3>5. Backed(p)'
        BY <2>2, <3>1, <3>2, <3>3 DEF Backed, Open, SameFlagged, Results, Pass
      <3>6. QED BY <3>2, <3>4, <3>5, FitMoves DEF Fit, Before
    <2>3. QED BY <2>1, <2>2
  <1>5. QED BY <1>1, <1>2, <1>3, <1>4 DEF Query

-----------------------------------------------------------------------------
\* Two surgeons of one provider and model are collapsed, whatever they reply.
LEMMA CollapseFlagged ==
  ASSUME NEW u \in Uses, u.canary, NEW c, NEW v, NEW i \in BOOLEAN, c["cardio"] = c["neuro"]
  PROVE  Yellow(u, c, v, i) = TRUE
  BY DEF Yellow

\* The gate's verdict is backed by surgeons it heard in both passes.
LEMMA GateHeard ==
  ASSUME NEW v, NEW H, H = {s \in Surgeon : \A q \in Pass : v[q][s] # "unavailable"}
  PROVE  /\ Gate(v) \in {"genuine", "sycophantic"} => H = Surgeon
         /\ Gate(v) = "single" => H # {}
         /\ Gate(v) # "skipped"
  <1>1. ASSUME NEW s \in Surgeon, Flipped(v, s) PROVE s \in H
    <2>1. v["claim"][s] \in {"agree", "disagree"} /\ v["negation"][s] \in {"agree", "disagree"}
      BY <1>1 DEF Flipped
    <2>2. QED BY <2>1 DEF Pass
  <1>2. Gate(v) = "sycophantic" => \A q \in Pass, s \in Surgeon : v[q][s] = "agree"
    BY DEF Gate
  <1>3. Gate(v) = "genuine" => \A s \in Surgeon : Flipped(v, s)
    BY DEF Gate
  <1>4. Gate(v) = "single" => \E s \in Surgeon : Flipped(v, s)
    BY DEF Gate
  <1>5. Gate(v) # "skipped"
    BY DEF Gate
  <1>6. Gate(v) = "sycophantic" => H = Surgeon
    BY <1>2
  <1>7. QED BY <1>1, <1>3, <1>4, <1>5, <1>6

\* A consultation reports what was paid; a consensus also flags a shared provider.
LEMMA JudgeFits ==
  ASSUME AllFit, Typed', Rest', NEW p \in Process, Consult(p) \/ Canary(p)
  PROVE  AllFit'
  <1>1. /\ Open(p) /\ pc[p] = "judge" /\ cost[p] \in [Pass -> Nat] /\ result[p] \in Results
        /\ UNCHANGED <<use, cfg, pass, vote, cost, ledger>>
    BY DEF AllFit, Fit, Rest, Costs, Consult, Canary
  <1>2. Apart(p)
    <2>1. \A q \in Process \ {p} : pc'[q] = pc[q]
      BY DEF AllFit, Typed, Consult, Canary, Goto
    <2>2. \A q \in Process \ {p} : result'[q] = result[q]
      BY DEF AllFit, Rest, Consult, Canary
    <2>3. QED BY <1>1, <2>1, <2>2 DEF Apart
  <1>3. CASE Consult(p)
    <2>1. pc'[p] = "done" /\ result'[p] = [result[p] EXCEPT !.total = cost[p]["claim"]]
          /\ use[p].job = "consult"
      BY <1>3 DEF Consult, AllFit, Typed, Rest, Goto
    <2>2. pass[p] = "claim" /\ result[p] = NoResult
      BY <1>1, <2>1 DEF Open
    <2>3. Backed(p)'
      BY <1>1, <2>1, <2>2 DEF Backed, Open, NoResult, Pass
    <2>4. QED BY <1>2, <2>1, <2>3, FitMoves DEF Fit, Before
  <1>4. CASE Canary(p)
    <2>1. PICK i \in BOOLEAN :
            result' = IF pass[p] = "negation" THEN result
                      ELSE [result EXCEPT ![p].yellow = Yellow(use[p], cfg[p],
                                                               vote[p][pass[p]], i),
                                          ![p].total = cost[p]["claim"]]
      BY <1>4 DEF Canary
    <2>2. /\ use[p].job # "consult" /\ use[p].job # "probe" /\ use[p] \in Uses
          /\ pc'[p] = IF use[p].job = "gated" THEN "gate" ELSE "done"
      BY <1>1, <1>4 DEF Canary, Open, AllFit, Typed, Goto
    <2>3. use[p].job \in {"consensus", "gated"}
      BY <2>2 DEF Uses
    <2>4. /\ result'[p].total = cost[p]["claim"] /\ result'[p].verdict = "none"
          /\ use[p].canary /\ cfg[p]["cardio"] = cfg[p]["neuro"] => result'[p].yellow
      <3>1. CASE pass[p] = "negation"
        BY <1>1, <2>1, <3>1 DEF Open, SameFlagged
      <3>2. CASE pass[p] # "negation"
        <4> DEFINE y == Yellow(use[p], cfg[p], vote[p][pass[p]], i)
        <4>1. result'[p] = [result[p] EXCEPT !.yellow = y, !.total = cost[p]["claim"]]
          BY <2>1, <3>2 DEF AllFit, Rest
        <4>2. use[p].canary /\ cfg[p]["cardio"] = cfg[p]["neuro"] => y = TRUE
          BY <2>2, CollapseFlagged
        <4> HIDE DEF y
        <4>3. QED BY <1>1, <4>1, <4>2 DEF Open, Results
      <3>3. QED BY <3>1, <3>2
    <2>5. CASE use[p].job = "gated"
      <3>1. Open(p)'
        BY <1>1, <2>2, <2>4, <2>5 DEF Open, SameFlagged
      <3>2. QED BY <1>2, <2>2, <2>5, <3>1, FitMoves DEF Fit, Before
    <2>6. CASE use[p].job = "consensus"
      <3>1. cost[p]["negation"] = 0
        BY <1>1, <2>6 DEF Open
      <3>2. Backed(p)'
        BY <1>1, <2>4, <2>6, <3>1 DEF Backed, Open, SameFlagged, Pass
      <3>3. QED BY <1>2, <2>2, <2>6, <3>2, FitMoves DEF Fit, Before
    <2>7. QED BY <2>3, <2>5, <2>6
  <1>5. QED BY <1>3, <1>4

\* The gate asks again, skips, or judges by both passes and reports what both cost.
LEMMA GateFits ==
  ASSUME AllFit, Typed', Rest', NEW p \in Process, Negate(p) \/ SkipGate(p) \/ ApplyGate(p)
  PROVE  AllFit'
  <1>1. /\ Open(p) /\ pc[p] = "gate" /\ cost[p] \in [Pass -> Nat] /\ result[p] \in Results
        /\ use[p].job = "gated" /\ result[p].total = cost[p]["claim"] /\ SameFlagged(p)
    BY DEF AllFit, Fit, Rest, Costs, Open, Negate, SkipGate, ApplyGate
  <1>2. Apart(p)
    BY DEF AllFit, Typed, Rest, Negate, SkipGate, ApplyGate, Goto, Apart
  <1>3. CASE Negate(p)
    <2>1. /\ pc'[p] = "ask" /\ pass'[p] = "negation"
          /\ UNCHANGED <<use, cfg, vote, cost, ledger, result>>
      BY <1>3 DEF Negate, AllFit, Typed, Rest, Goto
    <2>2. Open(p)'
      BY <1>1, <2>1 DEF Open, SameFlagged
    <2>3. QED BY <1>2, <2>1, <2>2, FitMoves DEF Fit, Before
  <1>4. CASE SkipGate(p)
    <2>1. /\ pc'[p] = "done" /\ result'[p] = [result[p] EXCEPT !.verdict = "skipped"]
          /\ UNCHANGED <<use, cfg, vote, cost, ledger>>
      BY <1>4 DEF SkipGate, AllFit, Typed, Rest, Goto
    <2>2. Backed(p)'
      BY <1>1, <2>1 DEF Backed, Open, SameFlagged, Results, Pass
    <2>3. QED BY <1>2, <2>1, <2>2, FitMoves DEF Fit, Before
  <1>5. CASE ApplyGate(p)
    <2>1. /\ pc'[p] = "done" /\ UNCHANGED <<use, cfg, vote, cost, ledger>>
          /\ result'[p] = [result[p] EXCEPT !.verdict = Gate(vote[p]),
                                            !.total = @ + cost[p]["negation"]]
      BY <1>5 DEF ApplyGate, AllFit, Typed, Rest, Goto
    <2>2. /\ result'[p].verdict = Gate(vote[p]) /\ result'[p].yellow = result[p].yellow
          /\ result'[p].total = ledger[p]
      BY <1>1, <2>1 DEF Open, Results
    <2>3. ledger[p] \in Nat
      BY DEF AllFit, Rest
    <2>4. Backed(p)'
      <3>1. Heard(p)' = Heard(p)
        BY <2>1 DEF Heard
      <3>2. /\ Gate(vote[p]) \in {"genuine", "sycophantic"} => Heard(p) = Surgeon
            /\ Gate(vote[p]) = "single" => Heard(p) # {}
        BY GateHeard DEF Heard
      <3>3. QED BY <1>1, <2>1, <2>2, <2>3, <3>1, <3>2 DEF Backed, SameFlagged
    <2>5. QED BY <1>2, <2>1, <2>4, FitMoves DEF Fit, Before
  <1>6. QED BY <1>3, <1>4, <1>5

\* Every step leaves each process fitting its stage.
LEMMA NextFits ==
  ASSUME AllFit, Typed', Rest', [Next]_vars
  PROVE  AllFit'
  <1>1. CASE Next
    <2>1. PICK p \in Process : Launch(p) \/ Call(p) \/ Run(p) \/ Die(p)
      BY <1>1 DEF Next
    <2>2. Die(p) \/ Done(p) => End(p) \/ Leave(p)
      BY DEF Die, Done
    <2>3. QED
      BY <2>1, <2>2, EarlyFits, QueryFits, JudgeFits, GateFits, LeaveFits DEF Run, Finish
  <1>2. CASE UNCHANGED vars
    BY <1>2 DEF vars, query, AllFit, Fit, Blank, Open, Backed, SameFlagged, Heard
  <1>3. QED BY <1>1, <1>2

\* What a finished command reports, it was told, was charged, and flags: for
\* any number of processes, calls and retries, whatever the surgeons reply.
THEOREM ResultBackedAlways == Spec => []ResultBacked
  <1>1. ASSUME Init PROVE AllFit
    <2>1. Typed /\ Rest
      BY <1>1, InitInv, RestAtStart DEF IndInv
    <2>2. \A p \in Process : Fit(p)
      BY <1>1 DEF Init, Fit, Blank, Before
    <2>3. QED BY <2>1, <2>2 DEF AllFit
  <1>2. AllFit => ResultBacked
    BY DEF AllFit, Fit, Backed, SameFlagged, Heard, ResultBacked
  <1>3. IndInv => Typed
    BY DEF IndInv
  <1>4. QED
    BY <1>1, <1>2, <1>3, InitInv, NextInv, RestAtStart, NextRest, NextFits, PTL DEF Spec
=============================================================================
