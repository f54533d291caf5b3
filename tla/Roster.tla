------------------------------- MODULE Roster -------------------------------
(***************************************************************************)
(* orchestration/roster.py: who reviews.  The caller is recognised by what *)
(* its environment shows of it, the others are reached by a tool on the    *)
(* PATH or by an API key, and pick_reviewers chooses among them.           *)
(*                                                                         *)
(* is_installed looks for a tool once and keeps the answer; keys and marks *)
(* are read again by every call.  Marks, Requests and Moves bound the      *)
(* model: what the environment may show, what may be asked for, and how    *)
(* often tools, keys or the caller change between two calls.               *)
(***************************************************************************)
EXTENDS FiniteSets, Functions, Sublists

CONSTANTS None, Marks, Requests, Moves

VARIABLES marks,    \* the tools whose env_keys or cmd_keys match
          path,     \* the tools on the PATH
          keys,     \* the reviewers whose auth_env is set
          request,  \* [by : "priority" or "diversity" or "only", count, ids]
          known,    \* _INSTALLED_CACHE: what the first call found, or None
          picks,    \* the last answer, or None
          missing,  \* the reviewers or families it names as missing
          moves

vars == <<marks, path, keys, request, known, picks, missing, moves>>

ROSTER == <<"codex", "gemini", "opencode", "aider", "copilot", "claude">>

Member == Range(ROSTER)

\* The reviewers with an api_fallback.
Api == {"codex", "gemini", "claude"}

Family(id) ==
  CASE id \in {"codex", "copilot"}  -> "openai"
    [] id = "gemini"               -> "google"
    [] id = "claude"               -> "anthropic"
    [] id \in {"opencode", "aider"} -> "oss"

TARGET_FAMILIES == <<"openai", "google">>

TypeOK ==
  /\ marks \in Marks /\ request \in Requests
  /\ path \subseteq Member /\ keys \subseteq Api
  /\ known = None \/ known \subseteq Member
  /\ picks = None \/ Range(picks) \subseteq Member \X {"cli", "api"}
  /\ missing \subseteq Member \cup Range(TARGET_FAMILIES)
  /\ moves \in 0..Moves

Init ==
  /\ marks \in Marks
  /\ path \in SUBSET Member
  /\ keys \in SUBSET Api
  /\ request \in Requests
  /\ known = None /\ picks = None /\ missing = {} /\ moves = 0

-----------------------------------------------------------------------------
First(list) == IF list = <<>> THEN None ELSE Head(list)

detect_self == First(Only(ROSTER, marks))

\* The tools found on the PATH, by the first call that looked.
Installed == IF known = None THEN path ELSE known

\* The reachable.
Able == Installed \cup keys

Eligible == Only(ROSTER, Able \ {detect_self})

Among(families) == Only(Eligible, {id \in Member : Family(id) \in families})

Families == {Family(id) : id \in Member}

CallerFamily == IF detect_self = None THEN {} ELSE {Family(detect_self)}

UpTo(n, list) == SubSeq(list, 1, IF n < Len(list) THEN n ELSE Len(list))

\* Mutant: whoever stood in for one lab is picked again for the next.
More_Again(list, ids) == UpTo(1, list)

\* The first of a list that is not among those picked: none, or one.
More(list, ids) == UpTo(1, Only(list, Member \ Range(ids)))

\* One of _TARGET_FAMILIES: a reviewer of that family, or a stand-in.
Slot(family, ids) ==
  CASE {family} = CallerFamily -> More(Among(Families \ CallerFamily), ids)
    [] {family} # CallerFamily /\ Among({family}) # <<>> -> More(Among({family}), ids)
    [] {family} # CallerFamily /\ Among({family}) = <<>> ->
         More(Among(Families \ (CallerFamily \cup Range(TARGET_FAMILIES))), ids)

\* ... which is missing if nobody, or nobody of it, has been added.
SlotMissing(family, ids) ==
  Slot(family, ids) = <<>> \/ ({family} # CallerFamily /\ Among({family}) = <<>>)

OpenAi == Slot("openai", <<>>)
Google == Slot("google", OpenAi)

\* _pick_diversity fills up to two from whoever is left.
Diverse ==
  LET two  == OpenAi \o Google
      rest == Only(Eligible, Member \ Range(two))
  IN  UpTo(2, two \o rest)

Chosen ==
  CASE request.by = "only"      -> Only(request.ids, Able)
    [] request.by = "diversity" -> Diverse
    [] request.by = "priority"  -> UpTo(request.count, Eligible)

Absent ==
  CASE request.by = "only"      -> (Range(request.ids) \cap Member) \ Able
    [] request.by = "diversity" ->
         {f \in {"openai"} : SlotMissing(f, <<>>)} \cup {f \in {"google"} : SlotMissing(f, OpenAi)}
    [] request.by = "priority"  -> Member \ ({detect_self} \cup Able)

\* _annotate.
Source(id) == IF id \notin Installed /\ id \in keys THEN "api" ELSE "cli"

pick_reviewers ==
  /\ picks = None
  /\ picks' = [i \in DOMAIN Chosen |-> <<Chosen[i], Source(Chosen[i])>>]
  /\ missing' = Absent
  /\ known' = Installed
  /\ UNCHANGED <<marks, path, keys, request, moves>>

Toggle(id, set) == IF id \in set THEN set \ {id} ELSE set \cup {id}

\* Between two calls of a process a tool is installed or removed, or the
\* environment has another key or shows another caller.
Move ==
  /\ picks # None
  /\ moves < Moves
  /\ moves' = moves + 1
  /\ \/ (\E id \in Member : path' = Toggle(id, path)) /\ UNCHANGED <<marks, keys>>
     \/ (\E id \in Api : keys' = Toggle(id, keys)) /\ UNCHANGED <<marks, path>>
     \/ marks' \in Marks \ {marks} /\ UNCHANGED <<path, keys>>
  /\ picks' = None /\ missing' = {}
  /\ UNCHANGED <<request, known>>

Next == pick_reviewers \/ Move

Spec == Init /\ [][Next]_vars

-----------------------------------------------------------------------------
(* Properties *)

Ids == {picks[i][1] : i \in DOMAIN picks}

AbleNow == {id \in Member \ {detect_self} : id \in known \cup keys}

\* Those of them whose lineage is not the caller's.
OtherLabs == {id \in AbleNow : Family(id) \notin CallerFamily}

\* Whoever is asked for by strategy, nobody reviews their own work or twice, and
\* fewer are picked than were wanted only if all do who could and are of another
\* lab than the caller's.  Of those labs nobody is passed over by priority, and by
\* diversity there is one of them if there can be, and no target lab that could
\* review is passed over for a stand-in, and one without a reviewer is reported.
\* That the others picked may be of the caller's lab, and by name even the caller,
\* is what the code allows and its docstring does not.  A tool is only called that
\* was there when the process first looked, also when a later call has other keys
\* or another caller, and tools that have come or gone since do not change that.
PickSound ==
  picks # None =>
    /\ \A i \in DOMAIN picks : picks[i][2] = "cli" <=> picks[i][1] \in known
    /\ Ids \subseteq known \cup keys
    /\ request.by # "only" =>
         LET wanted == IF request.by = "diversity" THEN 2 ELSE request.count
         IN  /\ Ids \subseteq AbleNow
             /\ Cardinality(Ids) = Len(picks) /\ Len(picks) <= wanted
             /\ Len(picks) < wanted => OtherLabs \subseteq Ids
    /\ request.by = "priority" =>
         \A i, j \in DOMAIN ROSTER :
           i < j /\ ROSTER[j] \in Ids /\ ROSTER[i] \in OtherLabs => ROSTER[i] \in Ids
    /\ request.by = "diversity" =>
         /\ OtherLabs # {} => Ids \cap OtherLabs # {}
         /\ \A family \in Range(TARGET_FAMILIES) \ CallerFamily :
              IF \E id \in AbleNow : Family(id) = family
              THEN \E id \in Ids : Family(id) = family
              ELSE family \in missing
=============================================================================
