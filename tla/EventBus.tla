------------------------------ MODULE EventBus ------------------------------
(***************************************************************************)
(* ide/event_bus.py on one thread, with what startup.py attaches to it:    *)
(* the skill suggestion engine, which emits from inside a handler, the     *)
(* bridge that writes suggestions.json and the JSONL file; and the streams *)
(* of mcp/event_tools.py and ide/bridges/mcp_tools.py, which agree but for *)
(* the bridge's time to live.  The WebSocket transport, which nothing in   *)
(* the repository starts, is WebSockets.                                   *)
(*                                                                         *)
(* Events are numbered as they are emitted.  A stream subscribes at most   *)
(* once in a run of the model, with one of Patterns; Onces are the keys    *)
(* once handlers may have.  MaxEvents bounds the events published and      *)
(* MaxLost the lines that are not written, and MaxLines is the size at     *)
(* which the file is rotated.                                              *)
(***************************************************************************)
EXTENDS FiniteSets, Functions, Sublists

CONSTANTS Stream, Patterns, Onces, BufferSize, MaxEvents, MaxLines, MaxLost

VARIABLES attached,  \* which of "engine" and "hooks" listen
          handlers,  \* _handlers in the order of its keys: [pattern, who]
          once,      \* the keys of _once_handlers
          kind,      \* of each event: its type
          buffer,    \* the ring buffer
          dropped,   \* events_dropped
          frames,    \* the calls of emit that have not returned: [id, left, at]
          throttled, \* the engine has made a suggestion not long ago
          stream,    \* of each stream: "new", "open" or "gone"
          wants,     \* ... and its patterns
          queue,     \* of each stream: the events to be polled
          polled,    \* ... and the events it has been given (history)
          since,     \* how many events there were when it subscribed, or unsubscribed
          hint,      \* the suggestion in suggestions.json, or 0
          file, aside,   \* the whole lines of the JSONL file, and of .jsonl.old
          torn,      \* the JSONL file ends inside a line
          lost,      \* the events that no line was written for (history)
          heard      \* what each once handler has been called with (history)

vars == <<attached, handlers, once, kind, buffer, dropped, frames, throttled, stream,
          wants, queue, polled, since, hint, file, aside, torn, lost, heard>>

Type == {"ide.file_changed", "ide.notification", "skill.suggested"}

\* _matches.
Covers(pattern) ==
  CASE pattern = "*"        -> Type
    [] pattern = "ide.*"    -> {"ide.file_changed", "ide.notification"}
    [] pattern \in Type     -> {pattern}

Pattern == {"*", "ide.*"} \cup Type

Ids == Seq(1..2 * MaxEvents)

TypeOK ==
  /\ attached \subseteq {"engine", "hooks"}
  /\ \A i \in DOMAIN handlers :
       handlers[i].pattern \in Pattern /\ Range(handlers[i].who) \subseteq Stream \cup attached
  /\ once \subseteq Pattern
  /\ kind \in Seq(Type)
  /\ buffer \in Ids /\ Len(buffer) <= BufferSize
  /\ dropped \in Nat /\ hint \in Nat
  /\ Len(frames) <= 2
  /\ throttled \in BOOLEAN
  /\ stream \in [Stream -> {"new", "open", "gone"}]
  /\ wants \in [Stream -> Patterns \cup {<<>>}]
  /\ queue \in [Stream -> Ids] /\ polled \in [Stream -> Ids]
  /\ since \in [Stream -> Nat]
  /\ file \in Ids /\ aside \in Ids
  /\ torn \in BOOLEAN /\ lost \subseteq 1..2 * MaxEvents
  /\ heard \in [Pattern -> Ids]

Entry(pattern, who) == [pattern |-> pattern, who |-> who]

Init ==
  /\ attached \in SUBSET {"engine", "hooks"}
  /\ handlers = (IF "engine" \in attached
                   THEN <<Entry("ide.file_changed", <<"engine">>)>> ELSE <<>>)
             \o (IF "hooks" \in attached
                   THEN <<Entry("skill.suggested", <<"hooks">>)>> ELSE <<>>)
  /\ once = {} /\ heard = [p \in Pattern |-> <<>>]
  /\ kind = <<>> /\ buffer = <<>> /\ dropped = 0 /\ frames = <<>>
  /\ throttled = FALSE
  /\ stream = [s \in Stream |-> "new"] /\ wants = [s \in Stream |-> <<>>]
  /\ queue = [s \in Stream |-> <<>>] /\ polled = queue
  /\ since = [s \in Stream |-> 0]
  /\ hint = 0 /\ file = <<>> /\ aside = <<>> /\ torn = FALSE /\ lost = {}

-----------------------------------------------------------------------------
(* on and off *)

\* A pattern's handlers stand where its first one was registered.
On(list, pattern, s) ==
  IF \E i \in DOMAIN list : list[i].pattern = pattern
  THEN [i \in DOMAIN list |-> IF list[i].pattern = pattern
                              THEN Entry(pattern, Append(list[i].who, s)) ELSE list[i]]
  ELSE Append(list, Entry(pattern, <<s>>))

OnAll(list, patterns, s) ==
  LET on[i \in 0..Len(patterns)] ==
        IF i = 0 THEN list ELSE On(on[i - 1], patterns[i], s)
  IN  on[Len(patterns)]

\* s was added to a pattern's handlers, and is removed, once for each time that
\* patterns has the pattern.
Off(list, patterns, s) ==
  [i \in DOMAIN list |->
     IF list[i].pattern \in Range(patterns)
     THEN Entry(list[i].pattern, Only(list[i].who, (Stream \ {s}) \cup attached)) ELSE list[i]]

Subscribe(s) ==
  /\ frames = <<>> /\ stream[s] = "new"
  /\ \E patterns \in Patterns :
       /\ wants' = [wants EXCEPT ![s] = patterns]
       /\ handlers' = OnAll(handlers, patterns, s)
  /\ stream' = [stream EXCEPT ![s] = "open"]
  /\ since' = [since EXCEPT ![s] = Len(kind)]
  /\ UNCHANGED <<attached, once, kind, buffer, dropped, frames, throttled, queue,
                 polled, hint, file, aside, torn, lost, heard>>

\* Mutant: only the first pattern's handler is removed.
Unsubscribe_FirstOnly(s) ==
  /\ frames = <<>> /\ stream[s] = "open"
  /\ handlers' = Off(handlers, <<Head(wants[s])>>, s)
  /\ stream' = [stream EXCEPT ![s] = "gone"]
  /\ since' = [since EXCEPT ![s] = Len(kind)]
  /\ UNCHANGED <<attached, once, kind, buffer, dropped, frames, throttled, wants, queue,
                 polled, hint, file, aside, torn, lost, heard>>

\* The client unsubscribes, or cleanup_stale finds that it has not polled.
Unsubscribe(s) ==
  /\ frames = <<>> /\ stream[s] = "open"
  /\ handlers' = Off(handlers, wants[s], s)
  /\ stream' = [stream EXCEPT ![s] = "gone"]
  /\ since' = [since EXCEPT ![s] = Len(kind)]
  /\ UNCHANGED <<attached, once, kind, buffer, dropped, frames, throttled, wants, queue,
                 polled, hint, file, aside, torn, lost, heard>>

Poll(s) ==
  /\ frames = <<>> /\ stream[s] = "open" /\ queue[s] # <<>>
  /\ polled' = [polled EXCEPT ![s] = @ \o queue[s]]
  /\ queue' = [queue EXCEPT ![s] = <<>>]
  /\ UNCHANGED <<attached, handlers, once, kind, buffer, dropped, frames, throttled,
                 stream, wants, since, hint, file, aside, torn, lost, heard>>

Once(pattern) ==
  /\ frames = <<>> /\ pattern \notin once /\ heard[pattern] = <<>>
  /\ once' = once \cup {pattern}
  /\ UNCHANGED <<attached, handlers, kind, buffer, dropped, frames, throttled, stream,
                 wants, queue, polled, since, hint, file, aside, torn, lost, heard>>

-----------------------------------------------------------------------------
(* emit *)

\* Whom _notify calls, in this order.
Listeners(type) ==
  Flat([i \in DOMAIN handlers |->
                IF type \in Covers(handlers[i].pattern) THEN handlers[i].who ELSE <<>>])

\* Mutant: the ring buffer has no end.
Emit_Unbounded(type) ==
  LET id == Len(kind) + 1
  IN  /\ kind' = Append(kind, type)
      /\ buffer' = Append(buffer, id)
      /\ dropped' = dropped

\* The event is numbered, put in the buffer, and a call of emit begins.
Emit(type) ==
  LET id == Len(kind) + 1
  IN  /\ kind' = Append(kind, type)
      /\ buffer' = Append(IF Len(buffer) = BufferSize THEN Tail(buffer) ELSE buffer, id)
      /\ dropped' = IF Len(buffer) = BufferSize THEN dropped + 1 ELSE dropped

Frame(id, left, at) == [id |-> id, left |-> left, at |-> at]

\* event_publish, or a hook of the host through ClaudeHooksBridge.
Publish ==
  /\ frames = <<>>
  /\ Cardinality({i \in DOMAIN kind : kind[i] # "skill.suggested"}) < MaxEvents
  /\ \E type \in {"ide.file_changed", "ide.notification"} :
       /\ Emit(type)
       /\ frames' = <<Frame(Len(kind) + 1, Listeners(type), "handlers")>>
  /\ UNCHANGED <<attached, handlers, once, throttled, stream, wants, queue, polled,
                 since, hint, file, aside, torn, lost, heard>>

top == Head(frames)

Calling(who) ==
  /\ frames # <<>> /\ top.at = "handlers" /\ top.left # <<>> /\ Head(top.left) = who

Called == Frame(top.id, Tail(top.left), "handlers")

CallStream(s) ==
  /\ Calling(s)
  /\ queue' = [queue EXCEPT ![s] = Append(@, top.id)]
  /\ frames' = <<Called>> \o Tail(frames)
  /\ UNCHANGED <<attached, handlers, once, kind, buffer, dropped, throttled, stream,
                 wants, polled, since, hint, file, aside, torn, lost, heard>>

\* The file's path suggests a skill, and none was suggested lately ...
Suggest ==
  /\ Calling("engine")
  /\ ~throttled /\ throttled' = TRUE
  /\ Emit("skill.suggested")
  /\ frames' = <<Frame(Len(kind) + 1, Listeners("skill.suggested"), "handlers"), Called>>
               \o Tail(frames)
  /\ UNCHANGED <<attached, handlers, once, stream, wants, queue, polled, since, hint,
                 file, aside, torn, lost, heard>>

\* ... or not.
SuggestNothing ==
  /\ Calling("engine")
  /\ frames' = <<Called>> \o Tail(frames)
  /\ UNCHANGED <<attached, handlers, once, kind, buffer, dropped, throttled, stream,
                 wants, queue, polled, since, hint, file, aside, torn, lost, heard>>

\* suggestions.json is overwritten; what goes wrong is logged.
WriteHint ==
  /\ Calling("hooks")
  /\ hint' \in {hint, top.id}
  /\ frames' = <<Called>> \o Tail(frames)
  /\ UNCHANGED <<attached, handlers, once, kind, buffer, dropped, throttled, stream,
                 wants, queue, polled, since, file, aside, torn, lost, heard>>

Due == {p \in once : kind[top.id] \in Covers(p)}

CallOnce ==
  /\ frames # <<>> /\ top.at = "handlers" /\ top.left = <<>>
  /\ heard' = [p \in Pattern |-> IF p \in Due THEN Append(heard[p], top.id) ELSE heard[p]]
  /\ once' = once \ Due
  /\ frames' = <<Frame(top.id, <<>>, "transports")>> \o Tail(frames)
  /\ UNCHANGED <<attached, handlers, kind, buffer, dropped, throttled, stream, wants,
                 queue, polled, since, hint, file, aside, torn, lost>>

\* The line is added to lines; or it cannot be, or only a part of it, and emit
\* goes on.  A line that follows a part of one is unreadable with it.
Write(lines, part) ==
  \/ /\ ~part
     /\ file' = Append(lines, top.id) /\ torn' = FALSE /\ UNCHANGED lost
  \/ /\ part \/ Cardinality(lost) < MaxLost
     /\ file' = lines /\ torn' \in BOOLEAN
     /\ lost' = lost \cup {top.id}

\* The JSONL file is put aside when it is large.  Removing the older one may fail,
\* and so may renaming.
Deliver ==
  /\ frames # <<>> /\ top.at = "transports"
  /\ \/ Len(file) >= MaxLines /\ aside' = file /\ Write(<<>>, FALSE)
     \/ Len(file) >= MaxLines /\ aside' \in {aside, <<>>} /\ Write(file, torn)
     \/ Len(file) < MaxLines /\ UNCHANGED aside /\ Write(file, torn)
  /\ frames' = Tail(frames)
  /\ UNCHANGED <<attached, handlers, once, kind, buffer, dropped, throttled, stream,
                 wants, queue, polled, since, hint, heard>>

Quiet ==
  /\ frames = <<>> /\ throttled
  /\ throttled' = FALSE
  /\ UNCHANGED <<attached, handlers, once, kind, buffer, dropped, frames, stream, wants,
                 queue, polled, since, hint, file, aside, torn, lost, heard>>

Next ==
  \/ \E s \in Stream : Subscribe(s) \/ Unsubscribe(s) \/ Poll(s) \/ CallStream(s)
  \/ \E pattern \in Onces : Once(pattern)
  \/ Publish \/ Suggest \/ SuggestNothing \/ WriteHint \/ CallOnce \/ Deliver \/ Quiet

Spec == Init /\ [][Next]_vars

-----------------------------------------------------------------------------
(* Properties *)

\* An event precedes those emitted after it, but for the suggestion that one of
\* its own handlers makes, which may overtake it.
Ordered(ids) ==
  \A i, j \in DOMAIN ids : i < j /\ ids[j] < ids[i] =>
    ids[i] = ids[j] + 1 /\ kind[ids[i]] = "skill.suggested"

\* The events that the JSONL files hold.
Held == Range(aside \o file)

\* However subscriptions, events and polls follow each other: a stream is given
\* every event since it subscribed, once for each of its patterns that covers
\* the event, and none after it has unsubscribed; the buffer holds the last
\* events, and the JSONL files MaxLines of them or all that could be written, no
\* event twice, and with no gap but where a write failed and where a suggestion,
\* which was written before the event it was made for, is gone with the older
\* file; nobody sees events out of order but such a suggestion; a once handler is
\* called once.
EventsWhole ==
  /\ \A p \in Pattern : Len(heard[p]) <= 1
  /\ Ordered(file) /\ \A s \in Stream : Ordered(polled[s] \o queue[s])
  /\ Len(buffer) + dropped = Len(kind)
  /\ \A i \in DOMAIN buffer : buffer[i] = dropped + i
  /\ \A s \in Stream : stream[s] = "gone" =>
       \A id \in Range(polled[s] \o queue[s]) : id <= since[s]
  /\ IsInjective(aside \o file) /\ Held \cap lost = {}
  /\ frames = <<>> =>
       /\ Len(aside \o file) >= MaxLines \/ Len(aside \o file) + Cardinality(lost) >= Len(kind)
       /\ kind # <<>> => Len(kind) \in Held \cup lost
       /\ \A older \in Held : \A id \in older + 1 .. Len(kind) :
            id \in Held \cup lost \/ (id = older + 1 /\ kind[id] = "skill.suggested")
       /\ \A s \in Stream : stream[s] = "open" => \A id \in since[s] + 1 .. Len(kind) :
            Cardinality({i \in DOMAIN (polled[s] \o queue[s]) : (polled[s] \o queue[s])[i] = id})
              = Cardinality({i \in DOMAIN wants[s] : kind[id] \in Covers(wants[s][i])})
=============================================================================
