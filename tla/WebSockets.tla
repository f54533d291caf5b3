----------------------------- MODULE WebSockets -----------------------------
(***************************************************************************)
(* ide/transports/websocket.py: one event loop serves the clients, and any *)
(* other thread may deliver an event.  The table of clients is guarded by  *)
(* a threading.Lock, which a coroutine of the loop keeps while it waits    *)
(* for a refused client's close; a coroutine that then wants the lock       *)
(* stops the loop's only thread, and with it the one it waits for.         *)
(*                                                                         *)
(* Steps of the loop between two awaits are one step each.  MaxSends       *)
(* bounds the events delivered.                                            *)
(***************************************************************************)
EXTENDS Naturals, FiniteSets

CONSTANTS Client, None, MaxConnections, MaxSends

VARIABLES socket,   \* of each client: "new", "refusing", "open", "closing" or "gone"
          clients,  \* those in _clients
          subscribed, \* ... and which of them have subscribed
          lock,     \* the refused client whose handler holds _lock, or None
          stuck,    \* the loop waits for the lock
          due,      \* sends that deliver has scheduled
          sends,    \* events delivered
          got       \* events each client was sent (history)

vars == <<socket, clients, subscribed, lock, stuck, due, sends, got>>

TypeOK ==
  /\ socket \in [Client -> {"new", "refusing", "open", "closing", "gone"}]
  /\ clients \subseteq Client /\ subscribed \subseteq clients
  /\ lock \in Client \cup {None}
  /\ stuck \in BOOLEAN
  /\ due \subseteq Client \X (1..MaxSends)
  /\ sends \in 0..MaxSends
  /\ got \in [Client -> SUBSET (1..MaxSends)]

Init ==
  /\ socket = [c \in Client |-> "new"]
  /\ clients = {} /\ subscribed = {}
  /\ lock = None /\ stuck = FALSE
  /\ due = {} /\ sends = 0
  /\ got = [c \in Client |-> {}]

Become(c, state) == socket' = [socket EXCEPT ![c] = state]

\* A coroutine that needs the lock while another one has it.
Stop ==
  /\ lock # None
  /\ stuck' = TRUE
  /\ UNCHANGED <<socket, clients, subscribed, lock, due, sends, got>>

\* The limit is looked at under the lock, which the refusal keeps.
Enter(c) ==
  /\ lock = None
  /\ IF Cardinality(clients) >= MaxConnections
     THEN Become(c, "refusing") /\ lock' = c /\ UNCHANGED clients
     ELSE Become(c, "open") /\ clients' = clients \cup {c} /\ UNCHANGED lock
  /\ UNCHANGED <<subscribed, stuck, due, sends, got>>

Connect(c) == ~stuck /\ socket[c] = "new" /\ (Enter(c) \/ Stop)

\* close() has returned.
Refused(c) ==
  /\ ~stuck /\ lock = c
  /\ Become(c, "gone")
  /\ lock' = None
  /\ UNCHANGED <<clients, subscribed, stuck, due, sends, got>>

\* A message of a socket that is closed may still be in its buffer: to subscribe
\* puts a client back into the table.
Subscribe(c) ==
  /\ ~stuck /\ socket[c] \in {"open", "closing"}
  /\ \/ /\ lock = None
        /\ clients' = clients \cup {c} /\ subscribed' = subscribed \cup {c}
        /\ UNCHANGED <<socket, lock, stuck, due, sends, got>>
     \/ Stop

Unsubscribe(c) ==
  /\ ~stuck /\ socket[c] \in {"open", "closing"}
  /\ \/ /\ lock = None
        /\ subscribed' = subscribed \ {c}
        /\ UNCHANGED <<socket, clients, lock, stuck, due, sends, got>>
     \/ Stop

\* The handler's end, whatever ended it.
Disconnect(c) ==
  /\ ~stuck /\ socket[c] \in {"open", "closing"}
  /\ \/ /\ lock = None
        /\ Become(c, "gone")
        /\ clients' = clients \ {c} /\ subscribed' = subscribed \ {c}
        /\ UNCHANGED <<lock, stuck, due, sends, got>>
     \/ Stop

\* A send to each subscriber is scheduled.
Forward ==
  /\ lock = None
  /\ sends < MaxSends
  /\ sends' = sends + 1
  /\ due' = due \cup {<<c, sends + 1>> : c \in subscribed}
  /\ UNCHANGED <<socket, clients, subscribed, lock, stuck, got>>

\* Another thread waits for the lock as long as it must.
Deliver == Forward

\* A client's own event is not echoed, but what the suggestion engine emits for
\* it is delivered: on the loop, which then is the one that waits.
Publish(c) ==
  /\ ~stuck /\ socket[c] \in {"open", "closing"}
  /\ Forward \/ Stop

Send(c, event) ==
  /\ ~stuck /\ <<c, event>> \in due
  /\ \/ /\ socket[c] = "open"
        /\ got' = [got EXCEPT ![c] = @ \cup {event}]
        /\ due' = due \ {<<c, event>>}
        /\ UNCHANGED <<socket, clients, subscribed, lock, stuck, sends>>
     \/ /\ lock = None
        /\ socket' = IF socket[c] = "gone" THEN socket ELSE [socket EXCEPT ![c] = "closing"]
        /\ clients' = clients \ {c} /\ subscribed' = subscribed \ {c}
        /\ due' = due \ {<<c, event>>}
        /\ UNCHANGED <<lock, stuck, sends, got>>
     \/ Stop

Next ==
  \/ Deliver
  \/ \E c \in Client :
       \/ Connect(c) \/ Refused(c) \/ Disconnect(c)
       \/ Subscribe(c) \/ Unsubscribe(c) \/ Publish(c)
       \/ \E event \in 1..MaxSends : Send(c, event)

Spec == Init /\ [][Next]_vars

-----------------------------------------------------------------------------
(* Properties *)

\* Whatever connects, fails and is delivered when: no more clients are open than
\* the limit and none that has gone is kept.  The loop stops only over a client
\* that is being refused while the table is full and that is not in it, so that
\* below the limit it never does.
Served ==
  /\ Cardinality({c \in Client : socket[c] = "open"}) <= MaxConnections
  /\ clients \subseteq {c \in Client : socket[c] \in {"open", "closing"}}
  /\ \A c \in Client : socket[c] = "open" => c \in clients
  /\ lock # None <=> \E c \in Client : socket[c] = "refusing"
  /\ lock # None => lock \notin clients /\ Cardinality(clients) >= MaxConnections
  /\ stuck => lock # None
=============================================================================
