----------------------------- MODULE EventStream -----------------------------
(***************************************************************************)
(* The event stream of polo, src/internal/polo-server/src/api/stream.rs:   *)
(* a broadcast channel that handlers publish to, and for each WebSocket    *)
(* connection a handler with two tasks, one that passes events on and one  *)
(* that drains what the client sends.                                      *)
(*                                                                         *)
(* The channel (tokio) keeps the last Capacity events; a receiver that has *)
(* fallen further behind is told so and goes on with the oldest one kept.  *)
(* Of the connection (axum, TCP) this module assumes that it holds Wire    *)
(* events on their way, that a send waits while it is full, and that a     *)
(* send fails once the end of the connection has been read.                *)
(***************************************************************************)
EXTENDS Naturals, Sequences

CONSTANTS
  Clients,      \* The connections.
  Capacity,     \* EventBus::new(capacity).
  Wire,         \* Events that a connection holds for its client.
  Fields,       \* What a filter looks at: namespace, branch, entity, attr.
  Names,        \* Their values.
  Events,       \* The events that are published.
  Filters,      \* The filters that are asked for.
  None,         \* A field a filter leaves open.
  MaxEvents,    \* Bound: events.
  MaxMessages   \* Bound: messages a client sends, its close not counted.

ASSUME StreamAssumption ==
  /\ Capacity \in Nat \ {0} /\ Wire \in Nat \ {0}
  /\ MaxEvents \in Nat /\ MaxMessages \in Nat
  /\ None \notin Names
  /\ Events \subseteq [Fields -> Names]
  /\ Filters \subseteq [Fields -> Names \cup {None}]

VARIABLES
  sent,         \* Every event so far; the channel keeps the last Capacity.
  peer,         \* peer[c]: the client: "away", "open", "closed" or "gone".
  filter,       \* filter[c]: the query of the upgrade request.
  handler,      \* handler[c]: handle_socket: "none", "upgraded", "waiting", "done".
  next,         \* next[c]: the event that rx of c reads next.
  sender,       \* sender[c]: send_task: "none", "running" or "ended".
  held,         \* held[c]: the event that send_task is sending, if any.
  reader,       \* reader[c]: recv_task: "none", "running" or "ended".
  inbox,        \* inbox[c]: what the client has sent.
  said,         \* said[c]: counts its messages, for the bound.
  wire,         \* wire[c]: events on their way to the client.
  got,          \* got[c]: events the client has read.
  first         \* History: the event that was next when c subscribed.

channel == <<sent>>
connection == <<peer, filter, inbox, said>>
vars == <<channel, connection, handler, next, sender, held, reader, wire, got, first>>

Init ==
  /\ sent = << >>
  /\ peer = [c \in Clients |-> "away"]
  /\ filter = [c \in Clients |-> [d \in Fields |-> None]]
  /\ handler = [c \in Clients |-> "none"]
  /\ next = [c \in Clients |-> 1]
  /\ sender = [c \in Clients |-> "none"]
  /\ held = [c \in Clients |-> << >>]
  /\ reader = [c \in Clients |-> "none"]
  /\ inbox = [c \in Clients |-> << >>]
  /\ said = [c \in Clients |-> 0]
  /\ wire = [c \in Clients |-> << >>]
  /\ got = [c \in Clients |-> << >>]
  /\ first = [c \in Clients |-> 1]

\* An event is known by its place in sent; its content is what filters see.
Admits(f, e) == \A d \in Fields : f[d] \in {None, e[d]}
Wanted(c, n) == Admits(filter[c], sent[n])

\* Events up to this one have been overwritten.
Overwritten == IF Len(sent) > Capacity THEN Len(sent) - Capacity ELSE 0

-----------------------------------------------------------------------------
(* EventBus                                                                *)

\* Never waits, and fails if there is no receiver, which does not matter.
Publish(e) ==
  /\ Len(sent) < MaxEvents
  /\ sent' = Append(sent, e)
  /\ UNCHANGED <<connection, handler, next, sender, held, reader, wire, got, first>>

-----------------------------------------------------------------------------
(* The client                                                              *)

\* The upgrade is answered; the handler runs later.
Connect(c, f) ==
  /\ peer[c] = "away"
  /\ peer' = [peer EXCEPT ![c] = "open"]
  /\ filter' = [filter EXCEPT ![c] = f]
  /\ handler' = [handler EXCEPT ![c] = "upgraded"]
  /\ UNCHANGED <<channel, next, sender, held, reader, inbox, said, wire, got, first>>

Say(c) ==
  /\ peer[c] = "open" /\ said[c] < MaxMessages
  /\ said' = [said EXCEPT ![c] = @ + 1]
  /\ inbox' = [inbox EXCEPT ![c] = Append(@, "ping")]
  /\ UNCHANGED <<channel, peer, filter, handler, next, sender, held, reader, wire, got, first>>

Close(c) ==
  /\ peer[c] = "open"
  /\ peer' = [peer EXCEPT ![c] = "closed"]
  /\ inbox' = [inbox EXCEPT ![c] = Append(@, "close")]
  /\ UNCHANGED <<channel, filter, said, handler, next, sender, held, reader, wire, got, first>>

\* The connection breaks, and what is on its way with it.
Vanish(c) ==
  /\ peer[c] = "open"
  /\ peer' = [peer EXCEPT ![c] = "gone"]
  /\ UNCHANGED <<channel, filter, inbox, said, handler, next, sender, held, reader, wire, got,
                 first>>

Take(c) ==
  /\ peer[c] = "open" /\ wire[c] # << >>
  /\ got' = [got EXCEPT ![c] = Append(@, Head(wire[c]))]
  /\ wire' = [wire EXCEPT ![c] = Tail(@)]
  /\ UNCHANGED <<channel, connection, handler, next, sender, held, reader, first>>

-----------------------------------------------------------------------------
(* handle_socket                                                           *)

\* Mutant of Subscribe: the newest event is read once more.
SubscribeEarly(c) ==
  /\ handler[c] = "upgraded"
  /\ handler' = [handler EXCEPT ![c] = "waiting"]
  /\ next' = [next EXCEPT ![c] = Len(sent)]
  /\ first' = [first EXCEPT ![c] = Len(sent) + 1]
  /\ sender' = [sender EXCEPT ![c] = "running"]
  /\ reader' = [reader EXCEPT ![c] = "running"]
  /\ UNCHANGED <<channel, connection, held, wire, got>>

\* Subscribe, and start both tasks.
Subscribe(c) ==
  /\ handler[c] = "upgraded"
  /\ handler' = [handler EXCEPT ![c] = "waiting"]
  /\ next' = [next EXCEPT ![c] = Len(sent) + 1]
  /\ first' = [first EXCEPT ![c] = Len(sent) + 1]
  /\ sender' = [sender EXCEPT ![c] = "running"]
  /\ reader' = [reader EXCEPT ![c] = "running"]
  /\ UNCHANGED <<channel, connection, held, wire, got>>

\* Mutant of Finish: join! instead of select!.
FinishBoth(c) ==
  /\ handler[c] = "waiting"
  /\ sender[c] = "ended" /\ reader[c] = "ended"
  /\ handler' = [handler EXCEPT ![c] = "done"]
  /\ UNCHANGED <<channel, connection, next, sender, held, reader, wire, got, first>>

\* select!: one task has ended.  The other one is let go, and runs on.
Finish(c) ==
  /\ handler[c] = "waiting"
  /\ "ended" \in {sender[c], reader[c]}
  /\ handler' = [handler EXCEPT ![c] = "done"]
  /\ UNCHANGED <<channel, connection, next, sender, held, reader, wire, got, first>>

-----------------------------------------------------------------------------
(* send_task                                                               *)

\* rx.recv() is awaited.
Receiving(c) == sender[c] = "running" /\ held[c] = << >>

\* Mutant of Lag: what the channel still keeps is skipped as well.
LagToNewest(c) ==
  /\ Receiving(c)
  /\ next[c] <= Overwritten
  /\ next' = [next EXCEPT ![c] = Len(sent) + 1]
  /\ UNCHANGED <<channel, connection, handler, sender, held, reader, wire, got, first>>

\* Lagged: the next event is gone, and rx is set to the oldest that is kept.
Lag(c) ==
  /\ Receiving(c)
  /\ next[c] <= Overwritten
  /\ next' = [next EXCEPT ![c] = Overwritten + 1]
  /\ UNCHANGED <<channel, connection, handler, sender, held, reader, wire, got, first>>

\* Mutant of Receive: only the first field of the filter that is set counts.
ReceiveByOne(c) ==
  /\ Receiving(c)
  /\ next[c] > Overwritten /\ next[c] <= Len(sent)
  /\ next' = [next EXCEPT ![c] = @ + 1]
  /\ held' = [held EXCEPT ![c] =
       IF \E d \in Fields : filter[c][d] \in {None, sent[next[c]][d]} THEN <<next[c]>> ELSE @]
  /\ UNCHANGED <<channel, connection, handler, sender, reader, wire, got, first>>

\* Mutant of Receive: break instead of continue.
ReceiveBreak(c) ==
  /\ Receiving(c)
  /\ next[c] > Overwritten /\ next[c] <= Len(sent)
  /\ next' = [next EXCEPT ![c] = @ + 1]
  /\ held' = [held EXCEPT ![c] = IF Wanted(c, next[c]) THEN <<next[c]>> ELSE @]
  /\ sender' = [sender EXCEPT ![c] = IF Wanted(c, next[c]) THEN @ ELSE "ended"]
  /\ UNCHANGED <<channel, connection, handler, reader, wire, got, first>>

\* Ok(event): to be sent, if the filter lets it through.
Receive(c) ==
  /\ Receiving(c)
  /\ next[c] > Overwritten /\ next[c] <= Len(sent)
  /\ next' = [next EXCEPT ![c] = @ + 1]
  /\ held' = [held EXCEPT ![c] = IF Wanted(c, next[c]) THEN <<next[c]>> ELSE @]
  /\ UNCHANGED <<channel, connection, handler, sender, reader, wire, got, first>>

Send(c) ==
  /\ held[c] # << >>
  /\ reader[c] # "ended"
  /\ Len(wire[c]) < Wire
  /\ wire' = [wire EXCEPT ![c] = @ \o held[c]]
  /\ held' = [held EXCEPT ![c] = << >>]
  /\ UNCHANGED <<channel, connection, handler, next, sender, reader, got, first>>

\* Mutant of SendFails: a failed send is forgotten.
SendFailsOn(c) ==
  /\ held[c] # << >>
  /\ reader[c] = "ended" \/ peer[c] = "gone"
  /\ held' = [held EXCEPT ![c] = << >>]
  /\ UNCHANGED <<channel, connection, handler, next, sender, reader, wire, got, first>>

SendFails(c) ==
  /\ held[c] # << >>
  /\ reader[c] = "ended" \/ peer[c] = "gone"
  /\ sender' = [sender EXCEPT ![c] = "ended"]
  /\ held' = [held EXCEPT ![c] = << >>]
  /\ UNCHANGED <<channel, connection, handler, next, reader, wire, got, first>>

-----------------------------------------------------------------------------
(* recv_task                                                               *)

\* Whatever is not a close is dropped, a ping too.
Read(c) ==
  /\ reader[c] = "running" /\ inbox[c] # << >>
  /\ inbox' = [inbox EXCEPT ![c] = Tail(@)]
  /\ reader' = [reader EXCEPT ![c] = IF Head(inbox[c]) = "close" THEN "ended" ELSE @]
  /\ UNCHANGED <<channel, peer, filter, said, handler, next, sender, held, wire, got, first>>

\* Reading a broken connection fails.
ReadFails(c) ==
  /\ reader[c] = "running" /\ peer[c] = "gone"
  /\ reader' = [reader EXCEPT ![c] = "ended"]
  /\ UNCHANGED <<channel, connection, handler, next, sender, held, wire, got, first>>

-----------------------------------------------------------------------------
Sending(c) == Lag(c) \/ Receive(c) \/ Send(c) \/ SendFails(c)
Reading(c) == Read(c) \/ ReadFails(c)
Handling(c) == Subscribe(c) \/ Finish(c)
Client(c) ==
  \/ \E f \in Filters : Connect(c, f)
  \/ Say(c) \/ Close(c) \/ Vanish(c) \/ Take(c)

Next ==
  \/ \E e \in Events : Publish(e)
  \/ \E c \in Clients : Client(c) \/ Handling(c) \/ Sending(c) \/ Reading(c)

Spec == Init /\ [][Next]_vars

\* The runtime runs each task that can go on.
TasksRun ==
  \A c \in Clients : WF_vars(Sending(c)) /\ WF_vars(Reading(c)) /\ WF_vars(Handling(c))

\* And each client reads what it is sent.
ClientsRead == \A c \in Clients : WF_vars(Take(c))

FairSpec == Spec /\ TasksRun /\ ClientsRead

-----------------------------------------------------------------------------
(* Properties                                                              *)

TypeOK ==
  /\ sent \in Seq(Events)
  /\ peer \in [Clients -> {"away", "open", "closed", "gone"}]
  /\ filter \in [Clients -> [Fields -> Names \cup {None}]]
  /\ handler \in [Clients -> {"none", "upgraded", "waiting", "done"}]
  /\ sender \in [Clients -> {"none", "running", "ended"}]
  /\ reader \in [Clients -> {"none", "running", "ended"}]
  /\ inbox \in [Clients -> Seq({"ping", "close"})]
  /\ said \in [Clients -> Nat]
  /\ next \in [Clients -> Nat \ {0}] /\ first \in [Clients -> Nat \ {0}]
  /\ held \in [Clients -> Seq(Nat)] /\ wire \in [Clients -> Seq(Nat)] /\ got \in [Clients -> Seq(Nat)]

\* Events on their way to the client of c, and those it has.
Passed(c) == got[c] \o wire[c] \o held[c]

\* A subscriber is sent events it has asked for, published after it subscribed,
\* each of them once and in the order they were published, however the
\* channel, the two tasks and the connection take turns (stream.rs:82-126).
InOrder ==
  \A c \in Clients : LET passed == Passed(c) IN
    /\ \A i \in DOMAIN passed : passed[i] \in first[c] .. next[c] - 1 /\ Wanted(c, passed[i])
    /\ \A i, j \in DOMAIN passed : i < j => passed[i] < passed[j]

\* While its connection holds, the only events a subscriber misses are those that
\* Capacity others have followed (stream.rs:121-123).
OnlyLagLoses ==
  \A c \in Clients : sender[c] = "running" =>
    \A n \in first[c] .. next[c] - 1 :
      \/ ~Wanted(c, n)
      \/ \E i \in DOMAIN Passed(c) : Passed(c)[i] = n
      \/ n <= Overwritten

\* An event is read by every client that has subscribed before and stays, unless
\* Capacity others follow it.
Subscribed(c, n) ==
  /\ sender[c] = "running" /\ peer[c] = "open"
  /\ n \in first[c] .. Len(sent) /\ Wanted(c, n)
HasGot(c, n) == \E i \in DOMAIN got[c] : got[c][i] = n
EventsArrive ==
  \A c \in Clients, n \in 1 .. MaxEvents :
    (n <= Len(sent) /\ Subscribed(c, n)) ~> (HasGot(c, n) \/ n <= Overwritten \/ peer[c] # "open")

\* The handler of a client that has left returns (stream.rs:145-148).
HandlerReturns ==
  \A c \in Clients : (peer[c] \in {"closed", "gone"}) ~> (handler[c] = "done")

\* The task that still sends to a client that has left ends at the next event that
\* it would have sent; until then it holds its place in the channel and its half
\* of the connection, since nobody cancels it (stream.rs:80, 145-148).
SenderEnds ==
  \A c \in Clients, n \in 1 .. MaxEvents :
    (/\ reader[c] = "ended" /\ sender[c] = "running"
     /\ next[c] <= n /\ n <= Len(sent) /\ Wanted(c, n))
      ~> (sender[c] = "ended" \/ n <= Overwritten)

-----------------------------------------------------------------------------
(* The inductive invariant                                                 *)

\* A connection has nothing on its way until its handler has subscribed, and only a
\* sender that runs holds an event; rx is never ahead of the channel.
Connected(c) ==
  /\ peer[c] = "away" => handler[c] = "none"
  /\ handler[c] \in {"none", "upgraded"} => sender[c] = "none"
  /\ sender[c] = "none" => got[c] = << >> /\ wire[c] = << >> /\ held[c] = << >>
  /\ held[c] # << >> => sender[c] = "running"
  /\ first[c] <= next[c] /\ next[c] <= Len(sent) + 1

StreamInv ==
  /\ TypeOK
  /\ \A c \in Clients : Connected(c)
  /\ InOrder /\ OnlyLagLoses
=============================================================================
