-------------------------- MODULE EventStream_proofs --------------------------
(***************************************************************************)
(* Proofs about EventStream: its type invariant, that subscribers are sent *)
(* what they asked for in order, and that they miss only what they were    *)
(* too slow for, with any number of connections and events.                *)
(***************************************************************************)
EXTENDS EventStream, SequenceTheorems, TLAPS

USE StreamAssumption

-----------------------------------------------------------------------------
(* Moving events along a connection *)

\* What the client takes off the wire stays where it is among the events passed.
LEMMA TakenInOrder ==
  ASSUME NEW S, NEW g \in Seq(S), NEW w \in Seq(S), NEW h \in Seq(S), w # << >>
  PROVE  /\ Head(w) \in S /\ Tail(w) \in Seq(S)
         /\ (Append(g, Head(w)) \o Tail(w)) \o h = (g \o w) \o h
<1>1. Head(w) \in S /\ Tail(w) \in Seq(S)
  BY HeadTailProperties
<1>2. Append(g, Head(w)) = g \o <<Head(w)>>
  BY <1>1, AppendIsConcat
<1>3. w = <<Head(w)>> \o Tail(w)
  <2> DEFINE t == <<Head(w)>> \o Tail(w)
  <2>1. <<Head(w)>> \in Seq(S)
    BY <1>1
  <2>2. /\ t \in Seq(S) /\ Len(t) = 1 + Len(Tail(w))
        /\ \A i \in 1 .. 1 + Len(Tail(w)) :
             t[i] = IF i <= 1 THEN <<Head(w)>>[i] ELSE Tail(w)[i - 1]
    BY <1>1, <2>1, ConcatProperties
  <2>3. /\ Len(w) \in Nat \ {0} /\ Len(Tail(w)) = Len(w) - 1
        /\ \A i \in 1 .. Len(Tail(w)) : Tail(w)[i] = w[i + 1]
        /\ Head(w) = w[1]
    BY HeadTailProperties, EmptySeq
  <2> HIDE DEF t
  <2>4. Len(t) = Len(w) /\ \A i \in 1 .. Len(w) : w[i] = t[i]
    BY <2>2, <2>3
  <2>5. w = t
    BY <2>2, <2>4, SeqEqual
  <2> QED BY <2>5 DEF t
<1>4. (g \o <<Head(w)>>) \o Tail(w) = g \o w
  BY <1>1, <1>3, ConcatAssociative
<1> QED BY <1>1, <1>2, <1>4

\* Nor does what the sender passes to the connection.
LEMMA SentInOrder ==
  ASSUME NEW S, NEW g \in Seq(S), NEW w \in Seq(S), NEW h \in Seq(S)
  PROVE  (g \o (w \o h)) \o << >> = (g \o w) \o h
<1>1. w \o h \in Seq(S) /\ g \o (w \o h) \in Seq(S)
  BY ConcatProperties
<1>2. (g \o (w \o h)) \o << >> = g \o (w \o h)
  BY <1>1, ConcatEmptySeq
<1> QED BY <1>2, ConcatAssociative

LEMMA PassedType ==
  ASSUME TypeOK, NEW c \in Clients
  PROVE  /\ Passed(c) \in Seq(Nat)
         /\ got[c] \in Seq(Nat) /\ wire[c] \in Seq(Nat) /\ held[c] \in Seq(Nat)
         /\ got[c] \o wire[c] \in Seq(Nat)
<1>1. got[c] \in Seq(Nat) /\ wire[c] \in Seq(Nat) /\ held[c] \in Seq(Nat)
  BY DEF TypeOK
<1>2. got[c] \o wire[c] \in Seq(Nat)
  BY <1>1, ConcatProperties
<1> QED BY <1>1, <1>2, ConcatProperties DEF Passed

-----------------------------------------------------------------------------
(* Types *)

LEMMA StreamKeepsType ==
  ASSUME TypeOK, [Next]_vars
  PROVE  TypeOK'
<1> USE DEF TypeOK
<1>1. ASSUME NEW e \in Events, Publish(e)
      PROVE  TypeOK'
  BY <1>1 DEF Publish, connection
<1>2. ASSUME NEW c \in Clients, Client(c)
      PROVE  TypeOK'
  <2>1. ASSUME NEW f \in Filters, Connect(c, f)
        PROVE  TypeOK'
    <3>1. f \in [Fields -> Names \cup {None}]
      OBVIOUS
    <3> QED BY <2>1, <3>1 DEF Connect, channel
  <2>2. CASE Say(c)
    <3>1. Append(inbox[c], "ping") \in Seq({"ping", "close"}) /\ said[c] + 1 \in Nat
      OBVIOUS
    <3>2. inbox' \in [Clients -> Seq({"ping", "close"})] /\ said' \in [Clients -> Nat]
      BY <2>2, <3>1 DEF Say
    <3> QED BY <2>2, <3>2 DEF Say, channel
  <2>3. CASE Close(c)
    <3>1. Append(inbox[c], "close") \in Seq({"ping", "close"})
      OBVIOUS
    <3>2. inbox' \in [Clients -> Seq({"ping", "close"})]
      BY <2>3, <3>1 DEF Close
    <3> QED BY <2>3, <3>2 DEF Close, channel
  <2>4. CASE Vanish(c)
    BY <2>4 DEF Vanish, channel
  <2>5. CASE Take(c)
    <3>1. Head(wire[c]) \in Nat /\ Tail(wire[c]) \in Seq(Nat)
      BY <2>5, TakenInOrder DEF Take
    <3>2. Append(got[c], Head(wire[c])) \in Seq(Nat)
      BY <3>1
    <3> QED BY <2>5, <3>1, <3>2 DEF Take, channel, connection
  <2> QED BY <1>2, <2>1, <2>2, <2>3, <2>4, <2>5 DEF Client
<1>3. ASSUME NEW c \in Clients, Handling(c)
      PROVE  TypeOK'
  <2>1. CASE Subscribe(c)
    <3>1. Len(sent) + 1 \in Nat \ {0}
      OBVIOUS
    <3> QED BY <2>1, <3>1 DEF Subscribe, channel, connection
  <2>2. CASE Finish(c)
    BY <2>2 DEF Finish, channel, connection
  <2> QED BY <1>3, <2>1, <2>2 DEF Handling
<1>4. ASSUME NEW c \in Clients, Sending(c)
      PROVE  TypeOK'
  <2>1. CASE Lag(c)
    <3>1. Overwritten + 1 \in Nat \ {0}
      BY DEF Overwritten
    <3> QED BY <2>1, <3>1 DEF Lag, channel, connection
  <2>2. CASE Receive(c)
    <3>1. next[c] + 1 \in Nat \ {0} /\ <<next[c]>> \in Seq(Nat)
      OBVIOUS
    <3> QED BY <2>2, <3>1 DEF Receive, channel, connection
  <2>3. CASE Send(c)
    <3>1. wire[c] \o held[c] \in Seq(Nat) /\ << >> \in Seq(Nat)
      OBVIOUS
    <3> QED BY <2>3, <3>1 DEF Send, channel, connection
  <2>4. CASE SendFails(c)
    BY <2>4 DEF SendFails, channel, connection
  <2> QED BY <1>4, <2>1, <2>2, <2>3, <2>4 DEF Sending
<1>5. ASSUME NEW c \in Clients, Reading(c)
      PROVE  TypeOK'
  <2>1. CASE Read(c)
    <3>1. Tail(inbox[c]) \in Seq({"ping", "close"})
      BY <2>1 DEF Read
    <3> QED BY <2>1, <3>1 DEF Read, channel
  <2>2. CASE ReadFails(c)
    BY <2>2 DEF ReadFails, channel, connection
  <2> QED BY <1>5, <2>1, <2>2 DEF Reading
<1>6. CASE UNCHANGED vars
  BY <1>6 DEF vars, channel, connection
<1> QED BY <1>1, <1>2, <1>3, <1>4, <1>5, <1>6 DEF Next

-----------------------------------------------------------------------------
(* Order and loss, for one connection *)

Ordered(c) ==
  /\ \A i \in DOMAIN Passed(c) :
       Passed(c)[i] \in first[c] .. next[c] - 1 /\ Wanted(c, Passed(c)[i])
  /\ \A i, j \in DOMAIN Passed(c) : i < j => Passed(c)[i] < Passed(c)[j]

Complete(c) ==
  sender[c] = "running" =>
    \A n \in first[c] .. next[c] - 1 :
      \/ ~Wanted(c, n)
      \/ \E i \in DOMAIN Passed(c) : Passed(c)[i] = n
      \/ n <= Overwritten

Good(c) == Connected(c) /\ Ordered(c) /\ Complete(c)

\* The channel is where it was, or one event longer.
Longer == sent' = sent \/ \E e \in Events : sent' = Append(sent, e)

LEMMA StreamInvIsGood == StreamInv <=> TypeOK /\ \A c \in Clients : Good(c)
BY DEF StreamInv, Good, InOrder, Ordered, OnlyLagLoses, Complete

LEMMA ChannelGrows ==
  ASSUME TypeOK, Longer
  PROVE  /\ Len(sent) \in Nat /\ Len(sent') \in Nat /\ Len(sent) <= Len(sent')
         /\ \A n \in 1 .. Len(sent) : sent'[n] = sent[n]
         /\ Overwritten \in Nat /\ Overwritten' \in Nat
         /\ Overwritten <= Overwritten' /\ Overwritten <= Len(sent)
<1>1. sent \in Seq(Events)
  BY DEF TypeOK
<1>2. /\ Len(sent) \in Nat /\ Len(sent') \in Nat /\ Len(sent) <= Len(sent')
      /\ \A n \in 1 .. Len(sent) : sent'[n] = sent[n]
  BY <1>1 DEF Longer
<1> QED BY <1>2 DEF Overwritten

\* Whether an event was asked for does not change once it has been published.
LEMMA WantedStays ==
  ASSUME TypeOK, Longer, NEW c \in Clients, filter'[c] = filter[c], NEW n \in 1 .. Len(sent)
  PROVE  Wanted(c, n)' <=> Wanted(c, n)
<1>1. sent'[n] = sent[n]
  BY ChannelGrows
<1> QED BY <1>1 DEF Wanted, Admits

\* A step that passes nothing on, and skips nothing but what is overwritten.
LEMMA NothingLost ==
  ASSUME TypeOK, TypeOK', NEW c \in Clients, Good(c), Longer,
         filter'[c] = filter[c], first'[c] = first[c], next[c] <= next'[c],
         \A n \in next[c] .. next'[c] - 1 : n <= Overwritten',
         Passed(c)' = Passed(c), sender'[c] \in {sender[c], "ended"}
  PROVE  Ordered(c)' /\ Complete(c)'
<1>1. /\ first[c] \in Nat \ {0} /\ next[c] \in Nat \ {0} /\ next'[c] \in Nat \ {0}
      /\ next[c] <= Len(sent) + 1
  BY DEF TypeOK, Good, Connected
<1>2. \A n \in first[c] .. next[c] - 1 : n \in 1 .. Len(sent) /\ (Wanted(c, n)' <=> Wanted(c, n))
  BY <1>1, ChannelGrows, WantedStays
<1>3. Ordered(c)'
  BY <1>1, <1>2 DEF Good, Ordered
<1>4. Complete(c)'
  <2> SUFFICES ASSUME sender[c] = "running", NEW n \in first[c] .. next'[c] - 1, Wanted(c, n)',
                      ~\E i \in DOMAIN Passed(c) : Passed(c)[i] = n
               PROVE  n <= Overwritten'
    BY DEF Complete
  <2>1. CASE n \in first[c] .. next[c] - 1
    <3>1. n <= Overwritten
      BY <1>2, <2>1 DEF Good, Complete
    <3> QED BY <3>1, ChannelGrows
  <2>2. CASE n \in next[c] .. next'[c] - 1
    BY <2>2
  <2> QED BY <1>1, <2>1, <2>2
<1> QED BY <1>3, <1>4

\* rx hands over the next event.
LEMMA ReceiveIsGood ==
  ASSUME TypeOK, TypeOK', NEW c \in Clients, Good(c), Receive(c)
  PROVE  Ordered(c)' /\ Complete(c)'
<1>1. /\ first[c] \in Nat \ {0} /\ next[c] \in Nat \ {0} /\ next'[c] = next[c] + 1
      /\ first'[c] = first[c] /\ first[c] <= next[c] /\ next[c] \in 1 .. Len(sent)
      /\ filter' = filter /\ sent' = sent /\ sender' = sender
      /\ got' = got /\ wire' = wire /\ held[c] = << >> /\ sender[c] = "running"
      /\ held'[c] = IF Wanted(c, next[c]) THEN <<next[c]>> ELSE held[c]
  BY DEF TypeOK, Good, Connected, Receive, Receiving, connection, channel
<1> DEFINE p == got[c] \o wire[c]
<1>2. p \in Seq(Nat) /\ Passed(c) = p /\ Passed(c)' = p \o held'[c]
  BY <1>1, PassedType, ConcatEmptySeq DEF Passed
<1>3. \A n \in Nat : Wanted(c, n)' <=> Wanted(c, n)
  BY <1>1 DEF Wanted, Admits
<1>4. Overwritten' = Overwritten
  BY <1>1 DEF Overwritten
<1> HIDE DEF p
<1>5. /\ \A i \in 1 .. Len(p) : p[i] \in first[c] .. next[c] - 1 /\ Wanted(c, p[i])
      /\ \A i, j \in 1 .. Len(p) : i < j => p[i] < p[j]
      /\ \A n \in first[c] .. next[c] - 1 :
           ~Wanted(c, n) \/ (\E i \in 1 .. Len(p) : p[i] = n) \/ n <= Overwritten
  BY <1>1, <1>2 DEF Good, Ordered, Complete
<1>6. CASE Wanted(c, next[c])
  <2> DEFINE q == Append(p, next[c])
  <2>1. Passed(c)' = q
    BY <1>1, <1>2, <1>6, AppendIsConcat
  <2>2. /\ q \in Seq(Nat) /\ Len(q) = Len(p) + 1 /\ DOMAIN q = 1 .. Len(p) + 1
        /\ \A i \in 1 .. Len(p) : q[i] = p[i]
        /\ q[Len(p) + 1] = next[c] /\ Len(p) \in Nat
    BY <1>1, <1>2, AppendProperties
  <2> HIDE DEF q
  <2>3. Ordered(c)'
    <3>1. ASSUME NEW i \in 1 .. Len(p) + 1
          PROVE  q[i] \in first[c] .. next[c] /\ Wanted(c, q[i])
      <4>1. CASE i = Len(p) + 1
        BY <1>1, <1>6, <2>2, <4>1
      <4>2. CASE i \in 1 .. Len(p)
        <5>1. q[i] = p[i] /\ p[i] \in first[c] .. next[c] - 1 /\ Wanted(c, p[i])
          BY <1>5, <2>2, <4>2
        <5>2. q[i] \in first[c] .. next[c]
          BY <1>1, <5>1
        <5> QED BY <5>1, <5>2
      <4> QED BY <2>2, <4>1, <4>2
    <3>2. ASSUME NEW i \in 1 .. Len(p) + 1, NEW j \in 1 .. Len(p) + 1, i < j
          PROVE  q[i] < q[j]
      <4>1. i \in 1 .. Len(p) /\ q[i] = p[i] /\ p[i] \in first[c] .. next[c] - 1
        BY <1>5, <2>2, <3>2
      <4>2. CASE j = Len(p) + 1
        BY <1>1, <2>2, <4>1, <4>2
      <4>3. CASE j \in 1 .. Len(p)
        BY <1>5, <2>2, <3>2, <4>1, <4>3
      <4> QED BY <2>2, <4>2, <4>3
    <3>3. \A i \in 1 .. Len(p) + 1 : q[i] \in Nat
      BY <2>2
    <3> QED BY <1>1, <1>3, <2>1, <2>2, <3>1, <3>2, <3>3 DEF Ordered
  <2>4. Complete(c)'
    <3>1. ASSUME NEW n \in first[c] .. next[c]
          PROVE  ~Wanted(c, n) \/ (\E i \in 1 .. Len(p) + 1 : q[i] = n) \/ n <= Overwritten
      <4>1. CASE n = next[c]
        BY <2>2, <4>1
      <4>2. CASE n \in first[c] .. next[c] - 1
        <5>1. CASE \E i \in 1 .. Len(p) : p[i] = n
          <6>1. PICK i \in 1 .. Len(p) : p[i] = n
            BY <5>1
          <6>2. q[i] = n /\ i \in 1 .. Len(p) + 1
            BY <2>2, <6>1
          <6> QED BY <6>2
        <5>2. CASE ~Wanted(c, n) \/ n <= Overwritten
          BY <5>2
        <5> QED BY <1>5, <4>2, <5>1, <5>2
      <4> QED BY <1>1, <4>1, <4>2
    <3>2. first'[c] .. next'[c] - 1 = first[c] .. next[c]
      BY <1>1
    <3>3. \A n \in first[c] .. next[c] : Wanted(c, n)' <=> Wanted(c, n)
      BY <1>1, <1>3
    <3> QED BY <1>4, <2>1, <2>2, <3>1, <3>2, <3>3 DEF Complete
  <2> QED BY <2>3, <2>4
<1>7. CASE ~Wanted(c, next[c])
  <2>1. Passed(c)' = p
    BY <1>1, <1>2, <1>7, ConcatEmptySeq
  <2>2. DOMAIN p = 1 .. Len(p) /\ \A i \in 1 .. Len(p) : p[i] \in Nat
    BY <1>2
  <2>3. Ordered(c)'
    BY <1>1, <1>3, <1>5, <2>1, <2>2 DEF Ordered
  <2>4. Complete(c)'
    <3>1. ASSUME NEW n \in first[c] .. next[c]
          PROVE  ~Wanted(c, n) \/ (\E i \in 1 .. Len(p) : p[i] = n) \/ n <= Overwritten
      <4>1. CASE n = next[c]
        BY <1>7, <4>1
      <4>2. CASE n \in first[c] .. next[c] - 1
        BY <1>5, <4>2
      <4> QED BY <1>1, <4>1, <4>2
    <3>2. first'[c] .. next'[c] - 1 = first[c] .. next[c]
      BY <1>1
    <3>3. \A n \in first[c] .. next[c] : Wanted(c, n)' <=> Wanted(c, n)
      BY <1>1, <1>3
    <3> QED BY <1>4, <2>1, <2>2, <3>1, <3>2, <3>3 DEF Complete
  <2> QED BY <2>3, <2>4
<1> QED BY <1>6, <1>7

\* A send that fails takes the sender with it; the event it held is lost.
LEMMA SendFailsIsGood ==
  ASSUME TypeOK, NEW c \in Clients, Good(c), SendFails(c)
  PROVE  Ordered(c)' /\ Complete(c)'
<1>1. /\ first' = first /\ next' = next /\ filter' = filter /\ sent' = sent
      /\ got' = got /\ wire' = wire /\ held'[c] = << >> /\ sender'[c] = "ended"
  BY DEF TypeOK, SendFails, connection, channel
<1> DEFINE p == got[c] \o wire[c]
<1>2. p \in Seq(Nat) /\ held[c] \in Seq(Nat) /\ Passed(c) = p \o held[c] /\ Passed(c)' = p
  BY <1>1, PassedType, ConcatEmptySeq DEF Passed
<1> HIDE DEF p
<1>3. /\ DOMAIN p = 1 .. Len(p) /\ DOMAIN Passed(c) = 1 .. Len(p) + Len(held[c])
      /\ Len(p) \in Nat /\ Len(held[c]) \in Nat
      /\ \A i \in 1 .. Len(p) : Passed(c)[i] = p[i]
  BY <1>2, ConcatProperties
<1>4. \A n \in Nat : Wanted(c, n)' <=> Wanted(c, n)
  BY <1>1 DEF Wanted, Admits
<1>5. \A i \in 1 .. Len(p) : i \in DOMAIN Passed(c) /\ p[i] \in Nat
  BY <1>2, <1>3
<1> QED BY <1>1, <1>2, <1>3, <1>4, <1>5 DEF Good, Ordered, Complete

-----------------------------------------------------------------------------
(* The invariant is inductive *)

LEMMA InitIsGood ==
  ASSUME Init
  PROVE  StreamInv
<1>1. TypeOK
  BY DEF Init, TypeOK
<1>2. ASSUME NEW c \in Clients
      PROVE  Good(c)
  <2>1. Connected(c)
    BY DEF Init, Connected
  <2>2. Passed(c) = << >>
    BY DEF Init, Passed
  <2>3. sender[c] # "running" /\ DOMAIN << >> = {}
    BY DEF Init
  <2> QED BY <2>1, <2>2, <2>3 DEF Good, Ordered, Complete
<1> QED BY <1>1, <1>2, StreamInvIsGood

\* A step that leaves the connection of c alone, but for the channel.
LEMMA OthersStayGood ==
  ASSUME TypeOK, TypeOK', NEW c \in Clients, Good(c), Longer,
         peer'[c] = peer[c], filter'[c] = filter[c], handler'[c] = handler[c],
         next'[c] = next[c], first'[c] = first[c], sender'[c] = sender[c],
         held'[c] = held[c], wire'[c] = wire[c], got'[c] = got[c]
  PROVE  Good(c)'
<1>1. Passed(c)' = Passed(c)
  BY DEF Passed
<1>2. next[c] \in Nat /\ Len(sent) <= Len(sent') /\ Len(sent) \in Nat /\ Len(sent') \in Nat
  BY ChannelGrows DEF TypeOK
<1>3. Ordered(c)' /\ Complete(c)'
  BY <1>1, <1>2, NothingLost
<1>4. Connected(c)'
  BY <1>2 DEF Good, Connected
<1> QED BY <1>3, <1>4 DEF Good

LEMMA ClientStaysGood ==
  ASSUME TypeOK, TypeOK', NEW c \in Clients, Good(c), Client(c)
  PROVE  Good(c)'
<1>0. /\ sent' = sent /\ Longer /\ next[c] \in Nat /\ first[c] \in Nat /\ Len(sent) \in Nat
  BY DEF TypeOK, Longer, Client, Connect, Say, Close, Vanish, Take, channel, connection
<1>1. ASSUME NEW f \in Filters, Connect(c, f)
      PROVE  Good(c)'
  <2>1. /\ handler[c] = "none" /\ sender[c] = "none" /\ handler'[c] = "upgraded"
        /\ peer'[c] = "open" /\ UNCHANGED <<next, first, sender, held, wire, got>>
    BY <1>1 DEF Connect, Good, Connected, TypeOK
  <2>2. got[c] = << >> /\ wire[c] = << >> /\ held[c] = << >>
    BY <2>1 DEF Good, Connected
  <2>3. Passed(c)' = << >> /\ DOMAIN << >> = {}
    BY <2>1, <2>2 DEF Passed
  <2>4. Connected(c)'
    BY <1>0, <2>1, <2>2 DEF Good, Connected
  <2> QED BY <2>1, <2>3, <2>4 DEF Good, Ordered, Complete
<1>2. CASE Say(c) \/ Close(c) \/ Vanish(c)
  <2>1. UNCHANGED <<filter, handler, next, first, sender, held, wire, got>>
    BY <1>2 DEF Say, Close, Vanish
  <2>2. peer[c] = "open" /\ peer'[c] \in {"open", "closed", "gone"}
    BY <1>2 DEF Say, Close, Vanish, TypeOK
  <2>3. Passed(c)' = Passed(c)
    BY <2>1 DEF Passed
  <2>4. Ordered(c)' /\ Complete(c)'
    BY <1>0, <2>1, <2>3, NothingLost
  <2>5. Connected(c)'
    BY <1>0, <2>1, <2>2 DEF Good, Connected
  <2> QED BY <2>4, <2>5 DEF Good
<1>3. CASE Take(c)
  <2>1. /\ UNCHANGED <<peer, filter, handler, next, first, sender, held>>
        /\ wire[c] # << >> /\ got'[c] = Append(got[c], Head(wire[c]))
        /\ wire'[c] = Tail(wire[c])
    BY <1>3 DEF Take, TypeOK, connection
  <2>2. Passed(c)' = Passed(c)
    <3> DEFINE g == got[c]
               w == wire[c]
               h == held[c]
    <3>1. g \in Seq(Nat) /\ w \in Seq(Nat) /\ h \in Seq(Nat)
      BY PassedType
    <3>2. w # << >>
      BY <2>1
    <3> HIDE DEF g, w, h
    <3>3. (Append(g, Head(w)) \o Tail(w)) \o h = (g \o w) \o h
      BY <3>1, <3>2, TakenInOrder
    <3>4. got'[c] = Append(g, Head(w)) /\ wire'[c] = Tail(w) /\ held'[c] = h
      BY <2>1 DEF g, w, h
    <3>5. Passed(c) = (g \o w) \o h
      BY DEF Passed, g, w, h
    <3> QED BY <3>3, <3>4, <3>5 DEF Passed
  <2>3. Ordered(c)' /\ Complete(c)'
    BY <1>0, <2>1, <2>2, NothingLost
  <2>4. Connected(c)'
    BY <1>0, <2>1 DEF Good, Connected
  <2> QED BY <2>3, <2>4 DEF Good
<1> QED BY <1>1, <1>2, <1>3 DEF Client

LEMMA HandlingStaysGood ==
  ASSUME TypeOK, TypeOK', NEW c \in Clients, Good(c), Handling(c)
  PROVE  Good(c)'
<1>0. sent' = sent /\ Longer /\ next[c] \in Nat /\ first[c] \in Nat /\ Len(sent) \in Nat
  BY DEF TypeOK, Longer, Handling, Subscribe, Finish, channel
<1>1. CASE Subscribe(c)
  <2>1. /\ UNCHANGED <<peer, filter, held, wire, got>> /\ peer[c] # "away"
        /\ sender[c] = "none" /\ handler'[c] = "waiting" /\ sender'[c] = "running"
        /\ next'[c] = Len(sent) + 1 /\ first'[c] = Len(sent) + 1
    BY <1>1 DEF Subscribe, TypeOK, connection, Good, Connected
  <2>2. got[c] = << >> /\ wire[c] = << >> /\ held[c] = << >>
    BY <2>1 DEF Good, Connected
  <2>3. Passed(c)' = << >> /\ DOMAIN << >> = {}
    BY <2>1, <2>2 DEF Passed
  <2>4. Connected(c)'
    BY <1>0, <2>1, <2>2 DEF Connected
  <2>5. ~\E n \in Int : n \in first'[c] .. next'[c] - 1
    BY <1>0, <2>1
  <2> QED BY <2>3, <2>4, <2>5 DEF Good, Ordered, Complete
<1>2. CASE Finish(c)
  <2>1. /\ UNCHANGED <<peer, filter, next, first, sender, held, wire, got>>
        /\ handler'[c] = "done"
    BY <1>2 DEF Finish, TypeOK, connection
  <2>2. Passed(c)' = Passed(c)
    BY <2>1 DEF Passed
  <2>3. Ordered(c)' /\ Complete(c)'
    BY <1>0, <2>1, <2>2, NothingLost
  <2>4. peer[c] # "away"
    BY <1>2 DEF Finish, Good, Connected
  <2>5. Connected(c)'
    BY <1>0, <2>1, <2>4 DEF Good, Connected
  <2> QED BY <2>3, <2>5 DEF Good
<1> QED BY <1>1, <1>2 DEF Handling

LEMMA SendingStaysGood ==
  ASSUME TypeOK, TypeOK', NEW c \in Clients, Good(c), Sending(c)
  PROVE  Good(c)'
<1>0. /\ sent' = sent /\ Longer /\ next[c] \in Nat /\ first[c] \in Nat /\ Len(sent) \in Nat
      /\ UNCHANGED <<peer, filter, handler, first>>
  BY DEF TypeOK, Longer, Sending, Lag, Receive, Send, SendFails, channel, connection
<1>1. sender[c] = "running" /\ handler[c] \notin {"none", "upgraded"}
  BY DEF Sending, Lag, Receive, Receiving, Send, SendFails, Good, Connected
<1>2. CASE Lag(c)
  <2>1. /\ UNCHANGED <<sender, held, wire, got>> /\ Overwritten' = Overwritten
        /\ next'[c] = Overwritten + 1 /\ next[c] <= Overwritten
    BY <1>0, <1>2 DEF Lag, TypeOK, Overwritten
  <2>2. Passed(c)' = Passed(c)
    BY <2>1 DEF Passed
  <2>3. Overwritten \in Nat /\ Overwritten <= Len(sent)
    BY <1>0, ChannelGrows
  <2>4. Ordered(c)' /\ Complete(c)'
    BY <1>0, <2>1, <2>2, <2>3, NothingLost
  <2>5. Connected(c)'
    BY <1>0, <1>1, <2>1, <2>3 DEF Good, Connected
  <2> QED BY <2>4, <2>5 DEF Good
<1>3. CASE Receive(c)
  <2>1. /\ UNCHANGED <<sender, wire, got>> /\ next'[c] = next[c] + 1
        /\ next[c] <= Len(sent)
    BY <1>3 DEF Receive, TypeOK
  <2>2. Connected(c)'
    BY <1>0, <1>1, <2>1 DEF Good, Connected
  <2> QED BY <1>3, <2>2, ReceiveIsGood DEF Good
<1>4. CASE Send(c)
  <2>1. /\ UNCHANGED <<next, sender, got>>
        /\ wire'[c] = wire[c] \o held[c] /\ held'[c] = << >>
    <3>1. /\ UNCHANGED <<next, sender, got>>
          /\ wire' = [wire EXCEPT ![c] = wire[c] \o held[c]]
          /\ held' = [held EXCEPT ![c] = << >>]
      BY <1>4 DEF Send
    <3>2. c \in DOMAIN wire /\ c \in DOMAIN held
      BY DEF TypeOK
    <3> QED BY <3>1, <3>2
  <2>2. Passed(c)' = Passed(c)
    <3> DEFINE g == got[c]
               w == wire[c]
               h == held[c]
    <3>1. g \in Seq(Nat) /\ w \in Seq(Nat) /\ h \in Seq(Nat)
      BY PassedType
    <3> HIDE DEF g, w, h
    <3>2. (g \o (w \o h)) \o << >> = (g \o w) \o h
      BY <3>1, SentInOrder
    <3>3. got'[c] = g /\ wire'[c] = w \o h /\ held'[c] = << >>
      BY <2>1 DEF g, w, h
    <3>4. Passed(c) = (g \o w) \o h
      BY DEF Passed, g, w, h
    <3> QED BY <3>2, <3>3, <3>4 DEF Passed
  <2>3. Ordered(c)' /\ Complete(c)'
    BY <1>0, <2>1, <2>2, NothingLost
  <2>4. Connected(c)'
    BY <1>0, <1>1, <2>1 DEF Good, Connected
  <2> QED BY <2>3, <2>4 DEF Good
<1>5. CASE SendFails(c)
  <2>1. UNCHANGED <<next, got, wire>> /\ sender'[c] = "ended" /\ held'[c] = << >>
    BY <1>5 DEF SendFails, TypeOK
  <2>2. Connected(c)'
    BY <1>0, <1>1, <2>1 DEF Good, Connected
  <2> QED BY <1>5, <2>2, SendFailsIsGood DEF Good
<1> QED BY <1>2, <1>3, <1>4, <1>5 DEF Sending

LEMMA StreamStep ==
  ASSUME StreamInv, [Next]_vars
  PROVE  StreamInv'
<1>0. TypeOK
  BY DEF StreamInv
<1>1. TypeOK /\ TypeOK' /\ \A c \in Clients : Good(c)
  BY StreamKeepsType, StreamInvIsGood DEF StreamInv
<1>2. SUFFICES ASSUME NEW c \in Clients
               PROVE  Good(c)'
  BY <1>1, <1>2 DEF StreamInv, Good, InOrder, Ordered, OnlyLagLoses, Complete
<1>3. ASSUME NEW e \in Events, Publish(e)
      PROVE  Good(c)'
  <2>1. Longer /\ UNCHANGED <<peer, filter, handler, next, first, sender, held, wire, got>>
    BY <1>3 DEF Publish, Longer, connection
  <2> QED BY <1>1, <2>1, OthersStayGood
<1>4. ASSUME NEW d \in Clients, d # c, Client(d) \/ Handling(d) \/ Sending(d) \/ Reading(d)
      PROVE  Good(c)'
  <2>1. /\ Longer
        /\ peer'[c] = peer[c] /\ filter'[c] = filter[c] /\ handler'[c] = handler[c]
        /\ next'[c] = next[c] /\ first'[c] = first[c] /\ sender'[c] = sender[c]
        /\ held'[c] = held[c] /\ wire'[c] = wire[c] /\ got'[c] = got[c]
    <3>1. CASE Client(d)
      BY <1>0, <1>4, <3>1 DEF TypeOK, Longer, Client, Connect, Say, Close, Vanish, Take, channel,
         connection
    <3>2. CASE Handling(d)
      BY <1>0, <1>4, <3>2 DEF TypeOK, Longer, Handling, Subscribe, Finish, channel, connection
    <3>3. CASE Sending(d)
      BY <1>0, <1>4, <3>3 DEF TypeOK, Longer, Sending, Lag, Receive, Send, SendFails, channel,
         connection
    <3>4. CASE Reading(d)
      BY <1>0, <1>4, <3>4 DEF TypeOK, Longer, Reading, Read, ReadFails, channel, connection
    <3> QED BY <1>4, <3>1, <3>2, <3>3, <3>4
  <2> QED BY <1>1, <2>1, OthersStayGood
<1>5. CASE Reading(c)
  <2>1. Longer /\ UNCHANGED <<peer, filter, handler, next, first, sender, held, wire, got>>
    BY <1>5 DEF Reading, Read, ReadFails, Longer, channel, connection
  <2> QED BY <1>1, <2>1, OthersStayGood
<1>6. CASE UNCHANGED vars
  <2>1. Longer /\ UNCHANGED <<peer, filter, handler, next, first, sender, held, wire, got>>
    BY <1>6 DEF vars, Longer, channel, connection
  <2> QED BY <1>1, <2>1, OthersStayGood
<1> QED
  BY <1>1, <1>3, <1>4, <1>5, <1>6, ClientStaysGood, HandlingStaysGood, SendingStaysGood DEF Next

-----------------------------------------------------------------------------
(* What holds always *)

LEMMA StreamInductive == Spec => []StreamInv
<1>1. Init => StreamInv
  BY InitIsGood
<1>2. StreamInv /\ [Next]_vars => StreamInv'
  BY StreamStep
<1> QED BY <1>1, <1>2, PTL DEF Spec

\* The channel, the tasks and the connections keep their types.
THEOREM TypeCorrect == Spec => []TypeOK
<1>1. StreamInv => TypeOK
  BY DEF StreamInv
<1> QED BY <1>1, StreamInductive, PTL

\* Every subscriber is sent what its filter lets through, once and in order, for any
\* number of subscribers and any capacity of the channel.
THEOREM InOrderAlways == Spec => []InOrder
<1>1. StreamInv => InOrder
  BY DEF StreamInv
<1> QED BY <1>1, StreamInductive, PTL

\* A subscriber whose sender runs has missed nothing but what was overwritten before
\* it could be read.
THEOREM OnlyLagLosesAlways == Spec => []OnlyLagLoses
<1>1. StreamInv => OnlyLagLoses
  BY DEF StreamInv
<1> QED BY <1>1, StreamInductive, PTL
=============================================================================
