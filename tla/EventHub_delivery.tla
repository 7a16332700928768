-------------------------- MODULE EventHub_delivery --------------------------
(***************************************************************************)
(* Proof that the log hub delivers: what a reader gets is exactly what was *)
(* published, for every size of the ring and of the channel buffers, any   *)
(* number of handlers, readers and restarts.                               *)
(***************************************************************************)
EXTENDS EventHub_proofs

-----------------------------------------------------------------------------
(* What the channels carry: the invariant                                  *)

PubPlaces == {"idle", "resume", "publish", "send", "full", "finish", "close", "return"}
PubRecord ==
  [at : PubPlaces, kind : {"none", "log", "complete"}, execution : Nat, rest : Frames,
   event : AnyEvent, todo : SUBSET SubIDs, slow : {0} \cup SubIDs, dropped : SUBSET SubIDs]
ConnPlaces == {"idle", "resume", "subscribe", "replay", "full", "read", "cancel", "close"}
ConnRecord ==
  [at : ConnPlaces, execution : Nat, sub : {0} \cup SubIDs, replay : Seq(Events),
   ended : BOOLEAN, from : Nat]

Sending(k) == k.at \in {"send", "full"}

\* Which fields mean something, by where a goroutine is.
PubShape(k) ==
  /\ k \in PubRecord
  /\ k.at \notin {"send", "full", "close"} => k.todo = {}
  /\ k.at = "full" <=> k.slow # 0
ConnShape(k) ==
  /\ k \in ConnRecord
  /\ k.sub = 0 <=> k.at \in {"idle", "resume", "subscribe"}
  /\ k.replay # <<>> => k.at = "replay"

\* The ring is a window of consecutive ids that ends with the newest.
RingWindow ==
  /\ ring.items \in [0..(HistorySize - 1) -> Events \cup {NoEvent}]
  /\ ring.len <= nextEventID /\ nextEventID <= MaxEvents
  /\ \A i \in 1..ring.len : slice(ring)[i].id = nextEventID - ring.len + i

\* A channel carries events that were published, each of them once.
ChannelsOK ==
  /\ sent \in [SubIDs -> Seq(Events)] /\ taken \in [SubIDs -> Nat]
  /\ chanClosed \in [SubIDs -> BOOLEAN]
  /\ nextSubID \in 0..MaxSubs /\ subs \subseteq 1..nextSubID
  /\ \A s \in SubIDs : /\ taken[s] <= Len(sent[s]) /\ Len(sent[s]) - taken[s] <= BufferSize
                       /\ nextSubID < s => sent[s] = <<>>
                       /\ \A i \in DOMAIN sent[s] : sent[s][i].id <= nextEventID
  /\ DeliveredOnce

\* An event on its way has not arrived, and has one publisher; n is the newest
\* subscription and last the newest event.
UnderWay(k, x, n, last) ==
  Sending(k) =>
    /\ k.event \in Events /\ k.event.id <= last
    /\ \A s \in k.todo : s <= n /\ \A i \in DOMAIN x[s] : x[s][i].id # k.event.id
SameEvent(k, l) == Sending(k) /\ Sending(l) /\ k.event.id = l.event.id

PubsDeliver ==
  /\ pub \in [Publishers -> PubRecord]
  /\ \A p \in Publishers : PubShape(pub[p])
  /\ \A p \in Publishers : UnderWay(pub[p], sent, nextSubID, nextEventID)
  /\ \A p, q \in Publishers : SameEvent(pub[p], pub[q]) => p = q

\* A subscription has one connection; what it is still to be replayed is behind
\* its cursor, in order, was published before the subscription and is not yet in
\* its channel x.
ToReplay(k, cur, x) ==
  \A i \in DOMAIN k.replay :
    /\ cur < k.replay[i].id /\ k.replay[i].id <= k.from
    /\ \A j \in DOMAIN k.replay : i < j => k.replay[i].id < k.replay[j].id
    /\ \A j \in DOMAIN x : x[j].id # k.replay[i].id

ConnsDeliver ==
  /\ conn \in [Clients -> ConnRecord] /\ cursor \in [Clients -> 0..MaxEvents]
  /\ \A c \in Clients : ConnShape(conn[c])
  /\ \A c \in Clients : conn[c].sub <= nextSubID /\ conn[c].from <= nextEventID
  /\ \A c \in Clients : ToReplay(conn[c], cursor[c], sent[conn[c].sub])
  /\ \A c, d \in Clients : conn[c].sub = conn[d].sub /\ conn[c].sub # 0 => c = d

\* An event on its way to a subscription was published since.
SentSince(k, l) == Sending(k) /\ l.sub \in k.todo => l.from < k.event.id
SendsAfter == \A p \in Publishers, c \in Clients : SentSince(pub[p], conn[c])

FlagsOK ==
  /\ execution \in Executions
  /\ closed \in BOOLEAN /\ jobDone \in BOOLEAN /\ panicked \in BOOLEAN

Carried == ChannelsOK /\ PubsDeliver /\ ConnsDeliver /\ SendsAfter /\ NoHole
DeliveryInv == HubInv /\ FlagsOK /\ RingWindow /\ Carried

LEMMA RetainedEvent ==
  ASSUME HubInv, RingWindow, NEW i \in 1..ring.len
  PROVE  slice(ring)[i] \in Events
<1>1. IsRing(ring) /\ nextEventID \in Nat /\ ring.len \in Nat
  BY HubAssumption DEF HubInv, StreamOK, IsRing
<1>2. Position(ring.head, ring.len, i) \in 0..(HistorySize - 1)
  BY <1>1, HubAssumption DEF IsRing, Position
<1>3. slice(ring)[i] \in Events \cup {NoEvent}
  BY <1>1, <1>2, SliceElement DEF RingWindow
<1>4. slice(ring)[i].id \in Nat /\ slice(ring)[i].id > 0
  BY <1>1 DEF RingWindow
<1>5. NoEvent.id = 0
  BY DEF NoEvent
<1> QED BY <1>3, <1>4, <1>5

\* What after collects is in order and behind the cursor.
LEMMA AfterInOrder ==
  ASSUME HubInv, RingWindow, NEW since \in Nat
  PROVE  /\ after(ring, since) \in Seq(Events)
         /\ \A i \in DOMAIN after(ring, since) :
              /\ since < after(ring, since)[i].id /\ after(ring, since)[i].id <= nextEventID
              /\ \A j \in DOMAIN after(ring, since) :
                   i < j => after(ring, since)[i].id < after(ring, since)[j].id
<1>1. nextEventID \in Nat /\ ring.len \in Nat
  BY HubAssumption DEF HubInv, StreamOK, IsRing
<1>2. PICK out : IsWalk(out, ring, since, ring.len) /\ after(ring, since) = out[ring.len]
  BY <1>1, AfterWalks
<1> DEFINE Good(m) ==
             /\ out[m] \in Seq(Events)
             /\ \A i \in DOMAIN out[m] :
                  /\ since < out[m][i].id /\ out[m][i].id <= nextEventID - ring.len + m
                  /\ \A j \in DOMAIN out[m] : i < j => out[m][i].id < out[m][j].id
           Bad == {m \in 0..ring.len : ~Good(m)}
<1>3. Good(0)
  <2>1. out[0] = <<>>
    BY <1>1, <1>2 DEF IsWalk
  <2> QED BY <2>1
<1>4. ASSUME NEW m \in 1..ring.len, Good(m - 1) PROVE Good(m)
  <2>1. m \in 0..ring.len /\ m # 0
    BY <1>1
  <2>2. out[m] = IF slice(ring)[m].id > since THEN Append(out[m - 1], slice(ring)[m]) ELSE out[m - 1]
    BY <1>2, <2>1 DEF IsWalk
  <2>3. slice(ring)[m] \in Events /\ slice(ring)[m].id = nextEventID - ring.len + m
    BY RetainedEvent DEF RingWindow
  <2>4. PICK q, e : q = out[m - 1] /\ e = slice(ring)[m]
    OBVIOUS
  <2>5. /\ q \in Seq(Events) /\ e \in Events /\ e.id = nextEventID - ring.len + m
        /\ \A i \in DOMAIN q :
             /\ q[i] \in Events /\ since < q[i].id /\ q[i].id <= nextEventID - ring.len + (m - 1)
             /\ \A j \in DOMAIN q : i < j => q[i].id < q[j].id
    BY <1>4, <2>3, <2>4
  <2>6. CASE e.id > since
    <3>1. out[m] = Append(q, e)
      BY <2>2, <2>4, <2>6
    <3>2. Append(q, e) \in Seq(Events) /\ DOMAIN Append(q, e) = 1..(Len(q) + 1) /\ DOMAIN q = 1..Len(q)
      BY <2>5
    <3>3. \A i \in 1..(Len(q) + 1) : Append(q, e)[i] = IF i = Len(q) + 1 THEN e ELSE q[i]
      BY <2>5
    <3>4. Len(q) \in Nat /\ \A i \in 1..(Len(q) + 1) : i # Len(q) + 1 => i \in DOMAIN q
      BY <2>5, <3>2
    <3>5. \A x \in Events : x.id \in Nat
      BY DEF Events, EventIDs
    <3>6. ASSUME NEW i \in 1..(Len(q) + 1)
          PROVE  /\ since < Append(q, e)[i].id /\ Append(q, e)[i].id <= nextEventID - ring.len + m
                 /\ \A j \in 1..(Len(q) + 1) : i < j => Append(q, e)[i].id < Append(q, e)[j].id
      <4>1. CASE i = Len(q) + 1
        BY <1>1, <2>5, <2>6, <3>3, <3>4, <3>5, <4>1
      <4>2. CASE i # Len(q) + 1
        <5>1. i \in DOMAIN q /\ q[i] \in Events /\ Append(q, e)[i] = q[i]
          BY <2>5, <3>3, <3>4, <4>2
        <5>2. q[i].id <= nextEventID - ring.len + (m - 1) /\ since < q[i].id
          BY <2>5, <5>1
        <5>3. ASSUME NEW j \in 1..(Len(q) + 1), i < j PROVE q[i].id < Append(q, e)[j].id
          <6>1. CASE j = Len(q) + 1
            BY <1>1, <2>5, <3>3, <3>5, <5>1, <5>2, <6>1
          <6>2. CASE j # Len(q) + 1
            BY <2>5, <3>3, <3>4, <5>1, <5>3, <6>2
          <6> QED BY <6>1, <6>2
        <5>4. q[i].id <= nextEventID - ring.len + m
          BY <1>1, <3>5, <5>1, <5>2
        <5> QED BY <5>1, <5>2, <5>3, <5>4
      <4> QED BY <4>1, <4>2
    <3> QED BY <3>1, <3>2, <3>6
  <2>7. CASE ~(e.id > since)
    <3>1. out[m] = q
      BY <2>2, <2>4, <2>7
    <3>2. ASSUME NEW i \in DOMAIN q PROVE q[i].id <= nextEventID - ring.len + m
      <4>1. q[i].id \in Nat /\ q[i].id <= nextEventID - ring.len + (m - 1)
        BY <2>5 DEF Events, EventIDs
      <4> QED BY <1>1, <4>1
    <3> QED BY <2>5, <3>1, <3>2
  <2> QED BY <2>6, <2>7
<1> HIDE DEF Good
<1>5. Bad = {}
  <2> SUFFICES ASSUME Bad # {} PROVE FALSE
    OBVIOUS
  <2>1. PICK m \in Bad : \A k \in Bad : m <= k
    <3>1. Bad \subseteq Nat
      BY <1>1
    <3> HIDE DEF Bad
    <3> QED BY <3>1, LeastNumber
  <2>2. m # 0 /\ m \in 1..ring.len
    BY <1>1, <1>3, <2>1
  <2>3. m - 1 \in 0..ring.len /\ m - 1 \notin Bad
    BY <1>1, <2>1, <2>2
  <2> QED BY <1>4, <2>1, <2>2, <2>3
<1>6. Good(ring.len)
  BY <1>1, <1>5
<1> QED BY <1>1, <1>2, <1>6 DEF Good

-----------------------------------------------------------------------------
(* What the channels carry: steps that put nothing into a channel          *)

LEMMA ChannelsStay ==
  ASSUME ChannelsOK, UNCHANGED <<nextEventID, nextSubID, sent>>,
         taken' \in [SubIDs -> Nat],
         \A s \in SubIDs : taken[s] <= taken'[s] /\ taken'[s] <= Len(sent[s]),
         subs' \subseteq subs, chanClosed' \in [SubIDs -> BOOLEAN]
  PROVE  ChannelsOK'
<1>1. \A s \in SubIDs : /\ taken'[s] <= Len(sent[s]) /\ Len(sent[s]) - taken'[s] <= BufferSize
                        /\ nextSubID < s => sent[s] = <<>>
                        /\ \A i \in DOMAIN sent[s] : sent[s][i].id <= nextEventID
  <2> SUFFICES ASSUME NEW s \in SubIDs
               PROVE  Len(sent[s]) - taken'[s] <= BufferSize
    BY DEF ChannelsOK
  <2>1. /\ Len(sent[s]) \in Nat /\ taken[s] \in Nat /\ taken'[s] \in Nat /\ taken[s] <= taken'[s]
        /\ Len(sent[s]) - taken[s] <= BufferSize
    BY DEF ChannelsOK
  <2> QED BY <2>1, HubAssumption
<1>2. DeliveredOnce'
  BY DEF ChannelsOK, DeliveredOnce
<1>3. subs' \subseteq 1..nextSubID
  BY DEF ChannelsOK
<1> QED BY <1>1, <1>2, <1>3, Zenon DEF ChannelsOK

LEMMA SubsInRange ==
  ASSUME ChannelsOK PROVE nextSubID \in Nat /\ subs \subseteq 1..nextSubID /\ subs \subseteq SubIDs
                          /\ 0 \notin subs
  BY HubAssumption DEF ChannelsOK, SubIDs

\* Where an event is that a subscription must not miss.
Arrives(s, id, x, pb) ==
  \/ \E i \in DOMAIN x[s] : x[s][i].id = id
  \/ \E p \in Publishers : pb[p].event.id = id /\ s \in pb[p].todo \cup {pb[p].slow}

LEMMA HoleMeaning ==
  NoHole <=> (~panicked => \A c \in Clients : conn[c].sub \in subs /\ ~chanClosed[conn[c].sub] =>
                \A id \in (conn[c].from + 1)..nextEventID : Arrives(conn[c].sub, id, sent, pub))
  BY Zenon DEF NoHole, Arrives

LEMMA HoleMeaningNext ==
  NoHole' <=> (~panicked' => \A c \in Clients : conn'[c].sub \in subs' /\ ~chanClosed'[conn'[c].sub] =>
                \A id \in (conn'[c].from + 1)..nextEventID' : Arrives(conn'[c].sub, id, sent', pub'))
  BY Zenon DEF NoHole, Arrives

\* No event is published, and what arrives still does.
LEMMA NoHoleStays ==
  ASSUME NoHole, UNCHANGED nextEventID, ~panicked' => ~panicked,
         \A c \in Clients : conn'[c].sub \in subs' /\ ~chanClosed'[conn'[c].sub] /\ ~panicked' =>
           /\ conn[c].sub \in subs /\ ~chanClosed[conn[c].sub]
           /\ conn'[c].sub = conn[c].sub /\ conn'[c].from = conn[c].from
           /\ \A id : Arrives(conn[c].sub, id, sent, pub) => Arrives(conn[c].sub, id, sent', pub')
  PROVE  NoHole'
  BY HoleMeaning, HoleMeaningNext, Zenon

\* A publisher goes on: what it has still to send it had to send before, and
\* a subscriber it forgets is closed or no subscriber any more.
LEMMA PubQuiet ==
  ASSUME DeliveryInv, NEW p \in Publishers, NEW k, PubShape(k), pub' = [pub EXCEPT ![p] = k],
         Sending(k) => Sending(pub[p]) /\ k.event = pub[p].event /\ k.todo \subseteq pub[p].todo,
         UNCHANGED <<nextEventID, nextSubID, sent, taken, conn, cursor>>,
         subs' \subseteq subs, chanClosed' \in [SubIDs -> BOOLEAN],
         \A s \in SubIDs : chanClosed[s] => chanClosed'[s],
         ~panicked' => ~panicked,
         \A s \in subs' : ~chanClosed'[s] /\ ~panicked' /\ s \in pub[p].todo \cup {pub[p].slow}
           => s \in k.todo \cup {k.slow} /\ k.event = pub[p].event
  PROVE  Carried'
<1>1. ChannelsOK'
  <2>1. ChannelsOK /\ taken' = taken /\ sent' = sent
    BY DEF DeliveryInv, Carried
  <2>2. taken' \in [SubIDs -> Nat] /\ \A s \in SubIDs : taken[s] <= taken'[s] /\ taken'[s] <= Len(sent[s])
    BY <2>1 DEF ChannelsOK
  <2> QED BY <2>1, <2>2, ChannelsStay
<1>2. /\ pub \in [Publishers -> PubRecord] /\ \A q \in Publishers : PubShape(pub[q])
      /\ \A q \in Publishers : UnderWay(pub[q], sent, nextSubID, nextEventID)
      /\ \A q, r \in Publishers : SameEvent(pub[q], pub[r]) => q = r
      /\ k \in PubRecord
  BY DEF DeliveryInv, Carried, PubsDeliver, PubShape
<1>3. pub' \in [Publishers -> PubRecord] /\ \A q \in Publishers : pub'[q] = IF q = p THEN k ELSE pub[q]
  BY <1>2
<1>4. sent' = sent /\ nextEventID' = nextEventID /\ nextSubID' = nextSubID /\ conn' = conn
  OBVIOUS
<1>5. UnderWay(k, sent, nextSubID, nextEventID) /\ \A q \in Publishers : SameEvent(k, pub[q]) => SameEvent(pub[p], pub[q])
  <2>1. UnderWay(pub[p], sent, nextSubID, nextEventID)
    BY <1>2
  <2> QED BY <2>1 DEF UnderWay, SameEvent
<1>6. PubsDeliver'
  <2>1. \A q \in Publishers : PubShape(pub'[q]) /\ UnderWay(pub'[q], sent, nextSubID, nextEventID)
    BY <1>2, <1>3, <1>5
  <2>2. \A l, m : SameEvent(l, m) => SameEvent(m, l)
    BY DEF SameEvent
  <2>3. ASSUME NEW q \in Publishers, NEW r \in Publishers, SameEvent(pub'[q], pub'[r]) PROVE q = r
    BY <1>2, <1>3, <1>5, <2>2, <2>3
  <2>4. \A q \in Publishers : PubShape(pub[q])'
    BY <2>1 DEF PubShape
  <2>5. \A q \in Publishers : UnderWay(pub[q], sent, nextSubID, nextEventID)'
    BY <1>4, <2>1 DEF UnderWay, Sending
  <2>6. \A q, r \in Publishers : SameEvent(pub[q], pub[r])' => q = r
    BY <2>3 DEF SameEvent, Sending
  <2> QED BY <1>3, <2>4, <2>5, <2>6 DEF PubsDeliver
<1>7. ConnsDeliver'
  BY DEF DeliveryInv, Carried, ConnsDeliver, ConnShape, ToReplay
<1>8. SendsAfter'
  <2>1. ASSUME NEW q \in Publishers, NEW c \in Clients PROVE SentSince(pub'[q], conn[c])
    <3>1. SentSince(pub[q], conn[c])
      BY DEF DeliveryInv, Carried, SendsAfter
    <3> QED BY <1>3, <3>1 DEF SentSince
  <2> QED BY <1>4, <2>1 DEF SendsAfter, SentSince, Sending
<1>9. NoHole'
  <2>1. ASSUME NEW c \in Clients, conn'[c].sub \in subs', ~chanClosed'[conn'[c].sub], ~panicked', NEW id,
               Arrives(conn[c].sub, id, sent, pub)
        PROVE  Arrives(conn[c].sub, id, sent', pub')
    <3>1. CASE \E i \in DOMAIN sent[conn[c].sub] : sent[conn[c].sub][i].id = id
      BY <1>4, <3>1 DEF Arrives
    <3>2. CASE \E q \in Publishers : pub[q].event.id = id /\ conn[c].sub \in pub[q].todo \cup {pub[q].slow}
      <4>1. PICK q \in Publishers : pub[q].event.id = id /\ conn[c].sub \in pub[q].todo \cup {pub[q].slow}
        BY <3>2
      <4>2. pub'[q].event.id = id /\ conn[c].sub \in pub'[q].todo \cup {pub'[q].slow}
        BY <1>3, <1>4, <2>1, <4>1
      <4> QED BY <4>2 DEF Arrives
    <3> QED BY <2>1, <3>1, <3>2 DEF Arrives
  <2>2. ASSUME NEW c \in Clients, conn'[c].sub \in subs', ~chanClosed'[conn'[c].sub]
        PROVE  conn[c].sub \in subs /\ ~chanClosed[conn[c].sub]
    BY <1>4, <2>2, SubsInRange DEF DeliveryInv, Carried
  <2>3. NoHole
    BY DEF DeliveryInv, Carried
  <2> QED BY <1>4, <2>1, <2>2, <2>3, NoHoleStays
<1> QED BY <1>1, <1>6, <1>7, <1>8, <1>9 DEF Carried

\* A connection goes on, with nothing left to be replayed, or ends.
LEMMA ConnQuiet ==
  ASSUME DeliveryInv, NEW c \in Clients, NEW k, ConnShape(k), k.replay = <<>>,
         conn' = [conn EXCEPT ![c] = k],
         k.sub = 0 \/ (k.sub = conn[c].sub /\ k.from = conn[c].from), k.from <= nextEventID,
         UNCHANGED <<nextEventID, nextSubID, sent, pub, panicked>>,
         taken' \in [SubIDs -> Nat],
         \A s \in SubIDs : taken[s] <= taken'[s] /\ taken'[s] <= Len(sent[s]),
         cursor' \in [Clients -> 0..MaxEvents], \A d \in Clients \ {c} : cursor'[d] = cursor[d],
         subs' \subseteq subs, chanClosed' \in [SubIDs -> BOOLEAN],
         \A s \in SubIDs : chanClosed[s] => chanClosed'[s]
  PROVE  Carried'
<1>1. ChannelsOK'
  BY ChannelsStay DEF DeliveryInv, Carried
<1>2. /\ conn \in [Clients -> ConnRecord] /\ \A d \in Clients : ConnShape(conn[d])
      /\ \A d \in Clients : conn[d].sub <= nextSubID /\ conn[d].from <= nextEventID
      /\ \A d \in Clients : ToReplay(conn[d], cursor[d], sent[conn[d].sub])
      /\ \A d, e \in Clients : conn[d].sub = conn[e].sub /\ conn[d].sub # 0 => d = e
      /\ k \in ConnRecord
  BY DEF DeliveryInv, Carried, ConnsDeliver, ConnShape
<1>3. conn' \in [Clients -> ConnRecord] /\ \A d \in Clients : conn'[d] = IF d = c THEN k ELSE conn[d]
  BY <1>2
<1>4. /\ sent' = sent /\ nextEventID' = nextEventID /\ nextSubID' = nextSubID /\ pub' = pub
      /\ panicked' = panicked
  OBVIOUS
<1>5. nextSubID \in Nat /\ subs \subseteq 1..nextSubID /\ subs \subseteq SubIDs /\ 0 \notin subs
  BY SubsInRange DEF DeliveryInv, Carried
<1>6. PubsDeliver'
  BY <1>4 DEF DeliveryInv, Carried, PubsDeliver, PubShape, UnderWay, SameEvent, Sending
<1>7. \A d \in Clients : conn'[d].sub = 0 \/ (conn'[d].sub = conn[d].sub /\ conn'[d].from = conn[d].from)
  BY <1>3
<1>8. ConnsDeliver'
  <2>1. \A d \in Clients : ConnShape(conn'[d]) /\ conn'[d].from <= nextEventID
    BY <1>2, <1>3
  <2>2. \A d \in Clients : conn'[d].sub <= nextSubID
    BY <1>2, <1>5, <1>7
  <2>3. ASSUME NEW d \in Clients, NEW e \in Clients, conn'[d].sub = conn'[e].sub, conn'[d].sub # 0
        PROVE  d = e
    <3>1. conn[d].sub = conn[e].sub /\ conn[d].sub # 0
      BY <1>7, <2>3
    <3> QED BY <1>2, <3>1
  <2>4. ASSUME NEW d \in Clients PROVE ToReplay(conn'[d], cursor'[d], sent[conn'[d].sub])
    <3>1. CASE d = c
      <4>1. conn'[d].replay = <<>>
        BY <1>3, <3>1
      <4> QED BY <4>1 DEF ToReplay
    <3>2. CASE d # c
      BY <1>2, <1>3, <3>2
    <3> QED BY <3>1, <3>2
  <2>5. \A d \in Clients : ConnShape(conn[d])'
    BY <2>1 DEF ConnShape
  <2>6. ASSUME NEW d \in Clients PROVE ToReplay(conn[d], cursor[d], sent[conn[d].sub])'
    <3>1. ToReplay(conn'[d], cursor'[d], sent'[conn'[d].sub])
      BY <1>4, <2>4
    <3> QED BY <3>1 DEF ToReplay
  <2> QED BY <1>3, <1>4, <2>1, <2>2, <2>3, <2>5, <2>6 DEF ConnsDeliver
<1>9. SendsAfter'
  <2>1. ASSUME NEW q \in Publishers, NEW d \in Clients PROVE SentSince(pub[q], conn'[d])
    <3>1. SentSince(pub[q], conn[d]) /\ pub[q] \in PubRecord
      BY DEF DeliveryInv, Carried, SendsAfter, PubsDeliver
    <3>2. 0 \notin pub[q].todo
      BY <3>1, HubAssumption DEF PubRecord, SubIDs
    <3> QED BY <1>7, <3>1, <3>2 DEF SentSince
  <2> QED BY <1>4, <2>1 DEF SendsAfter, SentSince, Sending
<1>10. NoHole'
  <2>1. ASSUME NEW d \in Clients, conn'[d].sub \in subs', ~chanClosed'[conn'[d].sub]
        PROVE  /\ conn[d].sub \in subs /\ ~chanClosed[conn[d].sub]
               /\ conn'[d].sub = conn[d].sub /\ conn'[d].from = conn[d].from
    <3>1. conn'[d].sub # 0 /\ conn'[d].sub \in subs /\ conn'[d].sub \in SubIDs
      BY <1>5, <2>1, Zenon
    <3> QED BY <1>7, <2>1, <3>1
  <2>2. NoHole
    BY DEF DeliveryInv, Carried
  <2> QED BY <1>4, <2>1, <2>2, NoHoleStays
<1> QED BY <1>1, <1>6, <1>8, <1>9, <1>10 DEF Carried

-----------------------------------------------------------------------------
(* What the channels carry: the steps of publishers                        *)

LEMMA WindowStays ==
  ASSUME RingWindow, UNCHANGED <<ring, nextEventID>> PROVE RingWindow'
  BY DEF RingWindow, slice, oldest

LEMMA ResumeWindow ==
  ASSUME HubInv, RingWindow, closed \in BOOLEAN, NEW count, resume(count)
  PROVE  RingWindow' /\ closed' \in BOOLEAN /\ UNCHANGED nextEventID
<1>1. CASE count > resumeCount
  <2>1. ring' = newRing /\ closed' = FALSE /\ UNCHANGED nextEventID
    BY <1>1 DEF resume
  <2>2. /\ ring'.len = 0 /\ ring'.items \in [0..(HistorySize - 1) -> Events \cup {NoEvent}]
        /\ nextEventID \in Nat /\ nextEventID <= MaxEvents
    BY <2>1 DEF newRing, HubInv, StreamOK, RingWindow
  <2>3. \A i \in 1..ring'.len : FALSE
    BY <2>2
  <2>4. ring'.len <= nextEventID /\ nextEventID' <= MaxEvents /\ nextEventID' = nextEventID
    BY <2>1, <2>2
  <2>5. RingWindow'
    BY <2>2, <2>3, <2>4 DEF RingWindow
  <2> QED BY <2>1, <2>5
<1>2. CASE ~(count > resumeCount)
  BY <1>2, WindowStays DEF resume, stream
<1> QED BY <1>1, <1>2

LEMMA CloseAllGrows ==
  ASSUME ChannelsOK, NEW ss, CloseAll(ss)
  PROVE  /\ chanClosed' \in [SubIDs -> BOOLEAN]
         /\ \A s \in SubIDs : chanClosed[s] => chanClosed'[s]
         /\ \A s \in SubIDs : s \in ss => chanClosed'[s]
  BY DEF ChannelsOK, CloseAll

LEMMA PubFields ==
  ASSUME DeliveryInv, NEW p \in Publishers
  PROVE  /\ PubShape(pub[p]) /\ pub[p] \in PubRecord /\ PubOK(pub[p])
         /\ pub = [q \in Publishers |-> pub[q]]
  BY DEF DeliveryInv, Carried, PubsDeliver, PubShape, HubInv, PubsOK

\* A publisher that has nothing under way goes on, or gives up by a panic.
LEMMA PubRests ==
  ASSUME DeliveryInv, NEW p \in Publishers, NEW k, PubShape(k), ~Sending(k),
         pub' = [pub EXCEPT ![p] = k],
         UNCHANGED <<nextEventID, subs, nextSubID, channels, conn, cursor>>,
         ~panicked' => ~panicked /\ pub[p].at \notin {"send", "full", "close"}
  PROVE  Carried'
<1>1. UNCHANGED <<nextEventID, nextSubID, sent, taken, conn, cursor>> /\ chanClosed' = chanClosed /\ subs' = subs
  BY DEF channels
<1>2. chanClosed' \in [SubIDs -> BOOLEAN] /\ \A s \in SubIDs : chanClosed[s] => chanClosed'[s]
  BY <1>1 DEF DeliveryInv, Carried, ChannelsOK
<1>3. ~panicked' => pub[p].todo = {} /\ pub[p].slow = 0
  BY PubFields DEF PubShape
<1>4. 0 \notin subs
  BY SubsInRange DEF DeliveryInv, Carried
<1>5. ASSUME NEW s \in subs', ~panicked' PROVE s \notin pub[p].todo \cup {pub[p].slow}
  BY <1>1, <1>3, <1>4, <1>5
<1> QED BY <1>1, <1>2, <1>5, PubQuiet

LEMMA IdlePubShape == PubShape(IdlePub) /\ ~Sending(IdlePub)
<1>1. NoEvent \in AnyEvent
  BY DEF NoEvent, AnyEvent, Types
<1> QED BY <1>1 DEF PubShape, PubRecord, PubPlaces, Sending, IdlePub, Frames

LEMMA BeginsDelivers ==
  ASSUME DeliveryInv, NEW p \in Publishers, IngestLog(p) \/ IngestNodeLog(p) \/ BeginComplete(p)
  PROVE  Carried'
<1>1. PICK k : pub' = [pub EXCEPT ![p] = k] /\ PubShape(k) /\ ~Sending(k)
  <2>1. execution \in Nat /\ <<"log">> \in Frames /\ <<"retention", "done">> \in Frames /\ NoEvent \in AnyEvent
    BY DEF DeliveryInv, HubInv, StreamOK, Frames, NoEvent, AnyEvent, Types
  <2>2. CASE IngestLog(p)
    <3>1. PICK k : k = [IdlePub EXCEPT !.at = "resume", !.kind = "log",
                                      !.execution = execution, !.rest = <<"log">>]
      OBVIOUS
    <3>2. k = [at |-> "resume", kind |-> "log", execution |-> execution, rest |-> <<"log">>,
               event |-> NoEvent, todo |-> {}, slow |-> 0, dropped |-> {}]
      BY <3>1 DEF IdlePub
    <3>3. PubShape(k) /\ ~Sending(k)
      BY <2>1, <3>2 DEF PubShape, PubRecord, PubPlaces, Sending
    <3> QED BY <2>2, <3>1, <3>3 DEF IngestLog
  <2>3. CASE IngestNodeLog(p)
    <3>1. PICK k : k = [IdlePub EXCEPT !.at = "publish", !.kind = "log", !.rest = <<"log">>]
      OBVIOUS
    <3>2. k = [at |-> "publish", kind |-> "log", execution |-> 0, rest |-> <<"log">>,
               event |-> NoEvent, todo |-> {}, slow |-> 0, dropped |-> {}]
      BY <3>1 DEF IdlePub
    <3>3. PubShape(k) /\ ~Sending(k)
      BY <2>1, <3>2 DEF PubShape, PubRecord, PubPlaces, Sending
    <3> QED BY <2>3, <3>1, <3>3 DEF IngestNodeLog
  <2>4. CASE BeginComplete(p)
    <3>1. PICK k : k = [IdlePub EXCEPT !.at = "resume", !.kind = "complete",
                                      !.execution = execution, !.rest = <<"retention", "done">>]
      OBVIOUS
    <3>2. k = [at |-> "resume", kind |-> "complete", execution |-> execution, rest |-> <<"retention", "done">>,
               event |-> NoEvent, todo |-> {}, slow |-> 0, dropped |-> {}]
      BY <3>1 DEF IdlePub
    <3>3. PubShape(k) /\ ~Sending(k)
      BY <2>1, <3>2 DEF PubShape, PubRecord, PubPlaces, Sending
    <3> QED BY <2>4, <3>1, <3>3 DEF BeginComplete
  <2> QED BY <2>2, <2>3, <2>4
<1>2. /\ pub[p].at = "idle" /\ panicked' = panicked
      /\ UNCHANGED <<nextEventID, subs, nextSubID, channels, conn, cursor>>
  BY DEF IngestLog, IngestNodeLog, BeginComplete, stream
<1> QED BY <1>1, <1>2, PubRests

LEMMA PublisherResumeDelivers ==
  ASSUME DeliveryInv, NEW p \in Publishers, PublisherResume(p)
  PROVE  Carried' /\ RingWindow' /\ closed' \in BOOLEAN
<1>1. PICK k : k = [pub[p] EXCEPT !.at = "publish"]
  OBVIOUS
<1>2. /\ pub[p].at = "resume" /\ panicked' = panicked /\ resume(pub[p].execution)
      /\ pub' = [pub EXCEPT ![p] = k]
      /\ UNCHANGED <<subs, nextSubID, channels, conn, cursor>>
  BY <1>1 DEF PublisherResume
<1>3. RingWindow' /\ closed' \in BOOLEAN /\ UNCHANGED nextEventID
  BY <1>2, ResumeWindow DEF DeliveryInv, FlagsOK
<1>4. PubShape(k) /\ ~Sending(k)
  BY <1>1, <1>2, PubFields DEF PubShape, PubRecord, PubPlaces, Sending
<1> QED BY <1>2, <1>3, <1>4, PubRests

LEMMA AppendRefusedDelivers ==
  ASSUME DeliveryInv, NEW p \in Publishers, AppendRefused(p) PROVE Carried'
<1>1. PICK at \in {"return", "publish"} : at = IF Tail(pub[p].rest) = <<>> THEN "return" ELSE "publish"
  OBVIOUS
<1>2. PICK k : k = [pub[p] EXCEPT !.rest = Tail(@), !.at = at]
  OBVIOUS
<1>3. /\ pub[p].at = "publish" /\ panicked' = panicked /\ pub' = [pub EXCEPT ![p] = k]
      /\ UNCHANGED <<nextEventID, subs, nextSubID, channels, conn, cursor>>
  BY <1>1, <1>2 DEF AppendRefused, stream
<1>4. Tail(pub[p].rest) \in Frames
  BY <1>3, PubFields, FramesLeft DEF PubOK
<1>5. PubShape(k) /\ ~Sending(k)
  BY <1>1, <1>2, <1>3, <1>4, PubFields DEF PubShape, PubRecord, PubPlaces, Sending
<1> QED BY <1>3, <1>5, PubRests

LEMMA PublisherReturnDelivers ==
  ASSUME DeliveryInv, NEW p \in Publishers, PublisherReturn(p) PROVE Carried' /\ jobDone' \in BOOLEAN
<1>1. /\ pub[p].at = "return" /\ panicked' = panicked /\ pub' = [pub EXCEPT ![p] = IdlePub]
      /\ UNCHANGED <<nextEventID, subs, nextSubID, channels, conn, cursor>>
  BY DEF PublisherReturn, stream
<1>2. Carried'
  BY <1>1, PubRests, IdlePubShape
<1>3. jobDone' \in BOOLEAN
  BY DEF PublisherReturn, DeliveryInv, FlagsOK
<1> QED BY <1>2, <1>3

\* The event appended, and the record of its publisher.
LEMMA AppendedEvent ==
  ASSUME DeliveryInv, NEW p \in Publishers, AppendEvent(p)
  PROVE  \E e \in Events, k \in PubRecord :
           /\ e \in AnyEvent /\ e.id = nextEventID + 1
           /\ ring' = push(ring, e) /\ nextEventID' = nextEventID + 1 /\ nextEventID < MaxEvents
           /\ pub[p].at = "publish" /\ pub' = [pub EXCEPT ![p] = k]
           /\ PubShape(k) /\ k.at = "send" /\ k.event = e /\ k.todo = subs
<1>1. PICK e : e = [id |-> nextEventID + 1, type |-> Head(pub[p].rest), execution |-> pub[p].execution]
  OBVIOUS
<1>2. PICK k : k = [pub[p] EXCEPT !.at = "send", !.event = e, !.todo = subs, !.rest = Tail(@)]
  OBVIOUS
<1>3. pub[p].at = "publish" /\ nextEventID < MaxEvents
  BY DEF AppendEvent
<1>4. ring' = push(ring, e) /\ nextEventID' = e.id
  BY <1>1 DEF AppendEvent
<1>5. pub' = [pub EXCEPT ![p] = k]
  <2>1. pub' = [pub EXCEPT ![p].at = "send", ![p].event = e, ![p].todo = subs, ![p].rest = Tail(@)]
    BY <1>1 DEF AppendEvent
  <2> QED BY <1>2, <2>1
<1>6. Head(pub[p].rest) \in Types /\ Tail(pub[p].rest) \in Frames
  BY <1>3, PubFields, FramesLeft DEF PubOK
<1>7. nextEventID \in Nat /\ pub[p].execution \in Nat /\ pub[p].execution <= execution
  BY PubFields DEF DeliveryInv, HubInv, StreamOK, PubOK
<1>8. nextEventID + 1 \in EventIDs /\ pub[p].execution \in Executions
  BY <1>3, <1>7, HubAssumption DEF DeliveryInv, FlagsOK, EventIDs, Executions
<1>9. e \in Events /\ e \in AnyEvent /\ e.id = nextEventID + 1
  BY <1>1, <1>6, <1>7, <1>8 DEF Events, AnyEvent
<1>10. subs \subseteq SubIDs
  BY SubsInRange DEF DeliveryInv, Carried
<1>11. PubShape(k) /\ k.at = "send" /\ k.event = e /\ k.todo = subs /\ k \in PubRecord
  BY <1>2, <1>3, <1>6, <1>9, <1>10, PubFields DEF PubShape, PubRecord, PubPlaces
<1> QED BY <1>3, <1>4, <1>5, <1>9, <1>11

LEMMA AppendEventWindow ==
  ASSUME DeliveryInv, NEW p \in Publishers, AppendEvent(p) PROVE RingWindow'
<1>1. PICK e \in Events : /\ e \in AnyEvent /\ e.id = nextEventID + 1 /\ ring' = push(ring, e)
                          /\ nextEventID' = nextEventID + 1 /\ nextEventID < MaxEvents
  BY AppendedEvent
<1>2. IsRing(ring) /\ nextEventID \in Nat /\ RingWindow
  BY DEF DeliveryInv, HubInv, StreamOK
<1>3. /\ IsRing(ring') /\ ring'.items = [ring.items EXCEPT ![ring.head] = e]
      /\ ring'.len = IF ring.len < HistorySize THEN ring.len + 1 ELSE HistorySize
  BY <1>1, <1>2, PushRing, HubAssumption DEF push, IsRing
<1>4. /\ ring.len \in Nat /\ ring.len <= HistorySize /\ HistorySize \in Nat \ {0}
      /\ ring.head \in 0..(HistorySize - 1) /\ ring'.len \in Nat
  BY <1>2, <1>3, HubAssumption DEF IsRing
<1>5. ring'.items \in [0..(HistorySize - 1) -> Events \cup {NoEvent}]
  BY <1>2, <1>3, <1>4 DEF RingWindow
<1>6. ring'.len <= nextEventID' /\ nextEventID' <= MaxEvents
  BY <1>1, <1>2, <1>3, <1>4, HubAssumption DEF RingWindow
<1>7. ASSUME NEW i \in 1..ring'.len PROVE slice(ring')[i].id = nextEventID' - ring'.len + i
  <2>1. slice(ring')[i] = IF i = ring'.len THEN e
                          ELSE IF ring.len < HistorySize THEN slice(ring)[i] ELSE slice(ring)[i + 1]
    BY <1>1, <1>2, PushSlice
  <2>2. CASE i = ring'.len
    BY <1>1, <1>2, <1>4, <2>1, <2>2
  <2>3. CASE i # ring'.len /\ ring.len < HistorySize
    <3>1. i \in 1..ring.len
      BY <1>3, <1>4, <2>3
    <3>2. slice(ring)[i].id = nextEventID - ring.len + i
      BY <1>2, <3>1 DEF RingWindow
    <3> QED BY <1>1, <1>2, <1>3, <1>4, <2>1, <2>3, <3>2
  <2>4. CASE i # ring'.len /\ ~(ring.len < HistorySize)
    <3>1. i + 1 \in 1..ring.len /\ ring.len = HistorySize
      BY <1>3, <1>4, <2>4
    <3>2. slice(ring)[i + 1].id = nextEventID - ring.len + (i + 1)
      BY <1>2, <3>1 DEF RingWindow
    <3> QED BY <1>1, <1>2, <1>3, <1>4, <2>1, <2>4, <3>1, <3>2
  <2> QED BY <2>2, <2>3, <2>4
<1>8. slice(ring)' = slice(ring')
  BY DEF slice, oldest
<1> QED BY <1>5, <1>6, <1>7, <1>8 DEF RingWindow

\* The event appended is newer than every other and on its way to everybody.
LEMMA AppendEventDelivers ==
  ASSUME DeliveryInv, NEW p \in Publishers, AppendEvent(p) PROVE Carried'
<1>1. PICK e \in Events, k \in PubRecord :
        /\ e.id = nextEventID + 1 /\ nextEventID' = nextEventID + 1
        /\ pub[p].at = "publish" /\ pub' = [pub EXCEPT ![p] = k]
        /\ PubShape(k) /\ k.at = "send" /\ k.event = e /\ k.todo = subs
  BY AppendedEvent
<1>2. /\ nextEventID' = nextEventID + 1
      /\ panicked' = panicked /\ subs' = subs /\ nextSubID' = nextSubID
      /\ sent' = sent /\ taken' = taken /\ chanClosed' = chanClosed /\ conn' = conn /\ cursor' = cursor
  BY <1>1 DEF AppendEvent, channels
<1>3. /\ ChannelsOK /\ PubsDeliver /\ ConnsDeliver /\ SendsAfter /\ NoHole
      /\ nextEventID \in Nat /\ nextSubID \in Nat
      /\ subs \subseteq 1..nextSubID /\ subs \subseteq SubIDs /\ 0 \notin subs
  BY SubsInRange DEF DeliveryInv, Carried, HubInv, StreamOK
<1>4. e \in Events /\ e.id = nextEventID + 1 /\ pub[p].at = "publish"
  BY <1>1
<1>5. PubShape(k) /\ Sending(k) /\ k.event = e /\ k.todo = subs /\ k \in PubRecord
  BY <1>1 DEF Sending
<1>6. pub' \in [Publishers -> PubRecord] /\ \A q \in Publishers : pub'[q] = IF q = p THEN k ELSE pub[q]
  BY <1>1, <1>3 DEF PubsDeliver
<1>7. \A s \in SubIDs : sent[s] \in Seq(Events) /\ \A i \in DOMAIN sent[s] : sent[s][i].id < nextEventID + 1
  <2> SUFFICES ASSUME NEW s \in SubIDs PROVE \A i \in DOMAIN sent[s] : sent[s][i].id < nextEventID + 1
    BY <1>3 DEF ChannelsOK
  <2>1. sent[s] \in Seq(Events) /\ \A i \in DOMAIN sent[s] : sent[s][i] \in Events /\ sent[s][i].id <= nextEventID
    BY <1>3 DEF ChannelsOK
  <2>2. \A x \in Events : x.id \in Nat
    BY DEF Events, EventIDs
  <2> QED BY <1>3, <2>1, <2>2
<1>8. ChannelsOK'
  <2>1. \A s \in SubIDs : \A i \in DOMAIN sent[s] : sent[s][i].id <= nextEventID + 1
    <3>1. \A s \in SubIDs : \A i \in DOMAIN sent[s] : sent[s][i].id \in Nat
      <4>1. \A x \in Events : x.id \in Nat
        BY DEF Events, EventIDs
      <4> QED BY <1>7, <4>1
    <3> QED BY <1>3, <1>7, <3>1
  <2> QED BY <1>2, <1>3, <2>1 DEF ChannelsOK, DeliveredOnce
<1>9. UnderWay(k, sent, nextSubID, nextEventID + 1)
  <2>1. ASSUME NEW s \in subs PROVE s <= nextSubID /\ \A i \in DOMAIN sent[s] : sent[s][i].id # nextEventID + 1
    <3>1. s \in SubIDs /\ s <= nextSubID
      BY <1>3
    <3>2. \A i \in DOMAIN sent[s] : sent[s][i].id \in Nat /\ sent[s][i].id < nextEventID + 1
      <4>1. \A x \in Events : x.id \in Nat
        BY DEF Events, EventIDs
      <4> QED BY <1>7, <3>1, <4>1
    <3> QED BY <1>3, <3>1, <3>2
  <2>2. k.event \in Events /\ k.event.id = nextEventID + 1 /\ k.event.id <= nextEventID + 1 /\ k.todo = subs
    BY <1>3, <1>4, <1>5
  <2> QED BY <2>1, <2>2, Zenon DEF UnderWay
<1>10. ASSUME NEW q \in Publishers PROVE UnderWay(pub[q], sent, nextSubID, nextEventID + 1) /\ ~SameEvent(k, pub[q])
  <2>1. UnderWay(pub[q], sent, nextSubID, nextEventID)
    BY <1>3 DEF PubsDeliver
  <2>2. Sending(pub[q]) => pub[q].event.id \in Nat /\ pub[q].event.id <= nextEventID
    BY <2>1 DEF UnderWay, Events, EventIDs
  <2>3. Sending(pub[q]) => pub[q].event.id <= nextEventID + 1 /\ pub[q].event.id # nextEventID + 1
    BY <1>3, <2>2
  <2> QED BY <1>4, <1>5, <2>1, <2>3 DEF UnderWay, SameEvent
<1>11. PubsDeliver'
  <2>1. \A q \in Publishers : PubShape(pub'[q]) /\ UnderWay(pub'[q], sent, nextSubID, nextEventID + 1)
    BY <1>3, <1>5, <1>6, <1>9, <1>10 DEF PubsDeliver
  <2>2. \A l, m : SameEvent(l, m) => SameEvent(m, l)
    BY DEF SameEvent
  <2>3. ASSUME NEW q \in Publishers, NEW r \in Publishers, SameEvent(pub'[q], pub'[r]) PROVE q = r
    BY <1>3, <1>6, <1>10, <2>2, <2>3 DEF PubsDeliver
  <2>4. \A q \in Publishers : PubShape(pub[q])'
    BY <2>1 DEF PubShape
  <2>5. \A q \in Publishers : UnderWay(pub[q], sent, nextSubID, nextEventID)'
    BY <1>2, <2>1 DEF UnderWay, Sending
  <2>6. \A q, r \in Publishers : SameEvent(pub[q], pub[r])' => q = r
    BY <2>3 DEF SameEvent, Sending
  <2> QED BY <1>6, <2>4, <2>5, <2>6 DEF PubsDeliver
<1>12. \A c \in Clients : conn[c].from \in Nat /\ conn[c].from <= nextEventID
  BY <1>3 DEF ConnsDeliver, ConnRecord
<1>13. ConnsDeliver'
  <2>1. \A c \in Clients : conn[c].from <= nextEventID + 1
    BY <1>3, <1>12
  <2> QED BY <1>2, <1>3, <2>1 DEF ConnsDeliver, ConnShape, ToReplay
<1>14. SendsAfter'
  <2>1. ASSUME NEW q \in Publishers, NEW c \in Clients PROVE SentSince(pub'[q], conn[c])
    <3>1. SentSince(pub[q], conn[c])
      BY <1>3 DEF SendsAfter
    <3>2. conn[c].from < nextEventID + 1
      BY <1>3, <1>12
    <3> QED BY <1>4, <1>5, <1>6, <3>1, <3>2 DEF SentSince
  <2> QED BY <1>2, <2>1 DEF SendsAfter, SentSince, Sending
<1>15. NoHole'
  <2> SUFFICES ASSUME ~panicked', NEW c \in Clients, conn[c].sub \in subs, ~chanClosed[conn[c].sub],
                      NEW id \in (conn[c].from + 1)..(nextEventID + 1)
               PROVE  Arrives(conn[c].sub, id, sent, pub')
    BY <1>2, HoleMeaningNext, Zenon
  <2>1. CASE id = nextEventID + 1
    <3>1. pub'[p].event.id = id /\ conn[c].sub \in pub'[p].todo
      BY <1>4, <1>5, <1>6, <2>1
    <3> QED BY <3>1 DEF Arrives
  <2>2. CASE id # nextEventID + 1
    <3>1. id \in (conn[c].from + 1)..nextEventID
      BY <1>3, <1>12, <2>2
    <3>2. Arrives(conn[c].sub, id, sent, pub)
      BY <1>2, <1>3, <3>1, HoleMeaning, Zenon
    <3>3. pub[p].todo = {} /\ pub[p].slow = 0
      BY <1>4, PubFields DEF PubShape
    <3>4. \A q \in Publishers : conn[c].sub \in pub[q].todo \cup {pub[q].slow} => pub'[q] = pub[q]
      BY <1>3, <1>6, <3>3
    <3> QED BY <3>2, <3>4 DEF Arrives
  <2> QED BY <2>1, <2>2
<1> QED BY <1>8, <1>11, <1>13, <1>14, <1>15 DEF Carried

\* What sending e into the channel of s leaves in the channels.
LEMMA ChannelGrows ==
  ASSUME ChannelsOK, NEW s \in SubIDs, NEW e \in Events, SendsInto(s, e)
  PROVE  /\ sent' \in [SubIDs -> Seq(Events)]
         /\ Len(sent'[s]) = Len(sent[s]) + 1
         /\ \A t \in SubIDs : t # s => sent'[t] = sent[t]
         /\ \A i \in DOMAIN sent'[s] : \/ i \in DOMAIN sent[s] /\ sent'[s][i] = sent[s][i]
                                       \/ i = Len(sent[s]) + 1 /\ sent'[s][i] = e
         /\ \A i \in DOMAIN sent[s] : i \in DOMAIN sent'[s] /\ sent'[s][i] = sent[s][i]
         /\ Len(sent[s]) + 1 \in DOMAIN sent'[s] /\ sent'[s][Len(sent[s]) + 1] = e
<1>1. sent \in [SubIDs -> Seq(Events)] /\ sent[s] \in Seq(Events)
  BY DEF ChannelsOK
<1>2. sent' = [sent EXCEPT ![s] = Append(@, e)]
  BY DEF SendsInto
<1>3. PICK q : q = sent[s] /\ q \in Seq(Events)
  BY <1>1
<1>4. sent'[s] = Append(q, e) /\ \A t \in SubIDs : t # s => sent'[t] = sent[t]
  BY <1>1, <1>2, <1>3
<1>5. Append(q, e) \in Seq(Events) /\ Len(Append(q, e)) = Len(q) + 1 /\ Len(q) \in Nat
  BY <1>3
<1>6. /\ \A i \in DOMAIN Append(q, e) : \/ i \in DOMAIN q /\ Append(q, e)[i] = q[i]
                                        \/ i = Len(q) + 1 /\ Append(q, e)[i] = e
      /\ \A i \in DOMAIN q : i \in DOMAIN Append(q, e) /\ Append(q, e)[i] = q[i]
      /\ Len(q) + 1 \in DOMAIN Append(q, e) /\ Append(q, e)[Len(q) + 1] = e
  BY <1>3
<1>7. sent' \in [SubIDs -> Seq(Events)]
  BY <1>1, <1>2, <1>3, <1>5
<1> QED BY <1>3, <1>4, <1>5, <1>6, <1>7

LEMMA SendKeepsChannels ==
  ASSUME ChannelsOK, NEW s \in SubIDs, NEW e \in Events, SendsInto(s, e),
         s <= nextSubID, e.id <= nextEventID, \A i \in DOMAIN sent[s] : sent[s][i].id # e.id,
         UNCHANGED <<nextEventID, nextSubID, subs>>
  PROVE  ChannelsOK'
<1>1. /\ sent' \in [SubIDs -> Seq(Events)]
      /\ Len(sent'[s]) = Len(sent[s]) + 1
      /\ \A t \in SubIDs : t # s => sent'[t] = sent[t]
      /\ \A i \in DOMAIN sent'[s] : \/ i \in DOMAIN sent[s] /\ sent'[s][i] = sent[s][i]
                                    \/ i = Len(sent[s]) + 1 /\ sent'[s][i] = e
  BY ChannelGrows
<1>2. /\ Len(sent[s]) - taken[s] < BufferSize /\ taken' = taken /\ chanClosed' = chanClosed
      /\ nextEventID' = nextEventID /\ nextSubID' = nextSubID /\ subs' = subs
  BY DEF SendsInto
<1>3. /\ Len(sent[s]) \in Nat /\ taken[s] \in Nat /\ taken[s] <= Len(sent[s]) /\ nextSubID \in Nat
      /\ sent[s] \in Seq(Events) /\ s \in Nat
  BY SubsInRange, HubAssumption DEF ChannelsOK, SubIDs
<1>4. ASSUME NEW t \in SubIDs
      PROVE  /\ taken[t] <= Len(sent'[t]) /\ Len(sent'[t]) - taken[t] <= BufferSize
             /\ nextSubID < t => sent'[t] = <<>>
             /\ \A i \in DOMAIN sent'[t] : sent'[t][i].id <= nextEventID
             /\ \A i, j \in DOMAIN sent'[t] : i # j => sent'[t][i].id # sent'[t][j].id
  <2>1. CASE t # s
    <3>1. sent'[t] = sent[t]
      BY <1>1, <2>1
    <3> QED BY <3>1 DEF ChannelsOK, DeliveredOnce
  <2>2. CASE t = s
    <3>1. taken[s] <= Len(sent'[s]) /\ Len(sent'[s]) - taken[s] <= BufferSize /\ ~(nextSubID < s)
      BY <1>1, <1>2, <1>3, HubAssumption
    <3>2. \A i \in DOMAIN sent'[s] : sent'[s][i].id <= nextEventID
      BY <1>1 DEF ChannelsOK
    <3>3. ASSUME NEW i \in DOMAIN sent'[s], NEW j \in DOMAIN sent'[s], i # j
          PROVE  sent'[s][i].id # sent'[s][j].id
      <4>1. \A l, m \in DOMAIN sent[s] : l # m => sent[s][l].id # sent[s][m].id
        BY DEF ChannelsOK, DeliveredOnce
      <4> QED BY <1>1, <3>3, <4>1
    <3> QED BY <2>2, <3>1, <3>2, <3>3
  <2> QED BY <2>1, <2>2
<1>5. DeliveredOnce'
  BY <1>4 DEF DeliveredOnce
<1>6. \A t \in SubIDs : /\ taken'[t] <= Len(sent'[t]) /\ Len(sent'[t]) - taken'[t] <= BufferSize
                        /\ nextSubID' < t => sent'[t] = <<>>
                        /\ \A i \in DOMAIN sent'[t] : sent'[t][i].id <= nextEventID'
  BY <1>2, <1>4
<1> QED BY <1>1, <1>2, <1>5, <1>6 DEF ChannelsOK

\* What arrives still does when a channel grows.
LEMMA ArrivesInLonger ==
  ASSUME ChannelsOK, NEW s \in SubIDs, NEW e \in Events, SendsInto(s, e), NEW t \in SubIDs, NEW id,
         \E i \in DOMAIN sent[t] : sent[t][i].id = id
  PROVE  \E i \in DOMAIN sent'[t] : sent'[t][i].id = id
<1>1. CASE t = s
  BY <1>1, ChannelGrows
<1>2. CASE t # s
  <2>1. sent'[t] = sent[t]
    BY <1>2, ChannelGrows
  <2> QED BY <2>1
<1> QED BY <1>1, <1>2

\* An event that is not in a channel and is not the one sent stays out of it.
LEMMA StaysOut ==
  ASSUME ChannelsOK, NEW s \in SubIDs, NEW e \in Events, SendsInto(s, e), NEW t \in SubIDs, NEW id,
         \A i \in DOMAIN sent[t] : sent[t][i].id # id, t = s => id # e.id
  PROVE  \A i \in DOMAIN sent'[t] : sent'[t][i].id # id
<1>1. CASE t = s
  BY <1>1, ChannelGrows
<1>2. CASE t # s
  <2>1. sent'[t] = sent[t]
    BY <1>2, ChannelGrows
  <2> QED BY <2>1
<1> QED BY <1>1, <1>2

LEMMA SendIntoDelivers ==
  ASSUME DeliveryInv, NEW p \in Publishers, NEW s \in SubIDs, pub[p].at = "send", s \in pub[p].todo,
         SendsInto(s, pub[p].event), pub' = [pub EXCEPT ![p].todo = @ \ {s}],
         UNCHANGED <<panicked, nextEventID, subs, nextSubID, conn, cursor>>
  PROVE  Carried'
<1>1. PICK k : k = [pub[p] EXCEPT !.todo = @ \ {s}]
  OBVIOUS
<1>2. PICK e : e = pub[p].event
  OBVIOUS
<1>3. /\ ChannelsOK /\ PubsDeliver /\ ConnsDeliver /\ SendsAfter /\ NoHole
      /\ nextEventID \in Nat /\ nextSubID \in Nat
      /\ subs \subseteq 1..nextSubID /\ subs \subseteq SubIDs /\ 0 \notin subs
  BY SubsInRange DEF DeliveryInv, Carried, HubInv, StreamOK
<1>4. /\ PubShape(k) /\ k \in PubRecord /\ Sending(k) /\ k.event = e /\ k.todo = pub[p].todo \ {s}
      /\ k.slow = pub[p].slow /\ Sending(pub[p])
  BY <1>1, <1>2, PubFields DEF PubShape, PubRecord, Sending
<1>5. pub' \in [Publishers -> PubRecord] /\ \A q \in Publishers : pub'[q] = IF q = p THEN k ELSE pub[q]
  BY <1>1, <1>3, <1>4 DEF PubsDeliver
<1>6. \A q \in Publishers : UnderWay(pub[q], sent, nextSubID, nextEventID)
  BY <1>3 DEF PubsDeliver
<1>7. /\ e \in Events /\ e.id <= nextEventID /\ s <= nextSubID /\ SendsInto(s, e)
      /\ \A i \in DOMAIN sent[s] : sent[s][i].id # e.id
  BY <1>2, <1>4, <1>6 DEF UnderWay
<1>8. ChannelsOK'
  BY <1>3, <1>7, SendKeepsChannels
<1>9. ASSUME NEW q \in Publishers PROVE UnderWay(pub'[q], sent', nextSubID, nextEventID)
  <2>1. SUFFICES ASSUME Sending(pub[q]), NEW t \in pub'[q].todo
                 PROVE  \A i \in DOMAIN sent'[t] : sent'[t][i].id # pub[q].event.id
    <3>1. /\ pub'[q].event = pub[q].event /\ pub'[q].todo \subseteq pub[q].todo
          /\ Sending(pub'[q]) => Sending(pub[q])
      BY <1>2, <1>4, <1>5
    <3> QED BY <1>6, <2>1, <3>1 DEF UnderWay
  <2>2. t \in pub[q].todo /\ t \in SubIDs /\ (q = p => t # s)
    BY <1>3, <1>4, <1>5 DEF PubsDeliver, PubRecord
  <2>3. \A i \in DOMAIN sent[t] : sent[t][i].id # pub[q].event.id
    BY <1>6, <2>1, <2>2 DEF UnderWay
  <2>4. t = s => pub[q].event.id # e.id
    <3>1. SameEvent(pub[q], pub[p]) => q = p
      BY <1>3 DEF PubsDeliver
    <3> QED BY <1>2, <1>4, <2>1, <2>2, <3>1 DEF SameEvent
  <2> QED BY <1>3, <1>7, <2>2, <2>3, <2>4, StaysOut
<1>10. PubsDeliver'
  <2>1. \A q \in Publishers : PubShape(pub'[q])
    BY <1>3, <1>4, <1>5 DEF PubsDeliver
  <2>2. \A q, r \in Publishers : SameEvent(pub'[q], pub'[r]) => SameEvent(pub[q], pub[r])
    BY <1>2, <1>4, <1>5 DEF SameEvent
  <2>3. \A q, r \in Publishers : SameEvent(pub'[q], pub'[r]) => q = r
    BY <1>3, <2>2 DEF PubsDeliver
  <2>4. \A q \in Publishers : PubShape(pub[q])'
    BY <2>1 DEF PubShape
  <2>5. \A q \in Publishers : UnderWay(pub[q], sent, nextSubID, nextEventID)'
    BY <1>9 DEF UnderWay, Sending
  <2>6. \A q, r \in Publishers : SameEvent(pub[q], pub[r])' => q = r
    BY <2>3 DEF SameEvent, Sending
  <2> QED BY <1>5, <2>4, <2>5, <2>6 DEF PubsDeliver
<1>11. ConnsDeliver'
  <2>1. ASSUME NEW c \in Clients PROVE ToReplay(conn[c], cursor[c], sent'[conn[c].sub])
    <3>1. ToReplay(conn[c], cursor[c], sent[conn[c].sub]) /\ ConnShape(conn[c]) /\ SentSince(pub[p], conn[c])
      BY <1>3 DEF ConnsDeliver, SendsAfter
    <3> SUFFICES ASSUME NEW i \in DOMAIN conn[c].replay
                 PROVE  \A j \in DOMAIN sent'[conn[c].sub] : sent'[conn[c].sub][j].id # conn[c].replay[i].id
      BY <3>1 DEF ToReplay
    <3>2. conn[c].sub \in SubIDs /\ conn[c].from \in Nat /\ conn[c].replay \in Seq(Events)
      <4>1. conn[c].replay # <<>>
        OBVIOUS
      <4> QED BY <3>1, <4>1 DEF ConnShape, ConnRecord
    <3>3. conn[c].replay[i].id \in Nat /\ e.id \in Nat
      <4>1. conn[c].replay[i] \in Events
        BY <3>2
      <4> QED BY <1>7, <4>1 DEF Events, EventIDs
    <3>4. conn[c].replay[i].id <= conn[c].from /\ \A j \in DOMAIN sent[conn[c].sub] : sent[conn[c].sub][j].id # conn[c].replay[i].id
      BY <3>1 DEF ToReplay
    <3>5. conn[c].sub = s => conn[c].from < e.id
      BY <1>2, <1>4, <3>1 DEF SentSince
    <3>6. conn[c].sub = s => conn[c].replay[i].id # e.id
      BY <3>2, <3>3, <3>4, <3>5
    <3> QED BY ZenonT(60), <1>3, <1>7, <3>2, <3>4, <3>6, StaysOut
  <2>2. \A c \in Clients : ToReplay(conn[c], cursor[c], sent[conn[c].sub])'
    BY <2>1 DEF ToReplay
  <2> QED BY <1>3, <2>2 DEF ConnsDeliver, ConnShape
<1>12. SendsAfter'
  <2>1. ASSUME NEW q \in Publishers, NEW c \in Clients PROVE SentSince(pub'[q], conn[c])
    <3>1. SentSince(pub[q], conn[c])
      BY <1>3 DEF SendsAfter
    <3> QED BY <1>2, <1>4, <1>5, <3>1 DEF SentSince
  <2> QED BY <2>1 DEF SendsAfter, SentSince, Sending
<1>13. NoHole'
  <2>1. ASSUME NEW t \in SubIDs, NEW id, Arrives(t, id, sent, pub) PROVE Arrives(t, id, sent', pub')
    <3>1. CASE \E i \in DOMAIN sent[t] : sent[t][i].id = id
      <4>1. \E i \in DOMAIN sent'[t] : sent'[t][i].id = id
        BY <1>3, <1>7, <3>1, ArrivesInLonger
      <4> QED BY <4>1 DEF Arrives
    <3>2. CASE \E q \in Publishers : pub[q].event.id = id /\ t \in pub[q].todo \cup {pub[q].slow}
      <4>1. PICK q \in Publishers : pub[q].event.id = id /\ t \in pub[q].todo \cup {pub[q].slow}
        BY <3>2
      <4>2. CASE q = p /\ t = s
        <5>1. \E i \in DOMAIN sent'[t] : sent'[t][i].id = id
          BY <1>2, <1>3, <1>7, <4>1, <4>2, ChannelGrows
        <5> QED BY <5>1 DEF Arrives
      <4>3. CASE ~(q = p /\ t = s)
        <5>1. pub'[q].event.id = id /\ t \in pub'[q].todo \cup {pub'[q].slow}
          BY <1>2, <1>4, <1>5, <4>1, <4>3
        <5> QED BY <5>1 DEF Arrives
      <4> QED BY <4>2, <4>3
    <3> QED BY <2>1, <3>1, <3>2 DEF Arrives
  <2>2. chanClosed' = chanClosed
    BY DEF SendsInto
  <2>3. ASSUME NEW c \in Clients, conn'[c].sub \in subs', ~chanClosed'[conn'[c].sub], ~panicked'
        PROVE  /\ conn[c].sub \in subs /\ ~chanClosed[conn[c].sub]
               /\ conn'[c].sub = conn[c].sub /\ conn'[c].from = conn[c].from
               /\ \A id : Arrives(conn[c].sub, id, sent, pub) => Arrives(conn[c].sub, id, sent', pub')
    BY <1>3, <2>1, <2>2, <2>3
  <2> QED BY <1>3, <2>3, NoHoleStays
<1> QED BY <1>8, <1>10, <1>11, <1>12, <1>13 DEF Carried

LEMMA SendEventDelivers ==
  ASSUME DeliveryInv, NEW p \in Publishers, NEW s \in SubIDs, SendEvent(p, s)
  PROVE  Carried' /\ panicked' \in BOOLEAN
<1>1. /\ pub[p].at = "send" /\ s \in pub[p].todo /\ PubShape(pub[p]) /\ Sending(pub[p])
      /\ UNCHANGED <<nextEventID, subs, nextSubID, conn, cursor>>
  BY PubFields DEF SendEvent, stream, Sending
<1>2. panicked \in BOOLEAN /\ chanClosed \in [SubIDs -> BOOLEAN] /\ s # 0
  BY HubAssumption DEF DeliveryInv, Carried, ChannelsOK, FlagsOK, SubIDs
<1>3. CASE /\ SendsInto(s, pub[p].event) /\ pub' = [pub EXCEPT ![p].todo = @ \ {s}]
           /\ UNCHANGED panicked
  BY <1>1, <1>2, <1>3, SendIntoDelivers
<1>4. CASE /\ FindsFull(s) /\ pub' = [pub EXCEPT ![p].at = "full", ![p].todo = @ \ {s}, ![p].slow = s]
           /\ UNCHANGED <<channels, panicked>>
  <2>1. PICK k : k = [pub[p] EXCEPT !.at = "full", !.todo = @ \ {s}, !.slow = s]
    OBVIOUS
  <2>2. /\ PubShape(k) /\ Sending(k) /\ k.event = pub[p].event /\ k.todo = pub[p].todo \ {s} /\ k.slow = s
        /\ pub[p].slow = 0
    BY <1>1, <1>2, <2>1 DEF PubShape, PubRecord, PubPlaces, Sending
  <2>3. pub' = [pub EXCEPT ![p] = k]
    BY <1>4, <2>1
  <2>4. UNCHANGED <<nextEventID, nextSubID, sent, taken, conn, cursor>> /\ chanClosed' = chanClosed /\ subs' = subs /\ panicked' = panicked
    BY <1>1, <1>4 DEF channels
  <2>5. 0 \notin subs
    BY SubsInRange DEF DeliveryInv, Carried
  <2>6. \A t \in subs' : t \in pub[p].todo \cup {pub[p].slow} => t \in k.todo \cup {k.slow} /\ k.event = pub[p].event
    BY <2>2, <2>4, <2>5
  <2> QED BY <1>1, <1>2, <2>2, <2>3, <2>4, <2>6, PubQuiet
<1>5. CASE chanClosed[s] /\ pub' = [pub EXCEPT ![p] = IdlePub] /\ panicked' = TRUE /\ UNCHANGED channels
  BY <1>1, <1>5, PubRests, IdlePubShape
<1> QED BY <1>3, <1>4, <1>5 DEF SendEvent

LEMMA CloseSlowDelivers ==
  ASSUME DeliveryInv, NEW p \in Publishers, CloseSlow(p) PROVE Carried'
<1>1. PICK k : k = [pub[p] EXCEPT !.at = "send", !.slow = 0, !.dropped = @ \cup {pub[p].slow}]
  OBVIOUS
<1>2. /\ pub[p].at = "full" /\ PubShape(pub[p]) /\ CloseAll({pub[p].slow})
      /\ UNCHANGED <<nextEventID, nextSubID, sent, taken, conn, cursor>> /\ subs' = subs /\ panicked' = panicked
  BY PubFields DEF CloseSlow, stream
<1>3. pub' = [pub EXCEPT ![p] = k]
  BY <1>1 DEF CloseSlow
<1>4. pub[p].slow \in SubIDs
  BY <1>2 DEF PubShape, PubRecord
<1>5. /\ PubShape(k) /\ Sending(k) /\ Sending(pub[p]) /\ k.event = pub[p].event /\ k.todo = pub[p].todo
  BY <1>1, <1>2, <1>4 DEF PubShape, PubRecord, PubPlaces, Sending
<1>6. /\ chanClosed' \in [SubIDs -> BOOLEAN] /\ \A s \in SubIDs : chanClosed[s] => chanClosed'[s]
      /\ chanClosed'[pub[p].slow]
  BY <1>2, <1>4, CloseAllGrows DEF DeliveryInv, Carried
<1>7. \A s \in subs' : ~chanClosed'[s] /\ s \in pub[p].todo \cup {pub[p].slow}
        => s \in k.todo \cup {k.slow} /\ k.event = pub[p].event
  BY <1>5, <1>6
<1> QED BY <1>2, <1>3, <1>5, <1>6, <1>7, PubQuiet

LEMMA DropSlowDelivers ==
  ASSUME DeliveryInv, NEW p \in Publishers, DropSlow(p) PROVE Carried'
<1>1. PICK at \in {"finish", "publish", "return"} :
        at = IF pub[p].event.type = "done" THEN "finish" ELSE IF pub[p].rest # <<>> THEN "publish" ELSE "return"
  OBVIOUS
<1>2. PICK k : k = [pub[p] EXCEPT !.dropped = {}, !.at = at]
  OBVIOUS
<1>3. /\ pub[p].at = "send" /\ pub[p].todo = {} /\ PubShape(pub[p])
      /\ CloseAll(pub[p].dropped \cap subs) /\ subs' = subs \ pub[p].dropped
      /\ UNCHANGED <<nextEventID, nextSubID, sent, taken, conn, cursor>> /\ panicked' = panicked
  BY PubFields DEF DropSlow, stream
<1>4. pub' = [pub EXCEPT ![p] = k]
  BY <1>1, <1>2 DEF DropSlow
<1>5. PubShape(k) /\ ~Sending(k)
  BY <1>1, <1>2, <1>3 DEF PubShape, PubRecord, PubPlaces, Sending
<1>6. chanClosed' \in [SubIDs -> BOOLEAN] /\ \A s \in SubIDs : chanClosed[s] => chanClosed'[s]
  BY <1>3, CloseAllGrows DEF DeliveryInv, Carried
<1>7. pub[p].slow = 0 /\ 0 \notin subs
  BY <1>3, SubsInRange DEF PubShape, DeliveryInv, Carried
<1>8. \A s \in subs' : s \notin pub[p].todo \cup {pub[p].slow}
  BY <1>3, <1>7
<1> QED BY <1>3, <1>4, <1>5, <1>6, <1>8, PubQuiet

LEMMA FinishDelivers ==
  ASSUME DeliveryInv, NEW p \in Publishers, Finish(p) PROVE Carried' /\ closed' \in BOOLEAN
<1>1. PICK k : k = [pub[p] EXCEPT !.at = "close", !.todo = subs \ subs']
  OBVIOUS
<1>2. /\ pub[p].at = "finish" /\ PubShape(pub[p]) /\ subs' \subseteq subs /\ closed' = TRUE
      /\ UNCHANGED <<nextEventID, nextSubID, sent, taken, conn, cursor>> /\ chanClosed' = chanClosed /\ panicked' = panicked
  BY PubFields DEF Finish, channels
<1>3. pub' = [pub EXCEPT ![p] = k]
  BY <1>1 DEF Finish
<1>4. subs \subseteq SubIDs /\ 0 \notin subs /\ chanClosed \in [SubIDs -> BOOLEAN]
  BY SubsInRange DEF DeliveryInv, Carried, ChannelsOK
<1>5. PubShape(k) /\ ~Sending(k)
  BY <1>1, <1>2, <1>4 DEF PubShape, PubRecord, PubPlaces, Sending
<1>6. \A s \in subs' : s \notin pub[p].todo \cup {pub[p].slow}
  <2>1. pub[p].todo = {} /\ pub[p].slow = 0
    BY <1>2 DEF PubShape
  <2> QED BY <1>2, <1>4, <2>1
<1> QED BY <1>2, <1>3, <1>4, <1>5, <1>6, PubQuiet

LEMMA FinishCloseDelivers ==
  ASSUME DeliveryInv, NEW p \in Publishers, FinishClose(p) PROVE Carried'
<1>1. /\ pub[p].at = "close" /\ PubShape(pub[p])
      /\ UNCHANGED <<nextEventID, nextSubID, sent, taken, conn, cursor>> /\ subs' = subs /\ panicked' = panicked
  BY PubFields DEF FinishClose, stream
<1>2. 0 \notin subs /\ chanClosed \in [SubIDs -> BOOLEAN] /\ pub[p].slow = 0
  BY <1>1, SubsInRange DEF DeliveryInv, Carried, ChannelsOK, PubShape
<1>3. CASE pub[p].todo = {}
  <2>1. PICK k : k = [pub[p] EXCEPT !.at = "return"]
    OBVIOUS
  <2>2. pub' = [pub EXCEPT ![p] = k] /\ chanClosed' = chanClosed
    BY <1>3, <2>1 DEF FinishClose
  <2>3. PubShape(k) /\ ~Sending(k)
    BY <1>1, <1>3, <2>1 DEF PubShape, PubRecord, PubPlaces, Sending
  <2>4. \A s \in subs' : s \notin pub[p].todo \cup {pub[p].slow}
    BY <1>1, <1>2, <1>3
  <2> QED BY <1>1, <1>2, <2>2, <2>3, <2>4, PubQuiet
<1>4. CASE pub[p].todo # {}
  <2>1. PICK s \in pub[p].todo : CloseAll({s}) /\ pub' = [pub EXCEPT ![p].todo = @ \ {s}]
    BY <1>4 DEF FinishClose
  <2>2. PICK k : k = [pub[p] EXCEPT !.todo = @ \ {s}]
    OBVIOUS
  <2>3. pub' = [pub EXCEPT ![p] = k] /\ s \in SubIDs
    BY <1>1, <2>1, <2>2 DEF PubShape, PubRecord
  <2>4. PubShape(k) /\ ~Sending(k) /\ k.todo = pub[p].todo \ {s} /\ k.slow = 0 /\ k.event = pub[p].event
    BY <1>1, <1>2, <2>2 DEF PubShape, PubRecord, PubPlaces, Sending
  <2>5. /\ chanClosed' \in [SubIDs -> BOOLEAN] /\ \A t \in SubIDs : chanClosed[t] => chanClosed'[t]
        /\ chanClosed'[s]
    BY <2>1, <2>3, CloseAllGrows DEF DeliveryInv, Carried
  <2>6. \A t \in subs' : ~chanClosed'[t] /\ t \in pub[p].todo \cup {pub[p].slow}
          => t \in k.todo \cup {k.slow} /\ k.event = pub[p].event
    BY <1>1, <1>2, <2>4, <2>5
  <2> QED BY <1>1, <2>3, <2>4, <2>5, <2>6, PubQuiet
<1> QED BY <1>3, <1>4

-----------------------------------------------------------------------------
(* What the channels carry: the steps of readers                           *)

LEMMA ConnFields ==
  ASSUME DeliveryInv, NEW c \in Clients
  PROVE  /\ ConnShape(conn[c]) /\ conn[c] \in ConnRecord /\ conn[c].from <= nextEventID
         /\ conn[c].from \in Nat /\ conn[c].sub \in {0} \cup SubIDs
         /\ cursor[c] \in 0..MaxEvents /\ nextEventID \in Nat
         /\ ToReplay(conn[c], cursor[c], sent[conn[c].sub])
  BY DEF DeliveryInv, Carried, ConnsDeliver, ConnShape, ConnRecord, HubInv, StreamOK

\* A connection that reads nothing and has nothing to be replayed.
LEMMA ConnRests ==
  ASSUME DeliveryInv, NEW c \in Clients, NEW k, ConnShape(k), k.replay = <<>>,
         conn' = [conn EXCEPT ![c] = k],
         k.sub = 0 \/ (k.sub = conn[c].sub /\ k.from = conn[c].from), k.from <= nextEventID,
         UNCHANGED <<nextEventID, nextSubID, sent, taken, pub, panicked, cursor>>,
         subs' \subseteq subs, chanClosed' \in [SubIDs -> BOOLEAN],
         \A s \in SubIDs : chanClosed[s] => chanClosed'[s]
  PROVE  Carried'
<1>1. ChannelsOK /\ cursor \in [Clients -> 0..MaxEvents] /\ taken' = taken /\ cursor' = cursor
  BY DEF DeliveryInv, Carried, ConnsDeliver
<1>2. taken' \in [SubIDs -> Nat] /\ \A s \in SubIDs : taken[s] <= taken'[s] /\ taken'[s] <= Len(sent[s])
  BY <1>1 DEF ChannelsOK
<1> QED BY <1>1, <1>2, ConnQuiet

LEMMA ClosedStays ==
  ASSUME DeliveryInv, chanClosed' = chanClosed
  PROVE  chanClosed' \in [SubIDs -> BOOLEAN] /\ \A s \in SubIDs : chanClosed[s] => chanClosed'[s]
  BY DEF DeliveryInv, Carried, ChannelsOK

LEMMA IdleConnShape ==
  ConnShape(IdleConn) /\ IdleConn.replay = <<>> /\ IdleConn.sub = 0 /\ IdleConn.from = 0
  BY DEF ConnShape, ConnRecord, ConnPlaces, IdleConn

LEMMA ConnectDelivers ==
  ASSUME DeliveryInv, NEW c \in Clients, Connect(c) PROVE Carried'
<1>1. PICK n : n = IF jobDone THEN 0 ELSE execution
  OBVIOUS
<1>2. PICK k : k = [IdleConn EXCEPT !.at = "resume", !.execution = n]
  OBVIOUS
<1>3. n \in Nat
  BY <1>1 DEF DeliveryInv, HubInv, StreamOK
<1>4. /\ conn' = [conn EXCEPT ![c] = k] /\ chanClosed' = chanClosed /\ subs' = subs
      /\ UNCHANGED <<nextEventID, nextSubID, sent, taken, pub, panicked, cursor>>
  BY <1>1, <1>2 DEF Connect, stream, channels
<1>5. k = [at |-> "resume", execution |-> n, sub |-> 0, replay |-> <<>>, ended |-> FALSE, from |-> 0]
  BY <1>2 DEF IdleConn
<1>6. ConnShape(k) /\ k.replay = <<>> /\ k.sub = 0 /\ k.from = 0
  BY <1>3, <1>5 DEF ConnShape, ConnRecord, ConnPlaces
<1>7. k.from <= nextEventID
  BY <1>6 DEF DeliveryInv, HubInv, StreamOK
<1> QED BY <1>4, <1>6, <1>7, ConnRests, ClosedStays

\* A connection that goes to another place and keeps its subscription.
LEMMA ConnMoves ==
  ASSUME DeliveryInv, NEW c \in Clients, NEW at \in ConnPlaces,
         at \in {"resume", "subscribe"} <=> conn[c].at \in {"idle", "resume", "subscribe"}, at # "idle",
         conn[c].replay = <<>>, conn' = [conn EXCEPT ![c].at = at],
         UNCHANGED <<nextEventID, nextSubID, sent, taken, pub, panicked, cursor>>,
         subs' \subseteq subs, chanClosed' \in [SubIDs -> BOOLEAN],
         \A s \in SubIDs : chanClosed[s] => chanClosed'[s]
  PROVE  Carried'
<1>1. PICK k : k = [conn[c] EXCEPT !.at = at]
  OBVIOUS
<1>2. conn' = [conn EXCEPT ![c] = k]
  BY <1>1
<1>3. ConnShape(k) /\ k.replay = <<>> /\ k.sub = conn[c].sub /\ k.from = conn[c].from
  BY <1>1, ConnFields DEF ConnShape, ConnRecord, ConnPlaces
<1>4. k.from <= nextEventID
  BY <1>3, ConnFields
<1> QED BY <1>2, <1>3, <1>4, ConnRests

LEMMA NothingToReplay ==
  ASSUME DeliveryInv, NEW c \in Clients, conn[c].at # "replay" PROVE conn[c].replay = <<>>
  BY ConnFields DEF ConnShape

LEMMA ReaderResumeDelivers ==
  ASSUME DeliveryInv, NEW c \in Clients, ReaderResume(c)
  PROVE  Carried' /\ RingWindow' /\ closed' \in BOOLEAN
<1>1. /\ conn[c].at = "resume" /\ resume(conn[c].execution) /\ conn' = [conn EXCEPT ![c].at = "subscribe"]
      /\ chanClosed' = chanClosed /\ subs' = subs
      /\ UNCHANGED <<nextSubID, sent, taken, pub, panicked, cursor>>
  BY DEF ReaderResume, channels
<1>2. RingWindow' /\ closed' \in BOOLEAN /\ UNCHANGED nextEventID
  BY <1>1, ResumeWindow DEF DeliveryInv, FlagsOK
<1>3. "subscribe" \in ConnPlaces
  BY DEF ConnPlaces
<1>4. Carried'
  BY <1>1, <1>2, <1>3, ConnMoves, ClosedStays, NothingToReplay
<1> QED BY <1>2, <1>4

LEMMA ReplayFullDelivers ==
  ASSUME DeliveryInv, NEW c \in Clients, ReplayFull(c) PROVE Carried'
<1>1. /\ conn[c].at = "full" /\ conn' = [conn EXCEPT ![c].at = "replay"] /\ CloseAll({conn[c].sub})
      /\ subs' \subseteq subs
      /\ UNCHANGED <<nextEventID, nextSubID, sent, taken, pub, panicked, cursor>>
  BY DEF ReplayFull, stream
<1>2. chanClosed' \in [SubIDs -> BOOLEAN] /\ \A s \in SubIDs : chanClosed[s] => chanClosed'[s]
  BY <1>1, CloseAllGrows DEF DeliveryInv, Carried
<1>3. "replay" \in ConnPlaces
  BY DEF ConnPlaces
<1> QED BY <1>1, <1>2, <1>3, ConnMoves, NothingToReplay

LEMMA ReplayEndDelivers ==
  ASSUME DeliveryInv, NEW c \in Clients, ReplayEnd(c) PROVE Carried'
<1>1. /\ conn[c].at = "replay" /\ conn[c].replay = <<>> /\ conn' = [conn EXCEPT ![c].at = "read"]
      /\ CloseAll(IF conn[c].ended THEN {conn[c].sub} ELSE {})
      /\ subs' = subs
      /\ UNCHANGED <<nextEventID, nextSubID, sent, taken, pub, panicked, cursor>>
  BY DEF ReplayEnd, stream
<1>2. chanClosed' \in [SubIDs -> BOOLEAN] /\ \A s \in SubIDs : chanClosed[s] => chanClosed'[s]
  BY <1>1, CloseAllGrows DEF DeliveryInv, Carried
<1>3. "read" \in ConnPlaces
  BY DEF ConnPlaces
<1> QED BY <1>1, <1>2, <1>3, ConnMoves

LEMMA StopsReadingDelivers ==
  ASSUME DeliveryInv, NEW c \in Clients, ReadClosed(c) \/ Disconnect(c) PROVE Carried'
<1>1. /\ conn[c].at = "read" /\ conn' = [conn EXCEPT ![c].at = "cancel"]
      /\ chanClosed' = chanClosed /\ subs' = subs
      /\ UNCHANGED <<nextEventID, nextSubID, sent, taken, pub, panicked, cursor>>
  BY DEF ReadClosed, Disconnect, stream, channels
<1>2. "cancel" \in ConnPlaces
  BY DEF ConnPlaces
<1> QED BY <1>1, <1>2, ConnMoves, ClosedStays, NothingToReplay

LEMMA ConnEnds ==
  ASSUME DeliveryInv, NEW c \in Clients, conn' = [conn EXCEPT ![c] = IdleConn],
         UNCHANGED <<nextEventID, nextSubID, sent, taken, pub, panicked, cursor>>,
         subs' \subseteq subs, chanClosed' \in [SubIDs -> BOOLEAN],
         \A s \in SubIDs : chanClosed[s] => chanClosed'[s]
  PROVE  Carried'
<1>1. IdleConn.from <= nextEventID
  BY IdleConnShape DEF DeliveryInv, HubInv, StreamOK
<1> QED BY <1>1, IdleConnShape, ConnRests

LEMMA CancelDelivers ==
  ASSUME DeliveryInv, NEW c \in Clients, Cancel(c) PROVE Carried'
<1>1. /\ conn[c].at = "cancel" /\ chanClosed' = chanClosed /\ subs' \subseteq subs
      /\ UNCHANGED <<nextEventID, nextSubID, sent, taken, pub, panicked, cursor>>
      /\ \/ conn' = [conn EXCEPT ![c].at = "close"]
         \/ conn' = [conn EXCEPT ![c] = IdleConn]
  BY DEF Cancel, stream, channels
<1>2. "close" \in ConnPlaces
  BY DEF ConnPlaces
<1>3. CASE conn' = [conn EXCEPT ![c].at = "close"]
  BY <1>1, <1>2, <1>3, ConnMoves, ClosedStays, NothingToReplay
<1>4. CASE conn' = [conn EXCEPT ![c] = IdleConn]
  BY <1>1, <1>4, ConnEnds, ClosedStays
<1> QED BY <1>1, <1>3, <1>4

LEMMA CancelCloseDelivers ==
  ASSUME DeliveryInv, NEW c \in Clients, CancelClose(c) PROVE Carried'
<1>1. /\ conn' = [conn EXCEPT ![c] = IdleConn] /\ CloseAll({conn[c].sub}) /\ subs' = subs
      /\ UNCHANGED <<nextEventID, nextSubID, sent, taken, pub, panicked, cursor>>
  BY DEF CancelClose, stream
<1>2. chanClosed' \in [SubIDs -> BOOLEAN] /\ \A s \in SubIDs : chanClosed[s] => chanClosed'[s]
  BY <1>1, CloseAllGrows DEF DeliveryInv, Carried
<1> QED BY <1>1, <1>2, ConnEnds

LEMMA ReadDelivers ==
  ASSUME DeliveryInv, NEW c \in Clients, Read(c) PROVE Carried'
<1>1. PICK s, e : s = conn[c].sub /\ e = sent[s][taken[s] + 1]
  OBVIOUS
<1>2. PICK at \in {"cancel", "read"} : at = IF e.type = "done" THEN "cancel" ELSE "read"
  OBVIOUS
<1>3. PICK k : k = [conn[c] EXCEPT !.at = at]
  OBVIOUS
<1>4. /\ conn[c].at = "read" /\ taken[s] < Len(sent[s]) /\ taken' = [taken EXCEPT ![s] = @ + 1]
      /\ cursor' = [cursor EXCEPT ![c] = e.id] /\ conn' = [conn EXCEPT ![c] = k]
      /\ UNCHANGED <<nextEventID, nextSubID, sent, pub, panicked>> /\ chanClosed' = chanClosed /\ subs' = subs
  BY <1>1, <1>2, <1>3 DEF Read, stream
<1>5. ConnShape(k) /\ k.replay = <<>> /\ k.sub = conn[c].sub /\ k.from = conn[c].from
  BY <1>2, <1>3, <1>4, ConnFields DEF ConnShape, ConnRecord, ConnPlaces
<1>6. s \in SubIDs
  BY <1>1, <1>4, ConnFields DEF ConnShape
<1>7. /\ taken \in [SubIDs -> Nat] /\ sent[s] \in Seq(Events) /\ Len(sent[s]) \in Nat
      /\ \A t \in SubIDs : taken[t] <= Len(sent[t])
      /\ cursor \in [Clients -> 0..MaxEvents] /\ chanClosed \in [SubIDs -> BOOLEAN]
  BY <1>6 DEF DeliveryInv, Carried, ChannelsOK, ConnsDeliver
<1>8. e \in Events
  BY <1>1, <1>4, <1>6, <1>7
<1>9. e.id \in 0..MaxEvents
  BY <1>8, HubAssumption DEF Events, EventIDs
<1>10. cursor' \in [Clients -> 0..MaxEvents] /\ \A d \in Clients \ {c} : cursor'[d] = cursor[d]
  BY <1>4, <1>7, <1>9
<1>11. taken' \in [SubIDs -> Nat] /\ \A t \in SubIDs : taken[t] <= taken'[t] /\ taken'[t] <= Len(sent[t])
  <2>1. taken' \in [SubIDs -> Nat]
    BY <1>4, <1>6, <1>7
  <2>2. ASSUME NEW t \in SubIDs PROVE taken[t] <= taken'[t] /\ taken'[t] <= Len(sent[t])
    <3>1. CASE t = s
      BY <1>4, <1>6, <1>7, <3>1
    <3>2. CASE t # s
      BY <1>4, <1>7, <3>2
    <3> QED BY <3>1, <3>2
  <2> QED BY <2>1, <2>2
<1>12. k.from <= nextEventID
  BY <1>5, ConnFields
<1> QED BY <1>4, <1>5, <1>7, <1>10, <1>11, <1>12, ConnQuiet

\* The oldest event of the history still to be replayed goes into the channel.
LEMMA ReplayIntoDelivers ==
  ASSUME DeliveryInv, NEW c \in Clients, conn[c].at = "replay", conn[c].replay # <<>>,
         SendsInto(conn[c].sub, Head(conn[c].replay)), conn' = [conn EXCEPT ![c].replay = Tail(@)],
         UNCHANGED <<panicked, nextEventID, subs, nextSubID, pub, cursor>>
  PROVE  Carried'
<1>1. PICK s, e, q : s = conn[c].sub /\ q = conn[c].replay /\ e = Head(q)
  OBVIOUS
<1>2. PICK k : k = [conn[c] EXCEPT !.replay = Tail(@)]
  OBVIOUS
<1>3. /\ ChannelsOK /\ PubsDeliver /\ ConnsDeliver /\ SendsAfter /\ NoHole
      /\ nextEventID \in Nat /\ nextSubID \in Nat
      /\ subs \subseteq 1..nextSubID /\ subs \subseteq SubIDs /\ 0 \notin subs
  BY SubsInRange DEF DeliveryInv, Carried, HubInv, StreamOK
<1>4. s \in SubIDs /\ q \in Seq(Events) /\ q # <<>> /\ s <= nextSubID
  <2>1. conn[c].sub \in SubIDs
    BY ConnFields DEF ConnShape
  <2>2. conn[c].replay \in Seq(Events)
    BY ConnFields DEF ConnRecord
  <2> QED BY <1>1, <1>3, <2>1, <2>2 DEF ConnsDeliver
<1>5. /\ e \in Events /\ e = q[1] /\ 1 \in DOMAIN q /\ Tail(q) \in Seq(Events)
      /\ \A i \in DOMAIN Tail(q) : i + 1 \in DOMAIN q /\ Tail(q)[i] = q[i + 1] /\ i \in Nat /\ i > 0
  BY <1>1, <1>4
<1>6. /\ ConnShape(k) /\ k \in ConnRecord /\ k.sub = s /\ k.from = conn[c].from /\ k.replay = Tail(q)
      /\ k.at = "replay"
  BY <1>1, <1>2, <1>5, ConnFields DEF ConnShape, ConnRecord
<1>7. conn' \in [Clients -> ConnRecord] /\ \A d \in Clients : conn'[d] = IF d = c THEN k ELSE conn[d]
  BY <1>2, <1>3, <1>6 DEF ConnsDeliver
<1>8. /\ ToReplay(conn[c], cursor[c], sent[s]) /\ conn[c].from \in Nat /\ conn[c].from <= nextEventID
  BY <1>1, ConnFields
<1>9. \A x \in Events : x.id \in Nat
  BY DEF Events, EventIDs
<1>10. e.id <= conn[c].from /\ \A j \in DOMAIN sent[s] : sent[s][j].id # e.id
  BY <1>1, <1>5, <1>8 DEF ToReplay
<1>11. SendsInto(s, e) /\ e.id <= nextEventID
  BY <1>1, <1>3, <1>5, <1>8, <1>9, <1>10
<1>12. ChannelsOK /\ s \in SubIDs /\ e \in Events /\ SendsInto(s, e)
  BY <1>3, <1>4, <1>5, <1>11
<1>13. ChannelsOK'
  BY <1>3, <1>4, <1>5, <1>10, <1>11, SendKeepsChannels
<1>14. ASSUME NEW p \in Publishers PROVE UnderWay(pub[p], sent', nextSubID, nextEventID)
  <2>1. UnderWay(pub[p], sent, nextSubID, nextEventID) /\ SentSince(pub[p], conn[c]) /\ pub[p] \in PubRecord
    BY <1>3 DEF PubsDeliver, SendsAfter
  <2> SUFFICES ASSUME Sending(pub[p]), NEW t \in pub[p].todo
               PROVE  \A i \in DOMAIN sent'[t] : sent'[t][i].id # pub[p].event.id
    BY <2>1 DEF UnderWay
  <2>2. t \in SubIDs /\ pub[p].event \in Events /\ \A i \in DOMAIN sent[t] : sent[t][i].id # pub[p].event.id
    BY <2>1 DEF UnderWay, PubRecord
  <2>3. t = s => conn[c].from < pub[p].event.id
    BY <1>1, <2>1 DEF SentSince
  <2>4. t = s => pub[p].event.id # e.id
    BY <1>5, <1>8, <1>9, <1>10, <2>2, <2>3
  <2> QED BY <1>12, <2>2, <2>4, StaysOut
<1>15. PubsDeliver'
  <2>1. \A p \in Publishers : UnderWay(pub[p], sent, nextSubID, nextEventID)'
    BY <1>14 DEF UnderWay, Sending
  <2> QED BY <1>3, <2>1 DEF PubsDeliver, PubShape, SameEvent, Sending
<1>16. ConnsDeliver'
  <2>1. ToReplay(k, cursor[c], sent'[s])
    <3> SUFFICES ASSUME NEW i \in DOMAIN Tail(q)
                 PROVE  /\ cursor[c] < Tail(q)[i].id /\ Tail(q)[i].id <= conn[c].from
                        /\ \A j \in DOMAIN Tail(q) : i < j => Tail(q)[i].id < Tail(q)[j].id
                        /\ \A j \in DOMAIN sent'[s] : sent'[s][j].id # Tail(q)[i].id
      BY <1>6 DEF ToReplay
    <3>1. i + 1 \in DOMAIN q /\ Tail(q)[i] = q[i + 1] /\ i \in Nat /\ i > 0 /\ 1 < i + 1
      BY <1>5
    <3>2. /\ cursor[c] < q[i + 1].id /\ q[i + 1].id <= conn[c].from
          /\ \A j \in DOMAIN sent[s] : sent[s][j].id # q[i + 1].id
          /\ \A j \in DOMAIN q : i + 1 < j => q[i + 1].id < q[j].id
      BY <1>1, <1>8, <3>1 DEF ToReplay
    <3>3. q[1].id < q[i + 1].id
      BY <1>1, <1>5, <1>8, <3>1 DEF ToReplay
    <3>4. q[i + 1].id # e.id
      <4>1. q[i + 1] \in Events
        BY <1>4, <3>1
      <4> QED BY <1>5, <1>9, <3>3, <4>1
    <3>5. \A j \in DOMAIN sent'[s] : sent'[s][j].id # q[i + 1].id
      <4>1. PICK id : id = q[i + 1].id
        OBVIOUS
      <4>2. id # e.id /\ \A j \in DOMAIN sent[s] : sent[s][j].id # id
        BY <3>2, <3>4, <4>1
      <4>3. \A j \in DOMAIN sent'[s] : sent'[s][j].id # id
        BY <1>12, <4>2, ChannelGrows
      <4> QED BY <4>1, <4>3
    <3>6. ASSUME NEW j \in DOMAIN Tail(q), i < j PROVE Tail(q)[i].id < Tail(q)[j].id
      <4>1. j + 1 \in DOMAIN q /\ Tail(q)[j] = q[j + 1] /\ j \in Nat
        BY <1>5
      <4>2. i + 1 < j + 1
        BY <3>1, <3>6, <4>1
      <4> QED BY <3>1, <3>2, <4>1, <4>2
    <3> QED BY <3>1, <3>2, <3>5, <3>6
  <2>2. ASSUME NEW d \in Clients PROVE ToReplay(conn'[d], cursor[d], sent'[conn'[d].sub])
    <3>1. CASE d = c
      BY <1>6, <1>7, <2>1, <3>1
    <3>2. CASE d # c
      <4>1. conn'[d] = conn[d] /\ ToReplay(conn[d], cursor[d], sent[conn[d].sub]) /\ ConnShape(conn[d])
        BY <1>3, <1>7, <3>2 DEF ConnsDeliver
      <4>2. CASE conn[d].replay = <<>>
        BY <4>1, <4>2 DEF ToReplay
      <4>3. CASE conn[d].replay # <<>>
        <5>1. conn[d].sub \in SubIDs /\ conn[d].sub # 0
          BY <4>1, <4>3, HubAssumption DEF ConnShape, ConnRecord, SubIDs
        <5>2. conn[d].sub # s
          BY <1>1, <1>3, <3>2, <5>1 DEF ConnsDeliver
        <5>3. sent'[conn[d].sub] = sent[conn[d].sub]
          BY <1>12, <5>1, <5>2, ChannelGrows
        <5> QED BY <4>1, <5>3
      <4> QED BY <4>2, <4>3
    <3> QED BY <3>1, <3>2
  <2>3. \A d \in Clients : ToReplay(conn[d], cursor[d], sent[conn[d].sub])'
    BY <2>2 DEF ToReplay
  <2>4. \A d \in Clients : ConnShape(conn'[d]) /\ conn'[d].sub = conn[d].sub /\ conn'[d].from = conn[d].from
    BY <1>1, <1>3, <1>6, <1>7 DEF ConnsDeliver
  <2>5. \A d \in Clients : ConnShape(conn[d])'
    BY <2>4 DEF ConnShape
  <2>6. /\ cursor' \in [Clients -> 0..MaxEvents]
        /\ \A d \in Clients : conn'[d].sub <= nextSubID' /\ conn'[d].from <= nextEventID'
        /\ \A d, f \in Clients : conn'[d].sub = conn'[f].sub /\ conn'[d].sub # 0 => d = f
    <3>1. /\ cursor \in [Clients -> 0..MaxEvents]
          /\ \A d \in Clients : conn[d].sub <= nextSubID /\ conn[d].from <= nextEventID
          /\ \A d, f \in Clients : conn[d].sub = conn[f].sub /\ conn[d].sub # 0 => d = f
      BY <1>3 DEF ConnsDeliver
    <3> QED BY <2>4, <3>1
  <2> QED BY <1>7, <2>3, <2>5, <2>6 DEF ConnsDeliver
<1>17. \A d \in Clients : conn'[d].sub = conn[d].sub /\ conn'[d].from = conn[d].from
  BY <1>1, <1>6, <1>7
<1>18. SendsAfter'
  <2>1. \A p \in Publishers, d \in Clients : SentSince(pub[p], conn'[d])
    BY <1>3, <1>17 DEF SendsAfter, SentSince
  <2> QED BY <2>1 DEF SendsAfter, SentSince, Sending
<1>19. NoHole'
  <2>1. ASSUME NEW t \in SubIDs, NEW id, Arrives(t, id, sent, pub) PROVE Arrives(t, id, sent', pub')
    <3>1. CASE \E i \in DOMAIN sent[t] : sent[t][i].id = id
      <4>1. \E i \in DOMAIN sent'[t] : sent'[t][i].id = id
        BY <1>12, <3>1, ArrivesInLonger
      <4> QED BY <4>1 DEF Arrives
    <3>2. CASE \E p \in Publishers : pub[p].event.id = id /\ t \in pub[p].todo \cup {pub[p].slow}
      BY <3>2 DEF Arrives
    <3> QED BY <2>1, <3>1, <3>2 DEF Arrives
  <2>2. chanClosed' = chanClosed
    BY <1>11 DEF SendsInto
  <2>3. ASSUME NEW d \in Clients, conn'[d].sub \in subs', ~chanClosed'[conn'[d].sub], ~panicked'
        PROVE  /\ conn[d].sub \in subs /\ ~chanClosed[conn[d].sub]
               /\ conn'[d].sub = conn[d].sub /\ conn'[d].from = conn[d].from
               /\ \A id : Arrives(conn[d].sub, id, sent, pub) => Arrives(conn[d].sub, id, sent', pub')
    BY <1>3, <1>17, <2>1, <2>2, <2>3
  <2> QED BY <1>3, <2>3, NoHoleStays
<1> QED BY <1>13, <1>15, <1>16, <1>18, <1>19 DEF Carried

LEMMA ReplayDelivers ==
  ASSUME DeliveryInv, NEW c \in Clients, Replay(c) PROVE Carried'
<1>1. /\ conn[c].at = "replay" /\ conn[c].replay # <<>>
      /\ UNCHANGED <<panicked, nextEventID, subs, nextSubID, pub, cursor>>
  BY DEF Replay, stream
<1>2. CASE SendsInto(conn[c].sub, Head(conn[c].replay)) /\ conn' = [conn EXCEPT ![c].replay = Tail(@)]
  BY <1>1, <1>2, ReplayIntoDelivers
<1>3. CASE conn' = [conn EXCEPT ![c].at = "full", ![c].replay = <<>>] /\ UNCHANGED channels
  <2>1. PICK k : k = [conn[c] EXCEPT !.at = "full", !.replay = <<>>]
    OBVIOUS
  <2>2. conn' = [conn EXCEPT ![c] = k] /\ chanClosed' = chanClosed /\ UNCHANGED <<sent, taken>>
    BY <1>3, <2>1 DEF channels
  <2>3. <<>> \in Seq(Events)
    OBVIOUS
  <2>4. ConnShape(k) /\ k.replay = <<>> /\ k.sub = conn[c].sub /\ k.from = conn[c].from
    BY <1>1, <2>1, <2>3, ConnFields DEF ConnShape, ConnRecord, ConnPlaces
  <2>5. k.from <= nextEventID /\ subs' \subseteq subs
    BY <1>1, <2>4, ConnFields
  <2> QED BY <1>1, <2>2, <2>4, <2>5, ConnRests, ClosedStays
<1>4. CASE conn' = [conn EXCEPT ![c] = IdleConn] /\ UNCHANGED channels
  BY <1>1, <1>4, ConnEnds, ClosedStays DEF channels
<1> QED BY <1>2, <1>3, <1>4 DEF Replay

\* A subscription has a number nobody had, an empty channel, and the history
\* behind the cursor; whatever is published later is on its way to it.
LEMMA SubscribeDelivers ==
  ASSUME DeliveryInv, NEW c \in Clients, Subscribe(c) PROVE Carried'
<1>1. PICK s, q : s = nextSubID + 1 /\ q = after(ring, cursor[c])
  OBVIOUS
<1>2. PICK k : k = [conn[c] EXCEPT !.at = "replay", !.sub = s, !.replay = q, !.ended = closed,
                                   !.from = nextEventID]
  OBVIOUS
<1>3. /\ conn[c].at = "subscribe" /\ nextSubID < MaxSubs /\ nextSubID' = s
      /\ subs' \subseteq subs \cup {s}
      /\ nextEventID' = nextEventID /\ sent' = sent /\ taken' = taken /\ chanClosed' = chanClosed
      /\ pub' = pub /\ cursor' = cursor /\ panicked' = panicked
  BY <1>1 DEF Subscribe, stream, channels
<1>4. conn' = [conn EXCEPT ![c] = k]
  BY <1>1, <1>2, <1>3 DEF Subscribe
<1>5. /\ ChannelsOK /\ PubsDeliver /\ ConnsDeliver /\ SendsAfter /\ NoHole
      /\ nextEventID \in Nat /\ nextSubID \in Nat
      /\ subs \subseteq 1..nextSubID /\ subs \subseteq SubIDs /\ 0 \notin subs /\ closed \in BOOLEAN
  BY SubsInRange DEF DeliveryInv, Carried, HubInv, StreamOK, FlagsOK
<1>6. s \in SubIDs /\ s \in Nat /\ s # 0 /\ nextSubID < s
  BY <1>1, <1>3, <1>5, HubAssumption DEF SubIDs
<1>7. cursor[c] \in Nat
  BY ConnFields, HubAssumption
<1>8. /\ q \in Seq(Events)
      /\ \A i \in DOMAIN q : /\ cursor[c] < q[i].id /\ q[i].id <= nextEventID
                             /\ \A j \in DOMAIN q : i < j => q[i].id < q[j].id
  BY <1>1, <1>7, AfterInOrder DEF DeliveryInv
<1>9. /\ ConnShape(k) /\ k \in ConnRecord /\ k.sub = s /\ k.from = nextEventID /\ k.replay = q
  <2>1. k = [at |-> "replay", execution |-> conn[c].execution, sub |-> s, replay |-> q, ended |-> closed,
             from |-> nextEventID] /\ conn[c].execution \in Nat
    BY <1>2, ConnFields DEF ConnRecord
  <2> QED BY <1>5, <1>6, <1>8, <2>1 DEF ConnShape, ConnRecord, ConnPlaces
<1>10. conn' \in [Clients -> ConnRecord] /\ \A d \in Clients : conn'[d] = IF d = c THEN k ELSE conn[d]
  BY <1>4, <1>5, <1>9 DEF ConnsDeliver
<1>11. \A d \in Clients : conn[d].sub \in Nat /\ conn[d].sub <= nextSubID /\ conn[d].sub # s
  <2>1. ASSUME NEW d \in Clients PROVE conn[d].sub \in Nat /\ conn[d].sub <= nextSubID
    BY <1>5, ConnFields, HubAssumption DEF ConnsDeliver, SubIDs
  <2> QED BY <1>5, <1>6, <2>1
<1>12. ChannelsOK'
  <2>1. nextSubID' \in 0..MaxSubs /\ subs' \subseteq 1..nextSubID'
    BY <1>1, <1>3, <1>5, <1>6, HubAssumption
  <2>2. \A t \in SubIDs : nextSubID' < t => sent[t] = <<>>
    <3>1. \A t \in SubIDs : t \in Nat /\ (nextSubID < t => sent[t] = <<>>)
      BY <1>5, HubAssumption DEF ChannelsOK, SubIDs
    <3> QED BY <1>1, <1>3, <1>5, <3>1
  <2> QED BY <1>3, <1>5, <2>1, <2>2 DEF ChannelsOK, DeliveredOnce
<1>13. ASSUME NEW p \in Publishers PROVE UnderWay(pub[p], sent, s, nextEventID)
  <2>1. UnderWay(pub[p], sent, nextSubID, nextEventID) /\ pub[p] \in PubRecord
    BY <1>5 DEF PubsDeliver
  <2>2. \A t \in pub[p].todo : t \in Nat
    BY <2>1, HubAssumption DEF PubRecord, SubIDs
  <2> QED BY <1>1, <1>5, <2>1, <2>2 DEF UnderWay
<1>14. PubsDeliver'
  <2>1. \A p \in Publishers : UnderWay(pub[p], sent, nextSubID, nextEventID)'
    BY <1>3, <1>13 DEF UnderWay, Sending
  <2> QED BY <1>3, <1>5, <2>1 DEF PubsDeliver, PubShape, SameEvent, Sending
<1>15. ConnsDeliver'
  <2>1. ToReplay(k, cursor[c], sent[s])
    <3>1. sent[s] = <<>>
      BY <1>5, <1>6 DEF ChannelsOK
    <3> QED BY <1>8, <1>9, <3>1 DEF ToReplay
  <2>2. ASSUME NEW d \in Clients
        PROVE  /\ ToReplay(conn'[d], cursor[d], sent[conn'[d].sub]) /\ ConnShape(conn'[d])
               /\ conn'[d].sub <= s /\ conn'[d].from <= nextEventID
    <3>1. CASE d = c
      BY <1>5, <1>6, <1>9, <1>10, <2>1, <3>1
    <3>2. CASE d # c
      <4>1. conn'[d] = conn[d]
        BY <1>10, <3>2
      <4>2. conn[d].sub <= s
        BY <1>1, <1>5, <1>11
      <4> QED BY <1>5, <4>1, <4>2 DEF ConnsDeliver
    <3> QED BY <3>1, <3>2
  <2>3. ASSUME NEW d \in Clients, NEW f \in Clients, conn'[d].sub = conn'[f].sub, conn'[d].sub # 0
        PROVE  d = f
    <3>1. \A g, h \in Clients : conn[g].sub = conn[h].sub /\ conn[g].sub # 0 => g = h
      BY <1>5 DEF ConnsDeliver
    <3> QED BY <1>9, <1>10, <1>11, <2>3, <3>1
  <2>4. \A d \in Clients : ToReplay(conn[d], cursor[d], sent[conn[d].sub])'
    BY <1>3, <2>2 DEF ToReplay
  <2>5. \A d \in Clients : ConnShape(conn[d])'
    BY <2>2 DEF ConnShape
  <2>6. cursor' \in [Clients -> 0..MaxEvents]
    BY <1>3, <1>5 DEF ConnsDeliver
  <2> QED BY <1>3, <1>10, <2>2, <2>3, <2>4, <2>5, <2>6 DEF ConnsDeliver
<1>16. SendsAfter'
  <2>1. ASSUME NEW p \in Publishers, NEW d \in Clients PROVE SentSince(pub[p], conn'[d])
    <3>1. SentSince(pub[p], conn[d]) /\ UnderWay(pub[p], sent, nextSubID, nextEventID)
      BY <1>5 DEF SendsAfter, PubsDeliver
    <3>2. Sending(pub[p]) => s \notin pub[p].todo
      BY <1>1, <1>5, <3>1 DEF UnderWay
    <3> QED BY <1>9, <1>10, <3>1, <3>2 DEF SentSince
  <2> QED BY <1>3, <2>1 DEF SendsAfter, SentSince, Sending
<1>17. NoHole'
  <2> SUFFICES ASSUME ~panicked', NEW d \in Clients, conn'[d].sub \in subs', ~chanClosed'[conn'[d].sub],
                      NEW id \in (conn'[d].from + 1)..nextEventID'
               PROVE  Arrives(conn'[d].sub, id, sent', pub')
    BY HoleMeaningNext, Zenon
  <2>1. CASE d = c
    <3>1. conn'[d].from = nextEventID
      BY <1>9, <1>10, <2>1
    <3> QED BY <1>3, <1>5, <3>1
  <2>2. CASE d # c
    <3>1. conn'[d] = conn[d] /\ conn[d].sub \in subs
      BY <1>3, <1>10, <1>11, <2>2
    <3>2. ~panicked /\ ~chanClosed[conn[d].sub] /\ id \in (conn[d].from + 1)..nextEventID
      BY <1>3, <3>1
    <3>3. Arrives(conn[d].sub, id, sent, pub)
      BY <1>5, <3>1, <3>2, HoleMeaning, Zenon
    <3> QED BY <1>3, <3>1, <3>3
  <2> QED BY <2>1, <2>2
<1> QED BY <1>12, <1>14, <1>15, <1>16, <1>17 DEF Carried

-----------------------------------------------------------------------------
(* What the channels carry: the theorems                                   *)

LEMMA DeliveryInit == HubInit => DeliveryInv
<1> SUFFICES ASSUME HubInit PROVE DeliveryInv
  OBVIOUS
<1>1. /\ ring = newRing /\ nextEventID = 0 /\ closed = FALSE /\ subs = {} /\ nextSubID = 0
      /\ sent = [s \in SubIDs |-> <<>>] /\ taken = [s \in SubIDs |-> 0]
      /\ chanClosed = [s \in SubIDs |-> FALSE]
      /\ pub = [p \in Publishers |-> IdlePub] /\ conn = [c \in Clients |-> IdleConn]
      /\ cursor = [c \in Clients |-> 0] /\ execution = 0 /\ jobDone = FALSE /\ panicked = FALSE
  BY DEF HubInit
<1>2. FlagsOK
  <2>1. execution \in Executions
    BY <1>1, HubAssumption DEF Executions
  <2> QED BY <1>1, <2>1, Zenon DEF FlagsOK
<1>3. RingWindow
  <2>1. ring.len = 0 /\ ring.items \in [0..(HistorySize - 1) -> Events \cup {NoEvent}]
    BY <1>1 DEF newRing
  <2>2. \A i \in 1..ring.len : FALSE
    BY <2>1
  <2>3. ring.len <= nextEventID /\ nextEventID <= MaxEvents
    BY <1>1, <2>1, HubAssumption
  <2> QED BY <2>1, <2>2, <2>3 DEF RingWindow
<1>4. ChannelsOK
  <2>1. nextSubID \in 0..MaxSubs /\ subs \subseteq 1..nextSubID
    BY <1>1, HubAssumption
  <2>2. /\ sent \in [SubIDs -> Seq(Events)] /\ taken \in [SubIDs -> Nat] /\ chanClosed \in [SubIDs -> BOOLEAN]
        /\ \A s \in SubIDs : sent[s] = <<>> /\ taken[s] = 0
    BY <1>1
  <2>3. ASSUME NEW s \in SubIDs
        PROVE  taken[s] <= Len(sent[s]) /\ Len(sent[s]) - taken[s] <= BufferSize /\ DOMAIN sent[s] = {}
    BY <2>2, HubAssumption
  <2>4. DeliveredOnce
    BY <2>3 DEF DeliveredOnce
  <2> QED BY <2>1, <2>2, <2>3, <2>4 DEF ChannelsOK
<1>5. \A p \in Publishers : pub[p] = IdlePub
  BY <1>1
<1>6. PubsDeliver
  <2>1. pub \in [Publishers -> PubRecord]
    BY <1>1, IdlePubShape DEF PubShape
  <2> QED BY <1>5, <2>1, IdlePubShape DEF PubsDeliver, UnderWay, SameEvent
<1>7. \A c \in Clients : conn[c] = IdleConn
  BY <1>1
<1>8. ConnsDeliver
  <2>1. conn \in [Clients -> ConnRecord] /\ cursor \in [Clients -> 0..MaxEvents]
    BY <1>1, IdleConnShape, HubAssumption DEF ConnShape
  <2>2. \A c \in Clients : conn[c].sub <= nextSubID /\ conn[c].from <= nextEventID
    BY <1>1, <1>7, IdleConnShape
  <2>3. \A c \in Clients : ToReplay(conn[c], cursor[c], sent[conn[c].sub])
    BY <1>7, IdleConnShape DEF ToReplay
  <2> QED BY <1>7, <2>1, <2>2, <2>3, IdleConnShape DEF ConnsDeliver
<1>9. SendsAfter
  BY <1>5, IdlePubShape DEF SendsAfter, SentSince
<1>10. NoHole
  BY <1>1, <1>7, IdleConnShape DEF NoHole
<1> QED BY <1>2, <1>3, <1>4, <1>6, <1>8, <1>9, <1>10, HubInitInv DEF DeliveryInv, Carried

LEMMA NothingMoves ==
  ASSUME Carried, UNCHANGED <<nextEventID, subs, nextSubID, channels, pub, conn, cursor, panicked>>
  PROVE  Carried'
<1>1. ChannelsOK'
  BY DEF Carried, channels, ChannelsOK, DeliveredOnce
<1>2. PubsDeliver'
  BY DEF Carried, channels, PubsDeliver, PubShape, UnderWay, SameEvent, Sending
<1>3. ConnsDeliver'
  BY DEF Carried, channels, ConnsDeliver, ConnShape, ToReplay
<1>4. SendsAfter'
  BY DEF Carried, SendsAfter, SentSince, Sending
<1>5. NoHole'
  BY DEF Carried, channels, NoHole
<1> QED BY <1>1, <1>2, <1>3, <1>4, <1>5 DEF Carried

\* Every step of a publisher keeps the channels exact.
LEMMA PublisherDelivers ==
  ASSUME DeliveryInv, NEW p \in Publishers,
         IngestLog(p) \/ IngestNodeLog(p) \/ BeginComplete(p) \/ Publish(p)
  PROVE  Carried' /\ FlagsOK' /\ RingWindow'
<1>1. FlagsOK /\ RingWindow /\ UNCHANGED execution
  BY DEF DeliveryInv, IngestLog, IngestNodeLog, BeginComplete, Publish, PublisherResume, AppendEvent, AppendRefused,
         SendEvent, CloseSlow, DropSlow, Finish, FinishClose, PublisherReturn, durable
<1>2. CASE IngestLog(p) \/ IngestNodeLog(p) \/ BeginComplete(p)
  BY <1>1, <1>2, BeginsDelivers, WindowStays DEF IngestLog, IngestNodeLog, BeginComplete, stream, durable, FlagsOK
<1>3. CASE PublisherResume(p)
  BY <1>1, <1>3, PublisherResumeDelivers DEF PublisherResume, durable, FlagsOK
<1>4. CASE AppendEvent(p)
  BY <1>1, <1>4, AppendEventDelivers, AppendEventWindow DEF AppendEvent, durable, FlagsOK
<1>5. CASE AppendRefused(p)
  BY <1>1, <1>5, AppendRefusedDelivers, WindowStays DEF AppendRefused, stream, durable, FlagsOK
<1>6. CASE \E s \in SubIDs : SendEvent(p, s)
  <2>1. PICK s \in SubIDs : SendEvent(p, s)
    BY <1>6
  <2>2. Carried' /\ panicked' \in BOOLEAN
    BY <2>1, SendEventDelivers
  <2>3. UNCHANGED <<stream, durable>>
    BY <2>1 DEF SendEvent
  <2> QED BY <1>1, <2>2, <2>3, WindowStays DEF stream, durable, FlagsOK
<1>7. CASE CloseSlow(p)
  BY <1>1, <1>7, CloseSlowDelivers, WindowStays DEF CloseSlow, stream, durable, FlagsOK
<1>8. CASE DropSlow(p)
  BY <1>1, <1>8, DropSlowDelivers, WindowStays DEF DropSlow, stream, durable, FlagsOK
<1>9. CASE Finish(p)
  BY <1>1, <1>9, FinishDelivers, WindowStays DEF Finish, durable, FlagsOK
<1>10. CASE FinishClose(p)
  BY <1>1, <1>10, FinishCloseDelivers, WindowStays DEF FinishClose, stream, durable, FlagsOK
<1>11. CASE PublisherReturn(p)
  BY <1>1, <1>11, PublisherReturnDelivers, WindowStays DEF PublisherReturn, stream, FlagsOK
<1> QED BY <1>2, <1>3, <1>4, <1>5, <1>6, <1>7, <1>8, <1>9, <1>10, <1>11 DEF Publish

\* Every step of a reader does.
LEMMA ReaderDelivers ==
  ASSUME DeliveryInv, NEW c \in Clients, Connect(c) \/ Serve(c) \/ Disconnect(c)
  PROVE  Carried' /\ FlagsOK' /\ RingWindow'
<1>1. FlagsOK /\ RingWindow
  BY DEF DeliveryInv
<1>2. UNCHANGED <<durable, panicked>>
  BY DEF Connect, Serve, Disconnect, ReaderResume, Subscribe, Replay, ReplayFull, ReplayEnd, Read, ReadClosed,
         Cancel, CancelClose
<1>3. CASE ReaderResume(c)
  BY <1>1, <1>2, <1>3, ReaderResumeDelivers DEF durable, FlagsOK
<1>4. CASE ~ReaderResume(c)
  <2>1. UNCHANGED stream
    BY <1>4 DEF Connect, Serve, Disconnect, Subscribe, Replay, ReplayFull, ReplayEnd, Read, ReadClosed,
                Cancel, CancelClose
  <2>2. FlagsOK' /\ RingWindow'
    BY <1>1, <1>2, <2>1, WindowStays DEF stream, durable, FlagsOK
  <2>3. Carried'
    BY <1>4, ConnectDelivers, SubscribeDelivers, ReplayDelivers, ReplayFullDelivers, ReplayEndDelivers,
       ReadDelivers, StopsReadingDelivers, CancelDelivers, CancelCloseDelivers DEF Serve
  <2> QED BY <2>2, <2>3
<1> QED BY <1>3, <1>4

LEMMA DeliveryNext == DeliveryInv /\ [HubNext]_hubVars => DeliveryInv'
<1> SUFFICES ASSUME DeliveryInv, [HubNext]_hubVars PROVE DeliveryInv'
  OBVIOUS
<1>1. HubInv'
  BY HubNextInv DEF DeliveryInv
<1>2. Carried' /\ FlagsOK' /\ RingWindow'
  <2>1. ASSUME NEW p \in Publishers, IngestLog(p) \/ IngestNodeLog(p) \/ BeginComplete(p) \/ Publish(p)
        PROVE  Carried' /\ FlagsOK' /\ RingWindow'
    BY <2>1, PublisherDelivers
  <2>2. ASSUME NEW c \in Clients, Connect(c) \/ Serve(c) \/ Disconnect(c)
        PROVE  Carried' /\ FlagsOK' /\ RingWindow'
    BY <2>2, ReaderDelivers
  <2>3. CASE RestartJob
    <3>1. /\ execution < MaxResume /\ execution' = execution + 1 /\ jobDone' = FALSE
          /\ UNCHANGED <<stream, subs, nextSubID, channels, pub, conn, cursor, panicked>>
      BY <2>3 DEF RestartJob
    <3>2. FlagsOK'
      <4>1. FlagsOK /\ closed' = closed
        BY <3>1 DEF DeliveryInv, stream
      <4>2. execution' \in Executions
        BY <3>1, <4>1, HubAssumption DEF FlagsOK, Executions
      <4> QED BY <3>1, <4>1, <4>2, Zenon DEF FlagsOK
    <3>3. RingWindow'
      BY <3>1, WindowStays DEF DeliveryInv, stream
    <3>4. Carried'
      BY <3>1, NothingMoves DEF DeliveryInv, stream
    <3> QED BY <3>2, <3>3, <3>4
  <2>4. CASE UNCHANGED hubVars
    <3>1. FlagsOK' /\ RingWindow'
      BY <2>4, WindowStays DEF DeliveryInv, hubVars, stream, durable, FlagsOK
    <3>2. Carried'
      BY <2>4, NothingMoves DEF DeliveryInv, hubVars, stream
    <3> QED BY <3>1, <3>2
  <2> QED BY <2>1, <2>2, <2>3, <2>4 DEF HubNext
<1> QED BY <1>1, <1>2 DEF DeliveryInv

LEMMA DeliveryMeans == DeliveryInv => DeliveryExact
<1> SUFFICES ASSUME DeliveryInv PROVE DeliveryExact
  OBVIOUS
<1>1. HubTypeOK
  <2>1. IsRing(ring) /\ nextEventID \in Nat /\ resumeCount \in Nat /\ resumeCount <= execution
    BY DEF DeliveryInv, HubInv, StreamOK
  <2>2. ring.items \in [0..(HistorySize - 1) -> Events \cup {NoEvent}] /\ nextEventID \in 0..MaxEvents
    BY <2>1, HubAssumption DEF DeliveryInv, RingWindow
  <2>3. ring.head \in 0..(HistorySize - 1) /\ ring.len \in 0..HistorySize
    BY <2>1 DEF IsRing
  <2>4. resumeCount \in Executions /\ execution \in Executions
    BY <2>1, HubAssumption DEF DeliveryInv, FlagsOK, Executions
  <2>5. closed \in BOOLEAN /\ jobDone \in BOOLEAN /\ panicked \in BOOLEAN
    BY DEF DeliveryInv, FlagsOK
  <2>6. subs \subseteq SubIDs /\ nextSubID \in 0..MaxSubs
    BY SubsInRange DEF DeliveryInv, Carried, ChannelsOK
  <2>7. ASSUME NEW s \in SubIDs
        PROVE  /\ sent[s] \in Seq(Events) /\ taken[s] \in 0..Len(sent[s])
               /\ Len(sent[s]) - taken[s] <= BufferSize /\ chanClosed[s] \in BOOLEAN
    <3>1. /\ sent[s] \in Seq(Events) /\ taken[s] \in Nat /\ taken[s] <= Len(sent[s])
          /\ Len(sent[s]) - taken[s] <= BufferSize /\ chanClosed[s] \in BOOLEAN
      BY DEF DeliveryInv, Carried, ChannelsOK
    <3> QED BY <3>1
  <2>8. \A p \in Publishers : pub[p].todo \subseteq SubIDs /\ pub[p].dropped \subseteq SubIDs
    BY PubFields DEF PubRecord
  <2>9. \A c \in Clients : conn[c].sub \in 0..MaxSubs /\ cursor[c] \in 0..MaxEvents
    BY ConnFields, HubAssumption DEF SubIDs
  <2> QED BY <2>2, <2>3, <2>4, <2>5, <2>6, <2>7, <2>8, <2>9 DEF HubTypeOK
<1>2. NothingBeforeCursor
  BY ConnFields DEF NothingBeforeCursor, ToReplay
<1> QED BY <1>1, <1>2 DEF DeliveryExact, DeliveryInv, Carried, ChannelsOK

\* The window of the ring, the places of the goroutines, and what each channel
\* carries, is on its way to it and is still to be replayed into it, whatever
\* publishers, readers and restarts do.
THEOREM DeliveryInvariant == HubSpec => []DeliveryInv
  BY DeliveryInit, DeliveryNext, PTL DEF HubSpec

\* For any number of publishers and readers and any sizes of ring and channel:
\* a subscription carries no event twice, is replayed nothing its reader had
\* seen, and as long as it is open misses no event published since.
THEOREM DeliverySound == HubSpec => []DeliveryExact
  BY DeliveryInvariant, DeliveryMeans, PTL
=============================================================================
