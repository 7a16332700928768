--------------------------- MODULE EventHub_proofs ---------------------------
(***************************************************************************)
(* Proofs about the log hub, for every size of the ring and of the channel *)
(* buffers, any number of handlers, readers and restarts: a job stream     *)
(* implements the abstract log of StreamLog, and only the completion of    *)
(* the execution it is on closes it.                                       *)
(***************************************************************************)
EXTENDS EventHub, WellFoundedInduction, TLAPS

-----------------------------------------------------------------------------
(* The ring                                                                *)

\* Events without the bounds of the model, and a ring with its indices in range.
AnyEvent == [id : Nat, type : Types, execution : Nat]
IsRing(r) == r \in [items : [0..(HistorySize - 1) -> AnyEvent],
                    head : 0..(HistorySize - 1), len : 0..HistorySize]

\* Where the i-th oldest of len events is, when the next goes to index head.
Position(head, len, i) ==
  IF head - len + i - 1 >= 0 THEN head - len + i - 1 ELSE head - len + i - 1 + HistorySize

LEMMA ModSmall == ASSUME NEW n \in Nat \ {0}, NEW x \in 0..(n - 1) PROVE x % n = x
  OBVIOUS

LEMMA ModOver == ASSUME NEW n \in Nat \ {0}, NEW x \in n..(2 * n - 1) PROVE x % n = x - n
  OBVIOUS

\* The modulo arithmetic of oldest and slice walks from head - len to head - 1.
LEMMA SlicePosition ==
  ASSUME NEW r, IsRing(r), NEW i \in 1..r.len
  PROVE  (oldest(r) + i - 1) % HistorySize = Position(r.head, r.len, i)
<1> DEFINE x == r.head - r.len + HistorySize
<1>1. HistorySize \in Nat \ {0} /\ r.head \in 0..(HistorySize - 1) /\ r.len \in 0..HistorySize
  BY HubAssumption DEF IsRing
<1>2. CASE x \in 0..(HistorySize - 1)
  <2>1. oldest(r) = x
    BY <1>1, <1>2, ModSmall DEF oldest
  <2>2. CASE x + i - 1 \in 0..(HistorySize - 1)
    BY <1>1, <2>1, <2>2, ModSmall DEF Position
  <2>3. CASE x + i - 1 \in HistorySize..(2 * HistorySize - 1)
    BY <1>1, <2>1, <2>3, ModOver DEF Position
  <2> QED BY <1>1, <1>2, <2>2, <2>3
<1>3. CASE x \in HistorySize..(2 * HistorySize - 1)
  <2>1. oldest(r) = r.head - r.len
    BY <1>1, <1>3, ModOver DEF oldest
  <2>2. r.head - r.len + i - 1 \in 0..(HistorySize - 1)
    BY <1>1, <1>3
  <2> QED BY <1>1, <2>1, <2>2, ModSmall DEF Position
<1> QED BY <1>1, <1>2, <1>3

\* slice lists the events from the oldest to the newest.
LEMMA SliceElement ==
  ASSUME NEW r, IsRing(r), NEW i \in 1..r.len
  PROVE  slice(r)[i] = r.items[Position(r.head, r.len, i)]
  BY SlicePosition DEF slice

LEMMA PushRing ==
  ASSUME NEW r, IsRing(r), NEW e \in AnyEvent
  PROVE  /\ IsRing(push(r, e))
         /\ push(r, e).items = [r.items EXCEPT ![r.head] = e]
         /\ push(r, e).head = IF r.head = HistorySize - 1 THEN 0 ELSE r.head + 1
         /\ push(r, e).len = IF r.len < HistorySize THEN r.len + 1 ELSE r.len
<1>1. HistorySize \in Nat \ {0} /\ r.head \in 0..(HistorySize - 1) /\ r.len \in 0..HistorySize
  BY HubAssumption DEF IsRing
<1>2. (r.head + 1) % HistorySize = IF r.head = HistorySize - 1 THEN 0 ELSE r.head + 1
  <2>1. CASE r.head = HistorySize - 1
    BY <1>1, <2>1, ModOver
  <2>2. CASE r.head # HistorySize - 1
    BY <1>1, <2>2, ModSmall
  <2> QED BY <2>1, <2>2
<1>3. r.items \in [0..(HistorySize - 1) -> AnyEvent]
  BY DEF IsRing
<1>4. [r.items EXCEPT ![r.head] = e] \in [0..(HistorySize - 1) -> AnyEvent]
  BY <1>3
<1> QED BY <1>1, <1>2, <1>4 DEF push, IsRing

\* Pushing an event appends it to the slice; a full ring loses its oldest one.
LEMMA PushSlice ==
  ASSUME NEW r, IsRing(r), NEW e \in AnyEvent, NEW i \in 1..push(r, e).len
  PROVE  slice(push(r, e))[i] =
           IF i = push(r, e).len THEN e
           ELSE IF r.len < HistorySize THEN slice(r)[i] ELSE slice(r)[i + 1]
<1> DEFINE p == push(r, e)
           n == HistorySize
           at == Position(p.head, p.len, i)
<1>1. n \in Nat \ {0} /\ r.head \in 0..(n - 1) /\ r.len \in 0..n
  BY HubAssumption DEF IsRing
<1>2. slice(p)[i] = [r.items EXCEPT ![r.head] = e][at]
  <2>1. IsRing(p) /\ p.items = [r.items EXCEPT ![r.head] = e]
    BY PushRing
  <2>2. i \in 1..p.len
    OBVIOUS
  <2> HIDE DEF p
  <2>3. slice(p)[i] = p.items[at]
    BY <2>1, <2>2, SliceElement
  <2> QED BY <2>1, <2>3
<1>3. DOMAIN r.items = 0..(n - 1)
  BY DEF IsRing
<1>4. /\ p.head = IF r.head = n - 1 THEN 0 ELSE r.head + 1
      /\ p.len = IF r.len < n THEN r.len + 1 ELSE r.len
  BY PushRing
<1>5. at = IF p.head - p.len + i - 1 >= 0 THEN p.head - p.len + i - 1 ELSE p.head - p.len + i - 1 + n
  BY DEF Position
<1>6. i \in 1..p.len
  OBVIOUS
<1> HIDE DEF p, at
<1>7. CASE i = p.len
  <2>1. at = r.head
    BY <1>1, <1>4, <1>5, <1>7
  <2> QED BY <1>1, <1>2, <1>3, <1>7, <2>1 DEF p
<1>8. CASE i # p.len /\ r.len < n
  <2>1. i \in 1..r.len
    BY <1>1, <1>4, <1>6, <1>8
  <2>2. at = Position(r.head, r.len, i)
    BY <1>1, <1>4, <1>5, <1>8, <2>1 DEF Position
  <2>3. at # r.head /\ at \in 0..(n - 1)
    BY <1>1, <1>4, <1>5, <1>6, <1>8
  <2>4. slice(r)[i] = r.items[at]
    BY <2>1, <2>2, SliceElement
  <2> QED BY <1>2, <1>3, <1>8, <2>3, <2>4 DEF p
<1>9. CASE i # p.len /\ ~(r.len < n)
  <2>1. i + 1 \in 1..r.len
    BY <1>1, <1>4, <1>6, <1>9
  <2>2. at = Position(r.head, r.len, i + 1)
    BY <1>1, <1>4, <1>5, <1>9, <2>1 DEF Position
  <2>3. at # r.head /\ at \in 0..(n - 1)
    <3>1. CASE r.head = n - 1
      <4>1. p.head = 0 /\ p.len = n /\ i \in 1..(n - 1)
        BY <1>1, <1>4, <1>6, <1>9, <3>1
      <4>2. at = i - 1
        BY <1>1, <1>5, <4>1
      <4> QED BY <1>1, <3>1, <4>1, <4>2
    <3>2. CASE r.head # n - 1
      <4>1. p.head = r.head + 1 /\ p.len = n /\ i \in 1..(n - 1)
        BY <1>1, <1>4, <1>6, <1>9, <3>2
      <4>2. at = IF r.head + i - n >= 0 THEN r.head + i - n ELSE r.head + i
        BY <1>1, <1>5, <4>1
      <4> QED BY <1>1, <4>1, <4>2
    <3> QED BY <3>1, <3>2
  <2>4. slice(r)[i + 1] = r.items[at]
    BY <2>1, <2>2, SliceElement
  <2> QED BY <1>2, <1>3, <1>9, <2>3, <2>4 DEF p
<1> QED BY <1>7, <1>8, <1>9 DEF p

-----------------------------------------------------------------------------
(* What a reader is replayed                                               *)

\* Every non-empty set of numbers has a least element.
LEMMA LeastNumber ==
  ASSUME NEW T, T \subseteq Nat, T # {}
  PROVE  \E n \in T : \A m \in T : n <= m
<1>1. \A x, y \in Nat : <<y, x>> \in OpToRel(<, Nat) <=> y < x
  BY DEF OpToRel
<1>2. PICK R : IsWellFoundedOn(R, Nat) /\ \A x, y \in Nat : <<y, x>> \in R <=> y < x
  BY <1>1, NatLessThanWellFounded, Zenon
<1>3. PICK x \in T : \A y \in T : ~(<<y, x>> \in R)
  BY <1>2, WFMin
<1>4. ASSUME NEW y \in T PROVE x <= y
  <2>1. x \in Nat /\ y \in Nat
    OBVIOUS
  <2>2. ~(y < x)
    BY <1>2, <1>3, <2>1, Zenon
  <2> QED BY <2>1, <2>2
<1> QED BY <1>4

\* The walk of after over the first n retained events.
IsWalk(out, r, since, n) ==
  out = [i \in 0..n |->
           IF i = 0 THEN <<>>
           ELSE IF slice(r)[i].id > since THEN Append(out[i - 1], slice(r)[i]) ELSE out[i - 1]]

LEMMA WalkGoesOn ==
  ASSUME NEW r, NEW since, NEW n \in Nat, NEW out, IsWalk(out, r, since, n)
  PROVE  \E next : IsWalk(next, r, since, n + 1)
<1> DEFINE More(f, i) == IF slice(r)[i].id > since THEN Append(f, slice(r)[i]) ELSE f
           next == [i \in 0..(n + 1) |-> IF i <= n THEN out[i] ELSE More(out[n], i)]
<1>1. \A i \in 0..n : out[i] = IF i = 0 THEN <<>> ELSE More(out[i - 1], i)
  BY DEF IsWalk
<1>2. \A i \in 0..n : next[i] = out[i]
  OBVIOUS
<1> HIDE DEF More
<1>3. ASSUME NEW i \in 0..(n + 1)
      PROVE  next[i] = IF i = 0 THEN <<>> ELSE More(next[i - 1], i)
  <2>1. CASE i \in 0..n
    <3>1. i # 0 => i - 1 \in 0..n
      BY <2>1
    <3> QED BY <1>1, <1>2, <2>1, <3>1
  <2>2. CASE i = n + 1
    <3>1. next[i - 1] = out[n] /\ i # 0 /\ ~(i <= n)
      BY <1>2, <2>2
    <3> QED BY <2>2, <3>1
  <2> QED BY <2>1, <2>2
<1>4. next = [i \in 0..(n + 1) |-> next[i]]
  OBVIOUS
<1> HIDE DEF next
<1>5. IsWalk(next, r, since, n + 1)
  BY <1>3, <1>4 DEF IsWalk, More
<1> QED BY <1>5

\* Induction over the length of the walk: a shortest one that does not exist
\* would follow one that does.
LEMMA WalkExists ==
  ASSUME NEW r, NEW since, NEW n \in Nat
  PROVE  \E out : IsWalk(out, r, since, n)
<1> DEFINE Missing == {m \in Nat : ~\E out : IsWalk(out, r, since, m)}
<1> SUFFICES ASSUME Missing # {} PROVE FALSE
  OBVIOUS
<1>1. PICK m \in Missing : \A k \in Missing : m <= k
  BY LeastNumber
<1>2. CASE m = 0
  <2>1. IsWalk([i \in 0..0 |-> <<>>], r, since, 0)
    BY DEF IsWalk
  <2> QED BY <1>1, <1>2, <2>1
<1>3. CASE m # 0
  <2>1. m - 1 \in Nat /\ m - 1 \notin Missing
    BY <1>1, <1>3
  <2>2. PICK out : IsWalk(out, r, since, m - 1)
    BY <2>1
  <2>3. \E next : IsWalk(next, r, since, m - 1 + 1)
    BY <2>1, <2>2, WalkGoesOn
  <2> QED BY <2>1, <2>3, <1>1
<1> QED BY <1>2, <1>3

LEMMA AfterWalks ==
  ASSUME NEW r, NEW since, r.len \in Nat
  PROVE  \E out : IsWalk(out, r, since, r.len) /\ after(r, since) = out[r.len]
<1> DEFINE w == CHOOSE out : IsWalk(out, r, since, r.len)
<1>1. IsWalk(w, r, since, r.len)
  BY WalkExists, Zenon
<1>2. after(r, since) = w[r.len]
  BY DEF after, IsWalk
<1> HIDE DEF w
<1> QED BY <1>1, <1>2

-----------------------------------------------------------------------------
(* The stream is the log of module StreamLog                               *)

\* The history of the abstract log, as Log of EventHub maps it.
Entry == [id : Nat, body : Types]
historyOf(r) == [i \in 1..r.len |-> [id |-> slice(r)[i].id, body |-> slice(r)[i].type]]

LEMMA HistoryType ==
  ASSUME NEW r, IsRing(r)
  PROVE  historyOf(r) \in Seq(Entry) /\ Len(historyOf(r)) = r.len
<1>1. r.len \in Nat
  BY HubAssumption DEF IsRing
<1>2. ASSUME NEW i \in 1..r.len PROVE [id |-> slice(r)[i].id, body |-> slice(r)[i].type] \in Entry
  <2>1. Position(r.head, r.len, i) \in 0..(HistorySize - 1)
    BY HubAssumption DEF IsRing, Position
  <2>2. slice(r)[i] \in AnyEvent
    BY <2>1, SliceElement DEF IsRing
  <2> QED BY <2>2 DEF AnyEvent, Entry
<1>3. historyOf(r) \in [1..r.len -> Entry]
  BY <1>2 DEF historyOf
<1> QED BY <1>1, <1>3

\* A push is the append of the log: the oldest entry goes when the ring is full.
LEMMA PushIsAppend ==
  ASSUME NEW r, IsRing(r), NEW e \in AnyEvent
  PROVE  historyOf(push(r, e)) = Log!Newest(Append(historyOf(r), [id |-> e.id, body |-> e.type]))
<1> DEFINE p == push(r, e)
           h == historyOf(r)
           x == [id |-> e.id, body |-> e.type]
           a == Append(h, x)
<1>1. HistorySize \in Nat \ {0} /\ r.len \in 0..HistorySize
  BY HubAssumption DEF IsRing
<1>2. h \in Seq(Entry) /\ Len(h) = r.len /\ x \in Entry
  BY HistoryType DEF AnyEvent, Entry
<1>3. /\ a \in Seq(Entry) /\ Len(a) = r.len + 1 /\ a[r.len + 1] = x
      /\ \A i \in 1..r.len : a[i] = h[i]
  BY <1>1, <1>2
<1>4. /\ historyOf(p) \in Seq(Entry) /\ Len(historyOf(p)) = p.len
      /\ p.len = IF r.len < HistorySize THEN r.len + 1 ELSE r.len
  BY PushRing, HistoryType
<1>5. \A i \in 1..p.len : historyOf(p)[i] = IF i = p.len THEN x ELSE IF r.len < HistorySize THEN h[i] ELSE h[i + 1]
  <2> SUFFICES ASSUME NEW i \in 1..p.len
               PROVE  historyOf(p)[i] = IF i = p.len THEN x ELSE IF r.len < HistorySize THEN h[i] ELSE h[i + 1]
    OBVIOUS
  <2>1. historyOf(p)[i] = [id |-> slice(p)[i].id, body |-> slice(p)[i].type]
    BY DEF historyOf
  <2>2. slice(p)[i] = IF i = p.len THEN e ELSE IF r.len < HistorySize THEN slice(r)[i] ELSE slice(r)[i + 1]
    BY PushSlice
  <2>3. i # p.len => IF r.len < HistorySize THEN i \in 1..r.len ELSE i + 1 \in 1..r.len
    BY <1>1, <1>4
  <2>4. \A j \in 1..r.len : h[j] = [id |-> slice(r)[j].id, body |-> slice(r)[j].type]
    BY DEF historyOf
  <2> HIDE DEF p, h
  <2> QED BY <2>1, <2>2, <2>3, <2>4
<1> HIDE DEF p, h, x, a
<1>6. CASE r.len < HistorySize
  <2>1. \A i \in 1..p.len : historyOf(p)[i] = a[i]
    BY <1>1, <1>3, <1>4, <1>5, <1>6
  <2>2. historyOf(p) = a
    BY <1>3, <1>4, <1>6, <2>1
  <2>3. Log!Newest(a) = a
    BY <1>1, <1>3, <1>6 DEF Log!Newest
  <2> QED BY <2>2, <2>3 DEF p, a, x, h
<1>7. CASE ~(r.len < HistorySize)
  <2>1. Tail(a) \in Seq(Entry) /\ Len(Tail(a)) = r.len /\ \A i \in 1..r.len : Tail(a)[i] = a[i + 1]
    BY <1>1, <1>3, <1>7
  <2>2. ASSUME NEW i \in 1..p.len PROVE historyOf(p)[i] = Tail(a)[i]
    <3>1. i \in 1..r.len /\ Tail(a)[i] = a[i + 1]
      BY <1>4, <1>7, <2>1
    <3>2. historyOf(p)[i] = a[i + 1]
      <4>1. CASE i = r.len
        BY <1>3, <1>4, <1>5, <1>7, <4>1
      <4>2. CASE i # r.len
        <5>1. i + 1 \in 1..r.len /\ a[i + 1] = h[i + 1]
          BY <1>1, <1>3, <3>1, <4>2
        <5>2. historyOf(p)[i] = h[i + 1]
          BY <1>4, <1>5, <1>7, <4>2
        <5> QED BY <5>1, <5>2
      <4> QED BY <4>1, <4>2
    <3> QED BY <3>1, <3>2
  <2>3. historyOf(p) = Tail(a)
    BY <1>4, <1>7, <2>1, <2>2
  <2>4. Log!Newest(a) = Tail(a)
    BY <1>1, <1>3, <1>7 DEF Log!Newest
  <2> QED BY <2>3, <2>4 DEF p, a, x, h
<1> QED BY <1>6, <1>7

-----------------------------------------------------------------------------
(* The inductive invariant                                                 *)

\* A record with the fields the argument is about.
IsPub(k) == /\ "at" \in DOMAIN k /\ "kind" \in DOMAIN k /\ "execution" \in DOMAIN k
            /\ "rest" \in DOMAIN k /\ "event" \in DOMAIN k
IsConn(k) == "execution" \in DOMAIN k

Frames == {<<>>, <<"log">>, <<"retention", "done">>, <<"done">>}

StreamOK ==
  /\ IsRing(ring) /\ nextEventID \in Nat
  /\ execution \in Nat /\ resumeCount \in Nat /\ resumeCount <= execution

\* What a publisher still has to send, and which execution it speaks for: only
\* the completion, which holds the lock of the run, has a done frame.
PubOK(k) ==
  /\ IsPub(k)
  /\ k.rest \in Frames /\ k.event \in AnyEvent
  /\ k.at \in {"resume", "publish"} => k.rest # <<>>
  /\ k.execution \in Nat /\ k.execution <= execution
  /\ k.kind # "complete" => /\ k.rest \in {<<>>, <<"log">>} /\ k.event.type # "done"
                            /\ k.at # "finish"
  /\ k.kind = "complete" => /\ k.execution = execution
                            /\ k.at # "resume" => resumeCount = execution

PubsOK ==
  /\ pub = [p \in Publishers |-> pub[p]]
  /\ \A p \in Publishers : PubOK(pub[p])
  /\ \A p, q \in Publishers : Completing(p) /\ Completing(q) => p = q

ConnOK(k) == IsConn(k) /\ k.execution \in Nat /\ k.execution <= execution
ConnsOK == conn = [c \in Clients |-> conn[c]] /\ \A c \in Clients : ConnOK(conn[c])

HubInv == StreamOK /\ PubsOK /\ ConnsOK

LEMMA HubInitInv == HubInit => HubInv
<1> SUFFICES ASSUME HubInit PROVE HubInv
  OBVIOUS
<1>1. NoEvent \in AnyEvent
  BY DEF NoEvent, AnyEvent, Types
<1>2. IsRing(newRing)
  BY <1>1, HubAssumption DEF newRing, IsRing
<1>3. StreamOK
  BY <1>2 DEF StreamOK, HubInit
<1>4. PubsOK
  <2>1. IdlePub.kind = "none" /\ IdlePub.rest = <<>> /\ IdlePub.event = NoEvent /\ IdlePub.at = "idle" /\ IdlePub.execution = 0
    BY DEF IdlePub
  <2>2. PubOK(IdlePub)
    BY <1>1, <2>1 DEF HubInit, PubOK, IsPub, IdlePub, Frames, NoEvent
  <2> QED BY <2>1, <2>2 DEF HubInit, PubsOK, Completing
<1>5. ConnsOK
  BY DEF HubInit, ConnsOK, ConnOK, IsConn, IdleConn
<1> QED BY <1>3, <1>4, <1>5 DEF HubInv

\* A step of one publisher, with no restart and no resume.
LEMMA PubStep ==
  ASSUME HubInv, NEW p \in Publishers, NEW k,
         pub' = [pub EXCEPT ![p] = k], PubOK(k),
         k.kind = "complete" => \A q \in Publishers \ {p} : ~Completing(q),
         UNCHANGED <<resumeCount, execution>>
  PROVE  PubsOK'
<1>1. pub' = [q \in Publishers |-> IF q = p THEN k ELSE pub[q]]
  BY DEF HubInv, PubsOK
<1>2. \A q \in Publishers : PubOK(pub'[q])
  BY <1>1 DEF HubInv, PubsOK
<1>3. \A q \in Publishers : PubOK(pub[q])'
  BY <1>2 DEF PubOK
<1>4. \A q, r \in Publishers : pub'[q].kind = "complete" /\ pub'[r].kind = "complete" => q = r
  BY <1>1 DEF HubInv, PubsOK, Completing
<1> QED BY <1>1, <1>3, <1>4 DEF PubsOK, Completing

\* ... that changes neither what it speaks for nor what it has to send.
LEMMA PubMoves ==
  ASSUME HubInv, NEW p \in Publishers, NEW at, NEW todo, NEW slow, NEW dropped,
         pub' = [pub EXCEPT ![p] = [pub[p] EXCEPT !.at = at, !.todo = todo, !.slow = slow,
                                                  !.dropped = dropped]],
         at \notin {"resume", "publish"}, at = "finish" => Completing(p),
         pub[p].at # "resume",
         UNCHANGED <<resumeCount, execution>>
  PROVE  PubsOK'
<1> DEFINE k == [pub[p] EXCEPT !.at = at, !.todo = todo, !.slow = slow, !.dropped = dropped]
<1>1. PubOK(pub[p])
  BY DEF HubInv, PubsOK
<1>2. /\ IsPub(k) /\ k.at = at /\ k.kind = pub[p].kind /\ k.rest = pub[p].rest
      /\ k.event = pub[p].event /\ k.execution = pub[p].execution
  BY <1>1 DEF PubOK, IsPub
<1>3. PubOK(k)
  BY <1>1, <1>2 DEF PubOK, Completing
<1>4. k.kind = "complete" => \A q \in Publishers \ {p} : ~Completing(q)
  BY <1>2 DEF HubInv, PubsOK, Completing
<1> HIDE DEF k
<1> QED BY <1>3, <1>4, PubStep DEF k

\* A resume under a count the hub has heard of leaves a completion's claim alone.
LEMMA ResumeKeeps ==
  ASSUME HubInv, NEW count \in Nat, count <= execution, resume(count), UNCHANGED execution
  PROVE  /\ StreamOK'
         /\ \A k : PubOK(k) => PubOK(k)'
<1>1. IsRing(newRing)
  BY HubAssumption DEF newRing, IsRing, NoEvent, AnyEvent, Types
<1>2. StreamOK'
  BY <1>1 DEF HubInv, StreamOK, resume, stream
<1>3. resumeCount' = resumeCount \/ (resumeCount # execution /\ resumeCount' \in Nat)
  BY DEF HubInv, StreamOK, resume, stream
<1> QED BY <1>2, <1>3 DEF PubOK

LEMMA ConnStep ==
  ASSUME HubInv, NEW c \in Clients, NEW k, conn' = [conn EXCEPT ![c] = k],
         ConnOK(k), UNCHANGED execution
  PROVE  ConnsOK'
<1>1. conn' = [d \in Clients |-> IF d = c THEN k ELSE conn[d]]
  BY DEF HubInv, ConnsOK
<1>2. \A d \in Clients : ConnOK(conn[d])'
  BY <1>1 DEF HubInv, ConnsOK, ConnOK
<1> QED BY <1>1, <1>2 DEF ConnsOK

LEMMA IdleOK ==
  ASSUME HubInv
  PROVE  PubOK(IdlePub) /\ IdlePub.kind = "none" /\ ConnOK(IdleConn)
<1>1. NoEvent \in AnyEvent /\ NoEvent.type = "log"
  BY DEF NoEvent, AnyEvent, Types
<1>2. /\ IsPub(IdlePub) /\ IdlePub.kind = "none" /\ IdlePub.rest = <<>>
      /\ IdlePub.event = NoEvent /\ IdlePub.at = "idle" /\ IdlePub.execution = 0
  BY DEF IdlePub, IsPub
<1>3. IsConn(IdleConn) /\ IdleConn.execution = 0
  BY DEF IdleConn, IsConn
<1> QED BY <1>1, <1>2, <1>3 DEF HubInv, StreamOK, PubOK, ConnOK, Frames

\* A handler begins to publish.
LEMMA BeginsInv ==
  ASSUME HubInv, NEW p \in Publishers, NEW k,
         pub' = [pub EXCEPT ![p] = k],
         IsPub(k), k.event = NoEvent, k.at \in {"resume", "publish"},
         \/ k.kind = "log" /\ k.rest = <<"log">> /\ k.execution \in {0, execution}
         \/ /\ k.kind = "complete" /\ k.rest = <<"retention", "done">> /\ k.execution = execution
            /\ k.at = "resume" /\ \A q \in Publishers : ~Completing(q),
         UNCHANGED <<stream, conn, durable>>
  PROVE  HubInv'
<1>1. StreamOK' /\ ConnsOK' /\ UNCHANGED <<resumeCount, execution>>
  BY DEF HubInv, StreamOK, ConnsOK, ConnOK, stream, durable
<1>2. NoEvent \in AnyEvent /\ NoEvent.type = "log"
  BY DEF NoEvent, AnyEvent, Types
<1>3. execution \in Nat /\ 0 <= execution
  BY DEF HubInv, StreamOK
<1>4. k.rest \in {<<"log">>, <<"retention", "done">>} /\ k.kind \in {"log", "complete"}
  OBVIOUS
<1>5. k.rest \in Frames /\ k.rest # <<>>
  BY ONLY <1>4 DEF Frames
<1>6. k.execution \in Nat /\ k.execution <= execution
  BY <1>3
<1>7. k.kind # "complete" => k.rest = <<"log">>
  OBVIOUS
<1>8. k.kind = "complete" => k.execution = execution /\ k.at = "resume"
  OBVIOUS
<1>9. PubOK(k)
  BY ONLY IsPub(k), k.event = NoEvent, k.at \in {"resume", "publish"},
          <1>2, <1>3, <1>4, <1>5, <1>6, <1>7, <1>8 DEF PubOK
<1>10. PubsOK'
  BY <1>1, <1>9, PubStep
<1> QED BY <1>1, <1>10 DEF HubInv

LEMMA IngestLogInv ==
  ASSUME HubInv, NEW p \in Publishers, IngestLog(p) PROVE HubInv'
<1> DEFINE k == [IdlePub EXCEPT !.at = "resume", !.kind = "log", !.execution = execution,
                                !.rest = <<"log">>]
<1>1. /\ IsPub(k) /\ k.event = NoEvent /\ k.at = "resume" /\ k.kind = "log"
      /\ k.rest = <<"log">> /\ k.execution = execution
  BY DEF IsPub, IdlePub
<1>2. pub' = [pub EXCEPT ![p] = k] /\ UNCHANGED <<stream, conn, durable>>
  BY DEF IngestLog
<1> HIDE DEF k
<1> QED BY <1>1, <1>2, BeginsInv

LEMMA IngestNodeLogInv ==
  ASSUME HubInv, NEW p \in Publishers, IngestNodeLog(p) PROVE HubInv'
<1> DEFINE k == [IdlePub EXCEPT !.at = "publish", !.kind = "log", !.rest = <<"log">>]
<1>1. /\ IsPub(k) /\ k.event = NoEvent /\ k.at = "publish" /\ k.kind = "log"
      /\ k.rest = <<"log">> /\ k.execution = 0
  BY DEF IsPub, IdlePub
<1>2. pub' = [pub EXCEPT ![p] = k] /\ UNCHANGED <<stream, conn, durable>>
  BY DEF IngestNodeLog
<1> HIDE DEF k
<1> QED BY <1>1, <1>2, BeginsInv

LEMMA BeginCompleteInv ==
  ASSUME HubInv, NEW p \in Publishers, BeginComplete(p) PROVE HubInv'
<1> DEFINE k == [IdlePub EXCEPT !.at = "resume", !.kind = "complete", !.execution = execution,
                                !.rest = <<"retention", "done">>]
<1>1. /\ IsPub(k) /\ k.event = NoEvent /\ k.at = "resume" /\ k.kind = "complete"
      /\ k.rest = <<"retention", "done">> /\ k.execution = execution
  BY DEF IsPub, IdlePub
<1>2. /\ pub' = [pub EXCEPT ![p] = k] /\ UNCHANGED <<stream, conn, durable>>
      /\ \A q \in Publishers : ~Completing(q)
  BY DEF BeginComplete
<1> HIDE DEF k
<1> QED BY <1>1, <1>2, BeginsInv

LEMMA PublisherResumeInv ==
  ASSUME HubInv, NEW p \in Publishers, PublisherResume(p) PROVE HubInv'
<1>0. PICK k : k = [pub[p] EXCEPT !.at = "publish"]
  OBVIOUS
<1>1. PubOK(pub[p]) /\ pub[p].at = "resume" /\ resume(pub[p].execution) /\ UNCHANGED <<conn, execution>>
  BY DEF HubInv, PubsOK, PublisherResume, durable
<1>2. pub' = [q \in Publishers |-> IF q = p THEN k ELSE pub[q]]
  BY <1>0 DEF HubInv, PubsOK, PublisherResume
<1>3. StreamOK' /\ \A x : PubOK(x) => PubOK(x)'
  BY <1>1, ResumeKeeps DEF PubOK
<1>4. /\ IsPub(k) /\ k.at = "publish" /\ k.kind = pub[p].kind /\ k.rest = pub[p].rest
      /\ k.event = pub[p].event /\ k.execution = pub[p].execution
  BY <1>0, <1>1 DEF PubOK, IsPub
<1>5. k.kind = "complete" => resumeCount' = execution
  BY <1>1, <1>4 DEF HubInv, StreamOK, PubOK, resume, stream
<1>6. PubOK(k)'
  BY <1>1, <1>4, <1>5 DEF PubOK
<1>7. \A q \in Publishers : PubOK(pub[q])'
  BY <1>2, <1>3, <1>6 DEF HubInv, PubsOK
<1>8. PubsOK'
  BY <1>2, <1>4, <1>7 DEF HubInv, PubsOK, Completing
<1> QED BY <1>1, <1>3, <1>8 DEF HubInv, ConnsOK, ConnOK

\* The frames left after one is sent or refused.
LEMMA FramesLeft ==
  ASSUME NEW s \in Frames, s # <<>>
  PROVE  /\ Head(s) \in Types /\ Tail(s) \in Frames
         /\ s \in {<<>>, <<"log">>} => Head(s) = "log" /\ Tail(s) = <<>>
<1>1. s = <<"log">> \/ s = <<"retention", "done">> \/ s = <<"done">>
  BY DEF Frames
<1>2. CASE s = <<"log">>
  <2>1. Head(s) = "log" /\ Tail(s) = <<>>
    BY <1>2
  <2> QED BY <2>1 DEF Frames, Types
<1>3. CASE s = <<"retention", "done">>
  <2>1. Head(s) = "retention" /\ Tail(s) = <<"done">> /\ s # <<"log">>
    BY <1>3
  <2> QED BY <2>1 DEF Frames, Types
<1>4. CASE s = <<"done">>
  <2>1. Head(s) = "done" /\ Tail(s) = <<>> /\ s # <<"log">>
    BY <1>4
  <2> QED BY <2>1 DEF Frames, Types
<1> QED BY <1>1, <1>2, <1>3, <1>4

LEMMA AppendEventInv ==
  ASSUME HubInv, NEW p \in Publishers, AppendEvent(p)
  PROVE  /\ HubInv'
         /\ ~closed /\ UNCHANGED closed /\ nextEventID' = nextEventID + 1
         /\ \E e \in AnyEvent : e.id = nextEventID + 1 /\ ring' = push(ring, e)
<1>1. PICK e : e = [id |-> nextEventID + 1, type |-> Head(pub[p].rest), execution |-> pub[p].execution]
  OBVIOUS
<1>2. PICK k : k = [pub[p] EXCEPT !.at = "send", !.event = e, !.todo = subs, !.rest = Tail(@)]
  OBVIOUS
<1>3. PubOK(pub[p]) /\ pub[p].at = "publish"
  BY DEF HubInv, PubsOK, AppendEvent
<1>4. /\ Head(pub[p].rest) \in Types /\ Tail(pub[p].rest) \in Frames
      /\ pub[p].rest \in {<<>>, <<"log">>} => Head(pub[p].rest) = "log" /\ Tail(pub[p].rest) = <<>>
  BY <1>3, FramesLeft DEF PubOK
<1>5. e \in AnyEvent /\ e.id = nextEventID + 1 /\ e.type = Head(pub[p].rest)
  BY <1>1, <1>3, <1>4 DEF HubInv, StreamOK, PubOK, AnyEvent
<1>6. /\ ring' = push(ring, e) /\ nextEventID' = e.id /\ ~closed
      /\ pub' = [pub EXCEPT ![p] = k]
      /\ UNCHANGED <<closed, resumeCount, execution, conn>>
  <2>1. pub' = [pub EXCEPT ![p].at = "send", ![p].event = e, ![p].todo = subs, ![p].rest = Tail(@)]
    BY <1>1 DEF AppendEvent
  <2>2. pub' = [pub EXCEPT ![p] = k]
    BY <1>2, <2>1
  <2>3. ring' = push(ring, e) /\ nextEventID' = e.id
    BY <1>1 DEF AppendEvent
  <2>4. ~closed /\ UNCHANGED <<closed, resumeCount, execution, conn>>
    BY DEF AppendEvent, durable
  <2> QED BY <2>2, <2>3, <2>4
<1>7. StreamOK'
  <2>1. IsRing(ring)
    BY DEF HubInv, StreamOK
  <2>2. IsRing(push(ring, e))
    BY <1>5, <2>1, PushRing
  <2>3. IsRing(ring)'
    BY <1>6, <2>2 DEF IsRing
  <2> QED BY <1>5, <1>6, <2>3 DEF HubInv, StreamOK
<1>8. /\ IsPub(k) /\ k.at = "send" /\ k.kind = pub[p].kind /\ k.rest = Tail(pub[p].rest)
      /\ k.event = e /\ k.execution = pub[p].execution
  BY <1>2, <1>3 DEF PubOK, IsPub
<1>9. PubOK(k)
  BY <1>3, <1>4, <1>5, <1>8 DEF PubOK
<1>10. k.kind = "complete" => \A q \in Publishers \ {p} : ~Completing(q)
  BY <1>8 DEF HubInv, PubsOK, Completing
<1>11. PubsOK'
  BY <1>6, <1>9, <1>10, PubStep
<1>12. ConnsOK'
  BY <1>6 DEF HubInv, ConnsOK, ConnOK
<1> QED BY <1>5, <1>6, <1>7, <1>11, <1>12 DEF HubInv

LEMMA AppendRefusedInv ==
  ASSUME HubInv, NEW p \in Publishers, AppendRefused(p) PROVE HubInv'
<1>1. PICK at : at = IF Tail(pub[p].rest) = <<>> THEN "return" ELSE "publish"
  OBVIOUS
<1>2. PICK k : k = [pub[p] EXCEPT !.rest = Tail(@), !.at = at]
  OBVIOUS
<1>3. PubOK(pub[p]) /\ pub[p].at = "publish"
  BY DEF HubInv, PubsOK, AppendRefused
<1>4. /\ Tail(pub[p].rest) \in Frames
      /\ pub[p].rest \in {<<>>, <<"log">>} => Tail(pub[p].rest) = <<>>
  BY <1>3, FramesLeft DEF PubOK
<1>5. pub' = [pub EXCEPT ![p] = k] /\ UNCHANGED <<stream, execution, conn>>
  BY <1>1, <1>2 DEF AppendRefused, durable
<1>6. /\ IsPub(k) /\ k.at = at /\ k.kind = pub[p].kind /\ k.rest = Tail(pub[p].rest)
      /\ k.event = pub[p].event /\ k.execution = pub[p].execution
  BY <1>2, <1>3 DEF PubOK, IsPub
<1>7. PubOK(k)
  BY <1>1, <1>3, <1>4, <1>6 DEF PubOK
<1>8. k.kind = "complete" => \A q \in Publishers \ {p} : ~Completing(q)
  BY <1>6 DEF HubInv, PubsOK, Completing
<1>9. PubsOK'
  BY <1>5, <1>7, <1>8, PubStep DEF stream
<1> QED BY <1>5, <1>9 DEF HubInv, StreamOK, ConnsOK, ConnOK, stream

\* The publisher becomes idle: it returns, or its send panics.
LEMMA PubIdleInv ==
  ASSUME HubInv, NEW p \in Publishers, pub' = [pub EXCEPT ![p] = IdlePub],
         UNCHANGED <<stream, execution, conn>>
  PROVE  HubInv'
<1>1. PubsOK'
  BY IdleOK, PubStep DEF stream
<1> QED BY <1>1 DEF HubInv, StreamOK, ConnsOK, ConnOK, stream

\* The publisher goes from channel to channel.
LEMMA PubMovesInv ==
  ASSUME HubInv, NEW p \in Publishers, NEW k, pub' = [pub EXCEPT ![p] = k],
         IsPub(k), k.kind = pub[p].kind, k.rest = pub[p].rest,
         k.event = pub[p].event, k.execution = pub[p].execution,
         k.at # "resume", k.at = "publish" => k.rest # <<>>, k.at = "finish" => Completing(p),
         pub[p].at # "resume",
         UNCHANGED <<stream, execution, conn>>
  PROVE  HubInv'
<1>1. PubOK(pub[p])
  BY DEF HubInv, PubsOK
<1>2. PubOK(k)
  BY <1>1 DEF PubOK, Completing
<1>3. k.kind = "complete" => \A q \in Publishers \ {p} : ~Completing(q)
  BY DEF HubInv, PubsOK, Completing
<1>4. PubsOK'
  BY <1>2, <1>3, PubStep DEF stream
<1> QED BY <1>4 DEF HubInv, StreamOK, ConnsOK, ConnOK, stream

LEMMA SendEventInv ==
  ASSUME HubInv, NEW p \in Publishers, NEW s, SendEvent(p, s) PROVE HubInv'
<1>1. PubOK(pub[p]) /\ pub[p].at = "send" /\ UNCHANGED <<stream, execution, conn>>
  BY DEF HubInv, PubsOK, SendEvent, durable
<1>2. CASE pub' = [pub EXCEPT ![p].todo = @ \ {s}]
  <2>1. PICK k : k = [pub[p] EXCEPT !.todo = @ \ {s}]
    OBVIOUS
  <2>2. pub' = [pub EXCEPT ![p] = k]
    BY <1>2, <2>1
  <2>3. /\ IsPub(k) /\ k.at = "send" /\ k.kind = pub[p].kind /\ k.rest = pub[p].rest
        /\ k.event = pub[p].event /\ k.execution = pub[p].execution
    BY <1>1, <2>1 DEF PubOK, IsPub
  <2> QED BY <1>1, <2>2, <2>3, PubMovesInv
<1>3. CASE pub' = [pub EXCEPT ![p].at = "full", ![p].todo = @ \ {s}, ![p].slow = s]
  <2>1. PICK k : k = [pub[p] EXCEPT !.at = "full", !.todo = @ \ {s}, !.slow = s]
    OBVIOUS
  <2>2. pub' = [pub EXCEPT ![p] = k]
    BY <1>3, <2>1
  <2>3. /\ IsPub(k) /\ k.at = "full" /\ k.kind = pub[p].kind /\ k.rest = pub[p].rest
        /\ k.event = pub[p].event /\ k.execution = pub[p].execution
    BY <1>1, <2>1 DEF PubOK, IsPub
  <2> QED BY <1>1, <2>2, <2>3, PubMovesInv
<1>4. CASE pub' = [pub EXCEPT ![p] = IdlePub]
  BY <1>1, <1>4, PubIdleInv
<1> QED BY <1>2, <1>3, <1>4 DEF SendEvent

LEMMA CloseSlowInv ==
  ASSUME HubInv, NEW p \in Publishers, CloseSlow(p) PROVE HubInv'
<1>1. PubOK(pub[p]) /\ pub[p].at = "full" /\ UNCHANGED <<stream, execution, conn>>
  BY DEF HubInv, PubsOK, CloseSlow, durable
<1>2. PICK k : k = [pub[p] EXCEPT !.at = "send", !.slow = 0, !.dropped = @ \cup {pub[p].slow}]
  OBVIOUS
<1>3. pub' = [pub EXCEPT ![p] = k]
  BY <1>2 DEF CloseSlow
<1>4. /\ IsPub(k) /\ k.at = "send" /\ k.kind = pub[p].kind /\ k.rest = pub[p].rest
      /\ k.event = pub[p].event /\ k.execution = pub[p].execution
  BY <1>1, <1>2 DEF PubOK, IsPub
<1> QED BY <1>1, <1>3, <1>4, PubMovesInv

LEMMA DropSlowInv ==
  ASSUME HubInv, NEW p \in Publishers, DropSlow(p) PROVE HubInv'
<1>1. PubOK(pub[p]) /\ pub[p].at = "send" /\ UNCHANGED <<stream, execution, conn>>
  BY DEF HubInv, PubsOK, DropSlow, durable
<1>2. PICK at : at = IF pub[p].event.type = "done" THEN "finish"
                     ELSE IF pub[p].rest # <<>> THEN "publish" ELSE "return"
  OBVIOUS
<1>3. PICK k : k = [pub[p] EXCEPT !.dropped = {}, !.at = at]
  OBVIOUS
<1>4. pub' = [pub EXCEPT ![p] = k]
  BY <1>2, <1>3 DEF DropSlow
<1>5. /\ IsPub(k) /\ k.at = at /\ k.kind = pub[p].kind /\ k.rest = pub[p].rest
      /\ k.event = pub[p].event /\ k.execution = pub[p].execution
  BY <1>1, <1>3 DEF PubOK, IsPub
<1>6. at # "resume" /\ (at = "publish" => pub[p].rest # <<>>) /\ (at = "finish" => Completing(p))
  BY <1>1, <1>2 DEF PubOK, Completing
<1> QED BY <1>1, <1>4, <1>5, <1>6, PubMovesInv

LEMMA FinishInv ==
  ASSUME HubInv, NEW p \in Publishers, Finish(p)
  PROVE  HubInv' /\ closed' = TRUE /\ UNCHANGED <<ring, nextEventID>>
<1>1. /\ PubOK(pub[p]) /\ pub[p].at = "finish" /\ closed' = TRUE
      /\ UNCHANGED <<ring, nextEventID, resumeCount, execution, conn>>
  BY DEF HubInv, PubsOK, Finish, durable
<1>2. PICK k : k = [pub[p] EXCEPT !.at = "close", !.todo = subs \ subs']
  OBVIOUS
<1>3. pub' = [pub EXCEPT ![p] = k]
  BY <1>2 DEF Finish
<1>4. /\ IsPub(k) /\ k.at = "close" /\ k.kind = pub[p].kind /\ k.rest = pub[p].rest
      /\ k.event = pub[p].event /\ k.execution = pub[p].execution
  BY <1>1, <1>2 DEF PubOK, IsPub
<1>5. PubOK(k)
  BY <1>1, <1>4 DEF PubOK
<1>6. k.kind = "complete" => \A q \in Publishers \ {p} : ~Completing(q)
  BY <1>4 DEF HubInv, PubsOK, Completing
<1>7. PubsOK'
  BY <1>1, <1>3, <1>5, <1>6, PubStep
<1> QED BY <1>1, <1>7 DEF HubInv, StreamOK, ConnsOK, ConnOK

LEMMA FinishCloseInv ==
  ASSUME HubInv, NEW p \in Publishers, FinishClose(p) PROVE HubInv'
<1>1. PubOK(pub[p]) /\ pub[p].at = "close" /\ UNCHANGED <<stream, execution, conn>>
  BY DEF HubInv, PubsOK, FinishClose, durable
<1>2. PICK k : /\ pub' = [pub EXCEPT ![p] = k]
               /\ \E at \in {"return", "close"} : \E todo :
                    k = [pub[p] EXCEPT !.at = at, !.todo = todo]
  <2>1. CASE pub' = [pub EXCEPT ![p].at = "return"]
    <3>1. [pub[p] EXCEPT !.at = "return"] = [pub[p] EXCEPT !.at = "return", !.todo = pub[p].todo]
      BY <1>1 DEF PubOK, IsPub
    <3> QED BY <2>1, <3>1
  <2>2. ASSUME NEW s, pub' = [pub EXCEPT ![p].todo = @ \ {s}]
        PROVE  pub' = [pub EXCEPT ![p] = [pub[p] EXCEPT !.at = "close", !.todo = pub[p].todo \ {s}]]
    BY <1>1, <2>2 DEF PubOK, IsPub
  <2> QED BY <2>1, <2>2 DEF FinishClose
<1>3. /\ IsPub(k) /\ k.at \in {"return", "close"} /\ k.kind = pub[p].kind /\ k.rest = pub[p].rest
      /\ k.event = pub[p].event /\ k.execution = pub[p].execution
  BY <1>1, <1>2 DEF PubOK, IsPub
<1> QED BY <1>1, <1>2, <1>3, PubMovesInv

LEMMA PublisherReturnInv ==
  ASSUME HubInv, NEW p \in Publishers, PublisherReturn(p) PROVE HubInv'
  BY PubIdleInv DEF PublisherReturn

LEMMA RestartJobInv ==
  ASSUME HubInv, RestartJob PROVE HubInv'
<1>1. /\ execution' = execution + 1 /\ UNCHANGED <<stream, pub, conn>>
      /\ \A p \in Publishers : ~Completing(p)
  BY DEF RestartJob
<1>2. StreamOK'
  BY <1>1 DEF HubInv, StreamOK, stream
<1>3. \A p \in Publishers : PubOK(pub[p])'
  BY <1>1 DEF HubInv, StreamOK, PubsOK, PubOK, Completing
<1>4. PubsOK'
  BY <1>1, <1>3 DEF HubInv, PubsOK, Completing
<1>5. ConnsOK'
  BY <1>1 DEF HubInv, StreamOK, ConnsOK, ConnOK
<1> QED BY <1>2, <1>4, <1>5 DEF HubInv

\* The steps of a reader that touch the stream and the publishers only by
\* reading them.
ReaderMoves(c) ==
  \/ Subscribe(c) \/ Replay(c) \/ ReplayFull(c) \/ ReplayEnd(c) \/ Read(c) \/ ReadClosed(c)
  \/ Disconnect(c) \/ Cancel(c) \/ CancelClose(c)

LEMMA ReaderMovesInv ==
  ASSUME HubInv, NEW c \in Clients, ReaderMoves(c)
  PROVE  HubInv' /\ UNCHANGED stream
<1>1. UNCHANGED <<stream, pub, execution>>
  BY DEF ReaderMoves, Subscribe, Replay, ReplayFull, ReplayEnd, Read, ReadClosed, Disconnect,
         Cancel, CancelClose, durable
<1>2. \A d \in Clients : ConnOK(conn[d])
  BY DEF HubInv, ConnsOK
<1>3. conn = [d \in Clients |-> conn[d]]
  BY DEF HubInv, ConnsOK
<1>4. \E k : conn' = [conn EXCEPT ![c] = k] /\ ConnOK(k)
  <2>1. CASE Subscribe(c)
    <3>1. PICK k : k = [conn[c] EXCEPT !.at = "replay", !.sub = nextSubID',
                          !.replay = after(ring, cursor[c]), !.ended = closed, !.from = nextEventID]
      OBVIOUS
    <3>2. conn' = [conn EXCEPT ![c] = k]
      BY <2>1, <3>1 DEF Subscribe
    <3>3. ConnOK(k)
      BY <1>2, <3>1 DEF ConnOK, IsConn
    <3> QED BY <3>2, <3>3
  <2>2. CASE Replay(c)
    <3>1. ASSUME conn' = [conn EXCEPT ![c].replay = Tail(@)]
          PROVE  \E k : conn' = [conn EXCEPT ![c] = k] /\ ConnOK(k)
      <4>1. PICK k : k = [conn[c] EXCEPT !.replay = Tail(@)]
        OBVIOUS
      <4>2. conn' = [conn EXCEPT ![c] = k]
        BY <3>1, <4>1
      <4>3. ConnOK(k)
        BY <1>2, <4>1 DEF ConnOK, IsConn
      <4> QED BY <4>2, <4>3
    <3>2. ASSUME conn' = [conn EXCEPT ![c].at = "full", ![c].replay = <<>>]
          PROVE  \E k : conn' = [conn EXCEPT ![c] = k] /\ ConnOK(k)
      <4>1. PICK k : k = [conn[c] EXCEPT !.at = "full", !.replay = <<>>]
        OBVIOUS
      <4>2. conn' = [conn EXCEPT ![c] = k]
        BY <3>2, <4>1
      <4>3. ConnOK(k)
        BY <1>2, <4>1 DEF ConnOK, IsConn
      <4> QED BY <4>2, <4>3
    <3>3. ASSUME conn' = [conn EXCEPT ![c] = IdleConn]
          PROVE  \E k : conn' = [conn EXCEPT ![c] = k] /\ ConnOK(k)
      BY <3>3, IdleOK
    <3> QED BY <2>2, <3>1, <3>2, <3>3 DEF Replay
  <2>3. ASSUME NEW at, conn' = [conn EXCEPT ![c].at = at]
        PROVE  \E k : conn' = [conn EXCEPT ![c] = k] /\ ConnOK(k)
    <3>1. PICK k : k = [conn[c] EXCEPT !.at = at]
      OBVIOUS
    <3>2. conn' = [conn EXCEPT ![c] = k]
      BY <2>3, <3>1
    <3>3. ConnOK(k)
      BY <1>2, <3>1 DEF ConnOK, IsConn
    <3> QED BY <3>2, <3>3
  <2>4. CASE ReplayFull(c) \/ ReplayEnd(c) \/ ReadClosed(c) \/ Disconnect(c)
    BY <2>3, <2>4 DEF ReplayFull, ReplayEnd, ReadClosed, Disconnect
  <2>5. CASE Read(c)
    BY <2>3, <2>5 DEF Read
  <2>6. CASE Cancel(c)
    <3>1. CASE conn[c].sub \in subs
      <4>1. conn' = [conn EXCEPT ![c].at = "close"]
        BY <2>6, <3>1 DEF Cancel
      <4> QED BY <2>3, <4>1
    <3>2. CASE conn[c].sub \notin subs
      BY <2>6, <3>2, IdleOK DEF Cancel
    <3> QED BY <3>1, <3>2
  <2>7. CASE CancelClose(c)
    BY <2>7, IdleOK DEF CancelClose
  <2> QED BY <2>1, <2>2, <2>4, <2>5, <2>6, <2>7 DEF ReaderMoves
<1>5. ConnsOK'
  BY <1>1, <1>4, ConnStep
<1> QED BY <1>1, <1>5 DEF HubInv, StreamOK, PubsOK, PubOK, Completing, stream

LEMMA ConnectInv ==
  ASSUME HubInv, NEW c \in Clients, Connect(c)
  PROVE  HubInv' /\ UNCHANGED stream
<1>1. UNCHANGED <<stream, pub, execution>>
  BY DEF Connect, durable
<1>2. PICK x : x = IF jobDone THEN 0 ELSE execution
  OBVIOUS
<1>3. PICK k : k = [IdleConn EXCEPT !.at = "resume", !.execution = x]
  OBVIOUS
<1>4. conn' = [conn EXCEPT ![c] = k]
  BY <1>2, <1>3 DEF Connect
<1>5. ConnOK(k)
  BY <1>2, <1>3 DEF HubInv, StreamOK, ConnOK, IsConn, IdleConn
<1>6. ConnsOK'
  BY <1>1, <1>4, <1>5, ConnStep
<1> QED BY <1>1, <1>6 DEF HubInv, StreamOK, PubsOK, PubOK, Completing, stream

LEMMA ReaderResumeInv ==
  ASSUME HubInv, NEW c \in Clients, ReaderResume(c) PROVE HubInv'
<1>1. ConnOK(conn[c]) /\ resume(conn[c].execution) /\ UNCHANGED <<pub, execution>>
  BY DEF HubInv, ConnsOK, ReaderResume, durable
<1>2. StreamOK' /\ \A x : PubOK(x) => PubOK(x)'
  BY <1>1, ResumeKeeps DEF ConnOK
<1>3. PubsOK'
  BY <1>1, <1>2 DEF HubInv, PubsOK, Completing
<1>4. PICK k : k = [conn[c] EXCEPT !.at = "subscribe"]
  OBVIOUS
<1>5. conn' = [conn EXCEPT ![c] = k] /\ ConnOK(k)
  BY <1>1, <1>4 DEF ReaderResume, ConnOK, IsConn
<1>6. ConnsOK'
  BY <1>1, <1>5, ConnStep
<1> QED BY <1>2, <1>3, <1>6 DEF HubInv

LEMMA HubNextInv == HubInv /\ [HubNext]_hubVars => HubInv'
<1> SUFFICES ASSUME HubInv, [HubNext]_hubVars PROVE HubInv'
  OBVIOUS
<1>1. CASE UNCHANGED hubVars
  BY <1>1 DEF HubInv, StreamOK, PubsOK, PubOK, Completing, ConnsOK, ConnOK, hubVars, stream, durable
<1>2. ASSUME NEW p \in Publishers, Publish(p) PROVE HubInv'
  BY <1>2, PublisherResumeInv, AppendEventInv, AppendRefusedInv, SendEventInv, CloseSlowInv,
     DropSlowInv, FinishInv, FinishCloseInv, PublisherReturnInv DEF Publish
<1>3. ASSUME NEW p \in Publishers, IngestLog(p) \/ IngestNodeLog(p) \/ BeginComplete(p) PROVE HubInv'
  BY <1>3, IngestLogInv, IngestNodeLogInv, BeginCompleteInv
<1>4. ASSUME NEW c \in Clients, Connect(c) \/ Serve(c) \/ Disconnect(c) PROVE HubInv'
  BY <1>4, ConnectInv, ReaderResumeInv, ReaderMovesInv DEF Serve, ReaderMoves
<1>5. CASE RestartJob
  BY <1>5, RestartJobInv
<1> QED BY <1>1, <1>2, <1>3, <1>4, <1>5 DEF HubNext

\* The ring, the publishers and the readers of a job stream keep HubInv: only
\* the completion that holds the run's lock has a done frame to publish, and
\* once it has resumed the stream nobody else can move the resume count on.
THEOREM HubInvariant == HubSpec => []HubInv
<1>1. HubInit => HubInv
  BY HubInitInv
<1>2. HubInv /\ [HubNext]_hubVars => HubInv'
  BY HubNextInv
<1> QED BY <1>1, <1>2, PTL DEF HubSpec

-----------------------------------------------------------------------------
(* The theorems                                                            *)

\* A step that leaves the stream alone, or only marks it as closed again, is a
\* stuttering step of the log.
LEMMA LogStutters ==
  ASSUME UNCHANGED <<ring, nextEventID>>, closed' = closed
  PROVE  UNCHANGED Log!streamVars
  BY DEF Log!streamVars, slice, oldest

LEMMA ResumeIsReopen ==
  ASSUME HubInv, NEW count, resume(count)
  PROVE  [Log!LogNext]_(Log!streamVars)
<1>1. CASE count > resumeCount
  <2>1. ring' = newRing /\ closed' = FALSE /\ UNCHANGED nextEventID
    BY <1>1 DEF resume
  <2>2. ring'.len = 0
    BY <2>1 DEF newRing
  <2>3. Log!LogReopen
    BY <2>1, <2>2 DEF Log!LogReopen
  <2> QED BY <2>3 DEF Log!LogNext
<1>2. CASE ~(count > resumeCount)
  BY <1>2, LogStutters DEF resume, stream
<1> QED BY <1>1, <1>2

LEMMA AppendIsAppend ==
  ASSUME HubInv, NEW p \in Publishers, AppendEvent(p)
  PROVE  Log!LogAppend
<1>1. PICK e \in AnyEvent : e.id = nextEventID + 1 /\ ring' = push(ring, e)
  BY AppendEventInv
<1>2. ~closed /\ UNCHANGED closed /\ nextEventID' = nextEventID + 1
  BY AppendEventInv
<1>3. IsRing(ring) /\ e.type \in Types
  BY DEF HubInv, StreamOK, AnyEvent
<1>4. historyOf(push(ring, e)) = Log!Newest(Append(historyOf(ring), [id |-> e.id, body |-> e.type]))
  BY <1>3, PushIsAppend
<1>5. historyOf(ring)' = Log!Newest(Append(historyOf(ring), [id |-> nextEventID + 1, body |-> e.type]))
  BY <1>1, <1>4 DEF historyOf, slice, oldest
<1> QED BY <1>2, <1>3, <1>5 DEF Log!LogAppend, historyOf

LEMMA HubStepIsLogStep == HubInv /\ [HubNext]_hubVars => [Log!LogNext]_(Log!streamVars)
<1> SUFFICES ASSUME HubInv, [HubNext]_hubVars PROVE [Log!LogNext]_(Log!streamVars)
  OBVIOUS
<1>1. ASSUME UNCHANGED stream PROVE [Log!LogNext]_(Log!streamVars)
  BY <1>1, LogStutters DEF stream
<1>2. ASSUME NEW p \in Publishers, PublisherResume(p) PROVE [Log!LogNext]_(Log!streamVars)
  BY <1>2, ResumeIsReopen DEF PublisherResume
<1>3. ASSUME NEW p \in Publishers, AppendEvent(p) PROVE [Log!LogNext]_(Log!streamVars)
  BY <1>3, AppendIsAppend DEF Log!LogNext
<1>4. ASSUME NEW p \in Publishers, Finish(p) PROVE [Log!LogNext]_(Log!streamVars)
  <2>1. closed' = TRUE /\ UNCHANGED <<ring, nextEventID>>
    BY <1>4, FinishInv
  <2>2. CASE closed
    <3>1. UNCHANGED Log!streamVars
      BY <2>1, <2>2 DEF Log!streamVars, slice, oldest
    <3> QED BY <3>1
  <2>3. CASE ~closed
    <3>1. Log!LogClose
      BY <2>1, <2>3 DEF Log!LogClose, slice, oldest
    <3> QED BY <3>1 DEF Log!LogNext
  <2> QED BY <2>2, <2>3
<1>5. ASSUME NEW p \in Publishers,
             IngestLog(p) \/ IngestNodeLog(p) \/ BeginComplete(p) \/ Publish(p),
             ~PublisherResume(p), ~AppendEvent(p), ~Finish(p)
      PROVE  UNCHANGED stream
  BY <1>5 DEF Publish, IngestLog, IngestNodeLog, BeginComplete, AppendRefused, SendEvent, CloseSlow,
              DropSlow, FinishClose, PublisherReturn
<1>6. ASSUME NEW c \in Clients, ReaderResume(c) PROVE [Log!LogNext]_(Log!streamVars)
  BY <1>6, ResumeIsReopen DEF ReaderResume
<1>7. ASSUME NEW c \in Clients, Connect(c) \/ Serve(c) \/ Disconnect(c), ~ReaderResume(c)
      PROVE  UNCHANGED stream
  BY <1>7, ConnectInv, ReaderMovesInv DEF Serve, ReaderMoves
<1>8. CASE UNCHANGED hubVars
  BY <1>1, <1>8 DEF hubVars
<1>9. CASE RestartJob
  BY <1>1, <1>9 DEF RestartJob
<1> QED BY <1>1, <1>2, <1>3, <1>4, <1>5, <1>6, <1>7, <1>8, <1>9 DEF HubNext

\* The stream of the hub implements the abstract log of StreamLog, whatever the
\* capacity of the ring and however the handlers interleave: events are
\* numbered without a gap and without reuse, the ring holds the newest of them
\* in order, and only a resume empties it.
THEOREM HubRefinesLog == HubSpec => ImplementsLog
<1>1. HubInit => Log!LogInit
  BY DEF HubInit, Log!LogInit, newRing
<1>2. HubInv /\ [HubNext]_hubVars => [Log!LogNext]_(Log!streamVars)
  BY HubStepIsLogStep
<1> QED BY <1>1, <1>2, HubInvariant, PTL DEF HubSpec, ImplementsLog, Log!LogSpec

\* Only the completion of the execution the stream is on closes the stream,
\* for any number of handlers, readers and restarts.
THEOREM OnlyOwnCompletionCloses == HubSpec => ClosesOwnExecution
<1> DEFINE Own == ~closed /\ closed' => \E p \in Publishers : /\ pub[p].at = "finish"
                                                              /\ pub[p].execution = resumeCount
                                                              /\ resumeCount = execution
<1>1. HubInv /\ [HubNext]_hubVars => [Own]_hubVars
  <2> SUFFICES ASSUME HubInv, HubNext, ~closed, closed'
               PROVE  \E p \in Publishers : /\ pub[p].at = "finish"
                                            /\ pub[p].execution = resumeCount
                                            /\ resumeCount = execution
    OBVIOUS
  <2>1. ASSUME NEW p \in Publishers, Finish(p)
        PROVE  /\ pub[p].at = "finish" /\ pub[p].execution = resumeCount /\ resumeCount = execution
    <3>1. PubOK(pub[p]) /\ pub[p].at = "finish"
      BY <2>1 DEF HubInv, PubsOK, Finish
    <3> QED BY <3>1 DEF PubOK
  <2>2. ASSUME NEW p \in Publishers,
               IngestLog(p) \/ IngestNodeLog(p) \/ BeginComplete(p) \/ Publish(p), ~Finish(p)
        PROVE  FALSE
    <3>1. CASE PublisherResume(p)
      BY <3>1 DEF PublisherResume, resume, stream
    <3>2. CASE AppendEvent(p)
      BY <3>2, AppendEventInv
    <3>3. CASE ~PublisherResume(p) /\ ~AppendEvent(p)
      BY <2>2, <3>3 DEF Publish, IngestLog, IngestNodeLog, BeginComplete, AppendRefused, SendEvent,
                        CloseSlow, DropSlow, FinishClose, PublisherReturn, stream
    <3> QED BY <3>1, <3>2, <3>3
  <2>3. ASSUME NEW c \in Clients, Connect(c) \/ Serve(c) \/ Disconnect(c) PROVE FALSE
    <3>1. CASE ReaderResume(c)
      BY <3>1 DEF ReaderResume, resume, stream
    <3>2. CASE ~ReaderResume(c)
      BY <2>3, <3>2, ConnectInv, ReaderMovesInv DEF Serve, ReaderMoves, stream
    <3> QED BY <3>1, <3>2
  <2>4. CASE RestartJob
    BY <2>4 DEF RestartJob, stream
  <2> QED BY <2>1, <2>2, <2>3, <2>4 DEF HubNext
<1> QED BY <1>1, HubInvariant, PTL DEF HubSpec, ClosesOwnExecution

==============================================================================
