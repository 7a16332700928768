------------------------------ MODULE EventHub ------------------------------
(***************************************************************************)
(* One job stream of the log hub, with the goroutines that publish to it,  *)
(* read from it and reopen it.  The stream's mutex is held for one step at *)
(* a time; sending to a subscriber's channel and closing it happen outside *)
(* the mutex, and are steps of their own.                                  *)
(*                                                                         *)
(* Of an event the model keeps its id, its type and the execution (resume  *)
(* count) it belongs to.  sent[s] is everything ever put into channel s;   *)
(* the channel holds what its reader has not taken: sent[s] from taken[s]. *)
(***************************************************************************)
EXTENDS Integers, Sequences, FiniteSets

CONSTANTS Publishers,   \* requests that upload a log chunk or complete the job
          Clients,      \* readers of the stream, one connection at a time each
          BufferSize,   \* capacity of a subscriber's channel
          HistorySize,  \* capacity of the ring
          MaxEvents,    \* bound on event ids
          MaxSubs,      \* bound on subscriptions
          MaxResume     \* bound on resumes of the job

ASSUME HubAssumption ==
  /\ BufferSize \in Nat \ {0}
  /\ HistorySize \in Nat \ {0}
  /\ BufferSize <= HistorySize
  /\ MaxEvents \in Nat /\ MaxSubs \in Nat /\ MaxResume \in Nat

VARIABLES ring, nextEventID, closed, resumeCount,   \* type stream
          subs, nextSubID,                          \* its map of subscribers
          sent, taken, chanClosed,                  \* the channels
          pub,                                      \* publishing goroutines
          conn, cursor,                             \* handlers and their clients
          execution, jobDone,                       \* durable run and job rows
          panicked                                  \* a publication panicked

stream == <<ring, nextEventID, closed, resumeCount>>
channels == <<sent, taken, chanClosed>>
durable == <<execution, jobDone>>
hubVars == <<stream, subs, nextSubID, channels, pub, conn, cursor, durable, panicked>>

SubIDs == 1..MaxSubs
EventIDs == 1..MaxEvents
Types == {"log", "retention", "done"}
Executions == 0..MaxResume
Events == [id : EventIDs, type : Types, execution : Executions]
NoEvent == [id |-> 0, type |-> "log", execution |-> 0]

-----------------------------------------------------------------------------
(* The ring                                                                *)

newRing == [items |-> [i \in 0..(HistorySize - 1) |-> NoEvent], head |-> 0, len |-> 0]

push(r, e) ==
  [items |-> [r.items EXCEPT ![r.head] = e],
   head  |-> (r.head + 1) % HistorySize,
   len   |-> IF r.len < HistorySize THEN r.len + 1 ELSE r.len]

oldest(r) == (r.head - r.len + HistorySize) % HistorySize

\* All retained events in the order of their insertion.
slice(r) == [i \in 1..r.len |-> r.items[(oldest(r) + i - 1) % HistorySize]]

\* The retained events behind the id a reader has seen, collected one by one
\* from the oldest to the newest.
after(r, since) ==
  LET out[i \in 0..r.len] ==
        IF i = 0 THEN <<>>
        ELSE IF slice(r)[i].id > since THEN Append(out[i - 1], slice(r)[i]) ELSE out[i - 1]
  IN  out[r.len]

-----------------------------------------------------------------------------
(* Goroutines                                                              *)

IdlePub == [at |-> "idle", kind |-> "none", execution |-> 0, rest |-> <<>>, event |-> NoEvent,
            todo |-> {}, slow |-> 0, dropped |-> {}]
IdleConn == [at |-> "idle", execution |-> 0, sub |-> 0, replay |-> <<>>, ended |-> FALSE,
             from |-> 0]

\* The completion holds the lock of the run until it commits or rolls back.
Completing(p) == pub[p].kind = "complete"

HubInit ==
  /\ ring = newRing /\ nextEventID = 0 /\ closed = FALSE /\ resumeCount = 0
  /\ subs = {} /\ nextSubID = 0
  /\ sent = [s \in SubIDs |-> <<>>]
  /\ taken = [s \in SubIDs |-> 0]
  /\ chanClosed = [s \in SubIDs |-> FALSE]
  /\ pub = [p \in Publishers |-> IdlePub]
  /\ conn = [c \in Clients |-> IdleConn]
  /\ cursor = [c \in Clients |-> 0]
  /\ execution = 0 /\ jobDone = FALSE
  /\ panicked = FALSE

\* Mutant: a reopened stream numbers its events from one again.
resumeFromOne(count) ==
  IF count > resumeCount
  THEN /\ resumeCount' = count /\ closed' = FALSE /\ ring' = newRing
       /\ nextEventID' = 0
  ELSE UNCHANGED stream

\* Only a later execution reopens the stream; event ids go on.
resume(count) ==
  IF count > resumeCount
  THEN /\ resumeCount' = count /\ closed' = FALSE /\ ring' = newRing
       /\ UNCHANGED nextEventID
  ELSE UNCHANGED stream

\* subscriber.send: it finds room, or the channel full, which it then closes
\* in a step of its own.  Sending into a closed channel is a panic in Go.
SendsInto(s, e) == ~chanClosed[s] /\ Len(sent[s]) - taken[s] < BufferSize
                   /\ sent' = [sent EXCEPT ![s] = Append(@, e)]
                   /\ UNCHANGED <<taken, chanClosed>>
FindsFull(s) == ~chanClosed[s] /\ Len(sent[s]) - taken[s] = BufferSize
CloseAll(ss) == chanClosed' = [s \in SubIDs |-> chanClosed[s] \/ s \in ss]

-----------------------------------------------------------------------------
(* Publishing                                                              *)

\* The chunk of log lines was stored, under the lock of the run.
IngestLog(p) ==
  /\ pub[p].at = "idle" /\ nextEventID < MaxEvents
  /\ \A q \in Publishers : ~Completing(q)
  /\ pub' = [pub EXCEPT ![p] = [IdlePub EXCEPT !.at = "resume", !.kind = "log",
                                      !.execution = execution, !.rest = <<"log">>]]
  /\ UNCHANGED <<stream, subs, nextSubID, channels, conn, cursor, durable, panicked>>

\* The same chunk through the node's own endpoint: no lock, and the execution
\* it belongs to is not announced.
IngestNodeLog(p) ==
  /\ pub[p].at = "idle" /\ nextEventID < MaxEvents
  /\ pub' = [pub EXCEPT ![p] = [IdlePub EXCEPT !.at = "publish", !.kind = "log", !.rest = <<"log">>]]
  /\ UNCHANGED <<stream, subs, nextSubID, channels, conn, cursor, durable, panicked>>

\* A completion that passed the checks, with the lock of the run.
BeginComplete(p) ==
  /\ pub[p].at = "idle" /\ ~jobDone /\ nextEventID + 1 < MaxEvents
  /\ \A q \in Publishers : ~Completing(q)
  /\ pub' = [pub EXCEPT ![p] = [IdlePub EXCEPT !.at = "resume", !.kind = "complete",
                                      !.execution = execution, !.rest = <<"retention", "done">>]]
  /\ UNCHANGED <<stream, subs, nextSubID, channels, conn, cursor, durable, panicked>>

PublisherResume(p) ==
  /\ pub[p].at = "resume"
  /\ resume(pub[p].execution)
  /\ pub' = [pub EXCEPT ![p].at = "publish"]
  /\ UNCHANGED <<subs, nextSubID, channels, conn, cursor, durable, panicked>>

\* stream.publish under the mutex: number, retain and copy the subscribers.
AppendEvent(p) ==
  /\ pub[p].at = "publish" /\ ~closed /\ nextEventID < MaxEvents
  /\ LET e == [id |-> nextEventID + 1, type |-> Head(pub[p].rest),
               execution |-> pub[p].execution]
     IN  /\ nextEventID' = e.id /\ ring' = push(ring, e)
         /\ pub' = [pub EXCEPT ![p].at = "send", ![p].event = e, ![p].todo = subs,
                               ![p].rest = Tail(@)]
  /\ UNCHANGED <<closed, resumeCount, subs, nextSubID, channels, conn, cursor, durable,
                 panicked>>

\* ErrStreamClosed: logged; the done frame is tried after the retention hint.
AppendRefused(p) ==
  /\ pub[p].at = "publish" /\ closed
  /\ pub' = [pub EXCEPT ![p].rest = Tail(@),
                        ![p].at = IF Tail(pub[p].rest) = <<>> THEN "return" ELSE "publish"]
  /\ UNCHANGED <<stream, subs, nextSubID, channels, conn, cursor, durable, panicked>>

\* Mutant: the subscribers are looked up again while the event is sent.
SendEventLive(p, s) ==
  /\ pub[p].at = "send" /\ s \in pub[p].todo \cup subs
  /\ \/ /\ SendsInto(s, pub[p].event)
        /\ pub' = [pub EXCEPT ![p].todo = @ \ {s}]
        /\ UNCHANGED panicked
     \/ /\ FindsFull(s)
        /\ pub' = [pub EXCEPT ![p].at = "full", ![p].todo = @ \ {s}, ![p].slow = s]
        /\ UNCHANGED <<channels, panicked>>
  /\ UNCHANGED <<stream, subs, nextSubID, conn, cursor, durable>>

SendEvent(p, s) ==
  /\ pub[p].at = "send" /\ s \in pub[p].todo
  /\ \/ /\ SendsInto(s, pub[p].event)
        /\ pub' = [pub EXCEPT ![p].todo = @ \ {s}]
        /\ UNCHANGED panicked
     \/ /\ FindsFull(s)
        /\ pub' = [pub EXCEPT ![p].at = "full", ![p].todo = @ \ {s}, ![p].slow = s]
        /\ UNCHANGED <<channels, panicked>>
     \/ /\ chanClosed[s]
        /\ pub' = [pub EXCEPT ![p] = IdlePub]
        /\ panicked' = TRUE
        /\ UNCHANGED channels
  /\ UNCHANGED <<stream, subs, nextSubID, conn, cursor, durable>>

CloseSlow(p) ==
  /\ pub[p].at = "full"
  /\ CloseAll({pub[p].slow})
  /\ pub' = [pub EXCEPT ![p].at = "send", ![p].slow = 0, ![p].dropped = @ \cup {pub[p].slow}]
  /\ UNCHANGED <<stream, subs, nextSubID, sent, taken, conn, cursor, durable, panicked>>

\* Slow subscribers are forgotten; then the next frame, the end of the stream
\* behind a done frame, or the return to the handler.
DropSlow(p) ==
  /\ pub[p].at = "send" /\ pub[p].todo = {}
  /\ subs' = subs \ pub[p].dropped
  /\ CloseAll(pub[p].dropped \cap subs)
  /\ pub' = [pub EXCEPT ![p].dropped = {},
                        ![p].at = IF pub[p].event.type = "done" THEN "finish"
                                  ELSE IF pub[p].rest # <<>> THEN "publish" ELSE "return"]
  /\ UNCHANGED <<stream, nextSubID, sent, taken, conn, cursor, durable, panicked>>

\* stream.finish under the mutex ...
Finish(p) ==
  /\ pub[p].at = "finish"
  /\ closed' = TRUE
  /\ subs' = IF closed THEN subs ELSE {}
  /\ pub' = [pub EXCEPT ![p].at = "close", ![p].todo = subs \ subs']
  /\ UNCHANGED <<ring, nextEventID, resumeCount, nextSubID, channels, conn, cursor, durable,
                 panicked>>

\* ... and the channels closed behind it, one by one.
FinishClose(p) ==
  /\ pub[p].at = "close"
  /\ IF pub[p].todo = {}
     THEN pub' = [pub EXCEPT ![p].at = "return"] /\ UNCHANGED chanClosed
     ELSE \E s \in pub[p].todo : /\ CloseAll({s})
                                 /\ pub' = [pub EXCEPT ![p].todo = @ \ {s}]
  /\ UNCHANGED <<stream, subs, nextSubID, sent, taken, conn, cursor, durable, panicked>>

\* The handler ends; a completion commits its transaction or rolls it back.
PublisherReturn(p) ==
  /\ pub[p].at = "return"
  /\ pub' = [pub EXCEPT ![p] = IdlePub]
  /\ \/ jobDone' = (jobDone \/ Completing(p))
     \/ Completing(p) /\ UNCHANGED jobDone
  /\ UNCHANGED <<stream, subs, nextSubID, channels, conn, cursor, execution, panicked>>

\* Mutant: a restart does not wait for the lock of the run.
RestartWithoutLock ==
  /\ execution < MaxResume
  /\ execution' = execution + 1 /\ jobDone' = FALSE
  /\ UNCHANGED <<stream, subs, nextSubID, channels, pub, conn, cursor, panicked>>

\* The job was restarted from its failed step.
RestartJob ==
  /\ jobDone /\ execution < MaxResume
  /\ \A p \in Publishers : ~Completing(p)
  /\ execution' = execution + 1 /\ jobDone' = FALSE
  /\ UNCHANGED <<stream, subs, nextSubID, channels, pub, conn, cursor, panicked>>

-----------------------------------------------------------------------------
(* Reading                                                                 *)

\* The handler reads the job and its run; the count of a job that has ended
\* is not announced to the hub.
Connect(c) ==
  /\ conn[c].at = "idle" /\ nextSubID < MaxSubs
  /\ conn' = [conn EXCEPT ![c] = [IdleConn EXCEPT !.at = "resume",
                                    !.execution = IF jobDone THEN 0 ELSE execution]]
  /\ UNCHANGED <<stream, subs, nextSubID, channels, pub, cursor, durable, panicked>>

ReaderResume(c) ==
  /\ conn[c].at = "resume"
  /\ resume(conn[c].execution)
  /\ conn' = [conn EXCEPT ![c].at = "subscribe"]
  /\ UNCHANGED <<subs, nextSubID, channels, pub, cursor, durable, panicked>>

\* stream.subscribe: a reader of a closed stream gets the history only.
Subscribe(c) ==
  /\ conn[c].at = "subscribe" /\ nextSubID < MaxSubs
  /\ nextSubID' = nextSubID + 1
  /\ conn' = [conn EXCEPT ![c] = [@ EXCEPT !.at = "replay", !.sub = nextSubID',
                !.replay = after(ring, cursor[c]), !.ended = closed, !.from = nextEventID]]
  /\ subs' = IF closed THEN subs ELSE subs \cup {nextSubID'}
  /\ UNCHANGED <<stream, channels, pub, cursor, durable, panicked>>

\* The history goes into the channel nobody reads yet.  A full channel ends
\* the subscription; a channel closed meanwhile ends the handler.
Replay(c) ==
  LET s == conn[c].sub
  IN  /\ conn[c].at = "replay" /\ conn[c].replay # <<>>
      /\ \/ /\ SendsInto(s, Head(conn[c].replay))
            /\ conn' = [conn EXCEPT ![c].replay = Tail(@)]
         \/ /\ FindsFull(s)
            /\ conn' = [conn EXCEPT ![c].at = "full", ![c].replay = <<>>]
            /\ UNCHANGED channels
         \/ /\ chanClosed[s]
            /\ conn' = [conn EXCEPT ![c] = IdleConn]
            /\ UNCHANGED channels
      /\ UNCHANGED <<stream, subs, nextSubID, pub, cursor, durable, panicked>>

ReplayFull(c) ==
  /\ conn[c].at = "full"
  /\ CloseAll({conn[c].sub})
  /\ subs' = subs \ {conn[c].sub}
  /\ conn' = [conn EXCEPT ![c].at = "replay"]
  /\ UNCHANGED <<stream, nextSubID, sent, taken, pub, cursor, durable, panicked>>

ReplayEnd(c) ==
  /\ conn[c].at = "replay" /\ conn[c].replay = <<>>
  /\ CloseAll(IF conn[c].ended THEN {conn[c].sub} ELSE {})
  /\ conn' = [conn EXCEPT ![c].at = "read"]
  /\ UNCHANGED <<stream, subs, nextSubID, sent, taken, pub, cursor, durable, panicked>>

\* A frame is written to the client, which remembers its id; the done frame
\* ends the connection.
Read(c) ==
  LET s == conn[c].sub
      e == sent[s][taken[s] + 1]
  IN  /\ conn[c].at = "read" /\ taken[s] < Len(sent[s])
      /\ taken' = [taken EXCEPT ![s] = @ + 1]
      /\ cursor' = [cursor EXCEPT ![c] = e.id]
      /\ conn' = [conn EXCEPT ![c].at = IF e.type = "done" THEN "cancel" ELSE "read"]
      /\ UNCHANGED <<stream, subs, nextSubID, sent, chanClosed, pub, durable, panicked>>

ReadClosed(c) ==
  /\ conn[c].at = "read"
  /\ chanClosed[conn[c].sub] /\ taken[conn[c].sub] = Len(sent[conn[c].sub])
  /\ conn' = [conn EXCEPT ![c].at = "cancel"]
  /\ UNCHANGED <<stream, subs, nextSubID, channels, pub, cursor, durable, panicked>>

\* The client goes away, or a write to it fails.
Disconnect(c) ==
  /\ conn[c].at = "read"
  /\ conn' = [conn EXCEPT ![c].at = "cancel"]
  /\ UNCHANGED <<stream, subs, nextSubID, channels, pub, cursor, durable, panicked>>

\* stream.drop: forgotten under the mutex, closed outside it.
Cancel(c) ==
  LET s == conn[c].sub
  IN  /\ conn[c].at = "cancel"
      /\ subs' = subs \ {s}
      /\ conn' = [conn EXCEPT ![c] = IF s \in subs THEN [@ EXCEPT !.at = "close"] ELSE IdleConn]
      /\ UNCHANGED <<stream, nextSubID, channels, pub, cursor, durable, panicked>>

CancelClose(c) ==
  /\ conn[c].at = "close"
  /\ CloseAll({conn[c].sub})
  /\ conn' = [conn EXCEPT ![c] = IdleConn]
  /\ UNCHANGED <<stream, subs, nextSubID, sent, taken, pub, cursor, durable, panicked>>

-----------------------------------------------------------------------------
Publish(p) ==
  \/ PublisherResume(p) \/ AppendEvent(p) \/ AppendRefused(p)
  \/ \E s \in SubIDs : SendEvent(p, s)
  \/ CloseSlow(p) \/ DropSlow(p) \/ Finish(p) \/ FinishClose(p) \/ PublisherReturn(p)

Serve(c) ==
  \/ ReaderResume(c) \/ Subscribe(c) \/ Replay(c) \/ ReplayFull(c) \/ ReplayEnd(c)
  \/ Read(c) \/ ReadClosed(c) \/ Cancel(c) \/ CancelClose(c)

HubNext ==
  \/ \E p \in Publishers : IngestLog(p) \/ IngestNodeLog(p) \/ BeginComplete(p) \/ Publish(p)
  \/ \E c \in Clients : Connect(c) \/ Serve(c) \/ Disconnect(c)
  \/ RestartJob

\* Every goroutine that has begun goes on; nobody has to begin anything.
HubFairness ==
  /\ \A p \in Publishers : WF_hubVars(Publish(p))
  /\ \A c \in Clients : WF_hubVars(Serve(c))

HubSpec == HubInit /\ [][HubNext]_hubVars /\ HubFairness

-----------------------------------------------------------------------------
(* Properties                                                              *)

\* The values the stream, the channels and the goroutines may take.
HubTypeOK ==
  /\ ring.items \in [0..(HistorySize - 1) -> Events \cup {NoEvent}]
  /\ ring.head \in 0..(HistorySize - 1) /\ ring.len \in 0..HistorySize
  /\ nextEventID \in 0..MaxEvents /\ closed \in BOOLEAN /\ resumeCount \in Executions
  /\ subs \subseteq SubIDs /\ nextSubID \in 0..MaxSubs
  /\ \A s \in SubIDs : /\ sent[s] \in Seq(Events) /\ taken[s] \in 0..Len(sent[s])
                       /\ Len(sent[s]) - taken[s] <= BufferSize
                       /\ chanClosed[s] \in BOOLEAN
  /\ \A p \in Publishers : pub[p].todo \subseteq SubIDs /\ pub[p].dropped \subseteq SubIDs
  /\ \A c \in Clients : conn[c].sub \in 0..MaxSubs /\ cursor[c] \in 0..MaxEvents
  /\ execution \in Executions /\ jobDone \in BOOLEAN /\ panicked \in BOOLEAN

\* The stream as the abstract log: the ring read from its head, oldest first.
Log == INSTANCE StreamLog
       WITH history <- [i \in 1..ring.len |-> [id |-> slice(ring)[i].id, body |-> slice(ring)[i].type]],
            lastID <- nextEventID, open <- ~closed, Bodies <- Types

\* Whatever the goroutines of publish, finish, subscribe and resume do, the
\* stream is a log of its newest events, numbered without a gap, that an ended
\* execution closes and a resume empties.
ImplementsLog == Log!LogSpec

\* One subscription never carries an event twice: the history a reader is
\* replayed and the events published meanwhile do not overlap.
DeliveredOnce ==
  \A s \in SubIDs : \A i, j \in DOMAIN sent[s] : i # j => sent[s][i].id # sent[s][j].id

\* A reader is replayed nothing it had seen when it subscribed.
NothingBeforeCursor ==
  \A c \in Clients : conn[c].at = "replay"
    => \A i \in DOMAIN conn[c].replay : conn[c].replay[i].id > cursor[c]

\* As long as a subscription is open it has no hole: an event published since
\* is in the channel, or a publisher is still on its way to put it there or to
\* close the channel.  (Unless a publication panicked.)
NoHole ==
  ~panicked =>
    \A c \in Clients : conn[c].sub \in subs /\ ~chanClosed[conn[c].sub] =>
      \A id \in (conn[c].from + 1)..nextEventID :
        \/ \E i \in DOMAIN sent[conn[c].sub] : sent[conn[c].sub][i].id = id
        \/ \E p \in Publishers : /\ pub[p].event.id = id
                                 /\ conn[c].sub \in pub[p].todo \cup {pub[p].slow}

\* Only the completion of the execution a stream is on closes it, never one of
\* an earlier execution: the run stays locked between ResumeJob and finish.
ClosesOwnExecution ==
  [][~closed /\ closed' => \E p \in Publishers : /\ pub[p].at = "finish"
                                                 /\ pub[p].execution = resumeCount
                                                 /\ resumeCount = execution]_hubVars

\* A reader of a stream that has ended is let go, unless the stream is opened
\* again meanwhile.
ReadersLetGo ==
  \A c \in Clients : (closed /\ conn[c].at # "idle") ~> (~closed \/ conn[c].at = "idle")

\* What a subscription carries is exact, through publish, finish, drop and
\* replay: nothing twice, nothing the reader had before, and no hole.
DeliveryExact ==
  /\ HubTypeOK
  /\ DeliveredOnce
  /\ NothingBeforeCursor
  /\ NoHole
=============================================================================
