---------------------------- MODULE LogBackfill ----------------------------
(***************************************************************************)
(* GET /v1/jobs/{job_id}/logs without Last-Event-ID: the stored chunks are *)
(* written first, then what the hub received meanwhile, then what it       *)
(* receives from there on.  A line can come on both ways, so a line that   *)
(* was written from the table is remembered by its key and skipped once    *)
(* when it comes from the hub.                                             *)
(*                                                                         *)
(* A line is named by its chunk and its place in it; Texts gives what it   *)
(* says.  The hub is its sequence of events; that it loses none of them is *)
(* the subject of EventHub.                                                *)
(***************************************************************************)
EXTENDS Integers, Sequences, SequencesExt

CONSTANTS Texts,        \* the text of every line of every chunk of the job
          MaxSeconds    \* bound on the clock, in seconds

VARIABLES clock, created,  \* seconds; created_at of the stored chunks
          hub, publishing, \* events of the job stream; lines not yet published
          jobOver,         \* the job has ended and the stream is closed
          reader

backfillVars == <<clock, created, hub, publishing, jobOver, reader>>

Lines(c) == [i \in DOMAIN Texts[c] |-> [chunk |-> c, index |-> i]]
Done == [chunk |-> 0, index |-> 0]

\* RFC 3339 has no fractions of a second.
Key(l) == [timestamp |-> created[l.chunk], line |-> Texts[l.chunk][l.index]]

IdleReader == [at |-> "idle", terminal |-> FALSE, pre |-> 0, list |-> <<>>, emitted |-> {},
               cursor |-> 0, shown |-> <<>>, skipped |-> FALSE]

BackfillInit ==
  /\ clock = 0 /\ created = <<>> /\ hub = <<>> /\ publishing = <<>>
  /\ jobOver = FALSE /\ reader = IdleReader

Tick == clock < MaxSeconds /\ clock' = clock + 1
        /\ UNCHANGED <<created, hub, publishing, jobOver, reader>>

\* A chunk is stored, and its lines are published one after the other behind it.
StoreChunk ==
  /\ publishing = <<>> /\ Len(created) < Len(Texts)
  /\ created' = Append(created, clock)
  /\ publishing' = Lines(Len(created) + 1)
  /\ UNCHANGED <<clock, hub, jobOver, reader>>

PublishLine ==
  /\ publishing # <<>>
  /\ hub' = IF jobOver THEN hub ELSE Append(hub, Head(publishing))
  /\ publishing' = IF jobOver THEN <<>> ELSE Tail(publishing)
  /\ UNCHANGED <<clock, created, jobOver, reader>>

EndJob ==
  /\ ~jobOver /\ jobOver' = TRUE
  /\ hub' = Append(hub, Done)
  /\ UNCHANGED <<clock, created, publishing, reader>>

-----------------------------------------------------------------------------
consumeBackfilledLogEvent(r, e) ==
  IF e # Done /\ Key(e) \in r.emitted
  THEN [r EXCEPT !.emitted = @ \ {Key(e)}]
  ELSE [r EXCEPT !.shown = Append(@, e), !.at = IF e = Done THEN "end" ELSE @]

getJobLogs ==
  /\ reader.at = "idle"
  /\ reader' = [reader EXCEPT !.at = "snapshot", !.terminal = jobOver]
  /\ UNCHANGED <<clock, created, hub, publishing, jobOver>>

\* Mutant: the mark is taken behind the list of stored chunks.
hubHighWaterLate ==
  /\ reader.at = "snapshot"
  /\ reader' = [reader EXCEPT !.at = "backfill", !.pre = Len(hub),
                              !.list = [i \in 1..(Len(created) - 1) |-> i]]
  /\ UNCHANGED <<clock, created, hub, publishing, jobOver>>

hubHighWater ==
  /\ reader.at = "snapshot"
  /\ reader' = [reader EXCEPT !.at = "list", !.pre = Len(hub)]
  /\ UNCHANGED <<clock, created, hub, publishing, jobOver>>

ListLogsByRun ==
  /\ reader.at = "list"
  /\ reader' = [reader EXCEPT !.at = "backfill", !.list = [i \in DOMAIN created |-> i]]
  /\ UNCHANGED <<clock, created, hub, publishing, jobOver>>

\* One chunk is written; one that cannot be read or decoded is left out.
backfillOneChunk ==
  /\ reader.at = "backfill" /\ reader.list # <<>>
  /\ LET c == Head(reader.list)
         rest == [reader EXCEPT !.list = Tail(@)]
     IN  reader' \in
           {[rest EXCEPT !.shown = @ \o Lines(c),
                         !.emitted = @ \cup {Key(Lines(c)[i]) : i \in DOMAIN Texts[c]}],
            [rest EXCEPT !.skipped = TRUE]}
  /\ UNCHANGED <<clock, created, hub, publishing, jobOver>>

\* What was published meanwhile; a job that had ended gets its done frame.
replayGap ==
  /\ reader.at = "backfill" /\ reader.list = <<>>
  /\ LET gap == SubSeq(hub, reader.pre + 1, Len(hub))
         r == FoldLeft(LAMBDA s, e : IF s.at = "end" THEN s ELSE consumeBackfilledLogEvent(s, e),
                       [reader EXCEPT !.at = "live", !.cursor = Len(hub)], gap)
     IN  reader' = IF r.at = "live" /\ r.terminal
                   THEN [r EXCEPT !.at = "end", !.shown = Append(@, Done)] ELSE r
  /\ UNCHANGED <<clock, created, hub, publishing, jobOver>>

readLive ==
  /\ reader.at = "live" /\ reader.cursor < Len(hub)
  /\ reader' = [consumeBackfilledLogEvent(reader, hub[reader.cursor + 1])
                EXCEPT !.cursor = @ + 1]
  /\ UNCHANGED <<clock, created, hub, publishing, jobOver>>

\* The subscription ends without a done frame if that was published before the
\* mark was taken, although the job was read as running.
readClosed ==
  /\ reader.at = "live" /\ reader.cursor = Len(hub) /\ jobOver
  /\ reader' = [reader EXCEPT !.at = "end"]
  /\ UNCHANGED <<clock, created, hub, publishing, jobOver>>

ServeLogs == \/ getJobLogs \/ hubHighWater \/ ListLogsByRun \/ backfillOneChunk \/ replayGap
             \/ readLive \/ readClosed
Ingest == StoreChunk \/ PublishLine

BackfillNext == Tick \/ Ingest \/ EndJob \/ ServeLogs

\* The handler goes on.
BackfillFairness == WF_backfillVars(ServeLogs)

BackfillSpec == BackfillInit /\ [][BackfillNext]_backfillVars /\ BackfillFairness

-----------------------------------------------------------------------------
(* Properties                                                              *)

Shown(l) == {i \in DOMAIN reader.shown : reader.shown[i] = l}
InHub(l) == \E i \in DOMAIN hub : hub[i] = l

\* "without dedup the client would see such a line twice" (events.go:99-103).
ShownAtMostOnce ==
  \A i, j \in DOMAIN reader.shown : i # j => reader.shown[i] # reader.shown[j]

\* "dedup only suppresses true overlaps, not legitimate live lines that happen
\* to share the same text" (events.go:24-26): a reader that has caught up with
\* the hub has seen every line the hub was given.
NothingSuppressed ==
  (reader.at = "live" /\ reader.cursor = Len(hub) /\ ~reader.skipped)
     => \A c \in DOMAIN created : \A i \in DOMAIN Texts[c] :
          InHub(Lines(c)[i]) => Shown(Lines(c)[i]) # {}

\* The connection of every reader ends when the job has ended.
ReaderEnds == (jobOver /\ reader.at # "idle") ~> (reader.at = "end")

\* A line that is in the table, in the hub or in both is shown exactly once.
ShownExactlyOnce ==
  /\ ShownAtMostOnce
  /\ NothingSuppressed
=============================================================================
