----------------------------- MODULE LogUpload -----------------------------
(***************************************************************************)
(* How the output of a job's container reaches the logs table: the node's  *)
(* LogStreamer with its three users (the goroutine that copies container   *)
(* output, the periodic flusher, and the job itself, which closes it), the *)
(* requests in flight, and POST /v1/nodes/{id}/logs.  The job may be       *)
(* retried from its failed step; every execution has a streamer of its own.*)
(*                                                                         *)
(* A log line is a number: the container prints 1, 2, ..  A chunk is the      *)
(* sequence of the lines it was built from.                                *)
(***************************************************************************)
EXTENDS Integers, Sequences, FiniteSets

CONSTANTS LogLines,    \* lines the container prints, per execution
          SoftLimit,   \* lines in the buffer that make a writer flush it
          LogRetries,  \* bound on retries from the failed step
          MaxNetFaults \* bound on requests lost, refused or timed out

ASSUME UploadAssumption ==
  /\ LogRetries \in Nat /\ MaxNetFaults \in Nat
  /\ LogLines \in [0..LogRetries -> Nat]
  /\ SoftLimit \in Nat \ {0}

VARIABLES streamer,    \* per execution, the node's LogStreamer and its job
          net,         \* requests on their way
          rows,        \* table logs of the job
          resumes,     \* resume_count of the run
          jobEnded,    \* the completion of the current execution was accepted
          failed,      \* an upload was lost, or the object store refused a chunk
          faults       \* of the network and the store so far

uploadVars == <<streamer, net, rows, resumes, jobEnded, failed, faults>>
server == <<rows, resumes, jobEnded, failed, faults>>

Goroutines == {"copy", "tick", "job"}
NoChunk == -1

\* partial: an unterminated line; dirty: buffer.Len() > 0.
NewLogStreamer == [phase |-> "run", next |-> 1, partial |-> FALSE, buffer |-> <<>>, dirty |-> FALSE,
                   chunkNo |-> 0, waits |-> [g \in Goroutines |-> NoChunk], dumped |-> FALSE]

UploadInit ==
  /\ streamer = [e \in 0..LogRetries |->
                   IF e = 0 THEN NewLogStreamer ELSE [NewLogStreamer EXCEPT !.phase = "absent"]]
  /\ net = {} /\ rows = {} /\ resumes = 0 /\ jobEnded = FALSE
  /\ failed = FALSE /\ faults = 0

Idle(e, g) == streamer[e].waits[g] = NoChunk
Request(e, s) == [execution |-> e, chunk |-> s.chunkNo, lines |-> s.buffer]

\* Mutant: the chunk number is taken when the upload is over.
flushLateNumber(e, g, s) ==
  IF ~s.dirty THEN streamer' = [streamer EXCEPT ![e] = s] /\ UNCHANGED net
  ELSE /\ net' = net \cup {Request(e, s)}
       /\ streamer' = [streamer EXCEPT ![e] = [s EXCEPT !.buffer = <<>>, !.dirty = FALSE,
                         !.waits[g] = s.chunkNo]]

\* Take the buffer, give it a number, and send it with the lock released.
\* A streamer that was closed sends nothing any more.
flushLocked(e, g, s) ==
  IF ~s.dirty THEN streamer' = [streamer EXCEPT ![e] = s] /\ UNCHANGED net
  ELSE /\ net' = IF s.phase = "closed" THEN net ELSE net \cup {Request(e, s)}
       /\ streamer' = [streamer EXCEPT ![e] = [s EXCEPT !.buffer = <<>>, !.dirty = FALSE,
                         !.chunkNo = s.chunkNo + 1,
                         !.waits[g] = IF s.phase = "closed" THEN NoChunk ELSE s.chunkNo]]

\* Output, with or without its newline, goes into the buffer; a full buffer is
\* flushed by its writer.
writeStream(e, g, s) ==
  IF Len(s.buffer) >= SoftLimit THEN flushLocked(e, g, s)
  ELSE streamer' = [streamer EXCEPT ![e] = s] /\ UNCHANGED net

CopyLine(e) ==
  LET s == streamer[e]
  IN  /\ s.phase # "absent" /\ Idle(e, "copy") /\ s.next <= LogLines[e]
      /\ writeStream(e, "copy", [s EXCEPT !.next = @ + 1, !.partial = FALSE, !.dirty = TRUE,
                                          !.buffer = Append(@, s.next)])
      /\ UNCHANGED server

CopyPartial(e) ==
  LET s == streamer[e]
  IN  /\ s.phase # "absent" /\ Idle(e, "copy") /\ s.next <= LogLines[e] /\ ~s.partial
      /\ writeStream(e, "copy", [s EXCEPT !.partial = TRUE, !.dirty = TRUE])
      /\ UNCHANGED server

\* The ticker is stopped when the job closes the streamer.
periodicFlush(e) ==
  /\ streamer[e].phase \in {"run", "report"} /\ Idle(e, "tick") /\ streamer[e].dirty
  /\ flushLocked(e, "tick", streamer[e])
  /\ UNCHANGED server

\* The container has exited and its output was copied to the end ...
AwaitStream(e) ==
  /\ streamer[e].phase = "run" /\ Idle(e, "copy") /\ streamer[e].next > LogLines[e]
  /\ streamer' = [streamer EXCEPT ![e].phase = "report"]
  /\ UNCHANGED <<net, server>>

\* ... or copying failed or took too long: all output is read again and
\* written too.
DumpLogs(e) ==
  LET s == streamer[e]
  IN  /\ s.phase = "run" /\ (Idle(e, "copy") => s.next <= LogLines[e])
      /\ writeStream(e, "job", [s EXCEPT !.phase = "report", !.dumped = TRUE, !.dirty = TRUE,
                                         !.buffer = @ \o [i \in 1..LogLines[e] |-> i]])
      /\ UNCHANGED server

\* The terminal status is uploaded; only the current execution ends the job.
ReportStatus(e) ==
  /\ streamer[e].phase = "report" /\ Idle(e, "job")
  /\ streamer' = [streamer EXCEPT ![e].phase = "stop"]
  /\ jobEnded' = (jobEnded \/ e = resumes)
  /\ UNCHANGED <<net, rows, resumes, failed, faults>>

\* Close: the flusher has stopped; the unterminated line and the rest go out.
Close(e) ==
  LET s == streamer[e]
      t == IF s.partial THEN [s EXCEPT !.partial = FALSE, !.buffer = Append(@, s.next)] ELSE s
  IN  /\ s.phase = "stop" /\ Idle(e, "tick")
      /\ flushLocked(e, "job", [t EXCEPT !.phase = "flush"])
      /\ UNCHANGED server

Closed(e) ==
  /\ streamer[e].phase = "flush" /\ Idle(e, "job")
  /\ streamer' = [streamer EXCEPT ![e].phase = "closed"]
  /\ UNCHANGED <<net, server>>

-----------------------------------------------------------------------------
(* The request and the handler                                             *)

Release(e, chunk) ==
  [streamer EXCEPT ![e].waits = [g \in Goroutines |-> IF @[g] = chunk THEN NoChunk ELSE @[g]]]

\* The body of a retried execution carries resume_count, a field the request
\* of this endpoint does not have; run, job and chunk number are unique.
StatusOf(q) ==
  IF q.execution > 0 THEN 400
  ELSE IF \E r \in rows : r.chunk = q.chunk THEN 500 ELSE 201

NetFault == faults < MaxNetFaults /\ faults' = faults + 1

\* The chunk is stored, or is refused, or the object store fails.
createNodeLogs(q) ==
  /\ q \in net
  /\ \/ /\ rows' = IF StatusOf(q) = 201 THEN rows \cup {q} ELSE rows
        /\ UNCHANGED <<failed, faults>>
     \/ /\ StatusOf(q) = 201 /\ NetFault
        /\ failed' = TRUE /\ UNCHANGED rows
  /\ net' = net \ {q}
  /\ streamer' = Release(q.execution, q.chunk)
  /\ UNCHANGED <<resumes, jobEnded>>

\* The request is lost, or the client gives up while it is on its way.
LoseRequest(q) ==
  /\ q \in net
  /\ NetFault
  /\ net' = net \ {q} /\ failed' = TRUE
  /\ streamer' = Release(q.execution, q.chunk)
  /\ UNCHANGED <<rows, resumes, jobEnded>>

TimeoutRequest(q) ==
  /\ q \in net
  /\ \E g \in Goroutines : streamer[q.execution].waits[g] = q.chunk
  /\ NetFault
  /\ streamer' = Release(q.execution, q.chunk)
  /\ UNCHANGED <<net, rows, resumes, jobEnded, failed>>

\* The failed job is restarted: its logs are deleted and a node claims it.
RetryJob ==
  /\ jobEnded /\ resumes < LogRetries
  /\ resumes' = resumes + 1 /\ jobEnded' = FALSE /\ rows' = {}
  /\ streamer' = [streamer EXCEPT ![resumes + 1] = NewLogStreamer]
  /\ UNCHANGED <<net, failed, faults>>

UploadNext ==
  \/ \E e \in 0..LogRetries : \/ CopyLine(e) \/ CopyPartial(e) \/ periodicFlush(e)
                              \/ AwaitStream(e) \/ DumpLogs(e) \/ ReportStatus(e)
                              \/ Close(e) \/ Closed(e)
  \/ \E q \in net : createNodeLogs(q) \/ LoseRequest(q) \/ TimeoutRequest(q)
  \/ RetryJob

UploadSteps(e) == CopyLine(e) \/ AwaitStream(e) \/ ReportStatus(e) \/ Close(e) \/ Closed(e)
RequestSteps == \E q \in net : createNodeLogs(q) \/ LoseRequest(q)

\* The goroutines go on, and every request is answered or fails.
UploadFairness ==
  /\ \A e \in 0..LogRetries : WF_uploadVars(UploadSteps(e))
  /\ WF_uploadVars(RequestSteps)

UploadSpec == UploadInit /\ [][UploadNext]_uploadVars /\ UploadFairness

-----------------------------------------------------------------------------
(* Properties                                                              *)

Chunks(e) == {q \in rows \cup net : q.execution = e}

\* Chunks arrive in any order; read back by chunk number, the lines of an
\* execution are in the order the container printed them, none of them twice
\* (unless the output was read a second time after copying took too long).
ReadBackInOrder ==
  \A e \in 0..LogRetries : ~streamer[e].dumped =>
    \A p, q \in Chunks(e) :
      /\ p # q => p.chunk # q.chunk
      /\ \A i \in DOMAIN p.lines, j \in DOMAIN q.lines :
           (p.chunk < q.chunk \/ (p = q /\ i < j)) => p.lines[i] < q.lines[j]

\* Once the streamer of the first execution is closed and all its requests are
\* answered, the whole output is stored, unless an upload failed.
ClosedMeansStored ==
  (resumes = 0 /\ streamer[0].phase = "closed" /\ net = {} /\ ~failed /\ ~streamer[0].dumped) =>
    \A n \in 1..LogLines[0] : \E r \in rows : \E i \in DOMAIN r.lines : r.lines[i] = n

\* Once a container has printed all of its output, the job gets to the end of
\* Close, whatever happens to its uploads: the goroutines never wait for each
\* other.
StreamerCloses ==
  \A e \in 0..LogRetries :
    (streamer[e].phase = "run" /\ streamer[e].next > LogLines[e]) ~> (streamer[e].phase = "closed")

\* "nodes echo the resume count in log uploads" (docs/runs.md): an upload that
\* belongs to the current execution is not a bad request.
RetryLogsAccepted == \A q \in net : q.execution = resumes => StatusOf(q) # 400

\* The stored output of a container is what it printed: in order, nothing
\* twice, and all of it once the streamer is closed.
OutputStored ==
  /\ ReadBackInOrder
  /\ ClosedMeansStored
=============================================================================
